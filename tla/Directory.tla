------------------------------ MODULE Directory ------------------------------
(***************************************************************************)
(* The directory service and the relays that register with it.             *)
(*                                                                         *)
(* A relay process draws a node id of its own when it starts, so a member  *)
(* of Relay is both the process and its id; a relay that is restarted is   *)
(* another process, perhaps at the same address.  It registers once, binds *)
(* its listener, and then sends heartbeats; the directory drops the nodes  *)
(* it has not heard from.  The registry is behind one lock, so each of its *)
(* operations is one step.  Time passes in ticks, and what a timer starts  *)
(* is done within Latency of it.                                           *)
(***************************************************************************)
EXTENDS Naturals, Sequences, FiniteSets

CONSTANTS
    Relay,              \* relay processes, and their node ids
    Type,               \* NodeDescriptor: node_type of each
    Address,            \*                 address
    Ip,                 \*                 the address without the port
    Operator,           \*                 operator_id
    NoOperator,         \* the relay names no operator
    Loopback,           \* IPs exempt from the exclusion
    AllowSameIp,        \* --allow-same-ip
    HopCounts,          \* path lengths the clients ask for, three at least
    StaleTimeout,       \* stale_timeout_secs, in ticks
    CleanupInterval,    \* of the directory's background task
    HeartbeatInterval,  \* of every relay
    Latency,            \* how long after its timer a task is done
    MaxFaults           \* bound: crashes and calls that fail

ASSUME DirectoryAssumption ==
    /\ Type \in [Relay -> {"Entry", "Middle", "Exit"}]
    /\ AllowSameIp \in BOOLEAN
    /\ HopCounts \subseteq Nat \ (0 .. 2)
    /\ StaleTimeout \in Nat /\ CleanupInterval \in Nat \ {0}
    /\ HeartbeatInterval \in Nat \ {0} /\ Latency \in Nat
    /\ MaxFaults \in Nat

VARIABLES
    nodes,         \* ids in the registry
    age,           \* ticks since each one's last_heartbeat
    sinceCleanup,  \* ticks since the cleanup timer fired
    pc,            \* where each relay's main is
    timer,         \* ticks since each relay's heartbeat timer fired
    missed,        \* history: heartbeats lost since each one's last_heartbeat
    cutOff,        \* history: relays that lost their entry to another relay
                   \* at their address, or to a restart of the directory
    faults         \* crashes and failed calls so far

registry == <<nodes, age>>
relays == <<pc, timer>>
history == <<missed, cutOff>>
vars == <<registry, sinceCleanup, relays, history, faults>>

Init ==
    /\ nodes = {}
    /\ age = [r \in Relay |-> 0]
    /\ sinceCleanup = 0
    /\ pc = [r \in Relay |-> "new"]
    /\ timer = [r \in Relay |-> 0]
    /\ missed = [r \in Relay |-> 0]
    /\ cutOff = {}
    /\ faults = 0

Goto(r, label) == pc' = [pc EXCEPT ![r] = label]

\* The process is gone, and its timer with it.
Ends(r) ==
    /\ Goto(r, "down")
    /\ timer' = [timer EXCEPT ![r] = 0]
    /\ missed' = [missed EXCEPT ![r] = 0]

Fault == faults < MaxFaults /\ faults' = faults + 1

-----------------------------------------------------------------------------
(* NodeRegistry.                                                           *)

\* Mutant: the older entry at the address stays.
EvictedNone(r) == {}

\* register_node drops the other entries at the address.
Evicted(r) == {n \in nodes : n # r /\ Address[n] = Address[r]}

RegisterNode(r) ==
    /\ nodes' = (nodes \ Evicted(r)) \cup {r}
    /\ age' = [n \in Relay |-> IF n = r \/ n \in Evicted(r) THEN 0 ELSE age[n]]
    /\ cutOff' = cutOff \cup Evicted(r)

\* Entries that are gone have no age.
KeepNodes(kept) ==
    /\ nodes' = kept
    /\ age' = [n \in Relay |-> IF n \in kept THEN age[n] ELSE 0]

\* Mutant: a node is stale as soon as the timeout is reached.
StaleAtTimeout == {n \in nodes : age[n] >= StaleTimeout}

Stale == {n \in nodes : age[n] > StaleTimeout}

\* Mutant: cleanup only when a path could be built without the stale nodes.
CleanedWhenReady ==
    IF {"Entry", "Middle", "Exit"} \subseteq {Type[n] : n \in nodes \ Stale}
    THEN nodes \ Stale ELSE nodes

Cleaned == nodes \ Stale

ByType(t) == {n \in nodes : Type[n] = t}

\* Mutant: operators are not compared.
ClashIpOnly(m, n) ==
    ~AllowSameIp /\ Ip[m] = Ip[n] /\ Ip[m] \notin Loopback

\* Two nodes that get_random_path keeps off the same circuit.
Clash(m, n) ==
    \/ ~AllowSameIp /\ Ip[m] = Ip[n] /\ Ip[m] \notin Loopback
    \/ Operator[m] = Operator[n] /\ Operator[m] # NoOperator

\* What is left of the middles for slot i of path p, after the exit, the entry
\* and the middles before it were picked.
Candidates(p, i, h) ==
    {m \in ByType("Middle") :
        \A j \in (1 .. i - 1) \cup {h} : p[j] # m /\ ~Clash(m, p[j])}

InOrder(entry, middles, exit) == <<entry>> \o middles \o <<exit>>

\* An entry, middles and an exit for h hops, some of them picked or not.
Lists(h) ==
    {InOrder(e, q, x) : e \in ByType("Entry"), x \in ByType("Exit"),
                        q \in [1 .. h - 2 -> ByType("Middle")]}

\* The exit, the entry and the middles up to slot i can be picked as in p.
Picked(p, i, h) ==
    /\ ~Clash(p[1], p[h])
    /\ \A j \in 2 .. i : /\ p[j] \in Candidates(p, j, h)
                         /\ Cardinality(Candidates(p, j, h)) >= h - j

\* What get_random_path may answer to a request for h hops.  An error, when
\* the picks, which are random, leave too few candidates, changes nothing.
PathsOf(h) == {p \in Lists(h) : Picked(p, h - 1, h)}

-----------------------------------------------------------------------------
(* The directory's background task, and its restart.                       *)

Cleanup ==
    /\ sinceCleanup >= CleanupInterval
    /\ sinceCleanup' = sinceCleanup - CleanupInterval
    /\ KeepNodes(Cleaned)
    /\ UNCHANGED <<relays, history, faults>>

\* Nothing is kept on disk.
DirectoryRestart ==
    /\ Fault
    /\ KeepNodes({})
    /\ sinceCleanup' = 0
    /\ cutOff' = cutOff \cup nodes
    /\ UNCHANGED <<relays, missed>>

-----------------------------------------------------------------------------
(* A relay's main and its heartbeat loop.                                  *)

\* register_with_directory, before there is a listener.
Register(r) ==
    /\ pc[r] = "new"
    /\ RegisterNode(r)
    /\ \/ Goto(r, "registered") /\ UNCHANGED <<timer, missed, faults>>
       \/ Ends(r) /\ Fault      \* the answer is lost
    /\ UNCHANGED sinceCleanup

Listening(r) == pc[r] \in {"running", "stopping"}

\* The process ends if the address is taken, and leaves its entry behind.
Bind(r) ==
    /\ pc[r] = "registered"
    /\ IF \E q \in Relay : Listening(q) /\ Address[q] = Address[r]
       THEN Ends(r)
       ELSE /\ Goto(r, "running")
            /\ timer' = [timer EXCEPT ![r] = HeartbeatInterval]
            /\ missed' = missed
    /\ UNCHANGED <<registry, sinceCleanup, cutOff, faults>>

\* Mutant: heartbeats do not wait for the timer.
HeartbeatAnytime(r) == Listening(r)

HeartbeatDue(r) == Listening(r) /\ timer[r] >= HeartbeatInterval

\* NodeNotFound is only logged, and the relay never registers again.
Heartbeat(r) ==
    /\ HeartbeatDue(r)
    /\ timer' = [timer EXCEPT ![r] = @ - HeartbeatInterval]
    /\ IF r \in nodes
       THEN /\ age' = [age EXCEPT ![r] = 0]
            /\ missed' = [missed EXCEPT ![r] = 0]
       ELSE UNCHANGED <<age, missed>>
    /\ UNCHANGED <<nodes, sinceCleanup, pc, cutOff, faults>>

HeartbeatLost(r) ==
    /\ HeartbeatDue(r)
    /\ Fault
    /\ timer' = [timer EXCEPT ![r] = @ - HeartbeatInterval]
    /\ missed' = [missed EXCEPT ![r] = @ + 1]
    /\ UNCHANGED <<registry, sinceCleanup, pc, cutOff>>

Stop(r) ==
    /\ pc[r] = "running"
    /\ Goto(r, "stopping")
    /\ UNCHANGED <<registry, sinceCleanup, timer, history, faults>>

\* unregister_from_directory; a failure is only logged.
Unregister(r) ==
    /\ pc[r] = "stopping"
    /\ Ends(r)
    /\ \/ KeepNodes(nodes \ {r}) /\ faults' = faults
       \/ UNCHANGED registry /\ Fault
    /\ UNCHANGED <<sinceCleanup, cutOff>>

Crash(r) ==
    /\ pc[r] \in {"registered", "running", "stopping"}
    /\ Fault
    /\ Ends(r)
    /\ UNCHANGED <<registry, sinceCleanup, cutOff>>

-----------------------------------------------------------------------------
Tick ==
    /\ sinceCleanup < CleanupInterval + Latency
    /\ \A r \in Relay :
        /\ pc[r] # "registered"      \* binding takes no time
        /\ Listening(r) => timer[r] < HeartbeatInterval + Latency
    /\ sinceCleanup' = sinceCleanup + 1
    /\ age' = [n \in Relay |-> IF n \in nodes THEN age[n] + 1 ELSE 0]
    /\ timer' = [r \in Relay |-> IF Listening(r) THEN timer[r] + 1 ELSE timer[r]]
    /\ UNCHANGED <<nodes, pc, history, faults>>

RelayStep(r) ==
    \/ Register(r) \/ Bind(r) \/ Heartbeat(r) \/ HeartbeatLost(r)
    \/ Stop(r) \/ Unregister(r) \/ Crash(r)

Next ==
    \/ \E r \in Relay : RelayStep(r)
    \/ Cleanup \/ DirectoryRestart \/ Tick

Spec == Init /\ [][Next]_vars

-----------------------------------------------------------------------------
(* Properties.                                                             *)

TypeOK ==
    /\ nodes \subseteq Relay
    /\ age \in [Relay -> Nat]
    /\ sinceCleanup \in 0 .. CleanupInterval + Latency
    /\ pc \in [Relay -> {"new", "registered", "running", "stopping", "down"}]
    /\ timer \in [Relay -> 0 .. HeartbeatInterval + Latency]
    /\ missed \in [Relay -> Nat]
    /\ cutOff \subseteq Relay
    /\ faults \in 0 .. MaxFaults

\* register_node: clients are never sent to an address with the key of a relay
\* that has been replaced there, however registrations, failures to bind, and
\* crashes are interleaved.
OneNodePerAddress ==
    \A m, n \in nodes : Address[m] = Address[n] => m = n

\* cleanup_stale_nodes: whatever became of a relay, clients are given it only
\* for a bounded time after the directory last heard from it.
OnlyFreshNodes ==
    \A n \in nodes : age[n] <= StaleTimeout + CleanupInterval + Latency

\* The timers of the relays and of the directory fit: a running relay is not
\* dropped while the timeout spans the heartbeats it has lost and one more,
\* unless another one takes its address or the directory is restarted.
RunningStaysRegistered ==
    \A r \in Relay :
        /\ pc[r] = "running" /\ r \notin cutOff
        /\ StaleTimeout >= HeartbeatInterval * (missed[r] + 1) + Latency
        => r \in nodes

SharesIp(m, n) == ~AllowSameIp /\ Ip[m] = Ip[n] /\ Ip[m] \notin Loopback
SharesOperator(m, n) == Operator[m] = Operator[n] /\ Operator[m] # NoOperator

Diverse(p) ==
    \A i, j \in DOMAIN p : i # j =>
        /\ p[i] # p[j]
        /\ ~SharesIp(p[i], p[j])
        /\ ~SharesOperator(p[i], p[j])

\* get_random_path: each pick is compared only with the picks before it, and
\* the exit is picked first; still, no two hops of a path are the same relay,
\* share an IP, or belong to the same operator.
PathsAreDiverse == \A h \in HopCounts : \A p \in PathsOf(h) : Diverse(p)

=============================================================================
