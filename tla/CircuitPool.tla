----------------------------- MODULE CircuitPool -----------------------------
(***************************************************************************)
(* The client's pool of circuits and the tasks that share it: one task per *)
(* SOCKS connection, the circuit monitor, and one reader per circuit.      *)
(*                                                                         *)
(* The pool is behind one mutex and each circuit behind its own.  A step   *)
(* is what a task does under one lock; what it read stays in a local while *)
(* the other tasks move on.  Building a circuit takes as long as several   *)
(* network round trips, all under the pool's mutex: for the pool it is one *)
(* step, which fails when the directory or a relay does.                   *)
(***************************************************************************)
EXTENDS Naturals, FiniteSets

CONSTANTS
    Conn,         \* SOCKS connections, each handled once
    NoCircuit,    \* a connection has not been given a circuit yet
    PoolSize,     \* circuits the pool is initialized with
    MaxAttempts,  \* rebuild failures before a slot is abandoned
    MaxId,        \* bound: circuit ids, which even a failed build uses up
    MaxFailures,  \* bound: builds that fail
    MaxEvents     \* bound: circuits that age, break or are destroyed

Id == 1 .. MaxId

ASSUME PoolAssumption ==
    /\ PoolSize \in Nat /\ MaxId \in Nat /\ PoolSize <= MaxId
    /\ MaxAttempts \in Nat \ {0}
    /\ MaxFailures \in Nat /\ MaxEvents \in Nat
    /\ NoCircuit \notin Id

VARIABLES
    circuits,   \* ids of the circuits in the pool
    nextId,     \* next_circuit_id
    failures,   \* rebuild_failure_counts, 0 when there is no entry
    abandoned,  \* abandoned_slots
    old,        \* ids whose entry in circuit_ages is over max_circuit_age
    state,      \* state of each circuit, "none" before it is built
    broken,     \* ids whose entry connection is broken
    streams,    \* connections registered in each circuit's stream_senders
    cpc,        \* where each SOCKS connection's task is
    circ,       \* the circuit it was given
    mpc,        \* where the monitor's round is
    toBuild,    \* monitor: replacements still to build for expired circuits
    seen,       \* monitor: dirty_ids, then the failed id it replaces next
    failed,     \* monitor: failed_ids
    failsLeft,  \* builds that may still fail
    events,     \* circuits that have aged, broken or been destroyed
    lost        \* history: replacements whose build failed

pool == <<circuits, nextId, failures, abandoned, old>>
circuit == <<state, broken, streams>>
task == <<cpc, circ>>
monitor == <<mpc, toBuild, seen, failed>>
env == <<failsLeft, events>>
vars == <<pool, circuit, task, monitor, env, lost>>

\* CircuitPool::initialize: the client exits unless every build succeeds.
Init ==
    /\ circuits = 1 .. PoolSize
    /\ nextId = PoolSize + 1
    /\ failures = [i \in Id |-> 0]
    /\ abandoned = {}
    /\ old = {}
    /\ state = [i \in Id |-> IF i <= PoolSize THEN "Ready" ELSE "none"]
    /\ broken = {}
    /\ streams = [i \in Id |-> {}]
    /\ cpc = [c \in Conn |-> "new"]
    /\ circ = [c \in Conn |-> NoCircuit]
    /\ mpc = "sleep"
    /\ toBuild = 0
    /\ seen = {}
    /\ failed = {}
    /\ failsLeft = MaxFailures
    /\ events = 0
    /\ lost = 0

-----------------------------------------------------------------------------
(* What runs under the pool's mutex.                                       *)

InState(s) == {i \in circuits : state[i] = s}

\* The circuit's reader is running.
Alive(i) == state[i] \in {"Ready", "Dirty"}

\* The monitor holds the mutex while it looks at one circuit after another.
PoolFree == mpc # "idle"

\* build_circuit, into a pool that has kept the circuits in rest.
Build(rest) ==
    /\ nextId <= MaxId
    /\ circuits' = rest \cup {nextId}
    /\ nextId' = nextId + 1
    /\ state' = [state EXCEPT ![nextId] = "Ready"]
    /\ UNCHANGED <<old, broken, streams, env>>

\* It fails: the id is used up.
BuildFails(rest) ==
    /\ nextId <= MaxId
    /\ failsLeft > 0
    /\ failsLeft' = failsLeft - 1
    /\ circuits' = rest
    /\ nextId' = nextId + 1
    /\ UNCHANGED <<old, circuit, events>>

\* replace_circuit removes the failed circuit before it builds another.
LeavesPool(i) == circuits \ {i}

Replaced(i) ==
    /\ Build(circuits \ {i})
    /\ failures' = [failures EXCEPT ![i] = 0]
    /\ UNCHANGED <<abandoned, lost>>

NotReplaced(i) ==
    /\ BuildFails(LeavesPool(i))
    /\ failures' = [failures EXCEPT ![i] = @ + 1]
    /\ abandoned' = IF failures[i] + 1 >= MaxAttempts THEN abandoned \cup {i}
                    ELSE abandoned
    /\ lost' = lost + 1

ReplaceCircuit(i) == Replaced(i) \/ NotReplaced(i)

-----------------------------------------------------------------------------
(* A SOCKS connection: socks_proxy::handle_connection and handle_stream.   *)

Goto(c, label) == cpc' = [cpc EXCEPT ![c] = label]

\* select_circuit: a ready circuit with the fewest streams.
SelectReady(c) ==
    /\ cpc[c] = "new"
    /\ PoolFree
    /\ \E i \in InState("Ready") :
        /\ \A j \in InState("Ready") :
              Cardinality(streams[i]) <= Cardinality(streams[j])
        /\ circ' = [circ EXCEPT ![c] = i]
    /\ Goto(c, "selected")
    /\ UNCHANGED <<pool, circuit, monitor, env, lost>>

\* select_circuit without any ready circuit builds one.
SelectBuilds(c) ==
    /\ cpc[c] = "new"
    /\ PoolFree
    /\ InState("Ready") = {}
    /\ \/ /\ Build(circuits)
          /\ circ' = [circ EXCEPT ![c] = nextId]
          /\ Goto(c, "selected")
       \/ /\ BuildFails(circuits)
          /\ circ' = circ
          /\ Goto(c, "done")
    /\ UNCHANGED <<failures, abandoned, monitor, lost>>

\* The stream is registered whatever has become of the circuit since.
Register(c) ==
    /\ cpc[c] = "selected"
    /\ streams' = [streams EXCEPT ![circ[c]] = @ \cup {c}]
    /\ Goto(c, "begin")
    /\ UNCHANGED <<pool, state, broken, circ, monitor, env, lost>>

\* BEGIN is written, or the write fails and handle_stream returns at once.
Begin(c) ==
    /\ cpc[c] = "begin"
    /\ \/ Goto(c, "waiting")
       \/ circ[c] \in broken /\ Goto(c, "failed")
    /\ UNCHANGED <<pool, circuit, circ, monitor, env, lost>>

\* The reader hands over CONNECTED; the SOCKS client may be gone by now, and
\* then handle_stream returns at once.
Connected(c) ==
    /\ cpc[c] = "waiting"
    /\ c \in streams[circ[c]]
    /\ Alive(circ[c]) /\ circ[c] \notin broken
    /\ \/ Goto(c, "streaming")
       \/ Goto(c, "failed")
    /\ UNCHANGED <<pool, circuit, circ, monitor, env, lost>>

\* cleanup_stream
Cleanup(c) ==
    /\ streams' = [streams EXCEPT ![circ[c]] = @ \ {c}]
    /\ UNCHANGED <<pool, state, broken, circ, monitor, env, lost>>

\* END in place of CONNECTED.
Refused(c) ==
    /\ cpc[c] = "waiting"
    /\ c \in streams[circ[c]]
    /\ Alive(circ[c]) /\ circ[c] \notin broken
    /\ Goto(c, "failed")
    /\ Cleanup(c)

\* The reader has closed the channel of every stream of the circuit.
ChannelClosed(c) ==
    /\ cpc[c] \in {"waiting", "streaming"}
    /\ c \notin streams[circ[c]]
    /\ Goto(c, IF cpc[c] = "waiting" THEN "failed" ELSE "done")
    /\ Cleanup(c)

\* Mutant: only a stream that is still registered can time out.
WaitsRegistered(c) == cpc[c] = "waiting" /\ circ[c] \notin broken

Waits(c) == cpc[c] = "waiting"

\* CONNECTED_TIMEOUT
Timeout(c) ==
    /\ Waits(c)
    /\ Goto(c, "failed")
    /\ Cleanup(c)

\* The stream ends: END, either side closes, a write fails, the idle timeout.
Finish(c) ==
    /\ cpc[c] = "streaming"
    /\ Goto(c, "done")
    /\ Cleanup(c)

MustReplace(c) == state[circ[c]] = "Closed"

\* After an error, under the circuit's mutex.
CheckCircuit(c) ==
    /\ cpc[c] = "failed"
    /\ Goto(c, IF MustReplace(c) THEN "replace" ELSE "done")
    /\ UNCHANGED <<pool, circuit, circ, monitor, env, lost>>

\* And then under the pool's.
Replace(c) ==
    /\ cpc[c] = "replace"
    /\ PoolFree
    /\ ReplaceCircuit(circ[c])
    /\ Goto(c, "done")
    /\ UNCHANGED <<circ, monitor>>

-----------------------------------------------------------------------------
(* The monitor: one round of spawn_circuit_monitor.                        *)

Expired == {i \in InState("Ready") : i \in old}

\* Mutant: one replacement a round.
ReplacementsOne(expired) == IF expired = {} THEN 0 ELSE 1

Replacements(expired) == Cardinality(expired)

\* expire_aged_circuits
MonitorExpire ==
    /\ mpc = "sleep"
    /\ mpc' = "build"
    /\ state' = [i \in Id |-> IF i \in Expired THEN "Dirty" ELSE state[i]]
    /\ old' = old \ Expired
    /\ toBuild' = Replacements(Expired)
    /\ UNCHANGED <<circuits, nextId, failures, abandoned, broken, streams,
                   task, seen, failed, env, lost>>

\* Mutant: one turn too many.
MoreToBuildOffByOne == toBuild >= 0

MoreToBuild == toBuild > 0

\* A replacement for an expired circuit; a failure is logged.
MonitorBuild ==
    /\ mpc = "build"
    /\ MoreToBuild
    /\ toBuild' = toBuild - 1
    /\ \/ Build(circuits) /\ lost' = lost
       \/ BuildFails(circuits) /\ lost' = lost + 1
    /\ UNCHANGED <<failures, abandoned, task, mpc, seen, failed>>

\* Under the pool's mutex, each circuit is locked for its state ...
MonitorSeeDirty ==
    /\ mpc = "build"
    /\ ~MoreToBuild
    /\ mpc' = "idle"
    /\ seen' = InState("Dirty")
    /\ UNCHANGED <<pool, circuit, task, toBuild, failed, env, lost>>

\* Mutant: the comparison with zero is the wrong way round.
IdleInverted(i) == streams[i] # {}

Idle(i) == streams[i] = {}

\* ... and once more for the number of its streams.
MonitorSeeIdle ==
    /\ mpc = "idle"
    /\ mpc' = "remove"
    /\ seen' = {i \in seen : Idle(i)}
    /\ UNCHANGED <<pool, circuit, task, toBuild, failed, env, lost>>

\* Each idle one is removed, without another look at it.
MonitorRemove ==
    /\ mpc = "remove"
    /\ \E i \in seen :
        /\ circuits' = circuits \ {i}
        /\ seen' = seen \ {i}
    /\ UNCHANGED <<nextId, failures, abandoned, old, circuit, task, mpc,
                   toBuild, failed, env, lost>>

\* Mutant: circuits that carry no stream are not worth a replacement.
FailedInUse == {i \in InState("Closed") : streams[i] # {}}

Failed == InState("Closed")

MonitorSeeFailed ==
    /\ mpc = "remove"
    /\ seen = {}
    /\ mpc' = "replace"
    /\ failed' = Failed
    /\ UNCHANGED <<pool, circuit, task, toBuild, seen, env, lost>>

\* The next one, unless it is abandoned; then the backoff, without the mutex.
MonitorCheck ==
    /\ mpc = "replace"
    /\ \E i \in failed :
        /\ failed' = failed \ {i}
        /\ IF i \in abandoned THEN UNCHANGED <<mpc, seen>>
           ELSE mpc' = "backoff" /\ seen' = {i}
    /\ UNCHANGED <<pool, circuit, task, toBuild, env, lost>>

MonitorReplace ==
    /\ mpc = "backoff"
    /\ \E i \in seen : ReplaceCircuit(i)
    /\ mpc' = "replace"
    /\ seen' = {}
    /\ UNCHANGED <<task, toBuild, failed>>

MonitorSleep ==
    /\ mpc = "replace"
    /\ failed = {}
    /\ mpc' = "sleep"
    /\ UNCHANGED <<pool, circuit, task, toBuild, seen, failed, env, lost>>

-----------------------------------------------------------------------------
(* Circuits age, break, and are destroyed.                                 *)

Event == events < MaxEvents /\ events' = events + 1

\* Circuits that were built together reach their age together.
Age ==
    /\ Event
    /\ \E aged \in (SUBSET (InState("Ready") \ old)) \ {{}} : old' = old \cup aged
    /\ UNCHANGED <<circuits, nextId, failures, abandoned, circuit, task,
                   monitor, failsLeft, lost>>

Break(i) ==
    /\ Alive(i) /\ i \notin broken
    /\ Event
    /\ broken' = broken \cup {i}
    /\ UNCHANGED <<pool, state, streams, task, monitor, failsLeft, lost>>

\* spawn_circuit_reader ends: the state is Closed and all streams are dropped.
ReaderEnds(i) ==
    /\ state' = [state EXCEPT ![i] = "Closed"]
    /\ streams' = [streams EXCEPT ![i] = {}]
    /\ UNCHANGED <<pool, broken, task, monitor, failsLeft, lost>>

\* The connection to the entry is at its end.
ReaderEof(i) ==
    /\ Alive(i)
    /\ i \in broken
    /\ ReaderEnds(i)
    /\ events' = events

\* DESTROY, or a backward digest mismatch.
ReaderDestroy(i) ==
    /\ Alive(i)
    /\ i \notin broken
    /\ Event
    /\ ReaderEnds(i)

Open(c) == SelectReady(c) \/ SelectBuilds(c) \/ Register(c) \/ Begin(c)
Wait(c) == Connected(c) \/ Refused(c) \/ ChannelClosed(c) \/ Timeout(c)
Recover(c) == CheckCircuit(c) \/ Replace(c)
Connection(c) == Open(c) \/ Wait(c) \/ Finish(c) \/ Recover(c)

Monitor ==
    \/ MonitorExpire \/ MonitorBuild \/ MonitorSeeDirty \/ MonitorSeeIdle
    \/ MonitorRemove \/ MonitorSeeFailed \/ MonitorCheck
    \/ MonitorReplace \/ MonitorSleep

Reader(i) == ReaderEof(i) \/ ReaderDestroy(i)

Next ==
    \/ \E c \in Conn : Connection(c)
    \/ Monitor
    \/ Age
    \/ \E i \in Id : Break(i) \/ Reader(i)

Spec == Init /\ [][Next]_vars

\* The monitor's loop and every ready task run on, and timers fire.  Tokio's
\* mutex is a queue: a task that waits for the pool's gets it, although the
\* monitor takes it again and again.  A connection may be awaited, and a stream
\* may last, forever.  A build is assumed to end: its handshakes have a timer, and
\* connecting to the entry is taken to succeed or fail.
Fairness ==
    /\ WF_vars(Monitor)
    /\ \A c \in Conn : /\ WF_vars(Register(c) \/ Begin(c))
                       /\ WF_vars(ChannelClosed(c) \/ Timeout(c))
                       /\ WF_vars(CheckCircuit(c))
                       /\ SF_vars(Replace(c))
    /\ \A i \in Id : WF_vars(ReaderEof(i))

FairSpec == Spec /\ Fairness

-----------------------------------------------------------------------------
(* Properties.                                                             *)

TypeOK ==
    /\ circuits \subseteq Id
    /\ nextId \in 1 .. MaxId + 1
    /\ failures \in [Id -> Nat]
    /\ abandoned \subseteq Id
    /\ old \subseteq Id
    /\ state \in [Id -> {"none", "Ready", "Dirty", "Closed"}]
    /\ broken \subseteq Id
    /\ streams \in [Id -> SUBSET Conn]
    /\ cpc \in [Conn -> {"new", "selected", "begin", "waiting", "streaming",
                         "failed", "replace", "done"}]
    /\ circ \in [Conn -> Id \cup {NoCircuit}]
    /\ mpc \in {"sleep", "build", "idle", "remove", "replace", "backoff"}
    /\ toBuild \in Nat
    /\ seen \subseteq Id
    /\ failed \subseteq Id
    /\ failsLeft \in Nat /\ events \in Nat /\ lost \in Nat

\* The pool's capacity is lost only by builds that fail: every circuit that is
\* expired, cleaned up or replaced by the monitor, and every one replaced by
\* the connections that found it closed, has a successor in the pool or one
\* that the monitor is about to build.
CapacityKept ==
    Cardinality(circuits \ InState("Dirty")) + toBuild + lost >= PoolSize

\* A closed circuit does not stay in the pool, however often the monitor's
\* and the connections' replacements fail or overtake each other.
ClosedIsReplaced ==
    \A i \in Id : (i \in circuits /\ state[i] = "Closed") ~> i \notin circuits

\* An expired circuit leaves the pool once its streams are finished.
DirtyIsRetired ==
    \A i \in Id :
        (i \in circuits /\ state[i] = "Dirty" /\ streams[i] = {})
            ~> (i \notin circuits \/ streams[i] # {})

\* A connection that was given a circuit gets its stream or an error, even if
\* the circuit's reader had already ended when the stream was registered.
OpeningSettles ==
    \A c \in Conn : cpc[c] = "selected" ~> cpc[c] \in {"streaming", "done"}

\* stream.rs: orphaned streams do not keep circuits alive indefinitely.  So an
\* expired circuit whose connections are all done leaves the pool.
OrphansDoNotPinCircuits ==
    \A i \in Id :
        (/\ i \in circuits /\ state[i] = "Dirty"
         /\ \A c \in Conn : circ[c] = i => cpc[c] = "done") ~> i \notin circuits

=============================================================================
