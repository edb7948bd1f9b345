--------------------------- MODULE DirectoryProofs ---------------------------
(***************************************************************************)
(* Proofs about the directory, for any relays, timeouts and latencies.     *)
(***************************************************************************)
EXTENDS Directory, SequenceTheorems, TLAPS

\* The assumption on the constants, without the path lengths.
LEMMA Parameters ==
    /\ StaleTimeout \in Nat
    /\ CleanupInterval \in Nat /\ CleanupInterval > 0
    /\ HeartbeatInterval \in Nat /\ HeartbeatInterval > 0
    /\ Latency \in Nat
    /\ MaxFaults \in Nat
BY DirectoryAssumption DEF DirectoryAssumption

-----------------------------------------------------------------------------
(* Types.                                                                  *)

\* Every reachable state of the directory and its relays is well typed.
THEOREM TypeCorrect == Spec => []TypeOK
<1>1. Init => TypeOK
  BY Parameters DEF Init, TypeOK
<1>2. TypeOK /\ [Next]_vars => TypeOK'
  <2> SUFFICES ASSUME TypeOK, [Next]_vars PROVE TypeOK'
    OBVIOUS
  <2> USE DEF TypeOK, Goto, Ends, Fault
  <2>1. ASSUME NEW r \in Relay, Register(r) PROVE TypeOK'
    BY <2>1, Parameters DEF Register, RegisterNode, Evicted
  <2>2. ASSUME NEW r \in Relay, Bind(r) PROVE TypeOK'
    BY <2>2, Parameters DEF Bind, registry
  <2>3. ASSUME NEW r \in Relay, Heartbeat(r) PROVE TypeOK'
    BY <2>3, Parameters DEF Heartbeat, HeartbeatDue
  <2>4. ASSUME NEW r \in Relay, HeartbeatLost(r) PROVE TypeOK'
    BY <2>4, Parameters DEF HeartbeatLost, HeartbeatDue, registry
  <2>5. ASSUME NEW r \in Relay, Stop(r) PROVE TypeOK'
    BY <2>5, Parameters DEF Stop, registry, history
  <2>6. ASSUME NEW r \in Relay, Unregister(r) PROVE TypeOK'
    BY <2>6, Parameters DEF Unregister, KeepNodes, registry
  <2>7. ASSUME NEW r \in Relay, Crash(r) PROVE TypeOK'
    BY <2>7, Parameters DEF Crash, registry
  <2>8. CASE Cleanup
    BY <2>8, Parameters DEF Cleanup, KeepNodes, Cleaned, relays, history
  <2>9. CASE DirectoryRestart
    BY <2>9, Parameters DEF DirectoryRestart, KeepNodes, relays
  <2>10. CASE Tick
    BY <2>10, Parameters DEF Tick, Listening, history
  <2>11. CASE UNCHANGED vars
    BY <2>11 DEF vars, registry, relays, history
  <2>12. QED
    BY <2>1, <2>2, <2>3, <2>4, <2>5, <2>6, <2>7, <2>8, <2>9, <2>10, <2>11
       DEF Next, RelayStep
<1>3. QED
  BY <1>1, <1>2, PTL DEF Spec

-----------------------------------------------------------------------------
(* The registry.                                                           *)

\* Only a registration adds an entry to the registry.
LEMMA OnlyRegisterAdds ==
    ASSUME [Next]_vars, ~\E r \in Relay : Register(r)
    PROVE  nodes' \subseteq nodes
BY DEF Next, RelayStep, Bind, Heartbeat, HeartbeatLost, Stop, Unregister, Crash,
       Cleanup, DirectoryRestart, Tick, KeepNodes, Cleaned, vars, registry

\* However registrations, failures to bind, crashes and cleanups interleave,
\* register_node keeps one entry for an address.
THEOREM OneNodePerAddressHolds == Spec => []OneNodePerAddress
<1>1. Init => OneNodePerAddress
  BY DEF Init, OneNodePerAddress
<1>2. OneNodePerAddress /\ [Next]_vars => OneNodePerAddress'
  <2> SUFFICES ASSUME OneNodePerAddress, [Next]_vars PROVE OneNodePerAddress'
    OBVIOUS
  <2>1. ASSUME NEW r \in Relay, Register(r) PROVE OneNodePerAddress'
    BY <2>1 DEF Register, RegisterNode, Evicted, OneNodePerAddress
  <2>2. CASE ~\E r \in Relay : Register(r)
    BY <2>2, OnlyRegisterAdds DEF OneNodePerAddress
  <2>3. QED
    BY <2>1, <2>2
<1>3. QED
  BY <1>1, <1>2, PTL DEF Spec

\* Between two cleanups an entry ages no more than the time since the first.
FreshInv == \A n \in nodes : age[n] <= StaleTimeout + sinceCleanup

\* Clients are handed a relay only for a bounded time after the directory last
\* heard from it, whatever became of it.
THEOREM OnlyFreshNodesHolds == Spec => []OnlyFreshNodes
<1>1. Init => FreshInv
  BY DEF Init, FreshInv
<1>2. TypeOK /\ FreshInv /\ [Next]_vars => FreshInv'
  <2> SUFFICES ASSUME TypeOK, FreshInv, [Next]_vars PROVE FreshInv'
    OBVIOUS
  <2>t. /\ nodes \subseteq Relay
        /\ age \in [Relay -> Nat]
        /\ sinceCleanup \in Nat
    BY Parameters DEF TypeOK
  <2> USE DEF FreshInv
  <2>1. ASSUME NEW r \in Relay, Register(r) PROVE FreshInv'
    BY <2>1, <2>t, Parameters DEF Register, RegisterNode
  <2>2. ASSUME NEW r \in Relay, Heartbeat(r) PROVE FreshInv'
    BY <2>2, <2>t, Parameters DEF Heartbeat
  <2>3. ASSUME NEW r \in Relay, Unregister(r) PROVE FreshInv'
    BY <2>3, <2>t DEF Unregister, KeepNodes, registry
  <2>4. ASSUME NEW r \in Relay,
               Bind(r) \/ HeartbeatLost(r) \/ Stop(r) \/ Crash(r)
        PROVE  FreshInv'
    BY <2>4 DEF Bind, HeartbeatLost, Stop, Crash, registry
  <2>5. CASE Cleanup
    BY <2>5, <2>t, Parameters DEF Cleanup, KeepNodes, Cleaned, Stale
  <2>6. CASE DirectoryRestart
    BY <2>6 DEF DirectoryRestart, KeepNodes
  <2>7. CASE Tick
    BY <2>7, <2>t, Parameters DEF Tick
  <2>8. CASE UNCHANGED vars
    BY <2>8 DEF vars, registry
  <2>9. QED
    BY <2>1, <2>2, <2>3, <2>4, <2>5, <2>6, <2>7, <2>8 DEF Next, RelayStep
<1>3. TypeOK /\ FreshInv => OnlyFreshNodes
  <2> SUFFICES ASSUME TypeOK, FreshInv, NEW n \in nodes
               PROVE  age[n] <= StaleTimeout + CleanupInterval + Latency
    BY DEF OnlyFreshNodes
  <2>1. age[n] \in Nat /\ sinceCleanup \in 0 .. CleanupInterval + Latency
    BY DEF TypeOK
  <2>2. QED
    BY <2>1, Parameters DEF FreshInv
<1>4. QED
  BY <1>1, <1>2, <1>3, TypeCorrect, PTL DEF Spec

-----------------------------------------------------------------------------
(* Heartbeats.                                                             *)

\* The heartbeats a relay has lost are more than the timeout spans.
LostTooMany(r) ==
    StaleTimeout < HeartbeatInterval * (missed[r] + 1) + Latency

\* A relay that runs and was not cut off has lost too many heartbeats, or its
\* entry is as old as the heartbeats it has lost and its timer say.  Before it
\* runs it has lost none, and time has not passed since it registered.
RunningInv ==
    \A r \in Relay :
        /\ pc[r] \in {"new", "registered"} => missed[r] = 0 /\ timer[r] = 0
        /\ pc[r] = "new" => r \notin nodes
        /\ pc[r] = "registered" /\ r \notin cutOff => r \in nodes /\ age[r] = 0
        /\ Listening(r) /\ r \notin cutOff =>
              \/ /\ r \in nodes
                 /\ age[r] <= HeartbeatInterval * missed[r] + timer[r]
              \/ r \notin nodes /\ LostTooMany(r)

\* The products of RunningInv, for a solver that does not multiply variables.
LEMMA Products ==
    ASSUME NEW m \in Nat
    PROVE  /\ HeartbeatInterval * m \in Nat
           /\ HeartbeatInterval * (m + 1) = HeartbeatInterval * m + HeartbeatInterval
           /\ HeartbeatInterval * 0 = 0
BY Parameters

\* An entry that is stale has an owner that lost too many heartbeats.
LEMMA StaleLostTooMany ==
    ASSUME TypeOK, RunningInv, NEW r \in Stale, Listening(r), r \notin cutOff
    PROVE  LostTooMany(r)
<1>1. /\ r \in Relay /\ r \in nodes
      /\ age[r] \in Nat /\ missed[r] \in Nat
      /\ timer[r] \in 0 .. HeartbeatInterval + Latency
  BY DEF Stale, TypeOK
<1>2. age[r] <= HeartbeatInterval * missed[r] + timer[r] /\ age[r] > StaleTimeout
  BY <1>1 DEF RunningInv, Stale
<1>3. QED
  BY <1>1, <1>2, Products, Parameters DEF LostTooMany

\* Every step of a relay, of the directory or of time preserves it.
LEMMA RunningInvInductive == TypeOK /\ RunningInv /\ [Next]_vars => RunningInv'
<1> SUFFICES ASSUME TypeOK, RunningInv, [Next]_vars PROVE RunningInv'
  OBVIOUS
<1>t. /\ nodes \subseteq Relay
      /\ age \in [Relay -> Nat]
      /\ pc \in [Relay -> {"new", "registered", "running", "stopping", "down"}]
      /\ timer \in [Relay -> Nat]
      /\ missed \in [Relay -> Nat]
  BY Parameters DEF TypeOK
<1> USE DEF RunningInv, Listening
<1>1. ASSUME NEW r \in Relay, Register(r) PROVE RunningInv'
  <2>1. /\ nodes' = (nodes \ Evicted(r)) \cup {r}
        /\ cutOff' = cutOff \cup Evicted(r)
        /\ age' = [n \in Relay |-> IF n = r \/ n \in Evicted(r) THEN 0 ELSE age[n]]
        /\ pc[r] = "new"
        /\ \/ /\ pc' = [pc EXCEPT ![r] = "registered"]
              /\ UNCHANGED <<timer, missed>>
           \/ /\ pc' = [pc EXCEPT ![r] = "down"]
              /\ timer' = [timer EXCEPT ![r] = 0]
              /\ missed' = [missed EXCEPT ![r] = 0]
    BY <1>1 DEF Register, RegisterNode, Ends, Goto
  <2>2. r \notin Evicted(r)
    BY DEF Evicted
  <2>3. ASSUME NEW n \in Relay, n # r
        PROVE  /\ pc'[n] = pc[n] /\ timer'[n] = timer[n] /\ missed'[n] = missed[n]
               /\ n \notin cutOff' =>
                     /\ n \notin cutOff
                     /\ age'[n] = age[n] /\ (n \in nodes' <=> n \in nodes)
               /\ n \in nodes' => n \in nodes
    BY <2>1, <2>3, <1>t
  <2>4. QED
    BY <2>1, <2>2, <2>3, <1>t DEF LostTooMany
<1>2. ASSUME NEW r \in Relay, Bind(r) PROVE RunningInv'
  BY <1>2, <1>t, Products, Parameters
     DEF Bind, Ends, Goto, registry, LostTooMany
<1>3. ASSUME NEW r \in Relay, Heartbeat(r) PROVE RunningInv'
  <2>1. /\ pc[r] \in {"running", "stopping"}
        /\ timer[r] >= HeartbeatInterval
        /\ timer' = [timer EXCEPT ![r] = @ - HeartbeatInterval]
        /\ UNCHANGED <<nodes, pc, cutOff>>
        /\ r \in nodes => /\ age' = [age EXCEPT ![r] = 0]
                          /\ missed' = [missed EXCEPT ![r] = 0]
        /\ r \notin nodes => UNCHANGED <<age, missed>>
    BY <1>3 DEF Heartbeat, HeartbeatDue
  <2>2. QED
    BY <2>1, <1>t, Products, Parameters DEF LostTooMany
<1>4. ASSUME NEW r \in Relay, HeartbeatLost(r) PROVE RunningInv'
  <2>1. /\ pc[r] \in {"running", "stopping"}
        /\ timer[r] >= HeartbeatInterval
        /\ timer' = [timer EXCEPT ![r] = @ - HeartbeatInterval]
        /\ missed' = [missed EXCEPT ![r] = @ + 1]
        /\ UNCHANGED <<nodes, age, pc, cutOff>>
    BY <1>4 DEF HeartbeatLost, HeartbeatDue, registry
  <2>2. /\ HeartbeatInterval * missed[r] \in Nat
        /\ HeartbeatInterval * (missed[r] + 1)
             = HeartbeatInterval * missed[r] + HeartbeatInterval
        /\ HeartbeatInterval * (missed[r] + 1 + 1)
             = HeartbeatInterval * missed[r] + HeartbeatInterval + HeartbeatInterval
    BY <1>t, Products, Parameters
  <2>3. ASSUME r \notin cutOff
        PROVE  \/ /\ r \in nodes'
                  /\ age'[r] <= HeartbeatInterval * missed'[r] + timer'[r]
               \/ r \notin nodes' /\ LostTooMany(r)'
    BY <2>1, <2>2, <2>3, <1>t, Parameters DEF LostTooMany
  <2>4. ASSUME NEW n \in Relay, n # r
        PROVE  /\ timer'[n] = timer[n] /\ missed'[n] = missed[n]
               /\ LostTooMany(n)' <=> LostTooMany(n)
    BY <2>1, <2>4, <1>t DEF LostTooMany
  <2>5. QED
    BY <2>1, <2>3, <2>4, <1>t
<1>5. ASSUME NEW r \in Relay, Stop(r) PROVE RunningInv'
  BY <1>5, <1>t DEF Stop, Goto, registry, history, LostTooMany
<1>6. ASSUME NEW r \in Relay, Unregister(r) PROVE RunningInv'
  BY <1>6, <1>t DEF Unregister, Ends, Goto, KeepNodes, registry, LostTooMany
<1>7. ASSUME NEW r \in Relay, Crash(r) PROVE RunningInv'
  BY <1>7, <1>t DEF Crash, Ends, Goto, registry, LostTooMany
<1>8. CASE Cleanup
  <2>1. /\ nodes' = nodes \ Stale
        /\ age' = [n \in Relay |-> IF n \in nodes' THEN age[n] ELSE 0]
        /\ UNCHANGED <<pc, timer, missed, cutOff>>
    BY <1>8 DEF Cleanup, KeepNodes, Cleaned, relays, history
  <2>2. \A r \in Relay : LostTooMany(r)' <=> LostTooMany(r)
    BY <2>1 DEF LostTooMany
  <2>3. ASSUME NEW r \in Relay, pc[r] = "registered", r \notin cutOff
        PROVE  r \notin Stale
    BY <2>3, Parameters DEF Stale
  <2>4. QED
    BY <2>1, <2>2, <2>3, <1>t, StaleLostTooMany
<1>9. CASE DirectoryRestart
  BY <1>9, <1>t DEF DirectoryRestart, KeepNodes, relays, LostTooMany
<1>10. CASE Tick
  <2>1. /\ \A n \in Relay : age'[n] = IF n \in nodes THEN age[n] + 1 ELSE 0
        /\ \A r \in Relay : /\ pc[r] # "registered"
                            /\ timer'[r] = IF pc[r] \in {"running", "stopping"}
                                           THEN timer[r] + 1 ELSE timer[r]
        /\ UNCHANGED <<nodes, pc, missed, cutOff>>
    BY <1>10 DEF Tick, history
  <2>2. \A r \in Relay : LostTooMany(r)' <=> LostTooMany(r)
    BY <2>1 DEF LostTooMany
  <2>3. ASSUME NEW r \in Relay
        PROVE  HeartbeatInterval * missed[r] \in Nat
    BY <1>t, Products
  <2>4. QED
    BY <2>1, <2>2, <2>3, <1>t
<1>11. CASE UNCHANGED vars
  BY <1>11 DEF vars, registry, relays, history, LostTooMany
<1>12. QED
  BY <1>1, <1>2, <1>3, <1>4, <1>5, <1>6, <1>7, <1>8, <1>9, <1>10, <1>11
     DEF Next, RelayStep

\* A running relay keeps its entry while the timeout spans the heartbeats it
\* has lost and one more, for any intervals and any latency.
THEOREM RunningStaysRegisteredHolds == Spec => []RunningStaysRegistered
<1>1. Init => RunningInv
  BY DEF Init, RunningInv, Listening
<1>2. TypeOK /\ RunningInv => RunningStaysRegistered
  <2> SUFFICES ASSUME TypeOK, RunningInv, NEW r \in Relay,
                      pc[r] = "running", r \notin cutOff,
                      StaleTimeout >= HeartbeatInterval * (missed[r] + 1) + Latency
               PROVE  r \in nodes
    BY DEF RunningStaysRegistered
  <2>1. missed[r] + 1 \in Nat
    BY DEF TypeOK
  <2>2. ~LostTooMany(r)
    BY <2>1, Products, Parameters DEF LostTooMany
  <2>3. QED
    BY <2>2 DEF RunningInv, Listening
<1>3. QED
  BY <1>1, <1>2, RunningInvInductive, TypeCorrect, PTL DEF Spec

-----------------------------------------------------------------------------
(* Paths.                                                                  *)

\* A list of slots has one for each hop.
LEMMA ListHasHops ==
    ASSUME NEW h \in HopCounts, NEW p \in Lists(h)
    PROVE  /\ h \in Nat /\ h >= 3
           /\ DOMAIN p = 1 .. h
           /\ Type[p[1]] = "Entry" /\ Type[p[h]] = "Exit"
<1>1. h \in Nat /\ h >= 3
  BY DirectoryAssumption DEF DirectoryAssumption
<1>2. PICK e \in ByType("Entry"), x \in ByType("Exit"),
           q \in [1 .. h - 2 -> ByType("Middle")] : p = InOrder(e, q, x)
  BY DEF Lists
<1>3. q \in Seq(ByType("Middle")) /\ Len(q) = h - 2
  BY <1>1
<1>4. e \in nodes /\ x \in nodes /\ q \in Seq(nodes)
  BY <1>3 DEF ByType
<1>5. Type[e] = "Entry" /\ Type[x] = "Exit"
  BY DEF ByType
<1>6. QED
  BY <1>1, <1>2, <1>3, <1>4, <1>5 DEF InOrder

\* Nodes that do not clash share neither an IP nor an operator, either way
\* round.
LEMMA NoClash ==
    ASSUME NEW m, NEW n, ~Clash(m, n)
    PROVE  /\ ~SharesIp(m, n) /\ ~SharesOperator(m, n)
           /\ ~SharesIp(n, m) /\ ~SharesOperator(n, m)
BY DEF Clash, SharesIp, SharesOperator

\* Every node of a path differs from, and does not clash with, those picked
\* before it: that is enough for any two of them.
THEOREM PathsAreDiverseHolds == Spec => []PathsAreDiverse
<1>1. PathsAreDiverse
  <2> SUFFICES ASSUME NEW h \in HopCounts, NEW p \in PathsOf(h)
               PROVE  Diverse(p)
    BY DEF PathsAreDiverse
  <2>1. p \in Lists(h) /\ Picked(p, h - 1, h)
    BY DEF PathsOf
  <2>2. /\ h \in Nat /\ h >= 3 /\ DOMAIN p = 1 .. h
        /\ p[1] # p[h] /\ ~Clash(p[1], p[h])
    BY <2>1, ListHasHops DEF Picked
  <2>3. ASSUME NEW j \in 2 .. h - 1, NEW i \in (1 .. j - 1) \cup {h}
        PROVE  p[i] # p[j] /\ ~Clash(p[j], p[i])
    BY <2>1, <2>2 DEF Picked, Candidates
  <2>4. ASSUME NEW i \in 1 .. h, NEW j \in 1 .. h, i # j
        PROVE  p[i] # p[j] /\ (~Clash(p[i], p[j]) \/ ~Clash(p[j], p[i]))
    <3>1. CASE i \in 2 .. h - 1 /\ j \in 2 .. h - 1
      BY <3>1, <2>2, <2>3, <2>4
    <3>2. CASE i \in 2 .. h - 1 /\ j \in {1, h}
      BY <3>2, <2>2, <2>3
    <3>3. CASE i \in {1, h} /\ j \in 2 .. h - 1
      BY <3>3, <2>2, <2>3
    <3>4. CASE i \in {1, h} /\ j \in {1, h}
      BY <3>4, <2>2, <2>4
    <3>5. QED
      BY <2>2, <3>1, <3>2, <3>3, <3>4
  <2>5. QED
    BY <2>2, <2>4, NoClash DEF Diverse
<1>2. QED
  BY <1>1, PTL

=============================================================================
