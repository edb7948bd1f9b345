-------------------------- MODULE CircuitPoolProofs --------------------------
(***************************************************************************)
(* Proofs about CircuitPool, for any connections, pool sizes and bounds.   *)
(***************************************************************************)
EXTENDS CircuitPool, FiniteSetTheorems, TLAPS

LEMMA Parameters ==
    /\ PoolSize \in Nat /\ MaxId \in Nat /\ PoolSize <= MaxId
    /\ MaxAttempts \in Nat \ {0} /\ MaxFailures \in Nat /\ MaxEvents \in Nat
    /\ Id = 1 .. MaxId /\ NoCircuit \notin Id
  BY PoolAssumption DEF Id

LEMMA FinitelyMany == ASSUME NEW S \in SUBSET Id
                      PROVE  IsFiniteSet(S) /\ Cardinality(S) \in Nat
<1>1. IsFiniteSet(Id)
  BY FS_Interval, Parameters
<1>2. QED
  BY <1>1, FS_Subset, FS_CardinalityType

-----------------------------------------------------------------------------
(* Types.                                                                  *)

\* A task that has a circuit has one that was built.
Given(c) == cpc[c] \notin {"new", "done"} => circ[c] \in Id

TypeInv == TypeOK /\ \A c \in Conn : Given(c)

LEMMA TypeInit == Init => TypeInv
<1> SUFFICES ASSUME Init PROVE TypeInv
  OBVIOUS
<1>1. 1 .. PoolSize \subseteq Id /\ PoolSize + 1 \in 1 .. MaxId + 1
  BY Parameters
<1>2. TypeOK
  BY <1>1, Parameters DEF Init, TypeOK
<1>3. \A c \in Conn : Given(c)
  BY DEF Init, Given
<1>4. QED
  BY <1>2, <1>3 DEF TypeInv

\* A build leaves the pool well typed, whatever it is for.
LEMMA BuildType ==
    ASSUME TypeOK, NEW rest \in SUBSET Id, Build(rest)
    PROVE  /\ nextId \in Id
           /\ circuits' \subseteq Id /\ nextId' \in 1 .. MaxId + 1
           /\ state' \in [Id -> {"none", "Ready", "Dirty", "Closed"}]
           /\ UNCHANGED <<old, broken, streams, env>>
  BY Parameters DEF Build, TypeOK

LEMMA BuildFailsType ==
    ASSUME TypeOK, NEW rest \in SUBSET Id, BuildFails(rest)
    PROVE  /\ nextId \in Id
           /\ circuits' \subseteq Id /\ nextId' \in 1 .. MaxId + 1
           /\ failsLeft' \in Nat
           /\ UNCHANGED <<old, circuit, events>>
  BY Parameters DEF BuildFails, TypeOK

LEMMA ReplaceType ==
    ASSUME TypeOK, NEW i \in Id, ReplaceCircuit(i)
    PROVE  /\ circuits' \subseteq Id /\ nextId' \in 1 .. MaxId + 1
           /\ failures' \in [Id -> Nat] /\ abandoned' \subseteq Id
           /\ state' \in [Id -> {"none", "Ready", "Dirty", "Closed"}]
           /\ failsLeft' \in Nat /\ lost' \in Nat
           /\ UNCHANGED <<old, broken, streams, events>>
<1> DEFINE rest == circuits \ {i}
<1>0. rest \in SUBSET Id
  BY DEF TypeOK
<1>1. CASE Replaced(i)
  <2>1. Build(rest) /\ failures' = [failures EXCEPT ![i] = 0]
        /\ UNCHANGED <<abandoned, lost>>
    BY <1>1 DEF Replaced
  <2> HIDE DEF rest
  <2>2. QED
    BY <1>0, <2>1, BuildType DEF TypeOK, env
<1>2. CASE NotReplaced(i)
  <2>1. /\ BuildFails(rest) /\ failures' = [failures EXCEPT ![i] = @ + 1]
        /\ abandoned' \in {abandoned, abandoned \cup {i}} /\ lost' = lost + 1
    BY <1>2 DEF NotReplaced, LeavesPool
  <2> HIDE DEF rest
  <2>2. QED
    BY <1>0, <2>1, BuildFailsType DEF TypeOK, circuit
<1>3. QED
  BY <1>1, <1>2 DEF ReplaceCircuit

-----------------------------------------------------------------------------
(* The steps of a connection, of the monitor, and of the rest.             *)

LEMMA ConnectionType ==
    ASSUME TypeInv, NEW c \in Conn, Connection(c)
    PROVE  TypeInv'
<1> USE DEF TypeInv
<1> DEFINE Labels == {"new", "selected", "begin", "waiting", "streaming",
                      "failed", "replace", "done"}
<1>1. CASE SelectReady(c)
  <2>1. PICK i \in Id : circ' = [circ EXCEPT ![c] = i]
    BY <1>1 DEF SelectReady, InState, TypeOK
  <2>2. QED
    BY <1>1, <2>1 DEF SelectReady, Goto, TypeOK, Given, pool, circuit, monitor,
       env
<1>2. CASE SelectBuilds(c)
  <2>0. circuits \in SUBSET Id
    BY DEF TypeOK
  <2>1. CASE Build(circuits) /\ circ' = [circ EXCEPT ![c] = nextId]
             /\ Goto(c, "selected")
    BY <1>2, <2>0, <2>1, BuildType DEF SelectBuilds, Goto, TypeOK, Given,
       monitor, env
  <2>2. CASE BuildFails(circuits) /\ circ' = circ /\ Goto(c, "done")
    BY <1>2, <2>0, <2>2, BuildFailsType DEF SelectBuilds, Goto, TypeOK, Given,
       monitor, circuit
  <2>3. QED
    BY <1>2, <2>1, <2>2 DEF SelectBuilds
<1>3. CASE Register(c)
  BY <1>3 DEF Register, Goto, TypeOK, Given, pool, monitor, env
<1>4. CASE Begin(c)
  BY <1>4 DEF Begin, Goto, TypeOK, Given, pool, circuit, monitor, env
<1>5. CASE Connected(c)
  BY <1>5 DEF Connected, Goto, TypeOK, Given, pool, circuit, monitor, env
<1>6. CASE Cleanup(c) /\ cpc[c] \in {"waiting", "streaming"}
           /\ \E label \in {"failed", "done"} : Goto(c, label)
  BY <1>6 DEF Cleanup, Goto, TypeOK, Given, pool, monitor, env
<1>7. CASE CheckCircuit(c)
  BY <1>7 DEF CheckCircuit, Goto, TypeOK, Given, pool, circuit, monitor, env
<1>8. CASE Replace(c)
  <2>1. circ[c] \in Id
    BY <1>8 DEF Replace, Given
  <2>2. ReplaceCircuit(circ[c]) /\ Goto(c, "done") /\ UNCHANGED <<circ, monitor>>
    BY <1>8 DEF Replace
  <2>3. QED
    BY <2>1, <2>2, ReplaceType DEF Goto, TypeOK, Given, monitor
<1>9. QED
  BY <1>1, <1>2, <1>3, <1>4, <1>5, <1>6, <1>7, <1>8
     DEF Connection, Open, Wait, Recover, Refused, ChannelClosed, Timeout,
         Waits, Finish

LEMMA MonitorType ==
    ASSUME TypeInv, Monitor
    PROVE  TypeInv'
<1> USE DEF TypeInv
<1>1. CASE MonitorExpire
  <2>1. toBuild' \in Nat
    <3>1. Expired \in SUBSET Id
      BY DEF Expired, InState, TypeOK
    <3>2. QED
      BY <1>1, <3>1, FinitelyMany DEF MonitorExpire, Replacements
  <2>2. QED
    BY <1>1, <2>1 DEF MonitorExpire, TypeOK, Given, task, env
<1>2. CASE MonitorBuild
  <2>0. circuits \in SUBSET Id /\ toBuild' \in Nat
    BY <1>2 DEF TypeOK, MonitorBuild, MoreToBuild
  <2>1. CASE Build(circuits) /\ lost' = lost
    BY <1>2, <2>0, <2>1, BuildType DEF MonitorBuild, TypeOK, Given, task, env
  <2>2. CASE BuildFails(circuits) /\ lost' = lost + 1
    BY <1>2, <2>0, <2>2, BuildFailsType DEF MonitorBuild, TypeOK, Given, task,
       circuit
  <2>3. QED
    BY <1>2, <2>1, <2>2 DEF MonitorBuild
<1>3. CASE MonitorSeeDirty
  BY <1>3 DEF MonitorSeeDirty, InState, TypeOK, Given, pool, circuit, task, env
<1>4. CASE MonitorSeeIdle
  BY <1>4 DEF MonitorSeeIdle, TypeOK, Given, pool, circuit, task, env
<1>5. CASE MonitorRemove
  BY <1>5 DEF MonitorRemove, TypeOK, Given, circuit, task, env
<1>6. CASE MonitorSeeFailed
  BY <1>6 DEF MonitorSeeFailed, Failed, InState, TypeOK, Given, pool, circuit,
     task, env
<1>7. CASE MonitorCheck
  BY <1>7 DEF MonitorCheck, TypeOK, Given, pool, circuit, task, env
<1>8. CASE MonitorReplace
  <2>1. PICK i \in Id : ReplaceCircuit(i)
    BY <1>8 DEF MonitorReplace, TypeOK
  <2>2. QED
    BY <1>8, <2>1, ReplaceType DEF MonitorReplace, TypeOK, Given, task
<1>9. CASE MonitorSleep
  BY <1>9 DEF MonitorSleep, TypeOK, Given, pool, circuit, task, env
<1>10. QED
  BY <1>1, <1>2, <1>3, <1>4, <1>5, <1>6, <1>7, <1>8, <1>9 DEF Monitor

LEMMA EventType ==
    ASSUME TypeInv, Age \/ \E i \in Id : Break(i) \/ Reader(i)
    PROVE  TypeInv'
<1> USE DEF TypeInv
<1>1. CASE Age
  BY <1>1 DEF Age, Event, InState, TypeOK, Given, circuit, task, monitor
<1>2. ASSUME NEW i \in Id, Break(i) PROVE TypeInv'
  BY <1>2 DEF Break, Event, TypeOK, Given, pool, task, monitor
<1>3. ASSUME NEW i \in Id, Reader(i) PROVE TypeInv'
  <2>1. ReaderEnds(i) /\ events' \in Nat
    BY <1>3 DEF Reader, ReaderEof, ReaderDestroy, Event, TypeOK
  <2>2. QED
    BY <2>1 DEF ReaderEnds, TypeOK, Given, pool, task, monitor
<1>4. QED
  BY <1>1, <1>2, <1>3

LEMMA TypeNext == TypeInv /\ [Next]_vars => TypeInv'
<1> SUFFICES ASSUME TypeInv, [Next]_vars PROVE TypeInv'
  OBVIOUS
<1>1. CASE UNCHANGED vars
  BY <1>1 DEF TypeInv, TypeOK, Given, vars, pool, circuit, task, monitor, env
<1>2. QED
  BY <1>1, ConnectionType, MonitorType, EventType DEF Next

\* Every variable of the pool, its monitor and its connections keeps its type,
\* and a task is given a circuit before it uses one.
THEOREM TypeCorrect == Spec => []TypeOK
<1>1. TypeInv => TypeOK
  BY DEF TypeInv
<1>2. QED
  BY <1>1, TypeInit, TypeNext, PTL DEF Spec

-----------------------------------------------------------------------------
(* The pool's capacity.                                                    *)

\* Circuits that the monitor has seen Dirty may be Closed by the time that it
\* removes them.
Leaving == IF mpc \in {"idle", "remove"} THEN seen ELSE {}

\* What still counts once they are removed.
Standing == {i \in circuits : state[i] # "Dirty" /\ i \notin Leaving}

CapacityInv ==
    /\ Cardinality(Standing) + toBuild + lost >= PoolSize
    /\ mpc # "build" => toBuild = 0
    /\ \A i \in circuits \cup seen \cup failed : i < nextId

Inv == TypeInv /\ CapacityInv

LEMMA Counted ==
    ASSUME TypeOK
    PROVE  /\ Standing \in SUBSET Id /\ IsFiniteSet(Standing)
           /\ Cardinality(Standing) \in Nat
           /\ toBuild \in Nat /\ lost \in Nat
<1>1. Standing \in SUBSET Id
  BY DEF Standing, TypeOK
<1>2. QED
  BY <1>1, FinitelyMany DEF TypeOK

LEMMA CountedNext ==
    ASSUME TypeOK'
    PROVE  IsFiniteSet(Standing)' /\ Cardinality(Standing)' \in Nat
<1>1. Standing' \in SUBSET Id
  BY DEF Standing, TypeOK
<1>2. QED
  BY <1>1, FinitelyMany

\* A step that only adds to what stands.
LEMMA NoneLost ==
    ASSUME Inv, TypeOK', Standing \subseteq Standing',
           toBuild' = toBuild, lost' \in {lost, lost + 1}
    PROVE  Cardinality(Standing)' + toBuild' + lost' >= PoolSize
<1>1. /\ Cardinality(Standing) \in Nat /\ Cardinality(Standing)' \in Nat
      /\ IsFiniteSet(Standing)'
      /\ toBuild \in Nat /\ lost \in Nat
  BY Counted, CountedNext DEF Inv, TypeInv
<1>2. Cardinality(Standing) <= Cardinality(Standing)'
  BY <1>1, FS_Subset
<1>3. QED
  BY <1>1, <1>2, Parameters DEF Inv, CapacityInv

LEMMA CapacityInit == Init => CapacityInv
<1> SUFFICES ASSUME Init PROVE CapacityInv
  OBVIOUS
<1>1. Standing = 1 .. PoolSize
  BY Parameters DEF Init, Standing, Leaving
<1>2. Cardinality(1 .. PoolSize) = PoolSize
  BY FS_Interval, Parameters
<1>3. QED
  BY <1>1, <1>2, Parameters DEF Init, CapacityInv

\* A build adds a circuit that stands.
LEMMA BuildAdds ==
    ASSUME Inv, NEW rest \in SUBSET circuits, Build(rest), Leaving' \subseteq Leaving,
           seen' \subseteq seen, failed' = failed
    PROVE  /\ (Standing \cap rest) \cup {nextId} \subseteq Standing'
           /\ nextId \notin Standing
           /\ \A i \in circuits' \cup seen' \cup failed' : i < nextId'
<1>1. /\ nextId \in Id /\ circuits \subseteq Id /\ seen \subseteq Id
      /\ state \in [Id -> {"none", "Ready", "Dirty", "Closed"}]
      /\ \A i \in circuits \cup seen \cup failed : i < nextId
  BY BuildType DEF Inv, TypeInv, TypeOK, CapacityInv
<1>2. nextId \in Nat /\ Id \subseteq Nat
  BY <1>1, Parameters
<1>3. nextId \notin circuits \cup seen
  BY <1>1, <1>2
<1>4. /\ circuits' = rest \cup {nextId} /\ nextId' = nextId + 1
      /\ state' = [state EXCEPT ![nextId] = "Ready"]
  BY DEF Build
<1>5. Leaving' \subseteq seen
  BY DEF Leaving
<1>6. nextId \in Standing'
  BY <1>1, <1>3, <1>4, <1>5 DEF Standing
<1>7. Standing \cap rest \subseteq Standing'
  BY <1>1, <1>3, <1>4 DEF Standing
<1>8. \A i \in circuits' \cup seen' \cup failed' : i < nextId'
  BY <1>1, <1>2, <1>4
<1>9. QED
  BY <1>3, <1>6, <1>7, <1>8 DEF Standing

LEMMA BuildFailsKeeps ==
    ASSUME Inv, NEW rest \in SUBSET circuits, BuildFails(rest),
           Leaving' \subseteq Leaving, seen' \subseteq seen, failed' = failed
    PROVE  /\ Standing \cap rest \subseteq Standing'
           /\ \A i \in circuits' \cup seen' \cup failed' : i < nextId'
<1>1. /\ circuits' = rest /\ nextId' = nextId + 1 /\ state' = state
      /\ nextId \in Nat /\ \A i \in circuits \cup seen \cup failed : i \in Nat /\ i < nextId
  BY Parameters DEF BuildFails, circuit, Inv, TypeInv, TypeOK, CapacityInv
<1>2. QED
  BY <1>1 DEF Standing

\* A replacement takes one circuit and brings another, or counts as lost.
LEMMA ReplaceKeeps ==
    ASSUME Inv, TypeInv', NEW i \in Id, ReplaceCircuit(i),
           Leaving' \subseteq Leaving, seen' \subseteq seen,
           failed' = failed, toBuild' = toBuild
    PROVE  /\ Cardinality(Standing)' + toBuild' + lost' >= PoolSize
           /\ \A j \in circuits' \cup seen' \cup failed' : j < nextId'
<1> DEFINE rest == circuits \ {i}
           S == Standing \ {i}
<1>0. rest \in SUBSET circuits /\ Standing \cap rest = S
  BY DEF Standing
<1>1. /\ IsFiniteSet(Standing) /\ IsFiniteSet(Standing)'
      /\ Cardinality(Standing) \in Nat /\ Cardinality(Standing)' \in Nat
      /\ toBuild \in Nat /\ lost \in Nat
      /\ Cardinality(Standing) + toBuild + lost >= PoolSize
  BY Counted, CountedNext DEF Inv, TypeInv, CapacityInv
<1>2. /\ IsFiniteSet(S)
      /\ Cardinality(S) \in {Cardinality(Standing), Cardinality(Standing) - 1}
  BY <1>1, FS_RemoveElement
<1>3. CASE Replaced(i)
  <2>1. Build(rest) /\ lost' = lost
    BY <1>3 DEF Replaced
  <2> HIDE DEF rest, S
  <2>2. /\ S \cup {nextId} \subseteq Standing' /\ nextId \notin Standing
        /\ \A j \in circuits' \cup seen' \cup failed' : j < nextId'
    BY <1>0, <2>1, BuildAdds
  <2>3. nextId \notin S
    BY <2>2 DEF S
  <2>4. Cardinality(S \cup {nextId}) = Cardinality(S) + 1
    BY <1>2, <2>3, FS_AddElement
  <2>5. Cardinality(S \cup {nextId}) <= Cardinality(Standing)'
    BY <1>1, <2>2, FS_Subset
  <2>6. QED
    BY <1>1, <1>2, <2>1, <2>2, <2>4, <2>5, Parameters
<1>4. CASE NotReplaced(i)
  <2>1. BuildFails(rest) /\ lost' = lost + 1
    BY <1>4 DEF NotReplaced, LeavesPool
  <2> HIDE DEF rest, S
  <2>2. /\ S \subseteq Standing'
        /\ \A j \in circuits' \cup seen' \cup failed' : j < nextId'
    BY <1>0, <2>1, BuildFailsKeeps
  <2>3. Cardinality(S) <= Cardinality(Standing)'
    BY <1>1, <2>2, FS_Subset
  <2>4. QED
    BY <1>1, <1>2, <2>1, <2>2, <2>3, Parameters
<1>5. QED
  BY <1>3, <1>4 DEF ReplaceCircuit

LEMMA ConnectionCapacity ==
    ASSUME Inv, TypeInv', NEW c \in Conn, Connection(c)
    PROVE  CapacityInv'
<1>1. CASE SelectBuilds(c)
  <2>0. UNCHANGED <<mpc, toBuild, seen, failed, lost>> /\ UNCHANGED Leaving
    BY <1>1 DEF SelectBuilds, monitor, Leaving
  <2>1. /\ Standing \subseteq Standing'
        /\ \A i \in circuits' \cup seen' \cup failed' : i < nextId'
    <3>1. CASE Build(circuits)
      BY <2>0, <3>1, BuildAdds DEF Standing
    <3>2. CASE BuildFails(circuits)
      BY <2>0, <3>2, BuildFailsKeeps DEF Standing
    <3>3. QED
      BY <1>1, <3>1, <3>2 DEF SelectBuilds
  <2>2. QED
    BY <2>0, <2>1, NoneLost DEF Inv, TypeInv, CapacityInv
<1>2. CASE Replace(c)
  <2>1. circ[c] \in Id
    BY <1>2 DEF Replace, Inv, TypeInv, Given
  <2>2. /\ ReplaceCircuit(circ[c])
        /\ UNCHANGED <<mpc, toBuild, seen, failed>> /\ UNCHANGED Leaving
    BY <1>2 DEF Replace, monitor, Leaving
  <2>3. QED
    BY <2>1, <2>2, ReplaceKeeps DEF Inv, CapacityInv
<1>3. CASE /\ UNCHANGED <<circuits, nextId, mpc, toBuild, seen, failed, lost>>
            /\ state' = state
  BY <1>3 DEF Inv, CapacityInv, Standing, Leaving
<1>4. QED
  BY <1>1, <1>2, <1>3
     DEF Connection, Open, Wait, Recover, SelectReady, Register, Begin,
         Connected, Refused, ChannelClosed, Timeout, Finish, Cleanup,
         CheckCircuit, pool, circuit, monitor

LEMMA MonitorCapacity ==
    ASSUME Inv, TypeInv', Monitor
    PROVE  CapacityInv'
<1> USE DEF Inv
<1>1. CASE MonitorExpire
  <2>1. Expired \in SUBSET Standing /\ Standing' = Standing \ Expired
    BY <1>1 DEF MonitorExpire, Expired, InState, Standing, Leaving, TypeInv,
       TypeOK
  <2>2. /\ IsFiniteSet(Standing) /\ Cardinality(Standing) \in Nat
        /\ lost \in Nat /\ toBuild = 0
    BY <1>1, Counted DEF MonitorExpire, TypeInv, CapacityInv
  <2>3. /\ IsFiniteSet(Expired) /\ Cardinality(Expired) \in Nat
        /\ Cardinality(Standing \ Expired) = Cardinality(Standing) - Cardinality(Expired)
    <3>1. IsFiniteSet(Expired) /\ Cardinality(Expired) \in Nat
      BY <2>1, <2>2, FS_Subset, FS_CardinalityType
    <3>2. Standing \cap Expired = Expired
      BY <2>1
    <3>3. QED
      BY <2>2, <3>1, <3>2, FS_Difference
  <2>4. toBuild' = Cardinality(Expired)
        /\ UNCHANGED <<circuits, nextId, seen, failed, lost>> /\ mpc' = "build"
    BY <1>1 DEF MonitorExpire, Replacements
  <2>5. Cardinality(Standing)' = Cardinality(Standing) - Cardinality(Expired)
    BY <2>1, <2>3
  <2>6. QED
    BY <2>2, <2>3, <2>4, <2>5, Parameters DEF CapacityInv
<1>2. CASE MonitorBuild
  <2>0. /\ mpc = "build" /\ UNCHANGED <<mpc, seen, failed>> /\ UNCHANGED Leaving
        /\ toBuild' = toBuild - 1 /\ toBuild \in Nat
    BY <1>2 DEF MonitorBuild, Leaving, TypeInv, TypeOK
  <2>1. /\ IsFiniteSet(Standing) /\ IsFiniteSet(Standing)'
        /\ Cardinality(Standing) \in Nat /\ Cardinality(Standing)' \in Nat
        /\ lost \in Nat
    BY Counted, CountedNext DEF TypeInv
  <2>2. CASE Build(circuits) /\ lost' = lost
    <3>1. /\ Standing \cup {nextId} \subseteq Standing' /\ nextId \notin Standing
          /\ \A i \in circuits' \cup seen' \cup failed' : i < nextId'
      BY <2>0, <2>2, BuildAdds DEF Standing
    <3>2. Cardinality(Standing \cup {nextId}) = Cardinality(Standing) + 1
      BY <2>1, <3>1, FS_AddElement
    <3>3. Cardinality(Standing \cup {nextId}) <= Cardinality(Standing)'
      BY <2>1, <3>1, FS_Subset
    <3>4. QED
      BY <2>0, <2>1, <2>2, <3>1, <3>2, <3>3, Parameters DEF CapacityInv
  <2>3. CASE BuildFails(circuits) /\ lost' = lost + 1
    <3>1. /\ Standing \subseteq Standing'
          /\ \A i \in circuits' \cup seen' \cup failed' : i < nextId'
      BY <2>0, <2>3, BuildFailsKeeps DEF Standing
    <3>2. Cardinality(Standing) <= Cardinality(Standing)'
      BY <2>1, <3>1, FS_Subset
    <3>3. QED
      BY <2>0, <2>1, <2>3, <3>1, <3>2, Parameters DEF CapacityInv
  <2>4. QED
    BY <1>2, <2>2, <2>3 DEF MonitorBuild
<1>3. CASE MonitorReplace
  <2>1. PICK i \in Id : ReplaceCircuit(i)
    BY <1>3 DEF MonitorReplace, TypeInv, TypeOK
  <2>2. Leaving' = {} /\ seen' = {} /\ failed' = failed /\ toBuild' = toBuild
        /\ mpc' = "replace"
        /\ mpc = "backoff"
    BY <1>3 DEF MonitorReplace, Leaving
  <2>3. QED
    BY <2>1, <2>2, ReplaceKeeps DEF CapacityInv
<1>4. CASE MonitorSeeDirty \/ MonitorSeeIdle \/ MonitorRemove
             \/ MonitorSeeFailed \/ MonitorCheck \/ MonitorSleep
  <2>1. /\ Standing \subseteq Standing'
        /\ UNCHANGED <<toBuild, lost, nextId>>
        /\ circuits' \cup seen' \cup failed' \subseteq circuits \cup seen \cup failed
        /\ mpc' # "build" /\ toBuild = 0
    BY <1>4 DEF MonitorSeeDirty, MonitorSeeIdle, MonitorRemove,
       MonitorSeeFailed, MonitorCheck, MonitorSleep, MoreToBuild, Failed,
       InState, Standing, Leaving, CapacityInv, TypeInv, TypeOK, pool, circuit,
       task, env
  <2>2. QED
    BY <2>1, NoneLost DEF TypeInv, CapacityInv
<1>5. QED
  BY <1>1, <1>2, <1>3, <1>4 DEF Monitor

LEMMA EventCapacity ==
    ASSUME Inv, TypeInv', Age \/ \E i \in Id : Break(i) \/ Reader(i)
    PROVE  CapacityInv'
<1>1. /\ UNCHANGED <<circuits, nextId, mpc, toBuild, seen, failed, lost>>
      /\ \A j \in circuits : state[j] # "Dirty" => state'[j] # "Dirty"
  BY DEF Age, Break, Reader, ReaderEof, ReaderDestroy, ReaderEnds, circuit,
     monitor, pool, Inv, TypeInv, TypeOK
<1>2. Standing \subseteq Standing'
  BY <1>1 DEF Standing, Leaving
<1>3. QED
  BY <1>1, <1>2, NoneLost DEF Inv, TypeInv, CapacityInv

LEMMA CapacityNext == Inv /\ [Next]_vars => Inv'
<1> SUFFICES ASSUME Inv, [Next]_vars PROVE Inv'
  OBVIOUS
<1>1. TypeInv'
  BY TypeNext DEF Inv
<1>2. CASE UNCHANGED vars
  BY <1>1, <1>2 DEF Inv, CapacityInv, Standing, Leaving, vars, pool, circuit,
     monitor
<1>3. CASE Next
  BY <1>1, <1>3, ConnectionCapacity, MonitorCapacity, EventCapacity
     DEF Next, Inv
<1>4. QED
  BY <1>2, <1>3

\* Whatever order the monitor's round and the connections' replacements take,
\* with any number of connections and circuits: the pool has a circuit, or a
\* build that is due, for every one that it began with, but for the failed
\* builds.
THEOREM CapacityKeptHolds == Spec => []CapacityKept
<1>1. Inv => CapacityKept
  <2> SUFFICES ASSUME Inv PROVE CapacityKept
    OBVIOUS
  <2>1. circuits \ InState("Dirty") \in SUBSET Id
    BY DEF Inv, TypeInv, TypeOK
  <2>2. Standing \subseteq circuits \ InState("Dirty")
    BY DEF Standing, InState
  <2>3. /\ Cardinality(Standing) <= Cardinality(circuits \ InState("Dirty"))
        /\ Cardinality(Standing) \in Nat
        /\ Cardinality(circuits \ InState("Dirty")) \in Nat
    BY <2>1, <2>2, FinitelyMany, FS_Subset
  <2>4. QED
    BY <2>3, Parameters DEF Inv, TypeInv, TypeOK, CapacityInv, CapacityKept
<1>2. Init => Inv
  BY TypeInit, CapacityInit DEF Inv
<1>3. QED
  BY <1>1, <1>2, CapacityNext, PTL DEF Spec

-----------------------------------------------------------------------------
(* The monitor's round: what it has noticed leaves the pool.               *)

\* Circuit i is on one of the monitor's lists: idle ones to remove, failed ones
\* to replace, or the one that it replaces after the backoff.
Noticed(i) == i \in failed \/ (mpc \in {"remove", "backoff"} /\ i \in seen)

RoundInv ==
    /\ abandoned \cap circuits = {}
    /\ \A i \in abandoned : i < nextId
    /\ \A c \in Conn : cpc[c] \notin {"new", "done"} => circ[c] < nextId
    /\ mpc \notin {"replace", "backoff"} => failed = {}
    /\ mpc = "idle" => InState("Dirty") \subseteq seen
    /\ mpc = "backoff" => \E i \in Id : seen = {i}

\* What the monitor sees, it notices.
Notices ==
    /\ MonitorSeeFailed => \A i \in InState("Closed") : Noticed(i)'
    /\ MonitorSeeIdle =>
          \A i \in InState("Dirty") : streams[i] = {} => Noticed(i)'

\* It forgets nothing that is still in the pool ...
Remembers == \A i \in Id : Noticed(i) => Noticed(i)' \/ i \notin circuits'

\* ... and what has left the pool is never back in it.
StaysOut == \A i \in Id : i < nextId /\ i \notin circuits => i \notin circuits'

LEMMA RoundInit == Init => RoundInv
  BY DEF Init, RoundInv

LEMMA BuildRound ==
    ASSUME Inv, RoundInv, NEW rest \in SUBSET circuits, Build(rest)
    PROVE  /\ nextId' = nextId + 1 /\ nextId \in Nat /\ nextId \notin abandoned
           /\ circuits' = rest \cup {nextId}
           /\ \A i \in Id : i \in Nat
<1>1. /\ nextId \in Id /\ Id \subseteq Nat
  <2>1. rest \in SUBSET Id
    BY DEF Inv, TypeInv, TypeOK
  <2>2. QED
    BY <2>1, BuildType, Parameters DEF Inv, TypeInv
<1>2. nextId \notin abandoned
  BY <1>1 DEF RoundInv
<1>3. QED
  BY <1>1, <1>2 DEF Build

\* A step that may build: what it leaves in the pool, and the next id.
Shrinks(rest) ==
    /\ nextId' = nextId + 1
    /\ \/ circuits' = rest \cup {nextId}
       \/ circuits' = rest

LEMMA ShrinksIs ==
    ASSUME Inv, RoundInv, NEW rest \in SUBSET circuits, Build(rest) \/ BuildFails(rest)
    PROVE  Shrinks(rest) /\ nextId \in Nat /\ nextId \notin abandoned
           /\ UNCHANGED <<streams, old>>
<1>1. nextId \in Nat
  BY Parameters DEF Inv, TypeInv, TypeOK
<1>2. nextId \notin abandoned
  BY <1>1 DEF RoundInv
<1>3. QED
  BY <1>1, <1>2 DEF Build, BuildFails, Shrinks, circuit

LEMMA ReplaceShrinks ==
    ASSUME Inv, RoundInv, NEW i, ReplaceCircuit(i)
    PROVE  /\ Shrinks(circuits \ {i}) /\ nextId \in Nat /\ nextId \notin abandoned
           /\ abandoned' \in {abandoned, abandoned \cup {i}}
           /\ abandoned' # abandoned => circuits' = circuits \ {i}
<1> DEFINE rest == circuits \ {i}
<1>0. rest \in SUBSET circuits
  OBVIOUS
<1>1. CASE Replaced(i)
  <2>1. Build(rest) /\ abandoned' = abandoned
    BY <1>1 DEF Replaced
  <2> HIDE DEF rest
  <2>2. QED
    BY <1>0, <2>1, ShrinksIs DEF rest
<1>2. CASE NotReplaced(i)
  <2>1. BuildFails(rest) /\ abandoned' \in {abandoned, abandoned \cup {i}}
    BY <1>2 DEF NotReplaced, LeavesPool
  <2>2. circuits' = rest
    BY <2>1 DEF BuildFails
  <2> HIDE DEF rest
  <2>3. QED
    BY <1>0, <2>1, <2>2, ShrinksIs DEF rest
<1>3. QED
  BY <1>1, <1>2 DEF ReplaceCircuit

\* What each step keeps, with the parts of RoundInv that it may disturb.
Remains ==
    /\ abandoned' \cap circuits' = {}
    /\ \A i \in abandoned' : i < nextId'
    /\ Remembers /\ StaysOut

LEMMA RemainsIs ==
    ASSUME Inv, RoundInv, NEW rest \in SUBSET circuits, Shrinks(rest),
           abandoned' = abandoned \/ (abandoned' \ abandoned \subseteq Id \ rest
                                       /\ circuits' = rest
                                       /\ \A i \in abandoned' : i < nextId),
           nextId \notin abandoned, Remembers
    PROVE  Remains
<1>1. /\ nextId \in Nat /\ abandoned \subseteq Id /\ circuits \subseteq Id
      /\ \A i \in Id : i \in Nat
      /\ abandoned \cap circuits = {} /\ \A i \in abandoned : i < nextId
  BY Parameters DEF Inv, TypeInv, TypeOK, RoundInv
<1>2. abandoned' \cap circuits' = {}
  <2>1. CASE abandoned' = abandoned
    BY <1>1, <2>1 DEF Shrinks
  <2>2. CASE abandoned' \ abandoned \subseteq Id \ rest /\ circuits' = rest
    BY <1>1, <2>2
  <2>3. QED
    BY <2>1, <2>2
<1>3. \A i \in abandoned' : i < nextId'
  <2>1. nextId' = nextId + 1 /\ \A i \in abandoned' : i < nextId /\ i \in Nat
    <3>1. abandoned' \subseteq Id
      BY <1>1
    <3>2. QED
      BY <1>1, <3>1 DEF Shrinks
  <2>2. QED
    BY <1>1, <2>1
<1>4. StaysOut
  BY <1>1 DEF Shrinks, StaysOut
<1>5. QED
  BY <1>2, <1>3, <1>4 DEF Remains

\* A step that does not build.
LEMMA StillRemains ==
    ASSUME RoundInv, UNCHANGED <<abandoned, nextId>>, circuits' \subseteq circuits,
           Remembers
    PROVE  Remains
  BY DEF RoundInv, Remains, StaysOut

LEMMA ConnectionRound ==
    ASSUME Inv, RoundInv, NEW c \in Conn, Connection(c)
    PROVE  RoundInv' /\ Remembers /\ StaysOut
<1>0. /\ cpc \in [Conn -> {"new", "selected", "begin", "waiting", "streaming",
                           "failed", "replace", "done"}]
      /\ circ \in [Conn -> Id \cup {NoCircuit}]
      /\ nextId \in Nat /\ \A i \in Id : i \in Nat
  BY Parameters DEF Inv, TypeInv, TypeOK
<1>1. UNCHANGED monitor /\ Remembers
  BY DEF Connection, Open, Wait, Recover, SelectReady, SelectBuilds, Register,
         Begin, Connected, Refused, ChannelClosed, Timeout, Finish, Cleanup,
         CheckCircuit, Replace, monitor, Remembers, Noticed
<1>2. CASE SelectReady(c)
  <2>1. PICK i \in circuits : circ' = [circ EXCEPT ![c] = i] /\ i < nextId
    BY <1>2 DEF SelectReady, InState, Inv, CapacityInv
  <2>2. Remains
    BY <1>1, <1>2, StillRemains DEF SelectReady, pool
  <2>3. QED
    BY <1>0, <1>1, <1>2, <2>1, <2>2
       DEF SelectReady, Goto, RoundInv, Remains, InState, monitor, circuit, pool
<1>3. CASE SelectBuilds(c)
  <2>1. Shrinks(circuits) /\ nextId \notin abandoned
    BY <1>3, ShrinksIs DEF SelectBuilds
  <2>2. Remains
    BY <1>1, <1>3, <2>1, RemainsIs DEF SelectBuilds
  <2>3. mpc # "idle" /\ mpc' # "idle"
    BY <1>1, <1>3 DEF SelectBuilds, PoolFree, monitor
  <2>4. \A d \in Conn : cpc'[d] \notin {"new", "done"} => circ'[d] < nextId'
    <3>1. CASE circ' = [circ EXCEPT ![c] = nextId] /\ Goto(c, "selected")
      BY <1>0, <2>1, <3>1 DEF Goto, RoundInv, Shrinks, Inv, TypeInv, Given
    <3>2. CASE circ' = circ /\ Goto(c, "done")
      BY <1>0, <2>1, <3>2 DEF Goto, RoundInv, Shrinks, Inv, TypeInv, Given
    <3>3. QED
      BY <1>3, <3>1, <3>2 DEF SelectBuilds
  <2>5. QED
    BY <1>1, <2>2, <2>3, <2>4 DEF Remains, RoundInv, monitor
<1>4. CASE Replace(c)
  <2>1. /\ ReplaceCircuit(circ[c]) /\ Goto(c, "done") /\ circ' = circ
        /\ mpc # "idle" /\ circ[c] \in Id /\ circ[c] < nextId
    BY <1>4 DEF Replace, PoolFree, Inv, TypeInv, Given, RoundInv
  <2>2. PICK i \in Id : i = circ[c]
    BY <2>1
  <2>3. /\ Shrinks(circuits \ {i}) /\ nextId \notin abandoned
        /\ abandoned' \in {abandoned, abandoned \cup {i}}
        /\ abandoned' # abandoned => circuits' = circuits \ {i}
    BY <2>1, <2>2, ReplaceShrinks
  <2>4. abandoned' = abandoned
        \/ (/\ abandoned' \ abandoned \subseteq Id \ (circuits \ {i})
            /\ circuits' = circuits \ {i}
            /\ \A j \in abandoned' : j < nextId)
    BY <2>1, <2>2, <2>3 DEF RoundInv
  <2>5. Remains
    <3>1. PICK rest : rest = circuits \ {i}
      OBVIOUS
    <3>2. rest \in SUBSET circuits
      BY <3>1
    <3>3. QED
      BY <1>1, <2>3, <2>4, <3>1, <3>2, RemainsIs
  <2>6. \A d \in Conn : cpc'[d] \notin {"new", "done"} => circ'[d] < nextId'
    BY <1>0, <2>1, <2>3 DEF Goto, RoundInv, Shrinks, Inv, TypeInv, Given
  <2>7. QED
    BY <1>1, <2>1, <2>5, <2>6 DEF Remains, RoundInv, monitor
<1>5. CASE /\ UNCHANGED <<circuits, nextId, abandoned, circ, state>>
           /\ cpc[c] \notin {"new", "done"}
           /\ \E label : Goto(c, label)
  <2>1. Remains
    BY <1>1, <1>5, StillRemains
  <2>2. \A d \in Conn : cpc'[d] \notin {"new", "done"} => circ'[d] < nextId'
    BY <1>0, <1>5 DEF Goto, RoundInv
  <2>3. QED
    BY <1>1, <1>5, <2>1, <2>2 DEF Remains, RoundInv, monitor, InState
<1>6. QED
  BY <1>2, <1>3, <1>4, <1>5
     DEF Connection, Open, Wait, Recover, Register, Begin,
         Connected, Refused, ChannelClosed, Timeout, Waits, Finish, Cleanup,
         CheckCircuit, pool, circuit

LEMMA MonitorRound ==
    ASSUME Inv, RoundInv, Monitor
    PROVE  RoundInv' /\ Remembers /\ StaysOut
<1>0. /\ nextId \in Nat /\ \A i \in Id : i \in Nat
      /\ circ \in [Conn -> Id \cup {NoCircuit}]
      /\ seen \subseteq Id /\ circuits \subseteq Id
  BY Parameters DEF Inv, TypeInv, TypeOK
<1>1. UNCHANGED task
  BY DEF Monitor, MonitorExpire, MonitorBuild, MonitorSeeDirty, MonitorSeeIdle,
         MonitorRemove, MonitorSeeFailed, MonitorCheck, MonitorReplace,
         MonitorSleep
<1>2. ASSUME nextId' \in {nextId, nextId + 1}
      PROVE  \A c \in Conn : cpc'[c] \notin {"new", "done"} => circ'[c] < nextId'
  BY <1>0, <1>1, <1>2 DEF task, RoundInv, Inv, TypeInv, Given
<1>3. CASE MonitorExpire
  <2>1. Remembers /\ mpc' = "build" /\ failed' = failed /\ failed = {}
        /\ UNCHANGED <<circuits, nextId, abandoned>>
    BY <1>3 DEF MonitorExpire, Remembers, Noticed, RoundInv
  <2>2. QED
    BY <1>2, <2>1, StillRemains DEF Remains, RoundInv
<1>4. CASE MonitorBuild
  <2>1. UNCHANGED <<mpc, failed, seen, abandoned>> /\ mpc = "build"
    BY <1>4 DEF MonitorBuild
  <2>2. Remembers
    BY <2>1 DEF Remembers, Noticed
  <2>3. Shrinks(circuits) /\ nextId \notin abandoned
    BY <1>4, ShrinksIs DEF MonitorBuild
  <2>4. Remains
    BY <2>1, <2>2, <2>3, RemainsIs
  <2>5. QED
    BY <1>2, <2>1, <2>3, <2>4 DEF Remains, RoundInv, Shrinks
<1>5. CASE MonitorSeeDirty
  <2>1. /\ Remembers /\ mpc' = "idle" /\ failed' = failed /\ failed = {}
        /\ InState("Dirty")' = InState("Dirty") /\ seen' = InState("Dirty")
        /\ UNCHANGED <<circuits, nextId, abandoned>>
    BY <1>5
       DEF MonitorSeeDirty, Remembers, Noticed, RoundInv, InState, pool, circuit
  <2>2. QED
    BY <1>2, <2>1, StillRemains DEF Remains, RoundInv
<1>6. CASE MonitorSeeIdle
  <2>1. Remembers /\ mpc' = "remove" /\ failed' = failed /\ failed = {}
        /\ UNCHANGED <<circuits, nextId, abandoned>>
    BY <1>6 DEF MonitorSeeIdle, Remembers, Noticed, RoundInv, pool
  <2>2. QED
    BY <1>2, <2>1, StillRemains DEF Remains, RoundInv
<1>7. CASE MonitorRemove
  <2>1. /\ Remembers /\ mpc' = "remove" /\ failed' = failed /\ failed = {}
        /\ UNCHANGED <<nextId, abandoned>> /\ circuits' \subseteq circuits
    BY <1>7 DEF MonitorRemove, Remembers, Noticed, RoundInv
  <2>2. QED
    BY <1>2, <2>1, StillRemains DEF Remains, RoundInv
<1>8. CASE MonitorSeeFailed
  <2>1. /\ Remembers /\ mpc' = "replace"
        /\ UNCHANGED <<nextId, abandoned, circuits>>
    BY <1>8 DEF MonitorSeeFailed, Remembers, Noticed, RoundInv, pool
  <2>2. QED
    BY <1>2, <2>1, StillRemains DEF Remains, RoundInv
<1>9. CASE MonitorCheck
  <2>1. PICK i \in failed :
           /\ failed' = failed \ {i}
           /\ IF i \in abandoned THEN UNCHANGED <<mpc, seen>>
              ELSE mpc' = "backoff" /\ seen' = {i}
    BY <1>9 DEF MonitorCheck
  <2>2. UNCHANGED <<nextId, abandoned, circuits>> /\ mpc = "replace" /\ i \in Id
    BY <1>9 DEF MonitorCheck, pool, Inv, TypeInv, TypeOK
  <2>3. Remembers
    <3>1. CASE i \in abandoned
      <4>1. i \notin circuits'
        BY <2>2, <3>1 DEF RoundInv
      <4>2. QED
        BY <2>1, <2>2, <3>1, <4>1 DEF Remembers, Noticed
    <3>2. CASE i \notin abandoned
      BY <2>1, <2>2, <3>2 DEF Remembers, Noticed
    <3>3. QED
      BY <3>1, <3>2
  <2>4. mpc' \in {"replace", "backoff"} /\ (mpc' = "backoff" => seen' = {i})
    BY <2>1, <2>2
  <2>5. QED
    BY <1>2, <2>2, <2>3, <2>4, StillRemains DEF Remains, RoundInv
<1>10. CASE MonitorReplace
  <2>1. PICK i \in Id : seen = {i} /\ ReplaceCircuit(i)
    BY <1>10 DEF MonitorReplace, RoundInv
  <2>2. mpc = "backoff" /\ mpc' = "replace" /\ seen' = {} /\ failed' = failed
    BY <1>10 DEF MonitorReplace
  <2>3. /\ Shrinks(circuits \ {i}) /\ nextId \notin abandoned
        /\ abandoned' \in {abandoned, abandoned \cup {i}}
        /\ abandoned' # abandoned => circuits' = circuits \ {i}
    BY <2>1, ReplaceShrinks
  <2>4. i < nextId
    BY <2>1 DEF Inv, CapacityInv
  <2>5. i \notin circuits'
    BY <1>0, <2>3, <2>4 DEF Shrinks
  <2>6. Remembers
    BY <2>1, <2>2, <2>5 DEF Remembers, Noticed
  <2>7. abandoned' = abandoned
        \/ (/\ abandoned' \ abandoned \subseteq Id \ (circuits \ {i})
            /\ circuits' = circuits \ {i}
            /\ \A j \in abandoned' : j < nextId)
    BY <2>1, <2>3, <2>4 DEF RoundInv
  <2>8. Remains
    <3>1. PICK rest : rest = circuits \ {i}
      OBVIOUS
    <3>2. rest \in SUBSET circuits
      BY <3>1
    <3>3. QED
      BY <2>3, <2>6, <2>7, <3>1, <3>2, RemainsIs
  <2>9. QED
    BY <1>2, <2>2, <2>3, <2>8 DEF Remains, RoundInv, Shrinks
<1>11. CASE MonitorSleep
  <2>1. Remembers /\ mpc' = "sleep" /\ failed' = {}
        /\ UNCHANGED <<nextId, abandoned, circuits>>
    BY <1>11 DEF MonitorSleep, Remembers, Noticed, pool
  <2>2. QED
    BY <1>2, <2>1, StillRemains DEF Remains, RoundInv
<1>12. QED
  BY <1>3, <1>4, <1>5, <1>6, <1>7, <1>8, <1>9, <1>10, <1>11 DEF Monitor

LEMMA EventRound ==
    ASSUME Inv, RoundInv, Age \/ \E i \in Id : Break(i) \/ Reader(i)
    PROVE  RoundInv' /\ Remembers /\ StaysOut
<1>1. /\ UNCHANGED <<circuits, nextId, abandoned>> /\ UNCHANGED task
      /\ UNCHANGED monitor
  BY DEF Age, Break, Reader, ReaderEof, ReaderDestroy, ReaderEnds, circuit, pool
<1>2. \A i \in Id : state'[i] = "Dirty" => state[i] = "Dirty"
  BY DEF Age, Break, Reader, ReaderEof, ReaderDestroy, ReaderEnds, circuit,
         Inv, TypeInv, TypeOK
<1>3. InState("Dirty")' \subseteq InState("Dirty")
  BY <1>1, <1>2 DEF InState, Inv, TypeInv, TypeOK
<1>4. Remembers
  BY <1>1 DEF Remembers, Noticed, monitor
<1>5. QED
  BY <1>1, <1>3, <1>4, StillRemains DEF Remains, RoundInv, monitor, task

LEMMA RoundNext ==
    Inv /\ RoundInv /\ [Next]_vars
      => /\ RoundInv'
         /\ [Remembers /\ StaysOut /\ Notices]_vars
<1> SUFFICES ASSUME Inv, RoundInv, [Next]_vars
             PROVE  RoundInv' /\ [Remembers /\ StaysOut /\ Notices]_vars
  OBVIOUS
<1>1. CASE UNCHANGED vars
  BY <1>1 DEF RoundInv, InState, vars, pool, circuit, task, monitor
<1>2. CASE Next
  <2>1. RoundInv' /\ Remembers /\ StaysOut
    BY <1>2, ConnectionRound, MonitorRound, EventRound DEF Next
  <2>2. Notices
    <3>1. MonitorSeeFailed => \A i \in InState("Closed") : Noticed(i)'
      BY DEF MonitorSeeFailed, Failed, Noticed
    <3>2. MonitorSeeIdle =>
             \A i \in InState("Dirty") : streams[i] = {} => Noticed(i)'
      BY DEF MonitorSeeIdle, Idle, Noticed, RoundInv
    <3>3. QED
      BY <3>1, <3>2 DEF Notices
  <2>3. QED
    BY <2>1, <2>2
<1>3. QED
  BY <1>1, <1>2

\* spawn_circuit_monitor: each closed circuit that a round finds in the pool,
\* and each expired one that it finds without streams, has left the pool for
\* good before the round ends, whatever the connections replace meanwhile.
THEOREM RoundIsThorough ==
    Spec => /\ [][Remembers /\ StaysOut /\ Notices]_vars
            /\ [](mpc = "sleep" => \A i \in Id : ~Noticed(i))
<1> DEFINE Rests == mpc = "sleep" => \A i \in Id : ~Noticed(i)
           All == Remembers /\ StaysOut /\ Notices
<1>1. Init => Inv /\ RoundInv
  BY TypeInit, CapacityInit, RoundInit DEF Inv
<1>2. Inv /\ RoundInv /\ [Next]_vars => Inv' /\ RoundInv' /\ [All]_vars
  BY CapacityNext, RoundNext
<1>3. RoundInv => Rests
  BY DEF RoundInv, Noticed
<1> HIDE DEF Rests, All
<1>4. Spec => [][All]_vars /\ []Rests
  BY <1>1, <1>2, <1>3, PTL DEF Spec
<1>5. QED
  BY <1>4 DEF Rests, All

=============================================================================
