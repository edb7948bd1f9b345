---------------------------- MODULE RelayLoadProofs ----------------------------
(***************************************************************************)
(* Proofs about RelayLoad, for any circuits, relays, number of hops and    *)
(* capacity of the connections.  The registry of a relay has one owner at  *)
(* a time.  Circuits that carry cells one way only get stuck only where    *)
(* registries are locked in a circle, which is for good; they do not where *)
(* all paths cross the relays in one order, as they do with three hops;    *)
(* and but for such a circle they stop only when they are done.            *)
(***************************************************************************)
EXTENDS RelayLoad, SequenceTheorems, WellFoundedInduction, TLAPS

\* The assumption on the constants, as the proofs use it.
LEMMA Parameters ==
    /\ N \in Nat /\ N > 1
    /\ Hop = 1 .. N /\ 1 \in Hop /\ N \in Hop
    /\ Path \in [Circuit -> [Hop -> Relay]]
    /\ Cap \in Nat /\ Cap > 0
    /\ None \notin Circuit \X Hop
BY LoadAssumption DEF LoadAssumption, Hop

\* The first and the remaining cells of a queue.
LEMMA QueueOps ==
    ASSUME NEW S, NEW q \in Seq(S), q # <<>>
    PROVE  Head(q) \in S /\ Tail(q) \in Seq(S)
OBVIOUS

\* A cell is taken from a connection.
LEMMA OneLess ==
    ASSUME NEW n \in 0 .. Cap, n > 0 PROVE n - 1 \in 0 .. Cap
BY Parameters

\* Changing what hop k of circuit c has.
LEMMA Updated ==
    ASSUME NEW S, NEW f \in [Circuit -> [Hop -> S]],
           NEW c \in Circuit, NEW k \in Hop, NEW v \in S
    PROVE  [f EXCEPT ![c][k] = v] \in [Circuit -> [Hop -> S]]
OBVIOUS

-----------------------------------------------------------------------------
(* Types.                                                                  *)

\* A client that is sending has something to send.
SendsSomething == \A c \in Circuit : client[c] = "sending" => todo[c] # <<>>

\* What a loop does with the registry is a cell, but never PADDING.
Work == {"data", "ask", "answering"}

\* Only an exit's loop has answers to write.
AnswersAtExit ==
    \A c \in Circuit, k \in Hop : loop[c][k] = "answering" => k = N

TypeInv == TypeOK /\ SendsSomething /\ AnswersAtExit

LEMMA TypeInit == Init => TypeInv
BY LoadAssumption, Parameters
   DEF LoadAssumption, Init, TypeInv, TypeOK, SendsSomething, AnswersAtExit,
       Cell

LEMMA TypeNext == TypeInv /\ [Next]_vars => TypeInv'
<1> SUFFICES ASSUME TypeInv, [Next]_vars PROVE TypeInv'
  OBVIOUS
<1> USE DEF TypeInv, TypeOK, SendsSomething, AnswersAtExit, ends, links, relays, sources, clock
<1>1. ASSUME NEW c \in Circuit, ClientLocks(c) PROVE TypeInv'
  BY <1>1 DEF ClientLocks
<1>2. ASSUME NEW c \in Circuit, ClientWrites(c) PROVE TypeInv'
  <2>1. todo[c] \in Seq(Cell) /\ todo[c] # <<>>
    BY <1>2 DEF ClientWrites, CanSend
  <2>2. Head(todo[c]) \in Cell /\ Tail(todo[c]) \in Seq(Cell)
    BY <2>1, QueueOps
  <2>3. Append(fwd[c][1], Head(todo[c])) \in Seq(Cell)
    BY <2>2, Parameters
  <2>4. fwd' \in [Circuit -> [Hop -> Seq(Cell)]]
    BY <1>2, <2>3, Parameters DEF ClientWrites
  <2>5. todo' \in [Circuit -> Seq(Cell)]
    BY <1>2, <2>2 DEF ClientWrites
  <2>6. QED
    BY <1>2, <2>4, <2>5 DEF ClientWrites
<1>3. ASSUME NEW c \in Circuit, ClientReads(c) PROVE TypeInv'
  <2>1. bwd[c][1] - 1 \in 0 .. Cap /\ 1 \in Hop
    BY <1>3, Parameters, bwd[c][1] \in 0 .. Cap DEF ClientReads
  <2>2. bwd' \in [Circuit -> [Hop -> 0 .. Cap]]
    BY <1>3, <2>1, Updated DEF ClientReads
  <2>3. QED
    BY <1>3, <2>2 DEF ClientReads
<1>4. ASSUME NEW c \in Circuit, ClientLeaves(c) PROVE TypeInv'
  <2>1. todo' \in [Circuit -> Seq(Cell)]
    BY <1>4 DEF ClientLeaves
  <2>2. QED
    BY <1>4, <2>1 DEF ClientLeaves
<1>5. ASSUME NEW c \in Circuit, NEW k \in Hop, LoopLocks(c, k) PROVE TypeInv'
  <2>1. Head(fwd[c][k]) \in {"data", "ask"} /\ Tail(fwd[c][k]) \in Seq(Cell)
    BY <1>5, QueueOps, fwd[c][k] \in Seq(Cell) DEF LoopLocks, CanTake, Cell
  <2>2. fwd' \in [Circuit -> [Hop -> Seq(Cell)]]
    BY <1>5, <2>1 DEF LoopLocks, Taken
  <2>3. lock' \in [Relay -> (Circuit \X Hop) \cup {None}]
    BY <1>5 DEF LoopLocks, Acquire
  <2>4. loop' \in [Circuit -> [Hop -> Work \cup {"reading", "ended"}]]
    BY <1>5, <2>1 DEF LoopLocks, Acquire, Work
  <2>5. AnswersAtExit'
    BY <1>5, <2>1 DEF LoopLocks, Acquire
  <2>6. QED
    BY <1>5, <2>2, <2>3, <2>4, <2>5 DEF LoopLocks, Work
<1>6. ASSUME NEW c \in Circuit, NEW k \in Hop, LoopDrops(c, k) PROVE TypeInv'
  <2>1. Tail(fwd[c][k]) \in Seq(Cell)
    BY <1>6, QueueOps, fwd[c][k] \in Seq(Cell) DEF LoopDrops, CanTake
  <2>2. QED
    BY <1>6, <2>1 DEF LoopDrops, Taken
<1>7. ASSUME NEW c \in Circuit, NEW k \in Hop, LoopForwards(c, k) PROVE TypeInv'
  <2>1. k + 1 \in Hop
    BY <1>7, Parameters DEF LoopForwards, CanForward
  <2>2. loop[c][k] \in Cell
    BY <1>7, Parameters DEF LoopForwards, CanForward, Busy, Cell
  <2>3. Append(fwd[c][k + 1], loop[c][k]) \in Seq(Cell)
    BY <2>1, <2>2
  <2>4. fwd' \in [Circuit -> [Hop -> Seq(Cell)]]
    BY <1>7, <2>1, <2>3 DEF LoopForwards
  <2>5. lock' \in [Relay -> (Circuit \X Hop) \cup {None}]
    BY <1>7 DEF LoopForwards, Release
  <2>6. QED
    BY <1>7, <2>4, <2>5 DEF LoopForwards, Release
<1>8. ASSUME NEW c \in Circuit, ExitQueues(c) PROVE TypeInv'
  <2>1. lock' \in [Relay -> (Circuit \X Hop) \cup {None}]
    BY <1>8 DEF ExitQueues, Release
  <2>2. QED
    BY <1>8, <2>1 DEF ExitQueues, Release
<1>9. ASSUME NEW c \in Circuit, ExitAnswers(c) PROVE TypeInv'
  BY <1>9 DEF ExitAnswers
<1>10. ASSUME NEW c \in Circuit, ExitReplies(c) PROVE TypeInv'
  <2>1. lock' \in [Relay -> (Circuit \X Hop) \cup {None}]
    BY <1>10 DEF ExitReplies, Release
  <2>2. bwd' \in [Circuit -> [Hop -> 0 .. Cap]]
    BY <1>10, Parameters DEF ExitReplies, CanReply, RoomBackward
  <2>3. QED
    BY <1>10, <2>1, <2>2 DEF ExitReplies, Release
<1>11. ASSUME NEW c \in Circuit, LoopEnds(c) PROVE TypeInv'
  <2>1. <<>> \in Seq(Cell) /\ 1 \in Hop
    BY Parameters
  <2>2. fwd' \in [Circuit -> [Hop -> Seq(Cell)]]
    BY <1>11, <2>1, Updated DEF LoopEnds
  <2>3. QED
    BY <1>11, <2>2 DEF LoopEnds
<1>12. ASSUME NEW c \in Circuit, NEW k \in Hop, ReaderEncrypts(c, k)
       PROVE  TypeInv'
  <2>1. k + 1 \in Hop /\ bwd[c][k + 1] > 0
    <3>1. k < N /\ bwd[c][k + 1] > 0
      BY <1>12 DEF ReaderEncrypts, CanEncrypt
    <3>2. QED
      BY <3>1, Parameters
  <2>2. bwd[c][k + 1] \in 0 .. Cap
    BY <2>1
  <2>3. bwd[c][k + 1] - 1 \in 0 .. Cap
    BY <2>1, <2>2, OneLess
  <2>4. bwd' \in [Circuit -> [Hop -> 0 .. Cap]]
    BY <1>12, <2>1, <2>3, Updated DEF ReaderEncrypts
  <2>5. QED
    BY <1>12, <2>4 DEF ReaderEncrypts, LockAfterResponse
<1>13. ASSUME NEW c \in Circuit, NEW k \in Hop, ReaderWrites(c, k)
       PROVE  TypeInv'
  <2>1. bwd[c][k] + 1 \in 0 .. Cap /\ k \in Hop
    BY <1>13, Parameters, bwd[c][k] \in 0 .. Cap
       DEF ReaderWrites, CanPassBack, RoomBackward
  <2>2. bwd' \in [Circuit -> [Hop -> 0 .. Cap]]
    BY <1>13, <2>1, Updated DEF ReaderWrites
  <2>3. QED
    BY <1>13, <2>2 DEF ReaderWrites
<1>14. ASSUME NEW c \in Circuit, ReaderFails(c) PROVE TypeInv'
  BY <1>14 DEF ReaderFails
<1>15. ASSUME NEW c \in Circuit, TaskReads(c) PROVE TypeInv'
  BY <1>15 DEF TaskReads
<1>16. ASSUME NEW c \in Circuit, TaskWrites(c) PROVE TypeInv'
  <2>1. bwd[c][N] + 1 \in 0 .. Cap /\ N \in Hop
    BY <1>16, Parameters, bwd[c][N] \in 0 .. Cap
       DEF TaskWrites, RoomBackward
  <2>2. bwd' \in [Circuit -> [Hop -> 0 .. Cap]]
    BY <1>16, <2>1, Updated DEF TaskWrites
  <2>3. QED
    BY <1>16, <2>2 DEF TaskWrites
<1>17. ASSUME NEW r \in Relay, HeartbeatDue(r) PROVE TypeInv'
  BY <1>17 DEF HeartbeatDue
<1>18. ASSUME NEW r \in Relay, HeartbeatSends(r) PROVE TypeInv'
  BY <1>18 DEF HeartbeatSends
<1>19. CASE UNCHANGED vars
  BY <1>19 DEF vars
<1> HIDE DEF TypeInv
<1>20. QED
  BY <1>1, <1>2, <1>3, <1>4, <1>5, <1>6, <1>7, <1>8, <1>9, <1>10, <1>11,
     <1>12, <1>13, <1>14, <1>15, <1>16, <1>17, <1>18, <1>19
     DEF Next, Progress, Client, Loop, Exit, Reader

\* Every reachable state is well typed, and no connection holds more than its
\* capacity.
THEOREM TypeCorrect == Spec => []TypeOK
<1>1. TypeInv => TypeOK
  BY DEF TypeInv
<1>2. QED
  BY <1>1, TypeInit, TypeNext, PTL DEF Spec

-----------------------------------------------------------------------------
(* The registry's lock.                                                    *)

\* The registry of a relay is locked for exactly one of its loops at a time,
\* and by nobody else once a step is over.
RegistryIsExclusive ==
    /\ \A c \in Circuit, k \in Hop :
        Busy(c, k) => lock[Path[c][k]] = <<c, k>>
    /\ \A r \in Relay :
        lock[r] # None =>
            \E c \in Circuit, k \in Hop :
                lock[r] = <<c, k>> /\ Busy(c, k) /\ Path[c][k] = r

LEMMA AcquireKeeps ==
    ASSUME TypeOK, RegistryIsExclusive,
           NEW c \in Circuit, NEW k \in Hop, NEW work \in Work,
           Acquire(c, k, work)
    PROVE  RegistryIsExclusive'
<1> DEFINE r == Path[c][k]
<1>1. r \in Relay /\ lock[r] = None /\ lock' = [lock EXCEPT ![r] = <<c, k>>]
  BY Parameters DEF Acquire, Free
<1>2. /\ Busy(c, k)'
      /\ \A d \in Circuit, l \in Hop : <<d, l>> # <<c, k>> => Busy(d, l)' = Busy(d, l)
  BY DEF TypeOK, Acquire, Busy, Work
<1>3. \A d \in Circuit, l \in Hop : Path[d][l] \in Relay
  BY Parameters
<1>4. \A q \in Relay : lock'[q] = IF q = r THEN <<c, k>> ELSE lock[q]
  BY <1>1 DEF TypeOK
<1>5. ASSUME NEW d \in Circuit, NEW l \in Hop, Busy(d, l)'
      PROVE  lock'[Path[d][l]] = <<d, l>>
  <2>1. CASE <<d, l>> = <<c, k>>
    BY <2>1, <1>4, <1>3
  <2>2. CASE <<d, l>> # <<c, k>>
    <3>1. lock[Path[d][l]] = <<d, l>>
      BY <2>2, <1>2, <1>5 DEF RegistryIsExclusive
    <3>2. <<d, l>> # None
      BY Parameters
    <3>3. QED
      BY <3>1, <3>2, <1>1, <1>3, <1>4
  <2>3. QED
    BY <2>1, <2>2
<1>6. ASSUME NEW q \in Relay, lock'[q] # None
      PROVE  \E d \in Circuit, l \in Hop :
                lock'[q] = <<d, l>> /\ Busy(d, l)' /\ Path[d][l] = q
  <2>1. CASE q = r
    BY <2>1, <1>2, <1>4
  <2>2. CASE q # r
    <3>1. lock'[q] = lock[q]
      BY <2>2, <1>4
    <3>2. PICK d \in Circuit, l \in Hop :
             lock[q] = <<d, l>> /\ Busy(d, l) /\ Path[d][l] = q
      BY <3>1, <1>6 DEF RegistryIsExclusive
    <3>3. <<d, l>> # <<c, k>>
      BY <3>2, <2>2
    <3>4. QED
      BY <3>1, <3>2, <3>3, <1>2
  <2>3. QED
    BY <2>1, <2>2
<1>7. QED
  BY <1>5, <1>6 DEF RegistryIsExclusive

LEMMA ReleaseKeeps ==
    ASSUME TypeOK, RegistryIsExclusive,
           NEW c \in Circuit, NEW k \in Hop, Busy(c, k), Release(c, k)
    PROVE  RegistryIsExclusive'
<1> DEFINE r == Path[c][k]
<1>1. r \in Relay /\ lock[r] = <<c, k>> /\ lock' = [lock EXCEPT ![r] = None]
  <2>1. r \in Relay
    BY Parameters
  <2>2. lock[r] = <<c, k>>
    BY DEF RegistryIsExclusive
  <2>3. QED
    BY <2>1, <2>2 DEF Release
<1>2. /\ ~Busy(c, k)'
      /\ \A d \in Circuit, l \in Hop : <<d, l>> # <<c, k>> => Busy(d, l)' = Busy(d, l)
  BY DEF TypeOK, Release, Busy
<1>3. \A d \in Circuit, l \in Hop : Path[d][l] \in Relay
  BY Parameters
<1>4. \A q \in Relay : lock'[q] = IF q = r THEN None ELSE lock[q]
  BY <1>1 DEF TypeOK
<1>5. ASSUME NEW d \in Circuit, NEW l \in Hop, Busy(d, l)'
      PROVE  lock'[Path[d][l]] = <<d, l>>
  <2>1. <<d, l>> # <<c, k>>
    BY <1>2, <1>5
  <2>2. lock[Path[d][l]] = <<d, l>>
    BY <2>1, <1>2, <1>5 DEF RegistryIsExclusive
  <2>3. QED
    BY <2>1, <2>2, <1>1, <1>3, <1>4
<1>6. ASSUME NEW q \in Relay, lock'[q] # None
      PROVE  \E d \in Circuit, l \in Hop :
                lock'[q] = <<d, l>> /\ Busy(d, l)' /\ Path[d][l] = q
  <2>1. q # r /\ lock'[q] = lock[q]
    BY <1>4, <1>6
  <2>2. PICK d \in Circuit, l \in Hop :
           lock[q] = <<d, l>> /\ Busy(d, l) /\ Path[d][l] = q
    BY <2>1, <1>6 DEF RegistryIsExclusive
  <2>3. QED
    BY <2>1, <2>2, <1>2
<1>7. QED
  BY <1>5, <1>6 DEF RegistryIsExclusive

\* A step of a loop that neither takes nor gives back the registry.
LEMMA WorkKeeps ==
    ASSUME RegistryIsExclusive, lock' = lock,
           \A c \in Circuit, k \in Hop : Busy(c, k)' = Busy(c, k)
    PROVE  RegistryIsExclusive'
BY DEF RegistryIsExclusive

LEMMA ExclusiveNext ==
    TypeOK /\ RegistryIsExclusive /\ [Next]_vars => RegistryIsExclusive'
<1> SUFFICES ASSUME TypeOK, RegistryIsExclusive, [Next]_vars
             PROVE  RegistryIsExclusive'
  OBVIOUS
<1>1. ASSUME NEW c \in Circuit, NEW k \in Hop, LoopLocks(c, k)
      PROVE  RegistryIsExclusive'
  <2>1. Head(fwd[c][k]) \in Work
    BY <1>1, QueueOps, fwd[c][k] \in Seq(Cell)
       DEF TypeOK, LoopLocks, CanTake, Cell, Work
  <2>2. QED
    BY <1>1, <2>1, AcquireKeeps DEF LoopLocks
<1>2. ASSUME NEW c \in Circuit, NEW k \in Hop, LoopForwards(c, k)
      PROVE  RegistryIsExclusive'
  BY <1>2, ReleaseKeeps DEF LoopForwards, CanForward
<1>3. ASSUME NEW c \in Circuit, ExitQueues(c) \/ ExitReplies(c)
      PROVE  RegistryIsExclusive'
  <2>1. N \in Hop /\ Busy(c, N) /\ Release(c, N)
    BY <1>3, Parameters DEF ExitQueues, ExitReplies, CanHandle, CanReply, Busy
  <2>2. QED
    BY <2>1, ReleaseKeeps
<1>4. ASSUME NEW c \in Circuit, ExitAnswers(c) \/ LoopEnds(c)
      PROVE  RegistryIsExclusive'
  <2>1. lock' = lock
    BY <1>4 DEF ExitAnswers, LoopEnds
  <2>2. ASSUME ExitAnswers(c), NEW d \in Circuit, NEW k \in Hop
        PROVE  Busy(d, k)' = Busy(d, k)
    BY <2>2, Parameters DEF TypeOK, ExitAnswers, CanHandle, Busy
  <2>3. ASSUME LoopEnds(c), NEW d \in Circuit, NEW k \in Hop
        PROVE  Busy(d, k)' = Busy(d, k)
    BY <2>3, Parameters DEF TypeOK, LoopEnds, Busy
  <2>4. QED
    BY <1>4, <2>1, <2>2, <2>3, WorkKeeps
<1>5. ASSUME UNCHANGED <<lock, loop>> PROVE RegistryIsExclusive'
  BY <1>5, WorkKeeps DEF Busy
<1>6. QED
  BY <1>1, <1>2, <1>3, <1>4, <1>5
     DEF Next, Progress, Client, Loop, Exit, Reader, ClientLocks, ClientWrites,
         ClientReads, ClientLeaves, LoopDrops, ReaderEncrypts,
         LockAfterResponse, ReaderWrites, ReaderFails, TaskReads, TaskWrites,
         HeartbeatDue, HeartbeatSends, relays, vars

\* The registry of a relay is locked for exactly one connection loop, the one
\* whose cell is being handled, whatever the circuits and their paths are.
THEOREM RegistryIsExclusiveHolds == Spec => []RegistryIsExclusive
<1>1. Init => RegistryIsExclusive
  BY Parameters DEF Init, RegistryIsExclusive, Busy
<1>2. QED
  BY <1>1, ExclusiveNext, TypeCorrect, PTL DEF Spec

-----------------------------------------------------------------------------
(* Circuits that carry cells one way only.                                 *)

\* The client of circuit c sends nothing but the keepalive.
Keeps(c) == Script[c] \in Seq({"padding"})

\* Each circuit either sends nothing else or has nothing to send back.
OneWay ==
    \A c \in Circuit :
        \/ Keeps(c)
        \/ Script[c] \in Seq({"data", "padding"}) /\ Down[c] = 0

\* The cells that circuit c carries towards its exit.
Carried(c) == IF Keeps(c) THEN {"padding"} ELSE {"data", "padding"}

Carries(c) ==
    /\ todo[c] \in Seq(Carried(c))
    /\ \A k \in Hop : /\ fwd[c][k] \in Seq(Carried(c))
                      /\ loop[c][k] \in Carried(c) \cup {"reading", "ended"}
    /\ ~Keeps(c) => task[c] = "reading" /\ down[c] = 0

\* Only an entry's loop ends, when there is nothing to come any more.
Ended(c) ==
    /\ client[c] = "left" => todo[c] = <<>>
    /\ \A k \in Hop : loop[c][k] = "ended" =>
                         k = 1 /\ client[c] = "left" /\ fwd[c][1] = <<>>

OneWayInv == \A c \in Circuit : Carries(c) /\ Ended(c)

LEMMA OneWayInit == OneWay /\ Init => OneWayInv
<1> SUFFICES ASSUME OneWay, Init, NEW c \in Circuit
             PROVE  Carries(c) /\ Ended(c)
  BY DEF OneWayInv
<1>1. Script[c] \in Seq(Carried(c))
  <2>1. CASE Keeps(c)
    BY <2>1 DEF Keeps, Carried
  <2>2. CASE ~Keeps(c)
    BY <2>2 DEF OneWay, Carried
  <2>3. QED
    BY <2>1, <2>2
<1>2. ~Keeps(c) => Down[c] = 0
  BY DEF OneWay
<1>3. \A k \in Hop : fwd[c][k] = <<>> /\ loop[c][k] = "reading"
  BY DEF Init
<1>4. QED
  BY <1>1, <1>2, <1>3 DEF Init, Carries, Ended

LEMMA OneWayNext == TypeInv /\ OneWayInv /\ [Next]_vars => OneWayInv'
<1> SUFFICES ASSUME TypeInv, OneWayInv, [Next]_vars, NEW d \in Circuit
             PROVE  Carries(d)' /\ Ended(d)'
  BY DEF OneWayInv
<1> DEFINE Goal == Carries(d)' /\ Ended(d)'
<1>0. Carries(d) /\ Ended(d)
  BY DEF OneWayInv
<1> USE DEF TypeInv, TypeOK
<1>1. ASSUME NEW c \in Circuit, ClientLocks(c) PROVE Goal
  BY <1>1, <1>0 DEF ClientLocks, Carries, Ended, links, relays, sources
<1>2. ASSUME NEW c \in Circuit, ClientWrites(c) PROVE Goal
  <2>1. CASE c # d
    BY <1>2, <2>1, <1>0
       DEF ClientWrites, Carries, Ended, relays, sources
  <2>2. CASE c = d
    <3>1. todo[c] # <<>> /\ client[c] # "left"
      BY <1>2 DEF ClientWrites, CanSend, SendsSomething
    <3>2. Head(todo[c]) \in Carried(c) /\ Tail(todo[c]) \in Seq(Carried(c))
      BY <1>0, <2>2, <3>1, QueueOps DEF Carries
    <3>3. 1 \in Hop /\ Append(fwd[c][1], Head(todo[c])) \in Seq(Carried(c))
      BY <1>0, <2>2, <3>2, Parameters DEF Carries
    <3>4. \A k \in Hop : fwd'[c][k] \in Seq(Carried(c))
      BY <1>2, <1>0, <2>2, <3>3 DEF ClientWrites, Carries
    <3>5. QED
      BY <1>2, <1>0, <2>2, <3>1, <3>2, <3>4
         DEF ClientWrites, Carries, Ended, relays, sources
  <2>3. QED
    BY <2>1, <2>2
<1>3. ASSUME NEW c \in Circuit, ClientLeaves(c) PROVE Goal
  BY <1>3, <1>0 DEF ClientLeaves, Carries, Ended, links, relays, sources
<1>4. ASSUME NEW c \in Circuit, NEW k \in Hop, LoopLocks(c, k) PROVE Goal
  <2>1. CASE c # d
    BY <1>4, <2>1, <1>0
       DEF LoopLocks, Acquire, Taken, Carries, Ended, ends, sources
  <2>2. CASE c = d
    <3>1. /\ Head(fwd[c][k]) \in Carried(c)
          /\ Tail(fwd[c][k]) \in Seq(Carried(c))
      BY <1>4, <1>0, <2>2, QueueOps DEF LoopLocks, CanTake, Carries
    <3>2. Head(fwd[c][k]) # "ended"
      BY <3>1 DEF Carried
    <3>3. QED
      BY <1>4, <1>0, <2>2, <3>1, <3>2
         DEF LoopLocks, CanTake, Acquire, Taken, Carries, Ended, ends, sources
  <2>3. QED
    BY <2>1, <2>2
<1>5. ASSUME NEW c \in Circuit, NEW k \in Hop, LoopDrops(c, k) PROVE Goal
  <2>1. CASE c # d
    BY <1>5, <2>1, <1>0
       DEF LoopDrops, Taken, Carries, Ended, ends, relays, sources
  <2>2. CASE c = d
    <3>1. Tail(fwd[c][k]) \in Seq(Carried(c))
      BY <1>5, <1>0, <2>2, QueueOps DEF LoopDrops, CanTake, Carries
    <3>2. QED
      BY <1>5, <1>0, <2>2, <3>1
         DEF LoopDrops, CanTake, Taken, Carries, Ended, ends, relays, sources
  <2>3. QED
    BY <2>1, <2>2
<1>6. ASSUME NEW c \in Circuit, NEW k \in Hop, LoopForwards(c, k) PROVE Goal
  <2>1. CASE c # d
    BY <1>6, <2>1, <1>0
       DEF LoopForwards, Release, Carries, Ended, ends, sources
  <2>2. CASE c = d
    <3>1. k + 1 \in Hop /\ k + 1 # 1
      BY <1>6, Parameters DEF LoopForwards, CanForward
    <3>2. loop[c][k] \in Carried(c)
      BY <1>6, <1>0, <2>2 DEF LoopForwards, CanForward, Busy, Carries
    <3>3. Append(fwd[c][k + 1], loop[c][k]) \in Seq(Carried(c))
      BY <1>0, <2>2, <3>1, <3>2 DEF Carries
    <3>4. \A j \in Hop : fwd'[c][j] \in Seq(Carried(c))
      BY <1>6, <1>0, <2>2, <3>1, <3>3 DEF LoopForwards, Carries
    <3>5. fwd'[c][1] = fwd[c][1]
      BY <1>6, <3>1, Parameters DEF LoopForwards
    <3>6. QED
      BY <1>6, <1>0, <2>2, <3>4, <3>5
         DEF LoopForwards, Release, Carries, Ended, ends, sources
  <2>3. QED
    BY <2>1, <2>2
<1>7. ASSUME NEW c \in Circuit, ExitQueues(c) PROVE Goal
  BY <1>7, <1>0, Parameters
     DEF ExitQueues, Release, Carries, Ended, ends, links, sources
<1>8. ASSUME NEW c \in Circuit, ExitAnswers(c) \/ ExitReplies(c) PROVE Goal
  <2>1. N \in Hop /\ loop[c][N] \in {"ask", "answering"}
    BY <1>8, Parameters DEF ExitAnswers, ExitReplies, CanHandle, CanReply
  <2>2. c # d
    BY <2>1, <1>0 DEF Carries, Carried
  <2>3. QED
    BY <1>8, <2>2, <1>0
       DEF ExitAnswers, ExitReplies, Release, Carries, Ended, ends, links,
           sources
<1>9. ASSUME NEW c \in Circuit, LoopEnds(c) PROVE Goal
  <2>1. /\ 1 \in Hop /\ <<>> \in Seq(Carried(c))
        /\ fwd' = [fwd EXCEPT ![c][1] = <<>>]
        /\ loop' = [loop EXCEPT ![c][1] = "ended"]
        /\ client[c] = "left"
        /\ UNCHANGED <<todo, client, task, down>>
    BY <1>9, Parameters DEF LoopEnds, ends, sources
  <2>2. Carries(d)'
    BY <2>1, <1>0 DEF Carries
  <2>3. Ended(d)'
    BY <2>1, <1>0 DEF Ended
  <2>4. QED
    BY <2>2, <2>3
<1>10. ASSUME NEW c \in Circuit, TaskReads(c) \/ TaskWrites(c) PROVE Goal
  <2>1. c = d => Keeps(d)
    BY <1>10, <1>0 DEF TaskReads, TaskWrites, Carries
  <2>2. QED
    BY <1>10, <2>1, <1>0
       DEF TaskReads, TaskWrites, Carries, Ended, ends, links, relays
<1>11. CASE UNCHANGED <<todo, client, fwd, loop, task, down>>
  BY <1>11, <1>0 DEF Carries, Ended
<1>12. QED
  BY <1>1, <1>2, <1>3, <1>4, <1>5, <1>6, <1>7, <1>8, <1>9, <1>10, <1>11
     DEF Next, Progress, Client, Loop, Exit, Reader, ClientReads,
         ReaderEncrypts, ReaderWrites, ReaderFails,
         HeartbeatDue, HeartbeatSends, relays, vars, ends, sources, links, clock

\* A loop that cannot be given a cell has the registry's owner in its way.
LEMMA FullLinkIsTaken ==
    ASSUME TypeInv, OneWayInv, NEW c \in Circuit, NEW k \in Hop,
           k < N, ~RoomForward(c, k + 1), ~Busy(c, k + 1), Free(c, k + 1)
    PROVE  CanTake(c, k + 1)
<1>1. k + 1 \in Hop /\ k + 1 # 1
  BY Parameters
<1>2. fwd[c][k + 1] \in Seq(Cell) /\ fwd[c][k + 1] # <<>>
  <2>1. fwd[c][k + 1] \in Seq(Cell)
    BY <1>1 DEF TypeInv, TypeOK
  <2>2. ~(Len(fwd[c][k + 1]) < Cap)
    BY DEF RoomForward
  <2>3. QED
    BY <2>1, <2>2, Parameters
<1>3. loop[c][k + 1] = "reading"
  BY <1>1 DEF OneWayInv, Ended, Busy
<1>4. QED
  BY <1>2, <1>3 DEF CanTake

\* What is not stuck at an exit is stuck at a relay that is locked as well.
LEMMA StuckInCircle ==
    ASSUME TypeInv, RegistryIsExclusive, OneWayInv
    PROVE  StuckOnlyInCircle
<1> SUFFICES ASSUME Pending, ~CanProceed PROVE Circle
  BY DEF StuckOnlyInCircle
<1> DEFINE L == {r \in Relay : lock[r] # None}
<1>1. ASSUME NEW c \in Circuit, NEW k \in Hop, Busy(c, k) PROVE Path[c][k] \in L
  <2>1. Path[c][k] \in Relay /\ <<c, k>> # None
    BY Parameters
  <2>2. lock[Path[c][k]] = <<c, k>>
    BY <1>1 DEF RegistryIsExclusive
  <2>3. QED
    BY <2>1, <2>2
<1>2. CASE \E c \in Circuit, k \in Hop : Busy(c, k)
  <2>1. L # {}
    BY <1>1, <1>2
  <2>2. ASSUME NEW r \in L
        PROVE  \E c \in Circuit, k \in Hop :
                  Blocked(c, k) /\ Path[c][k] = r /\ Path[c][k + 1] \in L
    <3>1. PICK c \in Circuit, k \in Hop : Busy(c, k) /\ Path[c][k] = r
      BY <2>2 DEF RegistryIsExclusive
    <3>2. loop[c][k] = "data" /\ ~Keeps(c)
      <4>1. loop[c][k] \in Carried(c)
        BY <3>1 DEF OneWayInv, Carries, Busy
      <4>2. loop[c][k] # "padding"
        BY DEF TypeInv, TypeOK
      <4>3. QED
        BY <4>1, <4>2 DEF Carried
    <3>3. k # N
      <4>1. task[c] = "reading"
        BY <3>2 DEF OneWayInv, Carries
      <4>2. k = N => CanHandle(c)
        BY <3>2, <4>1 DEF CanHandle
      <4>3. QED
        BY <4>2 DEF CanProceed
    <3>4. k < N /\ k + 1 \in Hop
      BY <3>3, Parameters
    <3>5. ~RoomForward(c, k + 1)
      BY <3>1, <3>4 DEF CanProceed, CanForward
    <3>6. Path[c][k + 1] \in L
      <4>1. CASE Busy(c, k + 1)
        BY <1>1, <3>4, <4>1
      <4>2. CASE ~Busy(c, k + 1)
        <5>1. ~Free(c, k + 1)
          BY <3>4, <3>5, <4>2, FullLinkIsTaken DEF CanProceed
        <5>2. QED
          BY <3>4, <5>1, Parameters DEF Free
      <4>3. QED
        BY <4>1, <4>2
    <3>7. QED
      BY <3>1, <3>4, <3>5, <3>6 DEF Blocked
  <2>3. QED
    BY <2>1, <2>2 DEF Circle
<1>3. CASE ~(\E c \in Circuit, k \in Hop : Busy(c, k))
  <2>1. \A c \in Circuit, k \in Hop : ~Busy(c, k) /\ Free(c, k)
    BY <1>3, Parameters DEF Free, RegistryIsExclusive
  <2>2. ASSUME NEW c \in Circuit, NEW k \in Hop, fwd[c][k] # <<>>
        PROVE  CanProceed
    <3>1. loop[c][k] = "reading"
      BY <2>1, <2>2 DEF OneWayInv, Ended, Busy
    <3>2. QED
      BY <2>1, <2>2, <3>1 DEF CanProceed, CanTake
  <2>3. ASSUME NEW c \in Circuit, todo[c] # <<>>, fwd[c][1] = <<>>
        PROVE  CanProceed
    <3>1. client[c] \in {"idle", "sending"}
      BY <2>3 DEF OneWayInv, Ended, TypeInv, TypeOK
    <3>2. RoomForward(c, 1)
      BY <2>3, Parameters DEF RoomForward
    <3>3. QED
      BY <2>3, <3>1, <3>2 DEF CanProceed, CanSend
  <2>4. QED
    BY <2>1, <2>2, <2>3, Parameters DEF Pending
<1>4. QED
  BY <1>2, <1>3

LEMMA OneWayInvariant ==
    ASSUME OneWay
    PROVE  Spec => [](TypeInv /\ RegistryIsExclusive /\ OneWayInv)
<1> DEFINE Inv == TypeInv /\ RegistryIsExclusive /\ OneWayInv
<1>1. Init => Inv
  BY TypeInit, OneWayInit, Parameters DEF Init, RegistryIsExclusive, Busy
<1>2. Inv /\ [Next]_vars => Inv'
  BY TypeNext, ExclusiveNext, OneWayNext DEF TypeInv
<1>3. QED
  BY <1>1, <1>2, PTL DEF Spec

\* Circuits that carry cells one way each, uploads and downloads together, over
\* any paths: only registries that are locked in a circle, each while a cell
\* waits for room on the way to the next one, keep everybody from going on.
THEOREM StuckOnlyInCircleHolds ==
    ASSUME OneWay PROVE Spec => []StuckOnlyInCircle
<1>1. TypeInv /\ RegistryIsExclusive /\ OneWayInv => StuckOnlyInCircle
  BY StuckInCircle
<1>2. QED
  BY <1>1, OneWayInvariant, PTL

-----------------------------------------------------------------------------
(* Registries that are locked in a circle.                                 *)

\* A loop that waits for room on the way to a locked relay goes on waiting.
LEMMA BlockedStays ==
    ASSUME TypeInv, Next, NEW c \in Circuit, NEW k \in Hop, Blocked(c, k),
           ~Free(c, k + 1)
    PROVE  Blocked(c, k)'
<1> DEFINE Goal == loop'[c][k] = loop[c][k] /\ fwd'[c][k + 1] = fwd[c][k + 1]
<1>1. /\ k < N /\ Busy(c, k) /\ ~RoomForward(c, k + 1)
      /\ k + 1 \in Hop /\ k + 1 # 1 /\ k # N
  BY Parameters DEF Blocked
<1> USE DEF TypeInv, TypeOK
<1>2. ASSUME NEW d \in Circuit, ClientWrites(d) PROVE Goal
  BY <1>1, <1>2, Parameters DEF ClientWrites, relays
<1>3. ASSUME NEW d \in Circuit, NEW j \in Hop, LoopLocks(d, j) PROVE Goal
  <2>1. <<d, j>> # <<c, k>> /\ <<d, j>> # <<c, k + 1>>
    BY <1>1, <1>3 DEF LoopLocks, CanTake, Busy
  <2>2. loop'[c][k] = loop[c][k]
    BY <1>3, <2>1 DEF LoopLocks, Acquire
  <2>3. fwd'[c][k + 1] = fwd[c][k + 1]
    BY <1>1, <1>3, <2>1 DEF LoopLocks, Taken
  <2>4. QED
    BY <2>2, <2>3
<1>4. ASSUME NEW d \in Circuit, NEW j \in Hop, LoopDrops(d, j) PROVE Goal
  <2>1. <<d, j>> # <<c, k + 1>>
    BY <1>1, <1>4 DEF LoopDrops, CanTake
  <2>2. QED
    BY <1>1, <1>4, <2>1 DEF LoopDrops, Taken, relays
<1>5. ASSUME NEW d \in Circuit, NEW j \in Hop, LoopForwards(d, j) PROVE Goal
  <2>1. <<d, j>> # <<c, k>> /\ j + 1 \in Hop
    BY <1>1, <1>5, Parameters DEF LoopForwards, CanForward
  <2>2. loop'[c][k] = loop[c][k]
    BY <1>5, <2>1 DEF LoopForwards, Release
  <2>3. <<d, j + 1>> # <<c, k + 1>>
    BY <2>1, Parameters
  <2>4. fwd'[c][k + 1] = fwd[c][k + 1]
    BY <1>1, <1>5, <2>1, <2>3 DEF LoopForwards
  <2>5. QED
    BY <2>2, <2>4
<1>6. ASSUME NEW d \in Circuit, ExitQueues(d) \/ ExitReplies(d) PROVE Goal
  <2>1. fwd' = fwd
    BY <1>6 DEF ExitQueues, ExitReplies, links
  <2>2. loop' = [loop EXCEPT ![d][N] = "reading"]
    BY <1>6 DEF ExitQueues, ExitReplies, Release
  <2>3. loop'[c][k] = loop[c][k]
    BY <1>1, <2>2
  <2>4. QED
    BY <2>1, <2>3
<1>7. ASSUME NEW d \in Circuit, ExitAnswers(d) PROVE Goal
  BY <1>1, <1>7, Parameters DEF ExitAnswers, links
<1>8. ASSUME NEW d \in Circuit, LoopEnds(d) PROVE Goal
  <2>1. <<d, 1>> # <<c, k>>
    BY <1>1, <1>8 DEF LoopEnds, Busy
  <2>2. QED
    BY <1>1, <1>8, <2>1, Parameters DEF LoopEnds
<1>9. ASSUME UNCHANGED <<fwd, loop>> PROVE Goal
  BY <1>9
<1> HIDE DEF TypeInv, TypeOK
<1>10. ASSUME NEW d \in Circuit,
              \/ Client(d) \/ ClientLeaves(d) \/ Exit(d) \/ LoopEnds(d)
              \/ ReaderFails(d) \/ TaskReads(d) \/ TaskWrites(d)
       PROVE  Goal
  <2>1. CASE \/ ClientLocks(d) \/ ClientReads(d) \/ ClientLeaves(d)
             \/ ReaderFails(d) \/ TaskReads(d) \/ TaskWrites(d)
    BY <1>9, <2>1
       DEF ClientLocks, ClientReads, ClientLeaves, ReaderFails, TaskReads,
           TaskWrites, relays, links
  <2>2. QED
    BY <1>2, <1>6, <1>7, <1>8, <1>10, <2>1 DEF Client, Exit
<1>11. ASSUME NEW d \in Circuit, NEW j \in Hop, Loop(d, j) \/ Reader(d, j)
       PROVE  Goal
  <2>1. CASE Reader(d, j)
    BY <1>9, <2>1 DEF Reader, ReaderEncrypts, ReaderWrites
  <2>2. QED
    BY <1>3, <1>4, <1>5, <1>11, <2>1 DEF Loop
<1>12. ASSUME NEW r \in Relay, HeartbeatDue(r) \/ HeartbeatSends(r) PROVE Goal
  BY <1>9, <1>12 DEF HeartbeatDue, HeartbeatSends, relays, links
<1>13. Goal
  BY <1>10, <1>11, <1>12 DEF Next, Progress
<1>14. Busy(c, k)' /\ ~RoomForward(c, k + 1)'
  BY <1>1, <1>13 DEF Busy, RoomForward
<1>15. QED
  BY <1>1, <1>14 DEF Blocked

LEMMA CircleStays ==
    ASSUME TypeInv, RegistryIsExclusive, [Next]_vars, Circle PROVE Circle'
<1>1. CASE UNCHANGED vars
  BY <1>1 DEF vars, relays, links, Circle, Blocked, Busy, RoomForward
<1>2. CASE Next
  <2>1. PICK L \in SUBSET {r \in Relay : lock[r] # None} :
           /\ L # {}
           /\ \A r \in L : \E c \in Circuit, k \in Hop :
                 Blocked(c, k) /\ Path[c][k] = r /\ Path[c][k + 1] \in L
    BY DEF Circle
  <2>2. RegistryIsExclusive'
    BY ExclusiveNext DEF TypeInv
  <2>3. ASSUME NEW r \in L
        PROVE  /\ lock'[r] # None
               /\ \E c \in Circuit, k \in Hop :
                     Blocked(c, k)' /\ Path[c][k] = r /\ Path[c][k + 1] \in L
    <3>1. PICK c \in Circuit, k \in Hop :
             Blocked(c, k) /\ Path[c][k] = r /\ Path[c][k + 1] \in L
      BY <2>1
    <3>2. ~Free(c, k + 1)
      BY <2>1, <3>1 DEF Free
    <3>3. Blocked(c, k)'
      BY <1>2, <3>1, <3>2, BlockedStays
    <3>4. lock'[r] = <<c, k>>
      BY <2>2, <3>1, <3>3 DEF RegistryIsExclusive, Blocked
    <3>5. QED
      BY <3>1, <3>3, <3>4, Parameters
  <2>4. L \in SUBSET {r \in Relay : lock'[r] # None} /\ L # {}
    BY <2>1, <2>3
  <2>5. QED
    BY <2>3, <2>4 DEF Circle
<1>3. QED
  BY <1>1, <1>2

\* main.rs: nothing resolves such a circle, whatever the circuits carry in either
\* direction, not even that clients leave: the relays serve none of their
\* circuits again.
THEOREM CircleIsForever == Spec => [][Circle => Circle']_vars
<1>1. TypeInv /\ RegistryIsExclusive /\ [Next]_vars => [Circle => Circle']_vars
  BY CircleStays
<1>2. Init => TypeInv /\ RegistryIsExclusive
  BY TypeInit, Parameters DEF Init, RegistryIsExclusive, Busy
<1>3. TypeInv /\ RegistryIsExclusive /\ [Next]_vars =>
         (TypeInv /\ RegistryIsExclusive)'
  BY TypeNext, ExclusiveNext DEF TypeInv
<1>4. QED
  BY <1>1, <1>2, <1>3, PTL DEF Spec

\* All paths cross the relays in one order.
Ordered ==
    \E rank \in [Relay -> Nat] : \A c \in Circuit, k \in Hop :
        k < N => rank[Path[c][k + 1]] < rank[Path[c][k]]

\* The relay of a circle that comes last in the order waits for no other one.
LEMMA NoCircleInOrder == ASSUME Ordered PROVE ~Circle
<1> SUFFICES ASSUME Circle PROVE FALSE
  OBVIOUS
<1>1. PICK rank \in [Relay -> Nat] : \A c \in Circuit, k \in Hop :
         k < N => rank[Path[c][k + 1]] < rank[Path[c][k]]
  BY DEF Ordered
<1>2. PICK L \in SUBSET {r \in Relay : lock[r] # None} :
         /\ L # {}
         /\ \A r \in L : \E c \in Circuit, k \in Hop :
               Blocked(c, k) /\ Path[c][k] = r /\ Path[c][k + 1] \in L
  BY DEF Circle
<1> DEFINE Ranks == {rank[r] : r \in L}
<1>3. Ranks \subseteq Nat /\ Ranks # {}
  <2>1. L \subseteq Relay /\ L # {}
    BY <1>2
  <2>2. QED
    BY <1>1, <2>1
<1>4. PICK n \in Ranks : \A m \in Ranks : ~(<<m, n>> \in OpToRel(<, Nat))
  BY <1>3, NatLessThanWellFounded, WFMin
<1>5. PICK r \in L : n = rank[r]
  OBVIOUS
<1>6. PICK c \in Circuit, k \in Hop :
         Blocked(c, k) /\ Path[c][k] = r /\ Path[c][k + 1] \in L
  BY <1>2
<1>7. rank[Path[c][k + 1]] < n
  BY <1>1, <1>5, <1>6 DEF Blocked
<1>8. rank[Path[c][k + 1]] \in Ranks
  BY <1>6
<1>9. QED
  BY <1>3, <1>4, <1>7, <1>8 DEF OpToRel

\* Circuits that carry cells one way each, over paths that cross the relays in
\* one order: the registries that stay locked while a cell waits for room are
\* never locked in a circle, whatever the number of circuits and hops and the
\* size of the buffers.
THEOREM OrderedNeverStuck ==
    ASSUME OneWay, Ordered PROVE Spec => []NeverStuck
<1>1. StuckOnlyInCircle => NeverStuck
  BY NoCircleInOrder DEF StuckOnlyInCircle, NeverStuck
<1>2. QED
  BY <1>1, StuckOnlyInCircleHolds, PTL

\* registry.rs: a path begins with an entry, ends with an exit, and has middles
\* between them.
ByType ==
    \E type \in [Relay -> {"entry", "middle", "exit"}] : \A c \in Circuit :
        /\ type[Path[c][1]] = "entry"
        /\ type[Path[c][N]] = "exit"
        /\ \A k \in Hop : k # 1 /\ k # N => type[Path[c][k]] = "middle"

LEMMA TypesAreAnOrder == ASSUME N = 3, ByType PROVE Ordered
<1>1. PICK type \in [Relay -> {"entry", "middle", "exit"}] :
         \A c \in Circuit :
            /\ type[Path[c][1]] = "entry"
            /\ type[Path[c][N]] = "exit"
            /\ \A k \in Hop : k # 1 /\ k # N => type[Path[c][k]] = "middle"
  BY DEF ByType
<1> DEFINE rank == [r \in Relay |-> IF type[r] = "entry" THEN 2
                                    ELSE IF type[r] = "middle" THEN 1 ELSE 0]
<1>2. rank \in [Relay -> Nat]
  OBVIOUS
<1>3. ASSUME NEW c \in Circuit, NEW k \in Hop, k < N
      PROVE  rank[Path[c][k + 1]] < rank[Path[c][k]]
  <2>1. Path[c][1] \in Relay /\ Path[c][2] \in Relay /\ Path[c][3] \in Relay
        /\ 2 \in Hop
    BY Parameters
  <2>2. rank[Path[c][1]] = 2 /\ rank[Path[c][2]] = 1 /\ rank[Path[c][3]] = 0
    BY <1>1, <2>1
  <2>3. k = 1 \/ k = 2
    BY <1>3, Parameters
  <2> HIDE DEF rank
  <2>4. CASE k = 1
    BY <2>2, <2>4
  <2>5. CASE k = 2
    BY <2>2, <2>5
  <2>6. QED
    BY <2>3, <2>4, <2>5
<1> HIDE DEF rank
<1>4. QED
  BY <1>2, <1>3 DEF Ordered

\* With three hops, the client's default, one-way circuits never get stuck: a
\* relay that is a middle is never an entry or an exit, so only middles could be
\* crossed in two orders, and there is one of them in a path.
THEOREM ThreeHopsNeverStuck ==
    ASSUME OneWay, N = 3, ByType PROVE Spec => []NeverStuck
BY TypesAreAnOrder, OrderedNeverStuck

-----------------------------------------------------------------------------
(* When nothing moves any more.                                            *)

\* Nobody on circuit c can take a step.
Quiet(c) ==
    /\ client[c] = "idle" => todo[c] = <<>> /\ bwd[c][1] = 0
    /\ client[c] = "left" => loop[c][1] # "reading" /\ reader[c][1] # "writing"
    /\ ~CanSend(c) /\ ~CanHandle(c) /\ ~CanReply(c)
    /\ task[c] = "reading" => down[c] = 0
    /\ task[c] = "writing" => ~RoomBackward(c, N)
    /\ \A k \in Hop : /\ ~CanTake(c, k) /\ ~CanForward(c, k)
                      /\ ~CanEncrypt(c, k) /\ ~CanPassBack(c, k)

\* No step of Progress can be taken: the guards of its actions, together.
AtRest ==
    /\ \A c \in Circuit : Quiet(c)
    /\ \A r \in Relay : due[r] => lock[r] # None

\* Only the reader of an entry ends, after its client.
ReadersInv ==
    \A c \in Circuit :
        /\ reader[c][N] = "reading"
        /\ \A k \in Hop : reader[c][k] = "ended" => k = 1 /\ client[c] = "left"

LEMMA ReadersNext == TypeInv /\ ReadersInv /\ [Next]_vars => ReadersInv'
<1> SUFFICES ASSUME TypeInv, ReadersInv, [Next]_vars, NEW d \in Circuit
             PROVE  /\ reader'[d][N] = "reading"
                    /\ \A k \in Hop : reader'[d][k] = "ended" =>
                                         k = 1 /\ client'[d] = "left"
  BY DEF ReadersInv
<1> DEFINE Goal == /\ reader'[d][N] = "reading"
                   /\ \A k \in Hop : reader'[d][k] = "ended" =>
                                        k = 1 /\ client'[d] = "left"
<1>0. /\ reader[d][N] = "reading"
      /\ \A k \in Hop : reader[d][k] = "ended" => k = 1 /\ client[d] = "left"
  BY DEF ReadersInv
<1> USE DEF TypeInv, TypeOK
<1>1. ASSUME NEW c \in Circuit, Client(c) \/ ClientLeaves(c) PROVE Goal
  <2>1. reader' = reader
    BY <1>1 DEF Client, ClientLocks, ClientWrites, ClientReads, ClientLeaves,
                relays
  <2>2. client[d] = "left" => client'[d] = "left"
    BY <1>1 DEF Client, ClientLocks, ClientWrites, ClientReads, ClientLeaves,
                CanSend, ends
  <2>3. QED
    BY <2>1, <2>2, <1>0
<1>2. ASSUME NEW c \in Circuit, NEW k \in Hop, Reader(c, k) PROVE Goal
  <2>1. client' = client
    BY <1>2 DEF Reader, ReaderEncrypts, ReaderWrites, ends
  <2>2. k # N
    BY <1>2, Parameters, <1>0
       DEF Reader, ReaderEncrypts, ReaderWrites, CanEncrypt, CanPassBack,
           ReadersInv
  <2>3. PICK v \in {"writing", "reading"} :
           reader' = [reader EXCEPT ![c][k] = v]
    BY <1>2 DEF Reader, ReaderEncrypts, ReaderWrites
  <2>4. reader \in [Circuit -> [Hop -> {"reading", "writing", "ended"}]]
    OBVIOUS
  <2>5. ASSUME NEW j \in Hop
        PROVE  reader'[d][j] = IF c = d /\ j = k THEN v ELSE reader[d][j]
    BY <2>3, <2>4
  <2>6. QED
    BY <2>1, <2>2, <2>5, <1>0, Parameters
<1>3. ASSUME NEW c \in Circuit, ReaderFails(c) PROVE Goal
  <2>1. /\ client' = client /\ client[c] = "left"
        /\ reader' = [reader EXCEPT ![c][1] = "ended"]
        /\ 1 \in Hop /\ N # 1
    BY <1>3, Parameters DEF ReaderFails, ends
  <2>2. QED
    BY <2>1, <1>0, Parameters
<1>4. CASE UNCHANGED <<client, reader>>
  BY <1>4, <1>0
<1>5. QED
  BY <1>1, <1>2, <1>3, <1>4
     DEF Next, Progress, Loop, Exit, LoopLocks, LoopDrops, LoopForwards,
         LoopEnds, ExitQueues, ExitAnswers, ExitReplies, TaskReads,
         TaskWrites, HeartbeatDue, HeartbeatSends, Release, Acquire, relays,
         vars, ends, sources, links, clock

\* The first of a set of hops.
LEMMA FirstHop ==
    ASSUME NEW K \in SUBSET Hop, K # {}
    PROVE  \E k \in K : \A j \in K : k <= j
<1>1. K \subseteq Nat
  BY Parameters
<1>2. PICK k \in K : \A j \in K : ~(<<j, k>> \in OpToRel(<, Nat))
  BY <1>1, NatLessThanWellFounded, WFMin
<1>3. ASSUME NEW j \in K PROVE k <= j
  <2>1. j \in Nat /\ k \in Nat
    BY <1>1
  <2>2. ~(j < k)
    BY <2>1, <1>2 DEF OpToRel
  <2>3. QED
    BY <2>1, <2>2
<1>4. QED
  BY <1>3

\* At rest no cell is on its way to an exit, unless there is a circle to wait in.
LEMMA NothingForward ==
    ASSUME TypeInv, RegistryIsExclusive, OneWayInv, AtRest, ~Circle
    PROVE  /\ ~Pending
           /\ \A r \in Relay : lock[r] = None
<1>1. ~CanProceed
  BY DEF AtRest, Quiet, CanProceed
<1>2. ~Pending
  BY <1>1, StuckInCircle DEF StuckOnlyInCircle
<1>3. \A r \in Relay : lock[r] = None
  BY <1>2 DEF Pending, RegistryIsExclusive
<1>4. QED
  BY <1>2, <1>3

\* Then the readers pass everything back: the first link with a cell on it is
\* one that its reader could take the cell from.
LEMMA NothingBack ==
    ASSUME TypeInv, RegistryIsExclusive, OneWayInv, ReadersInv, AtRest,
           ~Circle, NEW c \in Circuit, client[c] # "left"
    PROVE  /\ task[c] = "reading"
           /\ \A k \in Hop : bwd[c][k] = 0 /\ reader[c][k] = "reading"
<1>1. \A k \in Hop : bwd[c][k] \in 0 .. Cap
  BY DEF TypeInv, TypeOK
<1>2. \A k \in Hop : Free(c, k)
  BY NothingForward, Parameters DEF Free
<1>3. client[c] = "idle"
  <2>1. client[c] # "sending"
    BY NothingForward DEF TypeInv, SendsSomething, Pending
  <2>2. QED
    BY <2>1 DEF TypeInv, TypeOK
<1>4. bwd[c][1] = 0
  BY <1>3 DEF AtRest, Quiet
<1>5. ASSUME NEW k \in Hop, bwd[c][k] = 0 PROVE reader[c][k] = "reading"
  <2>1. RoomBackward(c, k)
    BY <1>5, Parameters DEF RoomBackward
  <2>2. reader[c][k] # "writing"
    BY <2>1 DEF AtRest, Quiet, CanPassBack
  <2>3. reader[c][k] # "ended"
    BY DEF ReadersInv
  <2>4. QED
    BY <2>2, <2>3 DEF TypeInv, TypeOK
<1>6. \A k \in Hop : bwd[c][k] = 0
  <2> DEFINE K == {k \in Hop : bwd[c][k] # 0}
  <2> SUFFICES ASSUME K # {} PROVE FALSE
    OBVIOUS
  <2>1. PICK k \in K : \A j \in K : k <= j
    BY FirstHop
  <2>2. k \in Hop /\ bwd[c][k] > 0 /\ k # 1
    BY <1>1, <1>4
  <2>3. k - 1 \in Hop /\ k - 1 < N /\ (k - 1) + 1 = k /\ ~(k <= k - 1)
    BY <2>2, Parameters
  <2>4. bwd[c][k - 1] = 0
    BY <2>1, <2>3
  <2>5. CanEncrypt(c, k - 1)
    BY <2>2, <2>3, <2>4, <1>2, <1>5 DEF CanEncrypt
  <2>6. QED
    BY <2>3, <2>5 DEF AtRest, Quiet
<1>7. task[c] = "reading"
  <2>1. RoomBackward(c, N)
    BY <1>6, Parameters DEF RoomBackward
  <2>2. QED
    BY <2>1 DEF AtRest, Quiet, TypeInv, TypeOK
<1>8. QED
  BY <1>5, <1>6, <1>7

\* The safety in CellsArrive, HeartbeatsGoOut and PermitIsReturned: nothing
\* can stop on the way, but in a circle.
DoneAtRest ==
    AtRest /\ ~Circle =>
        /\ \A c \in Circuit : client[c] = "left" \/ Arrived(c)
        /\ \A c \in Circuit : client[c] = "left" => loop[c][1] = "ended"
        /\ \A r \in Relay : ~due[r]

\* Circuits that carry cells one way each, over any paths, stop only when they
\* are done or in a circle of locked registries: every cell has arrived or its
\* client has left, the permits of those that have left are back, and no
\* heartbeat waits, whatever is locked on the way and however little the
\* connections hold.
THEOREM OneWayIsDoneAtRest ==
    ASSUME OneWay PROVE Spec => []DoneAtRest
<1> DEFINE Inv == TypeInv /\ RegistryIsExclusive /\ OneWayInv /\ ReadersInv
<1>1. Init => Inv
  BY TypeInit, OneWayInit, Parameters
     DEF Init, RegistryIsExclusive, Busy, ReadersInv
<1>2. Inv /\ [Next]_vars => Inv'
  BY TypeNext, ExclusiveNext, OneWayNext, ReadersNext DEF TypeInv
<1>3. Inv => DoneAtRest
  <2> SUFFICES ASSUME Inv, AtRest, ~Circle
               PROVE  /\ \A c \in Circuit : client[c] = "left" \/ Arrived(c)
                      /\ \A c \in Circuit :
                            client[c] = "left" => loop[c][1] = "ended"
                      /\ \A r \in Relay : ~due[r]
    BY DEF DoneAtRest
  <2>1. ~Pending /\ \A r \in Relay : lock[r] = None
    BY NothingForward
  <2>2. \A c \in Circuit, k \in Hop :
           /\ todo[c] = <<>> /\ fwd[c][k] = <<>>
           /\ loop[c][k] \in {"reading", "ended"}
    BY <2>1 DEF Pending, Busy
  <2>3. \A r \in Relay : ~due[r]
    BY <2>1 DEF AtRest
  <2>4. ASSUME NEW c \in Circuit, client[c] = "left"
        PROVE  loop[c][1] = "ended"
    BY <2>2, <2>4, Parameters DEF AtRest, Quiet
  <2>5. ASSUME NEW c \in Circuit, client[c] # "left" PROVE Arrived(c)
    <3>1. \A k \in Hop : loop[c][k] = "reading"
      BY <2>2, <2>5 DEF OneWayInv, Ended
    <3>2. /\ task[c] = "reading"
          /\ \A k \in Hop : bwd[c][k] = 0 /\ reader[c][k] = "reading"
      BY <2>5, NothingBack
    <3>3. down[c] = 0
      BY <3>2 DEF AtRest, Quiet
    <3>4. todo[c] = <<>> /\ \A k \in Hop : fwd[c][k] = <<>>
      BY <2>1 DEF Pending
    <3>5. QED
      BY <3>1, <3>2, <3>3, <3>4 DEF Arrived
  <2>6. QED
    BY <2>3, <2>4, <2>5
<1>4. QED
  BY <1>1, <1>2, <1>3, PTL DEF Spec

=============================================================================
