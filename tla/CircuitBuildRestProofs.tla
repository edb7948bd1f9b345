------------------------ MODULE CircuitBuildRestProofs ------------------------
(***************************************************************************)
(* Circuits under construction, at rest: where no task can take a step,    *)
(* nobody holds a lock but over a connection attempt that hangs, without   *)
(* failures every build is complete, and a relay that has given up has     *)
(* been heard of by its client, unless something on the way back hangs.    *)
(* This is what BuildsComplete, LocksAreReleased and GivingUpIsReported    *)
(* say, but for that the system comes to rest.                             *)
(***************************************************************************)
EXTENDS CircuitBuildProofs, WellFoundedInduction

\* No task can take a step: Progress is disabled.  A connection attempt that
\* hangs may still be ended by its peer.
ClientRests(b) ==
    cpc[b] = "waiting" => ~Readable(up, First(b)) /\ ~UpEnds(First(b))

LoopRests(l) ==
    /\ loop[l] = "read" =>
          /\ ~DownEnds(l)
          /\ Readable(down, l) =>
                /\ Head(down[l]).cmd # "CREATE"
                /\ Head(down[l]).cmd = "EXTEND" => ~LockFree(l)
    /\ loop[l] = "add" => ~LockFree(l)
    /\ loop[l] = "connect" => Stalls(l)
    /\ loop[l] = "await" => ~Readable(up, After(l)) /\ ~GivesUp(l)

ReaderRests(l) ==
    reader[l] = "run" =>
        /\ ~UpEnds(After(l))
        /\ Readable(up, After(l)) =>
              /\ ~LockFree(l)
              /\ l[2] = 1 => Head(up[After(l)]).cmd # "DESTROY"

AtRest ==
    /\ \A b \in Build : ClientRests(b)
    /\ \A l \in Hop : LoopRests(l) /\ ReaderRests(l)

LocksFree == \A r \in Relay : lock[r] = None \/ StallsAt(r)

BuildsDone == faults = 0 => \A b \in Build : cpc[b] \in {"idle", "ready"}

Reported ==
    \A l \in Hop :
        loop[l] = "ended" =>
            \/ cpc[l[1]] # "waiting"
            \/ \E j \in 1 .. l[2] : HeldUp(l, j)

-----------------------------------------------------------------------------
(* The invariant.                                                          *)

\* A lock is held by a loop that extends.
LockInv ==
    \A r \in Relay :
        lock[r] # None => /\ lock[r] \in Hop /\ RelayOf(lock[r]) = r
                          /\ loop[lock[r]] \in Asking

\* Nothing is at a hop before a connection leads to it.
Started(l) ==
    \/ reader[l] # "none" \/ next[l] \/ Handler(l) = l
    \/ down[l] # <<>> \/ up[l] # <<>>
    => loop[l] # "none"

\* A relay that has made the connection to its next hop awaits the answer, has
\* a reader for it, or has given up.
Joins(l) ==
    /\ loop[l] # "none" => cpc[l[1]] # "idle"
    /\ l[2] < N(l[1]) =>
          /\ loop[l] = "connect" => loop[After(l)] = "none"
          /\ loop[After(l)] # "none" /\ reader[l] = "none" =>
                loop[l] \in {"await", "ended"}
          /\ next[l] \/ loop[l] = "await" => loop[After(l)] # "none"

\* The client of a build that is under way has made its connection.
Opened(b) == cpc[b] = "waiting" => loop[First(b)] # "none"

\* What a loop awaits is on its way, or the connection is gone.
Awaits(l) ==
    loop[l] = "await" =>
        \/ After(l) \in broken \/ loop[After(l)] = "ended"
        \/ up[After(l)] # <<>>
        \/ /\ loop[After(l)] = "read"
           /\ down[After(l)] # <<>> /\ Head(down[After(l)]).cmd = "CREATE"

\* The handshake of a build may still succeed.
Live(b) ==
    \E m \in Hop : m[1] = b /\ \/ loop[m] \in Asking
                               \/ /\ m[2] = 1 \/ m[2] <= hops[b]
                                  /\ ~Bare(down[m]) \/ ~Bare(up[m])

Extended(l) == l[2] = 1 \/ next[Before(l)]

\* As long as it may, a loop has ended only because its connection broke.
LiveInv(l) ==
    /\ Live(l[1]) /\ loop[l] # "none" =>
          Extended(l) \/ loop[Before(l)] = "await"
    /\ Live(l[1]) /\ cpc[l[1]] = "waiting" /\ loop[l] = "ended" =>
          l \in broken

\* A reader outlives its loop only where one of its connections broke, or the
\* client has left.
Outlives(l) ==
    /\ next[l] => Extended(l)
    /\ loop[l] = "ended" /\ reader[l] = "run" =>
          l \in broken \/ After(l) \in broken \/ cpc[l[1]] # "waiting"

Alive(b) ==
    cpc[b] = "waiting" =>
        \E l \in Hop : l[1] = b /\ \/ down[l] # <<>> \/ up[l] # <<>>
                                   \/ loop[l] = "connect"

NoFaultInv ==
    faults = 0 =>
        /\ broken = {} /\ hung = {}
        /\ \A l \in Hop : /\ loop[l] # "ended" /\ reader[l] # "ended"
                          /\ NoDestroy(up[l])
        /\ \A b \in Build : cpc[b] # "failed" /\ Alive(b)

ChainInv ==
    /\ LockInv
    /\ \A l \in Hop : /\ Started(l) /\ Joins(l) /\ Awaits(l)
                      /\ LiveInv(l) /\ Outlives(l)
    /\ \A b \in Build : Opened(b)
    /\ NoFaultInv

-----------------------------------------------------------------------------
(* What each step does, hop by hop.                                        *)

LEMMA FirstIs ==
    ASSUME NEW b \in Build
    PROVE  /\ First(b) \in Hop /\ First(b)[1] = b /\ First(b)[2] = 1
           /\ \A m \in Hop : m[1] = b /\ m[2] = 1 => m = First(b)
<1>1. 1 \in 1 .. N(b)
  BY Paths
<1>2. QED
  BY <1>1, Paths DEF First

LEMMA BeforeIs ==
    ASSUME NEW l \in Hop, l[2] # 1
    PROVE  /\ Before(l) \in Hop /\ Before(l)[1] = l[1] /\ Before(l)[2] = l[2] - 1
           /\ Before(l)[2] < N(l[1]) /\ After(Before(l)) = l /\ Before(l) # l
<1>1. /\ l[1] \in Build /\ l[2] \in 1 .. N(l[1]) /\ l[2] \in Nat /\ l = <<l[1], l[2]>>
      /\ N(l[1]) \in Nat
  BY Paths
<1>2. l[2] - 1 \in 1 .. N(l[1]) /\ l[2] - 1 < N(l[1]) /\ (l[2] - 1) + 1 = l[2]
      /\ l[2] - 1 # l[2]
  BY <1>1
<1>3. Before(l) = <<l[1], l[2] - 1>>
  BY DEF Before
<1>4. Before(l) \in Hop
  BY <1>1, <1>2, <1>3, Paths
<1>5. QED
  BY <1>1, <1>2, <1>3, <1>4 DEF After

LEMMA BeforeAfter ==
    ASSUME NEW l \in Hop, l[2] < N(l[1])
    PROVE  Before(After(l)) = l /\ After(l)[2] # 1
<1>1. l[2] \in 1 .. N(l[1]) /\ l[2] \in Nat /\ l = <<l[1], l[2]>>
  BY Paths
<1>2. l[2] + 1 # 1 /\ (l[2] + 1) - 1 = l[2]
  BY <1>1
<1>3. QED
  BY <1>1, <1>2 DEF Before, After

LEMMA HandlerIs ==
    ASSUME Inv, NEW l \in Hop
    PROVE  /\ Handler(l) \in {None, l}
           /\ next[l] => Handler(l) = l /\ l[2] < N(l[1]) /\ l[2] <= hops[l[1]]
           /\ loop[l] \in Asking => Handler(l) = l /\ l[2] < N(l[1])
                                    /\ l[2] = hops[l[1]]
           /\ l[2] > hops[l[1]] => NoDestroy(up[l]) /\ ~next[l]
           /\ l[2] <= hops[l[1]] => Registered(l)
           /\ l[1] \in Build /\ hops[l[1]] \in Nat /\ l[2] \in Nat
<1>1. l[1] \in Build /\ l[2] \in Nat
  BY Paths
<1>2. Local(l) /\ hops[l[1]] \in Nat
  BY <1>1 DEF Inv, BuildInv, TypeInv
<1>3. QED
  BY <1>1, <1>2 DEF Local

\* Loops and readers, with what the handler has.
Move(m) ==
    \/ /\ loop'[m] = loop[m] /\ next'[m] = next[m]
       /\ reader'[m] = reader[m] \/ (reader[m] = "run" /\ reader'[m] = "ended")
    \/ /\ <<loop[m], loop'[m]>> \in
             {<<"none", "read">>, <<"read", "add">>, <<"read", "ended">>,
              <<"add", "read">>, <<"connect", "await">>, <<"connect", "ended">>,
              <<"await", "ended">>}
       /\ next'[m] = next[m] /\ reader'[m] = reader[m]
    \/ /\ loop[m] = "read" /\ loop'[m] = "connect" /\ ~next[m]
       /\ next'[m] = next[m] /\ reader'[m] = reader[m]
    \/ /\ loop[m] = "await" /\ next'[m]
       /\ \/ loop'[m] = "read" /\ reader'[m] = "run"
          \/ loop'[m] = "ended" /\ reader'[m] = reader[m]

\* Where connections begin.
Spawn(m) ==
    /\ loop[m] = "none" /\ loop'[m] # "none" =>
          \/ m[2] = 1 /\ cpc[m[1]] = "idle" /\ cpc'[m[1]] # "idle"
          \/ /\ m[2] # 1
             /\ loop[Before(m)] = "connect" /\ loop'[Before(m)] = "await"
    /\ loop[m] = "connect" /\ loop'[m] = "await" => loop'[After(m)] # "none"

\* The registry has a handler only for a loop that is there.
Fill(m) ==
    /\ Handler(m)' = m => Handler(m) = m \/ loop'[m] # "none"
    /\ down'[m] # <<>> => down[m] # <<>> \/ loop'[m] # "none"
    /\ up'[m] # <<>> => up[m] # <<>> \/ loop'[m] # "none"

Moves ==
    /\ \A m \in Hop : Move(m) /\ Spawn(m) /\ Fill(m)
    /\ \A b \in Build : /\ cpc[b] # "idle" => cpc'[b] # "idle"
                        /\ cpc[b] # "waiting" /\ cpc'[b] = "waiting" =>
                              cpc[b] = "idle"
    /\ broken \subseteq broken'

LEMMA Types ==
    ASSUME Inv
    PROVE  /\ cpc \in [Build -> {"idle", "waiting", "ready", "failed"}]
           /\ hops \in [Build -> Nat]
           /\ fpos \in [Hop -> Nat] /\ bpos \in [Hop -> Nat]
           /\ down \in [Hop -> Seq(Word)] /\ up \in [Hop -> Seq(Word)]
           /\ loop \in [Hop -> {"none", "read", "add", "connect", "await", "ended"}]
           /\ reader \in [Hop -> {"none", "run", "ended"}]
           /\ next \in [Hop -> BOOLEAN]
           /\ circuits \in [Relay -> [Id -> Hop \cup {None}]]
  BY DEF Inv, TypeInv

LEMMA OpenIsStarted ==
    ASSUME NEW l \in Hop, Started(l)
    PROVE  UpOpen(l) \/ DownOpen(l) => loop[l] # "none"
<1>1. reader[l] = "run" => loop[l] # "none"
  BY DEF Started
<1>2. QED
  BY <1>1 DEF UpOpen, DownOpen, Answers

\* Steps that leave loops, readers, registry and channels alone.
LEMMA StillMoves ==
    ASSUME UNCHANGED <<loop, reader, next, circuits, down, up>>,
           \A b \in Build : /\ cpc[b] # "idle" => cpc'[b] # "idle"
                            /\ cpc'[b] = "waiting" => cpc[b] = "waiting",
           broken \subseteq broken'
    PROVE  Moves
  BY DEF Moves, Move, Spawn, Fill, Handler, RelayOf, IdOf

LEMMA StartAt ==
    ASSUME Inv, NEW b \in Build, Start(b)
    PROVE  /\ cpc[b] = "idle"
           /\ UNCHANGED <<hops, up, reader, next, circuits, lock, broken, hung>>
           /\ \A d \in Build : d # b => cpc'[d] = cpc[d]
           /\ \/ /\ cpc'[b] = "waiting" /\ faults' = faults
                 /\ \A m \in Hop :
                       /\ loop'[m] = IF m = First(b) THEN "read" ELSE loop[m]
                       /\ down'[m] = IF m = First(b) THEN <<CREATE(m)>>
                                                     ELSE down[m]
              \/ cpc'[b] = "failed" /\ Fault /\ UNCHANGED <<loop, down>>
  BY Types, FirstIs DEF Start, Client, handler

LEMMA StartMoves ==
    ASSUME Inv, ChainInv, NEW b \in Build, Start(b) PROVE Moves
<1>1. loop[First(b)] = "none"
  BY StartAt, FirstIs DEF ChainInv, Joins
<1>2. /\ \A d \in Build : /\ cpc[d] # "idle" => cpc'[d] # "idle"
                          /\ cpc[d] # "waiting" /\ cpc'[d] = "waiting" =>
                                cpc[d] = "idle"
      /\ broken \subseteq broken'
  BY StartAt
<1>3. ASSUME NEW m \in Hop PROVE Move(m)
  BY <1>1, StartAt DEF Move
<1>4. ASSUME NEW m \in Hop PROVE Spawn(m)
  <2>1. CASE m = First(b)
    BY <1>1, <2>1, StartAt, FirstIs DEF Spawn
  <2>2. CASE m # First(b)
    BY <2>2, StartAt DEF Spawn
  <2>3. QED
    BY <2>1, <2>2
<1>5. ASSUME NEW m \in Hop PROVE Fill(m)
  BY StartAt DEF Fill, Handler, RelayOf, IdOf
<1>6. QED
  BY <1>2, <1>3, <1>4, <1>5 DEF Moves

\* The client's step: its answer is refused, or accepted.
LEMMA ClientKeyAt ==
    ASSUME Inv, NEW b \in Build, ClientKey(b)
    PROVE  /\ cpc[b] = "waiting" /\ up[First(b)] # <<>> /\ First(b) \notin hung
           /\ UNCHANGED <<loop, reader, next, circuits, lock, broken, hung, faults>>
           /\ \A d \in Build : d # b => cpc'[d] = cpc[d] /\ hops'[d] = hops[d]
           /\ \A m \in Hop : up'[m] = IF m = First(b) THEN Tail(up[m]) ELSE up[m]
           /\ \/ /\ cpc'[b] = "failed" /\ hops'[b] = hops[b] /\ down' = down
                 /\ Head(up[First(b)]).cmd = "DESTROY"
              \/ /\ hops'[b] = hops[b] + 1
                 /\ Head(up[First(b)]).cmd # "DESTROY"
                 /\ \/ cpc'[b] = "ready" /\ down' = down
                    \/ /\ cpc'[b] = "waiting"
                       /\ \E v : down' = PutDown(down, First(b), v)
<1> DEFINE f == First(b)
           w == Head(up[f])
<1>1. /\ cpc[b] = "waiting" /\ up[f] # <<>> /\ f \notin hung /\ up' = Taken(up, f)
      /\ UNCHANGED <<loop, reader, next, circuits, lock, broken, hung, faults>>
      /\ \/ /\ cpc' = [cpc EXCEPT ![b] = "failed"] /\ UNCHANGED <<hops, down>>
            /\ ~Verifies(b, w)
         \/ /\ hops' = [hops EXCEPT ![b] = hops[b] + 1] /\ Verifies(b, w)
            /\ \/ cpc' = [cpc EXCEPT ![b] = "ready"] /\ down' = down
               \/ cpc' = cpc /\ \E v : down' = PutDown(down, f, v)
  BY DEF ClientKey, Readable, Client, relays, handler, failures
<1>2. ~Verifies(b, w) => w.cmd = "DESTROY"
  BY <1>1, AnswerAccepted
<1>3. Verifies(b, w) => w.cmd # "DESTROY"
  BY DEF Verifies
<1>4. \A m \in Hop : up'[m] = IF m = f THEN Tail(up[m]) ELSE up[m]
  <2>1. up \in [Hop -> Seq(Word)] /\ f \in Hop
    BY Types, FirstIs
  <2>2. \A m \in Hop : Taken(up, f)[m] = IF m = f THEN Tail(up[f]) ELSE up[m]
    BY <1>1, <2>1, TakenAt
  <2>3. QED
    BY <1>1, <2>2
<1> HIDE DEF f, w
<1>5. QED
  BY <1>1, <1>2, <1>3, <1>4, Types DEF f, w

LEMMA PutsDown ==
    ASSUME Inv, NEW l \in Hop, Started(l), NEW v
    PROVE  /\ \A m \in Hop : m # l => PutDown(down, l, v)[m] = down[m]
           /\ PutDown(down, l, v)[l] # <<>> => down[l] # <<>> \/ loop[l] # "none"
           /\ DownOpen(l) => PutDown(down, l, v)[l] # <<>>
<1>1. down \in [Hop -> Seq(Word)]
  BY Types
<1>2. Append(down[l], v) # <<>>
  <2> DEFINE S == Word \cup {v}
  <2>1. down[l] \in Seq(S) /\ v \in S
    BY <1>1
  <2> HIDE DEF S
  <2>2. QED
    BY <2>1, AppendProperties
<1>3. QED
  BY <1>1, <1>2, OpenIsStarted DEF PutDown

LEMMA ClientKeyMoves ==
    ASSUME Inv, ChainInv, NEW b \in Build, ClientKey(b) PROVE Moves
<1>1. /\ \A d \in Build : /\ cpc[d] # "idle" => cpc'[d] # "idle"
                          /\ cpc'[d] = "waiting" => cpc[d] = "waiting"
      /\ broken \subseteq broken'
  BY ClientKeyAt
<1>2. \A m \in Hop : Move(m) /\ Spawn(m)
  BY ClientKeyAt DEF Move, Spawn
<1>3. ASSUME NEW m \in Hop PROVE Fill(m)
  <2>1. Handler(m)' = Handler(m)
    BY ClientKeyAt DEF Handler, RelayOf, IdOf
  <2>2. up'[m] # <<>> => up[m] # <<>>
    BY ClientKeyAt
  <2>3. down'[m] # <<>> => down[m] # <<>> \/ loop'[m] # "none"
    BY ClientKeyAt, PutsDown, FirstIs DEF ChainInv
  <2>4. QED
    BY <2>1, <2>2, <2>3 DEF Fill
<1>4. QED
  BY <1>1, <1>2, <1>3 DEF Moves

LEMMA AppendIs ==
    ASSUME NEW s \in Seq(Word), NEW w PROVE Append(s, w) # <<>>
<1> DEFINE S == Word \cup {w}
<1>1. s \in Seq(S) /\ w \in S
  OBVIOUS
<1> HIDE DEF S
<1>2. QED
  BY <1>1, AppendProperties

LEMMA CreatedAt ==
    ASSUME Inv, NEW l \in Hop, Created(l)
    PROVE  /\ loop[l] = "read" /\ down[l] # <<>> /\ Head(down[l]).cmd = "CREATE"
           /\ Creating(l[1]) /\ l = Goal(l[1]) /\ Bare(Tail(down[l]))
           /\ UNCHANGED <<cpc, hops, reader, next, circuits, lock, broken, hung,
                          faults>>
           /\ \A m \in Hop : m # l => /\ loop'[m] = loop[m]
                                      /\ down'[m] = down[m] /\ up'[m] = up[m]
           /\ down'[l] = Tail(down[l])
           /\ \/ loop'[l] = "add"
              \/ ~UpOpen(l) /\ loop'[l] = "ended"
           /\ IF UpOpen(l)
              THEN up'[l] = Append(up[l], Cell("CREATED", l, {})) /\ up'[l] # <<>>
              ELSE up'[l] = up[l]
<1> DEFINE b == l[1]
           v == Cell("CREATED", l, {})
<1>1. /\ loop[l] = "read" /\ down[l] # <<>> /\ Head(down[l]).cmd = "CREATE"
      /\ down' = Taken(down, l) /\ up' = PutUp(up, l, v)
      /\ \/ loop' = [loop EXCEPT ![l] = "add"]
         \/ ~UpOpen(l) /\ loop' = [loop EXCEPT ![l] = "ended"]
      /\ UNCHANGED <<cpc, hops, reader, next, circuits, lock, broken, hung, faults>>
  BY DEF Created, Readable, CreatedThen, Loop, client, handler, failures
<1>2. b \in Build
  BY Paths
<1>3. Creating(b) /\ l = Goal(b) /\ Bare(Tail(down[l]))
  <2>1. Head(down[l]).cmd # "DESTROY"
    BY <1>1
  <2>2. \A j : Head(down[l]) # EXTEND(b, j)
    BY <1>1 DEF EXTEND, Cell
  <2>3. QED
    BY <1>1, <1>2, <2>1, <2>2, DownHead
<1>4. down \in [Hop -> Seq(Word)] /\ up \in [Hop -> Seq(Word)] /\ v \in Word
  BY Types, CellsAre
<1> HIDE DEF v
<1>5. \A m \in Hop : down'[m] = IF m = l THEN Tail(down[l]) ELSE down[m]
  BY <1>1, <1>4, TakenAt
<1>6. \A m \in Hop : up'[m] = IF m = l /\ UpOpen(l) THEN Append(up[l], v) ELSE up[m]
  BY <1>1, <1>4, PutUpAt
<1>7. Append(up[l], v) # <<>>
  BY <1>4, AppendIs
<1>8. /\ \A m \in Hop : m # l => loop'[m] = loop[m]
      /\ \/ loop'[l] = "add"
         \/ ~UpOpen(l) /\ loop'[l] = "ended"
  BY <1>1, Types
<1>9. /\ \A m \in Hop : m # l => down'[m] = down[m] /\ up'[m] = up[m]
      /\ down'[l] = Tail(down[l])
      /\ IF UpOpen(l) THEN up'[l] = Append(up[l], v) /\ up'[l] # <<>>
                      ELSE up'[l] = up[l]
  BY <1>5, <1>6, <1>7
<1>10. QED
  BY <1>1, <1>3, <1>8, <1>9 DEF v

LEMMA AddCircuitAt ==
    ASSUME Inv, NEW l \in Hop, AddCircuit(l)
    PROVE  /\ loop[l] = "add" /\ loop'[l] = "read"
           /\ UNCHANGED <<cpc, hops, down, up, reader, next, lock, broken, hung,
                          faults>>
           /\ \A m \in Hop : m # l => /\ loop'[m] = loop[m]
                                      /\ Handler(m)' = m => Handler(m) = m
<1>1. circuits' = [circuits EXCEPT ![RelayOf(l)][IdOf(l)] = l]
  BY DEF AddCircuit
<1>2. ASSUME NEW m \in Hop, m # l, Handler(m)' = m PROVE Handler(m) = m
  BY <1>1, <1>2, Types, RelaysAre DEF Handler, RelayOf, IdOf
<1>3. QED
  BY <1>2, Types DEF AddCircuit, Loop, client, handler, failures

LEMMA ExtendAt ==
    ASSUME Inv, NEW l \in Hop, Extend(l)
    PROVE  /\ loop[l] = "read" /\ down[l] # <<>> /\ Head(down[l]).cmd = "EXTEND"
           /\ Extending(l[1]) /\ l[2] \in 1 .. hops[l[1]] /\ Handler(l) = l
           /\ Bares(down, l[1], {l[2]}) /\ Bare(Tail(down[l]))
           /\ UNCHANGED <<cpc, hops, up, reader, next, circuits, broken, hung,
                          faults>>
           /\ down'[l] = Tail(down[l])
           /\ \A m \in Hop : m # l => /\ loop'[m] = loop[m]
                                      /\ m # After(l) => down'[m] = down[m]
           /\ \/ /\ next[l] /\ lock' = lock
                 /\ IF DownOpen(After(l))
                    THEN down'[After(l)] # <<>> ELSE down'[After(l)] = down[After(l)]
                 /\ \/ loop'[l] = loop[l]
                    \/ ~DownOpen(After(l)) /\ loop'[l] = "ended"
              \/ /\ ~next[l] /\ l[2] = hops[l[1]] /\ loop'[l] = "connect"
                 /\ LockFree(l) /\ lock' = [lock EXCEPT ![RelayOf(l)] = l]
                 /\ \A m \in Hop : m # l => down'[m] = down[m]
              \/ /\ ~next[l] /\ l[2] # hops[l[1]] /\ loop'[l] = "ended"
                 /\ lock' = lock
                 /\ \A m \in Hop : m # l => down'[m] = down[m]
<1> DEFINE a == After(l)
           w == Crypt(Head(down[l]), l, fpos)
           rest == Taken(down, l)
<1>1. /\ loop[l] = "read" /\ down[l] # <<>> /\ Head(down[l]).cmd = "EXTEND"
      /\ Extending(l[1]) /\ l[2] \in 1 .. hops[l[1]] /\ Handler(l) = l
      /\ Bares(down, l[1], {l[2]}) /\ Bare(Tail(down[l]))
      /\ next[l] => a \in Hop /\ a # l
      /\ w \in Word /\ (w.layers = {} <=> l[2] = hops[l[1]])
      /\ UNCHANGED <<cpc, hops, up, reader, next, circuits>>
      /\ down' = IF next[l] THEN PutDown(rest, a, w) ELSE rest
      /\ \/ next[l] /\ loop' = loop
         \/ next[l] /\ ~DownOpen(a) /\ loop' = [loop EXCEPT ![l] = "ended"]
         \/ ~next[l] /\ w.layers = {} /\ loop' = [loop EXCEPT ![l] = "connect"]
         \/ ~next[l] /\ w.layers # {} /\ loop' = [loop EXCEPT ![l] = "ended"]
  BY ExtendIs
<1>2. /\ LockFree(l) /\ UNCHANGED <<broken, hung, faults>>
      /\ lock' = IF ~next[l] /\ w.layers = {} THEN [lock EXCEPT ![RelayOf(l)] = l]
                                              ELSE lock
  <2>1. l # None
    BY NoneAssumption
  <2>2. QED
    BY <1>1, <2>1 DEF Extend, failures
<1>3. down \in [Hop -> Seq(Word)]
  BY Types
<1> HIDE DEF w, a
<1>4. /\ rest \in [Hop -> Seq(Word)]
      /\ \A m \in Hop : rest[m] = IF m = l THEN Tail(down[l]) ELSE down[m]
  BY <1>1, <1>3, TakenAt
<1> HIDE DEF rest
<1>5. ASSUME next[l]
      PROVE  /\ \A m \in Hop : m # a => down'[m] = rest[m]
             /\ IF DownOpen(a) THEN down'[a] # <<>> ELSE down'[a] = down[a]
  <2>1. \A m \in Hop : PutDown(rest, a, w)[m] =
                          IF m = a /\ DownOpen(a) THEN Append(rest[a], w) ELSE rest[m]
    BY <1>1, <1>4, <1>5, PutDownAt
  <2>2. Append(rest[a], w) # <<>> /\ rest[a] = down[a]
    BY <1>1, <1>4, <1>5, AppendIs
  <2>3. QED
    BY <1>1, <1>5, <2>1, <2>2
<1>6. down'[l] = Tail(down[l]) /\ \A m \in Hop : m # l /\ m # a => down'[m] = down[m]
  BY <1>1, <1>4, <1>5
<1>7. ~next[l] => \A m \in Hop : m # l => down'[m] = down[m]
  BY <1>1, <1>4
<1>8. CASE next[l]
  BY <1>1, <1>2, <1>5, <1>6, <1>8, Types DEF a
<1>9. CASE ~next[l]
  BY <1>1, <1>2, <1>6, <1>7, <1>9, Types DEF a
<1>10. QED
  BY <1>8, <1>9

LEMMA ConnectAt ==
    ASSUME Inv, NEW l \in Hop, Connect(l)
    PROVE  /\ loop[l] = "connect" /\ l[2] < N(l[1]) /\ l[2] = hops[l[1]]
           /\ After(l) \in Hop /\ After(l) # l
           /\ UNCHANGED <<cpc, hops, up, reader, next, circuits, lock, broken, hung,
                          faults>>
           /\ \A m \in Hop :
                 /\ loop'[m] = IF m = l THEN "await"
                               ELSE IF m = After(l) THEN "read" ELSE loop[m]
                 /\ down'[m] = IF m = After(l) THEN <<CREATE(m)>> ELSE down[m]
<1>1. loop[l] = "connect" /\ l[2] < N(l[1]) /\ l[2] = hops[l[1]]
  BY HandlerIs DEF Connect, Asking
<1>2. After(l) \in Hop /\ After(l) # l
  BY <1>1, Neighbours
<1>3. QED
  BY <1>1, <1>2, Types DEF Connect, client, handler, failures

LEMMA FailsAt ==
    ASSUME Inv, NEW l \in Hop, ConnectFails(l) \/ StallEnds(l) \/ AwaitFails(l)
    PROVE  /\ loop[l] \in Asking /\ loop'[l] = "ended"
           /\ UNCHANGED <<cpc, hops, down, up, reader, next, circuits, broken, hung>>
           /\ \A m \in Hop : m # l => loop'[m] = loop[m]
           /\ lock' = [lock EXCEPT ![RelayOf(l)] = None]
           /\ \/ loop[l] = "await" /\ GivesUp(l) /\ faults' = faults
              \/ loop[l] = "connect" /\ Fault
              \/ Stalls(l) /\ faults' = faults
<1>1. loop[l] \in Asking
  BY DEF ConnectFails, StallEnds, Stalls, AwaitFails, Asking
<1>2. ExtendFails(l)
  BY DEF ConnectFails, StallEnds, AwaitFails
<1>3. \/ loop[l] = "await" /\ GivesUp(l) /\ faults' = faults
      \/ loop[l] = "connect" /\ Fault
      \/ Stalls(l) /\ faults' = faults
  BY DEF ConnectFails, StallEnds, AwaitFails
<1>4. QED
  BY <1>1, <1>2, <1>3, Types DEF ExtendFails, Loop, Unlock, client, handler

LEMMA ExtendDoneAt ==
    ASSUME Inv, NEW l \in Hop, ExtendDone(l)
    PROVE  /\ loop[l] = "await" /\ l[2] < N(l[1]) /\ l[2] = hops[l[1]]
           /\ After(l) \in Hop /\ After(l) # l /\ up[After(l)] # <<>>
           /\ UNCHANGED <<cpc, hops, down, circuits, broken, hung, faults>>
           /\ lock' = [lock EXCEPT ![RelayOf(l)] = None]
           /\ \A m \in Hop : m # l => /\ loop'[m] = loop[m] /\ next'[m] = next[m]
                                      /\ reader'[m] = reader[m]
                                      /\ m # After(l) => up'[m] = up[m]
           /\ next'[l] /\ up'[After(l)] = Tail(up[After(l)])
           /\ \/ loop'[l] = "read" /\ reader'[l] = "run"
              \/ ~UpOpen(l) /\ loop'[l] = "ended" /\ reader'[l] = reader[l]
           /\ IF UpOpen(l)
              THEN /\ up'[l] # <<>>
                   /\ \E w \in Word : w.cmd # "DESTROY" /\ up'[l] = Append(up[l], w)
              ELSE up'[l] = up[l]
<1> DEFINE a == After(l)
           w == Crypt(Cell("EXTENDED", After(l), {}), l, bpos)
<1>1. loop[l] = "await" /\ l[2] < N(l[1]) /\ l[2] = hops[l[1]]
  BY HandlerIs DEF ExtendDone, Asking
<1>2. a \in Hop /\ a # l
  BY <1>1, Neighbours
<1>3. up \in [Hop -> Seq(Word)] /\ up[a] # <<>> /\ w \in Word /\ w.cmd # "DESTROY"
  BY <1>2, Types, CellsAre DEF ExtendDone, Readable, Cell
<1>4. up' = PutUp(Taken(up, a), l, w)
  BY DEF ExtendDone
<1>5. /\ UNCHANGED <<cpc, hops, down, circuits, broken, hung, faults>>
      /\ lock' = [lock EXCEPT ![RelayOf(l)] = None]
      /\ next'[l] /\ \A m \in Hop : m # l => next'[m] = next[m]
      /\ \A m \in Hop : m # l => loop'[m] = loop[m] /\ reader'[m] = reader[m]
      /\ \/ loop'[l] = "read" /\ reader'[l] = "run"
         \/ ~UpOpen(l) /\ loop'[l] = "ended" /\ reader'[l] = reader[l]
  BY Types DEF ExtendDone, Unlock, Loop, client, failures
<1> HIDE DEF a, w
<1>6. /\ Taken(up, a) \in [Hop -> Seq(Word)]
      /\ \A m \in Hop : Taken(up, a)[m] = IF m = a THEN Tail(up[a]) ELSE up[m]
  BY <1>2, <1>3, TakenAt
<1>7. \A m \in Hop : up'[m] = IF m = l /\ UpOpen(l) THEN Append(Taken(up, a)[l], w)
                                                   ELSE Taken(up, a)[m]
  BY <1>3, <1>4, <1>6, PutUpAt
<1>8. Append(up[l], w) # <<>> /\ Taken(up, a)[l] = up[l]
  BY <1>2, <1>3, <1>6, AppendIs
<1>9. up'[a] = Tail(up[a]) /\ \A m \in Hop : m # l /\ m # a => up'[m] = up[m]
  BY <1>2, <1>6, <1>7
<1>10. IF UpOpen(l)
       THEN up'[l] # <<>> /\ \E v \in Word : v.cmd # "DESTROY" /\ up'[l] = Append(up[l], v)
       ELSE up'[l] = up[l]
  BY <1>3, <1>7, <1>8
<1>11. QED
  BY <1>1, <1>2, <1>3, <1>5, <1>9, <1>10 DEF a

LEMMA LoopEofAt ==
    ASSUME Inv, NEW l \in Hop, LoopEof(l)
    PROVE  /\ loop[l] = "read" /\ DownEnds(l) /\ loop'[l] = "ended"
           /\ UNCHANGED <<cpc, hops, down, up, reader, next, circuits, lock, broken,
                          hung, faults>>
           /\ \A m \in Hop : m # l => loop'[m] = loop[m]
  BY Types DEF LoopEof, Loop, client, handler, failures

LEMMA BackwardAt ==
    ASSUME Inv, NEW l \in Hop, Backward(l)
    PROVE  /\ reader[l] = "run" /\ up[After(l)] # <<>>
           /\ UNCHANGED <<cpc, hops, down, loop, next, circuits, lock, broken, hung,
                          faults>>
           /\ \A m \in Hop : m # l => /\ reader'[m] = reader[m]
                                      /\ m # After(l) => up'[m] = up[m]
           /\ up'[After(l)] = Tail(up[After(l)])
           /\ reader'[l] \in {"run", "ended"}
           /\ ~UpOpen(l) => up'[l] = up[l]
           /\ UpOpen(l) => up'[l] # <<>>
           /\ UpOpen(l) =>
                 \E w \in Word :
                    /\ up'[l] = Append(up[l], w)
                    /\ IF Head(up[After(l)]).cmd = "DESTROY"
                       THEN w.cmd = "DESTROY"
                       ELSE w.cmd # "DESTROY" /\ reader'[l] = "run"
<1> DEFINE a == After(l)
           h == Head(up[a])
           rest == Taken(up, a)
           w == IF h.cmd = "DESTROY" THEN h ELSE Crypt(h, Handler(l), bpos)
<1>1. /\ up \in [Hop -> Seq(Word)] /\ bpos \in [Hop -> Nat]
      /\ reader \in [Hop -> {"none", "run", "ended"}]
      /\ DESTROY \in Word /\ DESTROY.cmd = "DESTROY"
  BY CellsAre, Types
<1>2. reader[l] = "run" /\ up[a] # <<>>
  BY DEF Backward, Readable
<1>3. Handler(l) = l /\ a \in Hop /\ a # l
  BY <1>2, ReaderRuns
<1>4. /\ rest \in [Hop -> Seq(Word)] /\ h \in Word
      /\ \A m \in Hop : rest[m] = IF m = a THEN Tail(up[a]) ELSE up[m]
  BY <1>1, <1>2, <1>3, TakenAt
<1>5. w \in Word /\ w.cmd = h.cmd
  <2>1. Crypt(h, l, bpos) \in Word /\ Crypt(h, l, bpos).cmd = h.cmd
    BY <1>1, <1>4, CellsAre
  <2>2. QED
    BY <1>3, <1>4, <2>1
<1>6. /\ \/ /\ up' = PutUp(rest, l, w) /\ reader' = reader
         \/ /\ up' = PutUp(rest, l, DESTROY)
            /\ reader' = [reader EXCEPT ![l] = "ended"]
            /\ h.cmd = "DESTROY" \/ ~UpOpen(l)
      /\ UNCHANGED <<cpc, hops, down, loop, next, circuits, lock, broken, hung,
                     faults>>
  BY DEF Backward, EndReader, client, failures
<1> HIDE DEF a, h, rest, w
<1>7. \A v \in Word :
         /\ PutUp(rest, l, v)[l] = IF UpOpen(l) THEN Append(up[l], v) ELSE up[l]
         /\ \A m \in Hop : m # l => PutUp(rest, l, v)[m] = rest[m]
  <2>1. \A v \in Word : \A m \in Hop :
           PutUp(rest, l, v)[m] =
              IF m = l /\ UpOpen(l) THEN Append(rest[l], v) ELSE rest[m]
    BY <1>4, PutUpAt
  <2>2. rest[l] = up[l]
    BY <1>3, <1>4
  <2>3. QED
    BY <2>1, <2>2
<1>8. PICK v \in Word :
         /\ up' = PutUp(rest, l, v)
         /\ \/ v.cmd = h.cmd /\ reader' = reader
            \/ /\ v.cmd = "DESTROY" /\ reader' = [reader EXCEPT ![l] = "ended"]
               /\ h.cmd = "DESTROY" \/ ~UpOpen(l)
  BY <1>1, <1>5, <1>6
<1>9. Append(up[l], v) # <<>>
  BY <1>1, AppendIs
<1>10. \A m \in Hop : m # l => reader'[m] = reader[m]
  BY <1>1, <1>8
<1>11. reader'[l] \in {"run", "ended"} /\ (v.cmd = h.cmd \/ v.cmd = "DESTROY")
  BY <1>1, <1>2, <1>8
<1>12. UpOpen(l) => IF h.cmd = "DESTROY" THEN v.cmd = "DESTROY"
                    ELSE v.cmd # "DESTROY" /\ reader'[l] = "run"
  BY <1>1, <1>2, <1>8
<1>13. /\ up'[l] = IF UpOpen(l) THEN Append(up[l], v) ELSE up[l]
       /\ up'[a] = Tail(up[a])
       /\ \A m \in Hop : m # l /\ m # a => up'[m] = up[m]
  BY <1>3, <1>4, <1>7, <1>8
<1>14. QED
  BY <1>2, <1>6, <1>9, <1>10, <1>11, <1>12, <1>13 DEF a, h

LEMMA ReaderEofAt ==
    ASSUME Inv, NEW l \in Hop, ReaderEof(l)
    PROVE  /\ reader[l] = "run" /\ UpEnds(After(l)) /\ reader'[l] = "ended"
           /\ UNCHANGED <<cpc, hops, down, loop, next, circuits, lock, broken, hung,
                          faults>>
           /\ \A m \in Hop : m # l => reader'[m] = reader[m] /\ up'[m] = up[m]
           /\ up'[l] = IF UpOpen(l) THEN Append(up[l], DESTROY) ELSE up[l]
<1>1. /\ reader[l] = "run" /\ UpEnds(After(l))
      /\ up' = PutUp(up, l, DESTROY) /\ reader' = [reader EXCEPT ![l] = "ended"]
      /\ UNCHANGED <<cpc, hops, down, loop, next, circuits, lock, broken, hung,
                     faults>>
  BY DEF ReaderEof, EndReader, client, handler, failures
<1>2. up \in [Hop -> Seq(Word)] /\ DESTROY \in Word
  BY Types, CellsAre
<1>3. \A m \in Hop : up'[m] = IF m = l /\ UpOpen(l) THEN Append(up[l], DESTROY)
                                                    ELSE up[m]
  BY <1>1, <1>2, PutUpAt
<1>4. QED
  BY <1>1, <1>3, Types

-----------------------------------------------------------------------------
(* All steps move alike.                                                   *)

LEMMA ClientStays ==
    ASSUME cpc' = cpc, broken' = broken
    PROVE  /\ \A b \in Build : /\ cpc[b] # "idle" => cpc'[b] # "idle"
                               /\ cpc[b] # "waiting" /\ cpc'[b] = "waiting" =>
                                     cpc[b] = "idle"
           /\ broken \subseteq broken'
  OBVIOUS

\* The registry's entry of a hop is as before.
LEMMA HandlerStays ==
    ASSUME circuits' = circuits, NEW m PROVE Handler(m)' = Handler(m)
  BY DEF Handler, RelayOf, IdOf

LEMMA CreatedMoves ==
    ASSUME Inv, NEW l \in Hop, Created(l) PROVE Moves
<1>1. ASSUME NEW m \in Hop PROVE Move(m)
  BY CreatedAt DEF Move
<1>2. ASSUME NEW m \in Hop PROVE Spawn(m)
  BY CreatedAt DEF Spawn
<1>3. ASSUME NEW m \in Hop PROVE Fill(m)
  <2>1. Handler(m)' = Handler(m)
    BY CreatedAt, HandlerStays
  <2>2. CASE m = l
    BY <2>1, <2>2, CreatedAt DEF Fill
  <2>3. CASE m # l
    BY <2>1, <2>3, CreatedAt DEF Fill
  <2>4. QED
    BY <2>2, <2>3
<1>4. QED
  BY <1>1, <1>2, <1>3, CreatedAt, ClientStays DEF Moves

LEMMA AddCircuitMoves ==
    ASSUME Inv, NEW l \in Hop, AddCircuit(l) PROVE Moves
<1>1. ASSUME NEW m \in Hop PROVE Move(m) /\ Spawn(m) /\ Fill(m)
  BY AddCircuitAt DEF Move, Spawn, Fill
<1>2. QED
  BY <1>1, AddCircuitAt, ClientStays DEF Moves

LEMMA ExtendMoves ==
    ASSUME Inv, ChainInv, NEW l \in Hop, Extend(l) PROVE Moves
<1>1. ASSUME NEW m \in Hop PROVE Move(m)
  BY ExtendAt DEF Move
<1>2. ASSUME NEW m \in Hop PROVE Spawn(m)
  BY ExtendAt DEF Spawn
<1>3. ASSUME NEW m \in Hop PROVE Fill(m)
  <2>1. Handler(m)' = Handler(m) /\ up'[m] = up[m]
    BY ExtendAt, HandlerStays
  <2>2. CASE m = l
    BY <2>1, <2>2, ExtendAt DEF Fill
  <2>3. CASE m # l /\ down'[m] = down[m]
    BY <2>1, <2>3, ExtendAt DEF Fill
  <2>4. CASE m # l /\ m = After(l) /\ next[l] /\ DownOpen(m)
    <3>1. loop[m] # "none"
      BY <2>4, OpenIsStarted DEF ChainInv
    <3>2. QED
      BY <2>1, <2>4, <3>1, ExtendAt DEF Fill
  <2>5. QED
    BY <2>2, <2>3, <2>4, ExtendAt
<1>4. QED
  BY <1>1, <1>2, <1>3, ExtendAt, ClientStays DEF Moves

LEMMA ConnectMoves ==
    ASSUME Inv, ChainInv, NEW l \in Hop, Connect(l) PROVE Moves
<1>1. /\ loop[After(l)] = "none" /\ Before(After(l)) = l /\ After(l)[2] # 1
      /\ \A m \in Hop : (m # l /\ loop[m] = "connect") => m # After(l)
  <2>1. l[2] < N(l[1]) /\ loop[l] = "connect"
    BY ConnectAt
  <2>2. QED
    BY <2>1, BeforeAfter DEF ChainInv, Joins
<1>2. ASSUME NEW m \in Hop PROVE Move(m)
  BY <1>1, ConnectAt DEF Move
<1>3. ASSUME NEW m \in Hop PROVE Spawn(m)
  <2>1. CASE m = After(l)
    <3>1. /\ loop[m] = "none" /\ Before(m) = l /\ m[2] # 1
          /\ loop[l] = "connect" /\ loop'[l] = "await"
      BY <1>1, <2>1, ConnectAt
    <3>2. loop[Before(m)] = "connect" /\ loop'[Before(m)] = "await"
      BY <3>1
    <3>3. QED
      BY <3>1, <3>2 DEF Spawn
  <2>2. CASE m = l
    BY <1>1, <2>2, ConnectAt DEF Spawn
  <2>3. CASE m # l /\ m # After(l)
    BY <2>3, ConnectAt DEF Spawn
  <2>4. QED
    BY <2>1, <2>2, <2>3
<1>4. ASSUME NEW m \in Hop PROVE Fill(m)
  BY ConnectAt, HandlerStays DEF Fill
<1>5. QED
  BY <1>2, <1>3, <1>4, ConnectAt, ClientStays DEF Moves

LEMMA FailsMoves ==
    ASSUME Inv, NEW l \in Hop, ConnectFails(l) \/ StallEnds(l) \/ AwaitFails(l)
    PROVE  Moves
<1>1. ASSUME NEW m \in Hop PROVE Move(m) /\ Spawn(m)
  BY FailsAt DEF Move, Spawn, Asking
<1>2. ASSUME NEW m \in Hop PROVE Fill(m)
  BY FailsAt, HandlerStays DEF Fill
<1>3. QED
  BY <1>1, <1>2, FailsAt, ClientStays DEF Moves

LEMMA ExtendDoneMoves ==
    ASSUME Inv, NEW l \in Hop, ExtendDone(l) PROVE Moves
<1>1. ASSUME NEW m \in Hop PROVE Move(m)
  BY ExtendDoneAt DEF Move
<1>2. ASSUME NEW m \in Hop PROVE Spawn(m)
  BY ExtendDoneAt DEF Spawn
<1>3. ASSUME NEW m \in Hop PROVE Fill(m)
  <2>1. Handler(m)' = Handler(m) /\ down'[m] = down[m]
    BY ExtendDoneAt, HandlerStays
  <2>2. up'[m] # <<>> => up[m] # <<>> \/ loop'[m] # "none"
    BY ExtendDoneAt
  <2>3. QED
    BY <2>1, <2>2 DEF Fill
<1>4. QED
  BY <1>1, <1>2, <1>3, ExtendDoneAt, ClientStays DEF Moves

LEMMA LoopEofMoves ==
    ASSUME Inv, NEW l \in Hop, LoopEof(l) PROVE Moves
<1>1. ASSUME NEW m \in Hop PROVE Move(m) /\ Spawn(m)
  BY LoopEofAt DEF Move, Spawn
<1>2. ASSUME NEW m \in Hop PROVE Fill(m)
  BY LoopEofAt, HandlerStays DEF Fill
<1>3. QED
  BY <1>1, <1>2, LoopEofAt, ClientStays DEF Moves

LEMMA ReaderMoves ==
    ASSUME Inv, ChainInv, NEW l \in Hop, Backward(l) \/ ReaderEof(l) PROVE Moves
<1>1. /\ UNCHANGED <<cpc, hops, down, loop, next, circuits, broken>>
      /\ \A m \in Hop : m # l => reader'[m] = reader[m]
      /\ reader[l] = "run" /\ reader'[l] \in {"run", "ended"}
      /\ \A m \in Hop : (m # l /\ up'[m] # <<>>) => up[m] # <<>>
  <2>1. CASE ReaderEof(l)
    BY <2>1, ReaderEofAt
  <2>2. CASE Backward(l)
    BY <2>2, BackwardAt
  <2>3. QED
    BY <2>1, <2>2
<1>2. ASSUME NEW m \in Hop PROVE Move(m) /\ Spawn(m)
  BY <1>1 DEF Move, Spawn
<1>3. loop[l] # "none"
  BY <1>1 DEF ChainInv, Started
<1>4. ASSUME NEW m \in Hop PROVE Fill(m)
  BY <1>1, <1>3, HandlerStays DEF Fill
<1>5. QED
  BY <1>1, <1>2, <1>4, ClientStays DEF Moves

LEMMA ClientEndsAt ==
    ASSUME Inv, NEW b \in Build, ClientEof(b) \/ ClientTimeout(b)
    PROVE  /\ cpc[b] = "waiting" /\ cpc'[b] = "failed"
           /\ \A d \in Build : d # b => cpc'[d] = cpc[d]
           /\ UNCHANGED <<hops, down, up, loop, reader, next, circuits, lock, broken,
                          hung, faults>>
           /\ \/ ClientEof(b) /\ UpEnds(First(b))
              \/ ClientTimeout(b) /\ Late
  BY Types DEF ClientEof, ClientTimeout, ClientFails, Client, relays, handler,
               failures

LEMMA FailureAt ==
    ASSUME NEW l \in Hop, Break(l) \/ Hang(l)
    PROVE  /\ Fault /\ broken \subseteq broken'
           /\ UNCHANGED <<cpc, hops, down, up, loop, reader, next, circuits, lock>>
  BY DEF Break, Hang, client, relays, handler

LEMMA NextMoves ==
    ASSUME Inv, ChainInv, Next PROVE Moves
<1>1. ASSUME NEW b \in Build, ClientStep(b) \/ Start(b) \/ ClientTimeout(b)
      PROVE  Moves
  <2>1. CASE Start(b)
    BY <2>1, StartMoves
  <2>2. CASE ClientKey(b)
    BY <2>2, ClientKeyMoves
  <2>3. CASE ClientEof(b) \/ ClientTimeout(b)
    <3>1. UNCHANGED <<loop, reader, next, circuits, down, up, broken>>
      BY <2>3, ClientEndsAt
    <3>2. \A d \in Build : /\ cpc[d] # "idle" => cpc'[d] # "idle"
                           /\ cpc'[d] = "waiting" => cpc[d] = "waiting"
      BY <2>3, ClientEndsAt
    <3>3. QED
      BY <3>1, <3>2, StillMoves
  <2>4. QED
    BY <1>1, <2>1, <2>2, <2>3 DEF ClientStep
<1>2. ASSUME NEW l \in Hop, RelayLoop(l) \/ StallEnds(l) PROVE Moves
  BY <1>2, CreatedMoves, AddCircuitMoves, ExtendMoves, ConnectMoves, FailsMoves,
     ExtendDoneMoves, LoopEofMoves DEF RelayLoop
<1>3. ASSUME NEW l \in Hop, RelayReader(l) PROVE Moves
  BY <1>3, ReaderMoves DEF RelayReader
<1>4. ASSUME NEW l \in Hop, Break(l) \/ Hang(l) PROVE Moves
  BY <1>4, FailureAt, StillMoves
<1>5. QED
  BY <1>1, <1>2, <1>3, <1>4 DEF Next, Progress

-----------------------------------------------------------------------------
(* How connections come and go.                                            *)

\* A loop that has begun stays one, a reader too.
LEMMA LoopsStay ==
    ASSUME Inv, Moves, NEW m \in Hop
    PROVE  /\ loop[m] # "none" => loop'[m] # "none"
           /\ loop[m] = "ended" => loop'[m] = "ended"
           /\ reader'[m] = "none" => reader[m] = "none"
           /\ next[m] => next'[m]
           /\ next'[m] => next[m] \/ loop[m] = "await"
           /\ reader'[m] # "none" => reader[m] # "none" \/ loop[m] = "await"
           /\ loop'[m] = "connect" => loop[m] = "connect"
                                      \/ (loop[m] = "read" /\ ~next[m])
           /\ loop'[m] = "await" => loop[m] \in {"connect", "await"}
           /\ (loop[m] = "await" /\ loop'[m] # "await") =>
                 (loop'[m] = "ended" \/ reader'[m] = "run")
<1>1. Move(m)
  BY DEF Moves
<1>2. next \in [Hop -> BOOLEAN]
  BY Types
<1>3. CASE /\ loop'[m] = loop[m] /\ next'[m] = next[m]
           /\ reader'[m] = reader[m] \/ (reader[m] = "run" /\ reader'[m] = "ended")
  BY <1>3
<1>4. CASE /\ <<loop[m], loop'[m]>> \in
                 {<<"none", "read">>, <<"read", "add">>, <<"read", "ended">>,
                  <<"add", "read">>, <<"connect", "await">>, <<"connect", "ended">>,
                  <<"await", "ended">>}
           /\ next'[m] = next[m] /\ reader'[m] = reader[m]
  <2>1. \/ loop[m] = "none" /\ loop'[m] = "read"
        \/ loop[m] = "read" /\ loop'[m] \in {"add", "ended"}
        \/ loop[m] = "add" /\ loop'[m] = "read"
        \/ loop[m] = "connect" /\ loop'[m] \in {"await", "ended"}
        \/ loop[m] = "await" /\ loop'[m] = "ended"
    BY <1>4
  <2>2. QED
    BY <1>4, <2>1
<1>5. CASE /\ loop[m] = "read" /\ loop'[m] = "connect" /\ ~next[m]
           /\ next'[m] = next[m] /\ reader'[m] = reader[m]
  BY <1>5
<1>6. CASE /\ loop[m] = "await" /\ next'[m]
           /\ \/ loop'[m] = "read" /\ reader'[m] = "run"
              \/ loop'[m] = "ended" /\ reader'[m] = reader[m]
  BY <1>6
<1>7. QED
  BY <1>1, <1>3, <1>4, <1>5, <1>6 DEF Move

LEMMA StartedStep ==
    ASSUME Inv, ChainInv, Moves PROVE \A m \in Hop : Started(m)'
<1>1. SUFFICES ASSUME NEW m \in Hop PROVE Started(m)'
  OBVIOUS
<1>2. Started(m) /\ Fill(m)
  BY DEF ChainInv, Moves
<1>3. QED
  BY <1>2, LoopsStay DEF Started, Fill

LEMMA JoinsStep ==
    ASSUME Inv, RestInv, ChainInv, Moves PROVE \A m \in Hop : Joins(m)'
<1>1. SUFFICES ASSUME NEW m \in Hop PROVE Joins(m)'
  OBVIOUS
<1>2. Joins(m) /\ Spawn(m)
  BY DEF ChainInv, Moves
<1>3. loop'[m] # "none" => cpc'[m[1]] # "idle"
  <2>1. m[1] \in Build
    BY Paths
  <2>2. cpc[m[1]] # "idle" => cpc'[m[1]] # "idle"
    BY <2>1 DEF Moves
  <2>3. ASSUME m[2] # 1, loop[Before(m)] = "connect" PROVE cpc[m[1]] # "idle"
    <3>1. Before(m) \in Hop /\ Before(m)[1] = m[1]
      BY <2>3, BeforeIs
    <3>2. Joins(Before(m))
      BY <3>1 DEF ChainInv
    <3>3. QED
      BY <2>3, <3>1, <3>2 DEF Joins
  <2>4. QED
    BY <1>2, <2>2, <2>3 DEF Joins, Spawn
<1>4. ASSUME m[2] < N(m[1])
      PROVE  /\ loop'[m] = "connect" => loop'[After(m)] = "none"
             /\ loop'[After(m)] # "none" /\ reader'[m] = "none" =>
                   loop'[m] \in {"await", "ended"}
             /\ next'[m] \/ loop'[m] = "await" => loop'[After(m)] # "none"
  <2> DEFINE a == After(m)
  <2>1. a \in Hop /\ Before(a) = m /\ a[2] # 1
    BY <1>4, Neighbours, BeforeAfter
  <2>2. Spawn(a)
    BY <2>1 DEF Moves
  <2>3. /\ loop[m] = "connect" => loop[a] = "none"
        /\ loop[a] # "none" /\ reader[m] = "none" => loop[m] \in {"await", "ended"}
        /\ next[m] \/ loop[m] = "await" => loop[a] # "none"
    BY <1>2, <1>4 DEF Joins
  <2>4. /\ loop[m] = "await" => loop'[a] # "none"
        /\ (loop[m] = "connect" /\ loop'[m] = "await") => loop'[a] # "none"
    BY <1>2, <2>1, <2>3, LoopsStay DEF Spawn
  <2>5. loop[a] = "none" /\ loop'[a] # "none" => loop'[m] = "await"
    BY <2>1, <2>2 DEF Spawn
  <2>6. ~next[m] => reader[m] = "none"
    BY DEF RestInv
  <2> HIDE DEF a
  <2>7. loop'[m] = "connect" => loop'[a] = "none"
    BY <2>3, <2>5, <2>6, LoopsStay
  <2>8. ASSUME loop'[a] # "none", reader'[m] = "none"
        PROVE  loop'[m] \in {"await", "ended"}
    <3>1. CASE loop[a] = "none"
      BY <2>5, <2>8, <3>1
    <3>2. CASE loop[a] # "none"
      BY <2>3, <2>8, <3>2, LoopsStay
    <3>3. QED
      BY <3>1, <3>2
  <2>9. next'[m] \/ loop'[m] = "await" => loop'[a] # "none"
    BY <2>1, <2>3, <2>4, LoopsStay
  <2>10. QED
    BY <2>7, <2>8, <2>9 DEF a
<1>5. QED
  BY <1>3, <1>4 DEF Joins

-----------------------------------------------------------------------------
(* Who holds a lock.                                                       *)

LEMMA LocksKept ==
    ASSUME LockInv, lock' = lock,
           \A m \in Hop : loop[m] \in Asking => loop'[m] \in Asking
    PROVE  LockInv'
<1>1. ASSUME NEW r \in Relay, lock'[r] # None
      PROVE  lock'[r] \in Hop /\ RelayOf(lock'[r]) = r /\ loop'[lock'[r]] \in Asking
  BY <1>1 DEF LockInv
<1>2. QED
  BY <1>1 DEF LockInv, RelayOf

LEMMA LockReleased ==
    ASSUME LockInv, RestInv, NEW l \in Hop,
           lock' = [lock EXCEPT ![RelayOf(l)] = None],
           \A m \in Hop : m # l => loop'[m] = loop[m]
    PROVE  LockInv'
<1>1. lock \in [Relay -> Hop \cup {None}]
  BY DEF RestInv
<1>2. ASSUME NEW r \in Relay, lock'[r] # None
      PROVE  lock'[r] \in Hop /\ RelayOf(lock'[r]) = r /\ loop'[lock'[r]] \in Asking
  <2>1. lock'[r] = lock[r] /\ r # RelayOf(l)
    BY <1>1, <1>2
  <2>2. lock[r] \in Hop /\ RelayOf(lock[r]) = r /\ loop[lock[r]] \in Asking
    BY <1>2, <2>1 DEF LockInv
  <2>3. lock[r] # l
    BY <2>1, <2>2
  <2>4. QED
    BY <2>1, <2>2, <2>3
<1>3. QED
  BY <1>2 DEF LockInv, RelayOf

LEMMA LockTaken ==
    ASSUME LockInv, RestInv, NEW l \in Hop, loop[l] = "read", loop'[l] = "connect",
           lock' = [lock EXCEPT ![RelayOf(l)] = l],
           \A m \in Hop : m # l => loop'[m] = loop[m]
    PROVE  LockInv'
<1>1. lock \in [Relay -> Hop \cup {None}]
  BY DEF RestInv
<1>2. ASSUME NEW r \in Relay, lock'[r] # None
      PROVE  lock'[r] \in Hop /\ RelayOf(lock'[r]) = r /\ loop'[lock'[r]] \in Asking
  <2>1. CASE r = RelayOf(l)
    BY <1>1, <2>1 DEF Asking
  <2>2. CASE r # RelayOf(l)
    <3>1. lock'[r] = lock[r]
      BY <1>1, <2>2
    <3>2. lock[r] \in Hop /\ RelayOf(lock[r]) = r /\ loop[lock[r]] \in Asking
      BY <1>2, <3>1 DEF LockInv
    <3>3. lock[r] # l
      BY <3>2 DEF Asking
    <3>4. QED
      BY <3>1, <3>2, <3>3
  <2>3. QED
    BY <2>1, <2>2
<1>3. QED
  BY <1>2 DEF LockInv, RelayOf

LEMMA LockStep ==
    ASSUME Inv, RestInv, ChainInv, Next PROVE LockInv'
<1>1. LockInv
  BY DEF ChainInv
<1>2. ASSUME NEW b \in Build, ClientStep(b) \/ Start(b) \/ ClientTimeout(b)
      PROVE  LockInv'
  <2>1. CASE Start(b)
    <3>1. loop[First(b)] = "none" \/ loop' = loop
      <4>1. First(b) \in Hop /\ First(b)[1] = b
        BY FirstIs
      <4>2. Joins(First(b))
        BY <4>1 DEF ChainInv
      <4>3. QED
        BY <2>1, <4>1, <4>2, StartAt DEF Joins
    <3>2. \A m \in Hop : loop[m] \in Asking => loop'[m] \in Asking
      BY <2>1, <3>1, StartAt DEF Asking
    <3>3. QED
      BY <1>1, <2>1, <3>2, StartAt, LocksKept
  <2>2. CASE ClientKey(b)
    BY <1>1, <2>2, ClientKeyAt, LocksKept
  <2>3. CASE ClientEof(b) \/ ClientTimeout(b)
    BY <1>1, <2>3, ClientEndsAt, LocksKept
  <2>4. QED
    BY <1>2, <2>1, <2>2, <2>3 DEF ClientStep
<1>3. ASSUME NEW l \in Hop, RelayLoop(l) \/ StallEnds(l) PROVE LockInv'
  <2>1. CASE Created(l)
    <3>1. \A m \in Hop : loop[m] \in Asking => loop'[m] \in Asking
      BY <2>1, CreatedAt DEF Asking
    <3>2. QED
      BY <1>1, <2>1, <3>1, CreatedAt, LocksKept
  <2>2. CASE AddCircuit(l)
    <3>1. \A m \in Hop : loop[m] \in Asking => loop'[m] \in Asking
      BY <2>2, AddCircuitAt DEF Asking
    <3>2. QED
      BY <1>1, <2>2, <3>1, AddCircuitAt, LocksKept
  <2>3. CASE Extend(l)
    <3>1. \/ lock' = lock
          \/ loop'[l] = "connect" /\ lock' = [lock EXCEPT ![RelayOf(l)] = l]
      BY <2>3, ExtendAt
    <3>2. loop[l] = "read" /\ \A m \in Hop : m # l => loop'[m] = loop[m]
      BY <2>3, ExtendAt
    <3>3. \A m \in Hop : loop[m] \in Asking => loop'[m] \in Asking
      BY <3>2 DEF Asking
    <3>4. QED
      BY <1>1, <3>1, <3>2, <3>3, LocksKept, LockTaken
  <2>4. CASE Connect(l)
    <3>1. loop[After(l)] = "none"
      <4>1. Joins(l)
        BY DEF ChainInv
      <4>2. QED
        BY <2>4, <4>1, ConnectAt DEF Joins
    <3>2. \A m \in Hop : loop[m] \in Asking => loop'[m] \in Asking
      BY <2>4, <3>1, ConnectAt DEF Asking
    <3>3. QED
      BY <1>1, <2>4, <3>2, ConnectAt, LocksKept
  <2>5. CASE ConnectFails(l) \/ StallEnds(l) \/ AwaitFails(l)
    BY <1>1, <2>5, FailsAt, LockReleased
  <2>6. CASE ExtendDone(l)
    BY <1>1, <2>6, ExtendDoneAt, LockReleased
  <2>7. CASE LoopEof(l)
    <3>1. \A m \in Hop : loop[m] \in Asking => loop'[m] \in Asking
      BY <2>7, LoopEofAt DEF Asking
    <3>2. QED
      BY <1>1, <2>7, <3>1, LoopEofAt, LocksKept
  <2>8. QED
    BY <1>3, <2>1, <2>2, <2>3, <2>4, <2>5, <2>6, <2>7 DEF RelayLoop
<1>4. ASSUME NEW l \in Hop, RelayReader(l) PROVE LockInv'
  <2>1. lock' = lock /\ loop' = loop
    BY <1>4, BackwardAt, ReaderEofAt DEF RelayReader
  <2>2. QED
    BY <1>1, <2>1, LocksKept
<1>5. ASSUME NEW l \in Hop, Break(l) \/ Hang(l) PROVE LockInv'
  BY <1>1, <1>5, FailureAt, LocksKept
<1>6. QED
  BY <1>2, <1>3, <1>4, <1>5 DEF Next, Progress

-----------------------------------------------------------------------------
(* What a loop awaits.                                                     *)

LEMMA AfterOnce ==
    ASSUME NEW l \in Hop, NEW m \in Hop, After(l) = After(m) PROVE l = m
<1>1. /\ l[2] \in Nat /\ m[2] \in Nat /\ l = <<l[1], l[2]>> /\ m = <<m[1], m[2]>>
  BY Paths
<1>2. l[1] = m[1] /\ l[2] + 1 = m[2] + 1
  BY DEF After
<1>3. l[2] = m[2]
  BY <1>1, <1>2
<1>4. QED
  BY <1>1, <1>2, <1>3

LEMMA AwaitIs ==
    ASSUME Inv, RestInv, NEW m \in Hop, loop[m] = "await"
    PROVE  /\ m[2] < N(m[1]) /\ m[2] = hops[m[1]]
           /\ After(m) \in Hop /\ After(m) # m /\ After(m)[2] # 1
           /\ Before(After(m)) = m
           /\ ~next[m] /\ reader[m] = "none"
           /\ reader[After(m)] = "none" /\ Held(After(m))
<1>1. m[2] < N(m[1]) /\ m[2] = hops[m[1]]
  BY HandlerIs DEF Asking
<1>2. /\ After(m) \in Hop /\ After(m) # m /\ After(m)[2] # 1
      /\ After(m)[1] = m[1] /\ After(m)[2] = m[2] + 1 /\ Before(After(m)) = m
  BY <1>1, Neighbours, BeforeAfter
<1>3. ~next[m] /\ reader[m] = "none"
  BY DEF RestInv, Asking
<1>4. After(m)[2] > hops[After(m)[1]]
  BY <1>1, <1>2, Paths
<1>5. ~next[After(m)]
  BY <1>2, <1>4, HandlerIs
<1>6. reader[After(m)] = "none"
  BY <1>2, <1>5 DEF RestInv
<1>7. Held(After(m))
  BY <1>2 DEF Held
<1>8. QED
  BY <1>1, <1>2, <1>3, <1>6, <1>7

Coming(l) == loop[l] = "read" /\ down[l] # <<>> /\ Head(down[l]).cmd = "CREATE"

LEMMA AwaitKept ==
    ASSUME Inv, RestInv, ChainInv, Moves, NEW m \in Hop, loop[m] = "await",
           up[After(m)] # <<>> => up'[After(m)] # <<>>,
           Coming(After(m)) => \/ Coming(After(m))' \/ loop'[After(m)] = "ended"
                               \/ up'[After(m)] # <<>> \/ After(m) \in broken
    PROVE  Awaits(m)'
<1>1. After(m) \in Hop
  BY AwaitIs
<1>2. Awaits(m) /\ broken \subseteq broken'
  BY DEF ChainInv, Moves
<1>3. loop[After(m)] = "ended" => loop'[After(m)] = "ended"
  BY <1>1, LoopsStay
<1>4. After(m)' = After(m)
  BY DEF After
<1>5. QED
  BY <1>2, <1>3, <1>4 DEF Awaits, Coming

LEMMA AwaitStill ==
    ASSUME Inv, RestInv, ChainInv, Moves, NEW m \in Hop, loop[m] = "await",
           up'[After(m)] = up[After(m)], down'[After(m)] = down[After(m)],
           loop'[After(m)] = loop[After(m)]
    PROVE  Awaits(m)'
<1>1. Coming(After(m)) => Coming(After(m))'
  BY DEF Coming, After
<1>2. QED
  BY <1>1, AwaitKept

LEMMA AwaitsStep ==
    ASSUME Inv, RestInv, ChainInv, Next PROVE \A m \in Hop : Awaits(m)'
<1>1. SUFFICES ASSUME NEW m \in Hop, loop'[m] = "await" PROVE Awaits(m)'
  BY DEF Awaits
<1>2. Moves
  BY NextMoves
<1> DEFINE a == After(m)
<1>3. loop[m] = "await" =>
         /\ a \in Hop /\ a # m /\ a[2] # 1 /\ reader[m] = "none"
         /\ reader[a] = "none" /\ Held(a)
  BY AwaitIs
<1>4. \A l \in Hop : After(l) = a => l = m
  BY AfterOnce
<1>5. loop[m] = "await" /\ up'[a] = up[a] /\ down'[a] = down[a] /\ loop'[a] = loop[a]
         => Awaits(m)'
  BY <1>2, AwaitStill
<1>6. /\ loop[m] = "await"
      /\ up[a] # <<>> => up'[a] # <<>>
      /\ Coming(a) => loop'[a] = "ended" \/ up'[a] # <<>> \/ a \in broken
      => Awaits(m)'
  BY <1>2, AwaitKept
<1> HIDE DEF a
<1>7. ASSUME NEW b \in Build, ClientStep(b) \/ Start(b) \/ ClientTimeout(b)
      PROVE  Awaits(m)'
  <2>1. First(b) \in Hop /\ First(b)[2] = 1
    BY FirstIs
  <2>2. CASE Start(b)
    <3>1. loop[m] = "await"
      BY <1>1, <2>2, StartAt
    <3>2. a # First(b)
      BY <1>3, <2>1, <3>1
    <3>3. up'[a] = up[a] /\ down'[a] = down[a] /\ loop'[a] = loop[a]
      BY <1>3, <2>2, <3>1, <3>2, StartAt
    <3>4. QED
      BY <1>5, <3>1, <3>3
  <2>3. CASE ClientKey(b)
    <3>1. loop[m] = "await" /\ loop'[a] = loop[a]
      BY <1>1, <2>3, ClientKeyAt
    <3>2. a # First(b)
      BY <1>3, <2>1, <3>1
    <3>3. up'[a] = up[a]
      BY <1>3, <2>3, <3>1, <3>2, ClientKeyAt
    <3>4. \A v : PutDown(down, First(b), v)[a] = down[a]
      <4>1. Started(First(b))
        BY <2>1 DEF ChainInv
      <4>2. QED
        BY <1>3, <2>1, <3>1, <3>2, <4>1, PutsDown
    <3>5. down'[a] = down[a]
      BY <2>3, <3>4, ClientKeyAt
    <3>6. QED
      BY <1>5, <3>1, <3>3, <3>5
  <2>4. CASE ClientEof(b) \/ ClientTimeout(b)
    BY <1>1, <1>5, <2>4, ClientEndsAt
  <2>5. QED
    BY <1>7, <2>2, <2>3, <2>4 DEF ClientStep
<1>8. ASSUME NEW l \in Hop, RelayLoop(l) \/ StallEnds(l) PROVE Awaits(m)'
  <2>1. CASE Created(l)
    <3>1. loop[m] = "await" /\ m # l
      BY <1>1, <2>1, CreatedAt
    <3>2. CASE l = a
      <4>1. Answers(a)
        BY <1>3, <2>1, <3>1, <3>2, CreatedAt DEF Answers
      <4>2. ~UpOpen(a) => a \in broken
        BY <1>3, <3>1, <4>1 DEF UpOpen
      <4>3. IF UpOpen(a) THEN up'[a] # <<>> ELSE up'[a] = up[a]
        BY <2>1, <3>2, CreatedAt
      <4>4. QED
        BY <1>6, <3>1, <4>2, <4>3
    <3>3. CASE l # a
      BY <1>3, <1>5, <2>1, <3>1, <3>3, CreatedAt
    <3>4. QED
      BY <3>2, <3>3
  <2>2. CASE AddCircuit(l)
    <3>1. loop[m] = "await"
      BY <1>1, <2>2, AddCircuitAt
    <3>2. CASE l = a
      BY <1>6, <2>2, <3>1, <3>2, AddCircuitAt DEF Coming
    <3>3. CASE l # a
      BY <1>3, <1>5, <2>2, <3>1, <3>3, AddCircuitAt
    <3>4. QED
      BY <3>2, <3>3
  <2>3. CASE Extend(l)
    <3>1. loop[l] = "read" /\ up' = up /\ Head(down[l]).cmd = "EXTEND"
      BY <2>3, ExtendAt
    <3>2. loop[m] = "await" /\ m # l
      BY <1>1, <2>3, <3>1, ExtendAt
    <3>3. CASE l = a
      BY <1>6, <3>1, <3>2, <3>3 DEF Coming
    <3>4. CASE l # a
      <4>1. a # After(l) /\ a \in Hop
        BY <1>3, <1>4, <3>2
      <4>2. loop'[a] = loop[a] /\ down'[a] = down[a]
        BY <2>3, <3>4, <4>1, ExtendAt
      <4>3. QED
        BY <1>5, <3>1, <3>2, <4>2
    <3>5. QED
      BY <3>3, <3>4
  <2>4. CASE Connect(l)
    <3>1. CASE m = l
      <4>1. loop'[a] = "read" /\ down'[a] = <<CREATE(a)>>
        BY <2>4, <3>1, ConnectAt DEF a
      <4>2. down'[a] # <<>> /\ Head(down'[a]).cmd = "CREATE"
        BY <4>1 DEF CREATE, Cell
      <4>3. QED
        BY <4>1, <4>2 DEF Awaits, a, After
    <3>2. CASE m # l
      <4>1. loop[m] = "await" /\ loop[l] = "connect" /\ up' = up
        BY <1>1, <2>4, <3>2, ConnectAt
      <4>2. CASE a = l
        BY <1>6, <4>1, <4>2 DEF Coming
      <4>3. CASE a # l
        <5>1. a # After(l) /\ a \in Hop
          BY <1>3, <1>4, <3>2, <4>1
        <5>2. loop'[a] = loop[a] /\ down'[a] = down[a]
          BY <2>4, <4>3, <5>1, ConnectAt
        <5>3. QED
          BY <1>5, <4>1, <5>2
      <4>4. QED
        BY <4>2, <4>3
    <3>3. QED
      BY <3>1, <3>2
  <2>5. CASE ConnectFails(l) \/ StallEnds(l) \/ AwaitFails(l)
    <3>1. loop[m] = "await" /\ up' = up /\ down' = down /\ loop[l] \in Asking
      BY <1>1, <2>5, FailsAt
    <3>2. CASE l = a
      BY <1>6, <3>1, <3>2 DEF Coming, Asking
    <3>3. CASE l # a
      BY <1>3, <1>5, <2>5, <3>1, <3>3, FailsAt
    <3>4. QED
      BY <3>2, <3>3
  <2>6. CASE ExtendDone(l)
    <3>1. loop[m] = "await" /\ m # l /\ down' = down
      BY <1>1, <2>6, ExtendDoneAt
    <3>2. CASE l = a
      <4>1. loop[a] = "await" /\ (up[a] # <<>> => up'[a] # <<>>)
        BY <2>6, <3>2, ExtendDoneAt
      <4>2. QED
        BY <1>6, <3>1, <4>1 DEF Coming
    <3>3. CASE l # a
      <4>1. a # After(l) /\ a \in Hop
        BY <1>3, <1>4, <3>1
      <4>2. loop'[a] = loop[a] /\ up'[a] = up[a]
        BY <2>6, <3>3, <4>1, ExtendDoneAt
      <4>3. QED
        BY <1>5, <3>1, <4>2
    <3>4. QED
      BY <3>2, <3>3
  <2>7. CASE LoopEof(l)
    <3>1. loop[m] = "await" /\ up' = up /\ down' = down /\ loop'[l] = "ended"
      BY <1>1, <2>7, LoopEofAt
    <3>2. CASE l = a
      BY <1>6, <3>1, <3>2
    <3>3. CASE l # a
      BY <1>3, <1>5, <2>7, <3>1, <3>3, LoopEofAt
    <3>4. QED
      BY <3>2, <3>3
  <2>8. QED
    BY <1>8, <2>1, <2>2, <2>3, <2>4, <2>5, <2>6, <2>7 DEF RelayLoop
<1>9. ASSUME NEW l \in Hop, RelayReader(l) PROVE Awaits(m)'
  <2>1. reader[l] = "run" /\ UNCHANGED <<loop, down>>
    BY <1>9, BackwardAt, ReaderEofAt DEF RelayReader
  <2>2. loop[m] = "await"
    BY <1>1, <2>1
  <2>3. l # m /\ l # a /\ a \in Hop /\ a # After(l)
    BY <1>3, <1>4, <2>1, <2>2
  <2>4. up'[a] = up[a]
    BY <1>9, <2>3, BackwardAt, ReaderEofAt DEF RelayReader
  <2>5. QED
    BY <1>5, <2>1, <2>2, <2>4
<1>10. ASSUME NEW l \in Hop, Break(l) \/ Hang(l) PROVE Awaits(m)'
  BY <1>1, <1>5, <1>10, FailureAt
<1>11. QED
  BY <1>7, <1>8, <1>9, <1>10 DEF Next, Progress

-----------------------------------------------------------------------------
(* A handshake that can not succeed any more stays so.                     *)

LEMMA SameHop ==
    ASSUME NEW l \in Hop, NEW m \in Hop, l[1] = m[1], l[2] = m[2] PROVE l = m
<1>1. l = <<l[1], l[2]>> /\ m = <<m[1], m[2]>>
  BY Paths
<1>2. QED
  BY <1>1

LEMMA LiveKept ==
    ASSUME NEW b \in Build, hops'[b] = hops[b],
           \A m \in Hop : m[1] = b =>
              /\ loop'[m] \in Asking => loop[m] \in Asking
              /\ Bare(down[m]) => Bare(down'[m])
              /\ Bare(up[m]) => Bare(up'[m])
    PROVE  Live(b)' => Live(b)
<1>1. ASSUME NEW m \in Hop, m[1] = b,
             \/ loop'[m] \in Asking
             \/ /\ m[2] = 1 \/ m[2] <= hops'[b]
                /\ ~Bare(down'[m]) \/ ~Bare(up'[m])
      PROVE  Live(b)
  BY <1>1 DEF Live
<1>2. QED
  BY <1>1 DEF Live, Bare

\* Steps that write nothing but DESTROY.
LEMMA BareKept ==
    ASSUME Inv, NEW m \in Hop
    PROVE  /\ up[m] # <<>> /\ up'[m] = Tail(up[m]) /\ Bare(up[m]) => Bare(up'[m])
           /\ down[m] # <<>> /\ down'[m] = Tail(down[m]) /\ Bare(down[m]) =>
                 Bare(down'[m])
           /\ \A w \in Word :
                 w.cmd = "DESTROY" /\ up'[m] = Append(up[m], w) /\ Bare(up[m]) =>
                    Bare(up'[m])
<1>1. up[m] \in Seq(Word) /\ down[m] \in Seq(Word)
  BY Types
<1>2. QED
  BY <1>1, BareTail, BareAppend

LEMMA DownLives ==
    ASSUME Inv, NEW l \in Hop, down[l] # <<>>, Head(down[l]).cmd # "DESTROY",
           l[2] = 1 \/ l[2] <= hops[l[1]]
    PROVE  Live(l[1])
<1>1. down[l] \in Seq(Word)
  BY Types
<1>2. ~Bare(down[l])
  BY <1>1, HeadIsThere
<1>3. QED
  BY <1>2 DEF Live

LEMMA UpLives ==
    ASSUME Inv, NEW l \in Hop, up[l] # <<>>, Head(up[l]).cmd # "DESTROY",
           l[2] = 1 \/ l[2] <= hops[l[1]]
    PROVE  Live(l[1])
<1>1. up[l] \in Seq(Word)
  BY Types
<1>2. ~Bare(up[l])
  BY <1>1, HeadIsThere
<1>3. QED
  BY <1>2 DEF Live

\* What a reader passes on is DESTROY, or comes from a hop that the client knows.
LEMMA ReadLives ==
    ASSUME Inv, NEW l \in Hop, reader[l] = "run", up[After(l)] # <<>>,
           Head(up[After(l)]).cmd # "DESTROY"
    PROVE  Live(l[1]) /\ After(l)[2] <= hops[l[1]]
<1> DEFINE a == After(l)
           b == l[1]
<1>1. /\ b \in Build /\ next[l] /\ a \in Hop /\ a[1] = b /\ a[2] = l[2] + 1
      /\ l[2] <= hops[b]
  BY ReaderRuns
<1>2. hops[b] \in Nat /\ l[2] \in Nat /\ Goal(b)[2] = hops[b] + 1
  BY <1>1, BuildsAre, Paths
<1>3. \/ Answered(b) /\ a = Goal(b)
      \/ a[2] \in 1 .. hops[b]
  BY <1>1, UpHead
<1> HIDE DEF a, b
<1>4. ASSUME Answered(b), a = Goal(b) PROVE FALSE
  <2>1. l[2] = hops[b]
    BY <1>1, <1>2, <1>4
  <2>2. ~next[l]
    BY <1>4, <2>1 DEF Answered, NotExtended, b
  <2>3. QED
    BY <1>1, <2>2
<1>5. a[2] \in 1 .. hops[b]
  BY <1>3, <1>4
<1>6. a[2] <= hops[b]
  BY <1>2, <1>5
<1>7. Live(b)
  BY <1>1, <1>6, UpLives DEF a
<1>8. QED
  BY <1>6, <1>7 DEF a, b

LEMMA LiveStep ==
    ASSUME Inv, RestInv, ChainInv, Next
    PROVE  \A d \in Build : Live(d)' => Live(d) \/ cpc[d] = "idle"
<1>1. SUFFICES ASSUME NEW d \in Build PROVE Live(d)' => Live(d) \/ cpc[d] = "idle"
  OBVIOUS
<1>2. ASSUME NEW b \in Build, ClientStep(b) \/ Start(b) \/ ClientTimeout(b)
      PROVE  Live(d)' => Live(d) \/ cpc[d] = "idle"
  <2>1. First(b) \in Hop /\ First(b)[1] = b /\ First(b)[2] = 1
    BY FirstIs
  <2>2. CASE Start(b)
    <3>1. CASE d = b
      BY <2>2, <3>1, StartAt
    <3>2. CASE d # b
      <4>1. ASSUME NEW m \in Hop, m[1] = d
            PROVE  loop'[m] = loop[m] /\ down'[m] = down[m]
        <5>1. m # First(b)
          BY <2>1, <3>2, <4>1
        <5>2. QED
          BY <2>2, <5>1, StartAt
      <4>2. up' = up /\ hops' = hops
        BY <2>2, StartAt
      <4>3. QED
        BY <4>1, <4>2, LiveKept
    <3>3. QED
      BY <3>1, <3>2
  <2>3. CASE ClientKey(b)
    <3>1. CASE d = b /\ Head(up[First(b)]).cmd # "DESTROY"
      BY <2>1, <2>3, <3>1, ClientKeyAt, UpLives
    <3>2. CASE d = b /\ Head(up[First(b)]).cmd = "DESTROY"
      <4>1. /\ hops'[b] = hops[b] /\ down' = down /\ loop' = loop
            /\ up[First(b)] # <<>>
            /\ \A m \in Hop : up'[m] = IF m = First(b) THEN Tail(up[m]) ELSE up[m]
        BY <2>3, <3>2, ClientKeyAt
      <4>2. ASSUME NEW m \in Hop, Bare(up[m]) PROVE Bare(up'[m])
        BY <4>1, <4>2, BareKept
      <4>3. QED
        BY <3>2, <4>1, <4>2, LiveKept
    <3>3. CASE d # b
      <4>1. ASSUME NEW m \in Hop, m[1] = d
            PROVE  up'[m] = up[m] /\ down'[m] = down[m]
        <5>1. m # First(b)
          BY <2>1, <3>3, <4>1
        <5>2. Started(First(b))
          BY <2>1 DEF ChainInv
        <5>3. \A v : PutDown(down, First(b), v)[m] = down[m]
          BY <2>1, <5>1, <5>2, PutsDown
        <5>4. QED
          BY <2>3, <5>1, <5>3, ClientKeyAt
      <4>2. loop' = loop /\ hops'[d] = hops[d]
        BY <2>3, <3>3, ClientKeyAt
      <4>3. QED
        BY <4>1, <4>2, LiveKept
    <3>4. QED
      BY <3>1, <3>2, <3>3
  <2>4. CASE ClientEof(b) \/ ClientTimeout(b)
    BY <2>4, ClientEndsAt, LiveKept
  <2>5. QED
    BY <1>2, <2>2, <2>3, <2>4 DEF ClientStep
<1>3. ASSUME NEW l \in Hop, RelayLoop(l) \/ StallEnds(l) PROVE Live(d)' => Live(d)
  <2>1. l[1] \in Build
    BY Paths
  <2>2. CASE Created(l)
    <3>1. l = Goal(l[1]) /\ Goal(l[1])[2] = hops[l[1]] + 1 /\ hops[l[1]] \in Nat
      BY <2>1, <2>2, CreatedAt, BuildsAre, Paths
    <3>2. CASE d = l[1] /\ l[2] = 1
      BY <2>2, <3>2, CreatedAt, DownLives
    <3>3. CASE d # l[1] \/ l[2] # 1
      <4>1. ASSUME NEW m \in Hop, m[1] = d, m # l
            PROVE  loop'[m] = loop[m] /\ down'[m] = down[m] /\ up'[m] = up[m]
        BY <2>2, <4>1, CreatedAt
      <4>2. hops' = hops /\ loop'[l] \notin Asking
        BY <2>2, CreatedAt DEF Asking
      <4>3. l[1] = d => ~(l[2] = 1 \/ l[2] <= hops[d])
        BY <3>1, <3>3
      <4>4. QED
        BY <4>1, <4>2, <4>3 DEF Live, Bare
    <3>4. QED
      BY <3>2, <3>3
  <2>3. CASE AddCircuit(l)
    <3>1. hops' = hops /\ down' = down /\ up' = up
      BY <2>3, AddCircuitAt
    <3>2. \A m \in Hop : loop'[m] \in Asking => loop[m] \in Asking
      BY <2>3, AddCircuitAt DEF Asking
    <3>3. QED
      BY <3>1, <3>2, LiveKept
  <2>4. ASSUME Extend(l) \/ Connect(l) \/ ExtendDone(l), d # l[1]
        PROVE  Live(d)' => Live(d)
    <3>1. ASSUME NEW m \in Hop, m[1] = d
          PROVE  loop'[m] = loop[m] /\ down'[m] = down[m] /\ up'[m] = up[m]
      <4>1. m # l /\ m # After(l)
        BY <2>4, <3>1 DEF After
      <4>2. CASE Extend(l)
        BY <4>1, <4>2, ExtendAt
      <4>3. CASE Connect(l)
        BY <4>1, <4>3, ConnectAt
      <4>4. CASE ExtendDone(l)
        BY <4>1, <4>4, ExtendDoneAt
      <4>5. QED
        BY <2>4, <4>2, <4>3, <4>4
    <3>2. hops' = hops
      BY <2>4, ExtendAt, ConnectAt, ExtendDoneAt
    <3>3. QED
      BY <3>1, <3>2, LiveKept
  <2>5. ASSUME Extend(l) PROVE Live(l[1])
    <3>1. l[2] \in 1 .. hops[l[1]] /\ hops[l[1]] \in Nat
      BY <2>1, <2>5, ExtendAt, BuildsAre, Paths
    <3>2. l[2] <= hops[l[1]]
      BY <3>1
    <3>3. QED
      BY <2>5, <3>2, ExtendAt, DownLives
  <2>6. ASSUME Connect(l) \/ ExtendDone(l) PROVE Live(l[1])
    <3>1. loop[l] \in Asking
      BY <2>6, ConnectAt, ExtendDoneAt DEF Asking
    <3>2. QED
      BY <3>1 DEF Live
  <2>7. CASE ConnectFails(l) \/ StallEnds(l) \/ AwaitFails(l) \/ LoopEof(l)
    <3>1. /\ hops' = hops /\ down' = down /\ up' = up
          /\ loop'[l] = "ended" /\ \A m \in Hop : m # l => loop'[m] = loop[m]
      BY <2>7, FailsAt, LoopEofAt
    <3>2. \A m \in Hop : loop'[m] \in Asking => loop[m] \in Asking
      BY <3>1 DEF Asking
    <3>3. QED
      BY <3>1, <3>2, LiveKept
  <2>8. QED
    BY <1>3, <2>2, <2>3, <2>4, <2>5, <2>6, <2>7 DEF RelayLoop
<1>4. ASSUME NEW l \in Hop, RelayReader(l) PROVE Live(d)' => Live(d)
  <2>1. reader[l] = "run" /\ UNCHANGED <<hops, down, loop>>
    BY <1>4, BackwardAt, ReaderEofAt DEF RelayReader
  <2>2. CASE ReaderEof(l)
    <3>1. ASSUME NEW m \in Hop, Bare(up[m]) PROVE Bare(up'[m])
      BY <2>2, <3>1, ReaderEofAt, CellsAre, BareKept
    <3>2. QED
      BY <2>1, <3>1, LiveKept
  <2>3. CASE Backward(l) /\ Head(up[After(l)]).cmd = "DESTROY"
    <3>1. ASSUME NEW m \in Hop, Bare(up[m]) PROVE Bare(up'[m])
      <4>1. CASE m = l
        <5>1. \/ up'[m] = up[m]
              \/ \E w \in Word : w.cmd = "DESTROY" /\ up'[m] = Append(up[m], w)
          BY <2>3, <4>1, BackwardAt
        <5>2. QED
          BY <3>1, <5>1, BareKept
      <4>2. CASE m # l
        BY <2>3, <3>1, <4>2, BackwardAt, BareKept
      <4>3. QED
        BY <4>1, <4>2
    <3>2. QED
      BY <2>1, <3>1, LiveKept
  <2>4. CASE Backward(l) /\ Head(up[After(l)]).cmd # "DESTROY"
    <3>1. Live(l[1])
      BY <2>1, <2>4, BackwardAt, ReadLives
    <3>2. CASE d # l[1]
      <4>1. ASSUME NEW m \in Hop, m[1] = d PROVE up'[m] = up[m]
        <5>1. m # l /\ m # After(l)
          BY <3>2, <4>1 DEF After
        <5>2. QED
          BY <2>4, <5>1, BackwardAt
      <4>2. QED
        BY <2>1, <4>1, LiveKept
    <3>3. QED
      BY <3>1, <3>2
  <2>5. QED
    BY <1>4, <2>2, <2>3, <2>4 DEF RelayReader
<1>5. ASSUME NEW l \in Hop, Break(l) \/ Hang(l) PROVE Live(d)' => Live(d)
  BY <1>5, FailureAt, LiveKept
<1>6. QED
  BY <1>2, <1>3, <1>4, <1>5 DEF Next, Progress

-----------------------------------------------------------------------------
(* A loop that ends takes the handshake with it, unless its connection broke. *)

LEMMA AskedLast ==
    ASSUME Inv, NEW l \in Hop, loop[l] \in Asking
    PROVE  \A m \in Hop : m[1] = l[1] =>
              /\ m # l => loop[m] \notin Asking
              /\ m[2] = 1 \/ m[2] <= hops[l[1]] => Bare(down[m]) /\ Bare(up[m])
<1> DEFINE b == l[1]
<1>1. b \in Build /\ hops[b] \in Nat /\ l[2] \in 1 .. N(b) /\ l[2] = hops[b]
  BY HandlerIs, Paths
<1>2. Stage(b)
  BY <1>1, BuildsAre DEF BuildInv
<1>3. ~NoneAsks(b)
  BY DEF NoneAsks
<1>4. \/ Bares(down, b, {}) \/ Bares(down, b, {hops[b] + 1})
  BY <1>2, <1>3 DEF Stage, Quiet, Extending, Connecting, Creating, Answered, Returning
<1>5. \/ Bares(up, b, {}) \/ Bares(up, b, {hops[b] + 1})
  BY <1>2, <1>3 DEF Stage, Quiet, Extending, Connecting, Creating, Answered, Returning
<1> HIDE DEF b
<1>6. ASSUME NEW m \in Hop, m[1] = b, m # l PROVE loop[m] \notin Asking
  <2>1. ASSUME loop[m] \in Asking PROVE FALSE
    <3>1. m[2] = hops[b]
      BY <1>6, <2>1, HandlerIs
    <3>2. QED
      BY <1>1, <1>6, <3>1, SameHop DEF b
  <2>2. QED
    BY <2>1
<1>7. ASSUME NEW m \in Hop, m[1] = b, m[2] = 1 \/ m[2] <= hops[b]
      PROVE  Bare(down[m]) /\ Bare(up[m])
  <2>1. m[2] \in Nat /\ m[2] # hops[b] + 1
    BY <1>1, <1>7, Paths
  <2>2. QED
    BY <1>4, <1>5, <1>7, <2>1 DEF Bares
<1>8. QED
  BY <1>6, <1>7 DEF b

LEMMA LiveEnds ==
    ASSUME NEW b \in Build, hops'[b] = hops[b],
           \A m \in Hop : m[1] = b =>
              /\ loop'[m] \notin Asking
              /\ m[2] = 1 \/ m[2] <= hops[b] => Bare(down'[m]) /\ Bare(up'[m])
    PROVE  ~Live(b)'
  BY DEF Live, Bare

LEMMA AskingEnds ==
    ASSUME Inv, NEW l \in Hop, loop[l] \in Asking, loop'[l] = "ended",
           hops' = hops, down' = down,
           \A m \in Hop : /\ m # l => loop'[m] = loop[m]
                          /\ m # After(l) => up'[m] = up[m]
    PROVE  ~Live(l[1])'
<1>1. /\ l[1] \in Build /\ l[2] \in Nat /\ hops[l[1]] \in Nat /\ l[2] = hops[l[1]]
      /\ l[2] \in 1 .. N(l[1])
  BY HandlerIs, Paths
<1>2. ASSUME NEW m \in Hop, m[1] = l[1]
      PROVE  /\ loop'[m] \notin Asking
             /\ m[2] = 1 \/ m[2] <= hops[l[1]] => Bare(down'[m]) /\ Bare(up'[m])
  <2>1. loop'[m] \notin Asking
    BY <1>2, AskedLast DEF Asking
  <2>2. ASSUME m[2] = 1 \/ m[2] <= hops[l[1]] PROVE Bare(down'[m]) /\ Bare(up'[m])
    <3>1. Bare(down[m]) /\ Bare(up[m])
      BY <1>2, <2>2, AskedLast
    <3>2. After(l)[2] = hops[l[1]] + 1
      BY <1>1 DEF After
    <3>3. m # After(l)
      BY <1>1, <2>2, <3>2, Paths
    <3>4. QED
      BY <3>1, <3>3
  <2>3. QED
    BY <2>1, <2>2
<1>3. QED
  BY <1>1, <1>2, LiveEnds

\* The client's part of a connection is held as long as its handshake may succeed.
LEMMA LiveHeld ==
    ASSUME Inv, ChainInv, NEW l \in Hop, Live(l[1]), loop[l] # "none",
           cpc[l[1]] = "waiting"
    PROVE  Held(l)
<1>1. Extended(l) \/ loop[Before(l)] = "await"
  BY DEF ChainInv, LiveInv
<1>2. l[2] # 1 /\ next[Before(l)] => Handler(Before(l)) = Before(l)
  BY BeforeIs, HandlerIs
<1>3. QED
  BY <1>1, <1>2 DEF Extended, Held

LEMMA EndsStep ==
    ASSUME Inv, RestInv, ChainInv, Next
    PROVE  \A k \in Hop : loop[k] # "ended" /\ loop'[k] = "ended" =>
              /\ k \in broken \/ ~Live(k[1])' \/ cpc[k[1]] # "waiting"
              /\ loop[k] = "await" => ~Live(k[1])'
<1>1. SUFFICES ASSUME NEW k \in Hop, loop[k] # "ended", loop'[k] = "ended"
               PROVE  /\ k \in broken \/ ~Live(k[1])' \/ cpc[k[1]] # "waiting"
                      /\ loop[k] = "await" => ~Live(k[1])'
  OBVIOUS
<1> DEFINE Over == /\ k \in broken \/ ~Live(k[1])' \/ cpc[k[1]] # "waiting"
                   /\ loop[k] = "await" => ~Live(k[1])'
           b == k[1]
<1>2. b \in Build
  BY Paths
<1>3. ASSUME NEW d \in Build, ClientStep(d) \/ Start(d) \/ ClientTimeout(d)
      PROVE  FALSE
  BY <1>1, <1>3, StartAt, ClientKeyAt, ClientEndsAt DEF ClientStep
<1>4. ASSUME NEW l \in Hop, RelayLoop(l) \/ StallEnds(l) PROVE Over
  <2>1. CASE Created(l)
    <3>1. l = k
      BY <1>1, <2>1, CreatedAt
    <3>2. /\ loop[k] = "read" /\ ~UpOpen(k) /\ Creating(b) /\ k = Goal(b)
          /\ Bare(Tail(down[k])) /\ down'[k] = Tail(down[k]) /\ up'[k] = up[k]
          /\ hops' = hops
          /\ \A m \in Hop : m # k => /\ loop'[m] = loop[m]
                                     /\ down'[m] = down[m] /\ up'[m] = up[m]
      BY <1>1, <2>1, <3>1, CreatedAt
    <3>3. Bares(down, b, {hops[b] + 1}) /\ Bares(up, b, {}) /\ NoneConnects(b)
      BY <3>2 DEF Creating
    <3>4. k[2] = hops[b] + 1 /\ hops[b] \in Nat
      BY <1>2, <3>2, BuildsAre
    <3>5. ASSUME NEW m \in Hop, m[1] = b
          PROVE  Bare(down'[m]) /\ Bare(up'[m])
      <4>1. CASE m = k
        BY <3>2, <3>3, <4>1 DEF Bares
      <4>2. CASE m # k
        <5>1. m[2] # hops[b] + 1
          BY <3>4, <3>5, <4>2, SameHop
        <5>2. QED
          BY <3>2, <3>3, <3>5, <4>2, <5>1 DEF Bares
      <4>3. QED
        BY <4>1, <4>2
    <3>6. CASE \A m \in Hop : m[1] = b => loop[m] \notin Asking
      <4>1. \A m \in Hop : m[1] = b => loop'[m] \notin Asking
        BY <1>1, <3>2, <3>6 DEF Asking
      <4>2. ~Live(b)'
        BY <1>2, <3>2, <3>5, <4>1, LiveEnds
      <4>3. QED
        BY <4>2
    <3>7. ASSUME NEW m \in Hop, m[1] = b, loop[m] \in Asking PROVE k \in broken
      <4>1. loop[m] = "await"
        BY <3>3, <3>7 DEF NoneConnects, Asking
      <4>2. m[2] = hops[b] /\ After(m) \in Hop /\ reader[After(m)] = "none"
            /\ Held(After(m))
        BY <3>7, <4>1, AwaitIs
      <4>3. After(m) = k
        <5>1. k = <<b, hops[b] + 1>>
          BY <3>2 DEF Goal
        <5>2. QED
          BY <3>7, <4>2, <5>1 DEF After
      <4>4. QED
        BY <3>2, <4>2, <4>3 DEF UpOpen, Answers
    <3>8. QED
      BY <3>2, <3>6, <3>7
  <2>2. CASE AddCircuit(l)
    BY <1>1, <2>2, AddCircuitAt
  <2>3. CASE Extend(l)
    <3>1. l = k
      BY <1>1, <2>3, ExtendAt
    <3>2. /\ loop[k] = "read" /\ Extending(b) /\ Bares(down, b, {k[2]})
          /\ down'[k] = Tail(down[k]) /\ Bare(Tail(down[k]))
          /\ up' = up /\ hops' = hops
          /\ \A m \in Hop : m # k => /\ loop'[m] = loop[m]
                                     /\ m # After(k) => down'[m] = down[m]
      BY <2>3, <3>1, ExtendAt
    <3>3. \A m \in Hop : m # k => down'[m] = down[m]
      <4>1. \/ next[k] /\ ~DownOpen(After(k))
            \/ \A m \in Hop : m # k => down'[m] = down[m]
        BY <1>1, <2>3, <3>1, ExtendAt
      <4>2. ~DownOpen(After(k)) /\ next[k] => down'[After(k)] = down[After(k)]
        BY <1>1, <2>3, <3>1, ExtendAt
      <4>3. QED
        BY <3>2, <4>1, <4>2
    <3>4. NoneAsks(b) /\ Bares(up, b, {})
      BY <3>2 DEF Extending
    <3>5. ASSUME NEW m \in Hop, m[1] = b
          PROVE  Bare(down'[m]) /\ Bare(up'[m]) /\ loop'[m] \notin Asking
      <4>1. CASE m = k
        BY <1>1, <3>2, <3>4, <4>1 DEF Bares, Asking
      <4>2. CASE m # k
        <5>1. m[2] # k[2]
          BY <3>5, <4>2, SameHop
        <5>2. QED
          BY <3>2, <3>3, <3>4, <3>5, <4>2, <5>1 DEF Bares, NoneAsks
      <4>3. QED
        BY <4>1, <4>2
    <3>6. ~Live(b)'
      BY <1>2, <3>2, <3>5, LiveEnds
    <3>7. QED
      BY <3>6
  <2>4. CASE Connect(l)
    BY <1>1, <2>4, ConnectAt
  <2>5. CASE ConnectFails(l) \/ StallEnds(l) \/ AwaitFails(l) \/ ExtendDone(l)
    <3>1. l = k
      BY <1>1, <2>5, FailsAt, ExtendDoneAt
    <3>2. /\ loop[k] \in Asking /\ hops' = hops /\ down' = down
          /\ \A m \in Hop : m # k => loop'[m] = loop[m]
      BY <2>5, <3>1, FailsAt, ExtendDoneAt DEF Asking
    <3>3. \A m \in Hop : m # After(k) => up'[m] = up[m]
      <4>1. CASE ConnectFails(l) \/ StallEnds(l) \/ AwaitFails(l)
        BY <4>1, FailsAt
      <4>2. CASE ExtendDone(l)
        BY <1>1, <3>1, <4>2, ExtendDoneAt
      <4>3. QED
        BY <2>5, <4>1, <4>2
    <3>4. QED
      BY <1>1, <3>2, <3>3, AskingEnds
  <2>6. CASE LoopEof(l)
    <3>1. l = k
      BY <1>1, <2>6, LoopEofAt
    <3>2. loop[k] = "read" /\ DownEnds(k)
      BY <2>6, <3>1, LoopEofAt
    <3>3. cpc[b] # "idle"
      BY <3>2 DEF ChainInv, Joins
    <3>4. Live(b)' => Live(b)
      BY <1>2, <3>3, LiveStep
    <3>5. QED
      BY <3>2, <3>4, LiveHeld DEF DownEnds
  <2>7. QED
    BY <1>4, <2>1, <2>2, <2>3, <2>4, <2>5, <2>6 DEF RelayLoop
<1>5. ASSUME NEW l \in Hop, RelayReader(l) \/ Break(l) \/ Hang(l) PROVE FALSE
  BY <1>1, <1>5, BackwardAt, ReaderEofAt, FailureAt DEF RelayReader
<1>6. QED
  BY <1>3, <1>4, <1>5 DEF Next, Progress

LEMMA LiveInvStep ==
    ASSUME Inv, RestInv, ChainInv, Next PROVE \A l \in Hop : LiveInv(l)'
<1>1. SUFFICES ASSUME NEW l \in Hop, Live(l[1])', loop'[l] # "none"
               PROVE  /\ Extended(l)' \/ loop'[Before(l)] = "await"
                      /\ cpc'[l[1]] = "waiting" /\ loop'[l] = "ended" => l \in broken'
  BY DEF LiveInv, Before
<1>2. Moves /\ l[1] \in Build
  BY NextMoves, Paths
<1>3. Spawn(l) /\ LiveInv(l) /\ Joins(l) /\ broken \subseteq broken'
  BY <1>2 DEF Moves, ChainInv
<1>4. CASE loop[l] = "none"
  <2>1. loop'[l] # "ended"
    <3>1. Move(l)
      BY <1>2 DEF Moves
    <3>2. QED
      BY <1>1, <1>4, <3>1 DEF Move
  <2>2. QED
    BY <1>1, <1>3, <1>4, <2>1 DEF Spawn, Extended
<1>5. CASE loop[l] # "none"
  <2>1. cpc[l[1]] # "idle"
    BY <1>3, <1>5 DEF Joins
  <2>2. Live(l[1])
    BY <1>1, <1>2, <2>1, LiveStep
  <2>3. Extended(l)' \/ loop'[Before(l)] = "await"
    <3>1. CASE l[2] = 1
      BY <3>1 DEF Extended
    <3>2. CASE l[2] # 1
      <4>1. Before(l) \in Hop /\ Before(l)[1] = l[1]
        BY <3>2, BeforeIs
      <4>2. next[Before(l)] \/ loop[Before(l)] = "await"
        BY <1>3, <1>5, <2>2, <3>2 DEF LiveInv, Extended
      <4>3. loop[Before(l)] = "await" => loop'[Before(l)] # "ended"
        BY <1>1, <4>1, EndsStep
      <4>4. Move(Before(l))
        BY <1>2, <4>1 DEF Moves
      <4>5. loop[Before(l)] = "await" =>
               loop'[Before(l)] = "await" \/ next'[Before(l)]
        BY <4>3, <4>4 DEF Move
      <4>6. next'[Before(l)] => Extended(l)'
        BY DEF Extended, Before
      <4>7. QED
        BY <1>2, <4>1, <4>2, <4>5, <4>6, LoopsStay
    <3>3. QED
      BY <3>1, <3>2
  <2>4. ASSUME cpc'[l[1]] = "waiting", loop'[l] = "ended" PROVE l \in broken'
    <3>1. cpc[l[1]] = "waiting"
      BY <1>2, <2>1, <2>4 DEF Moves
    <3>2. CASE loop[l] = "ended"
      BY <1>3, <2>2, <3>1, <3>2 DEF LiveInv
    <3>3. CASE loop[l] # "ended"
      BY <1>1, <1>3, <2>4, <3>1, <3>3, EndsStep
    <3>4. QED
      BY <3>2, <3>3
  <2>5. QED
    BY <2>3, <2>4
<1>6. QED
  BY <1>4, <1>5

-----------------------------------------------------------------------------
(* A reader outlives its loop for a reason.                                *)

LEMMA OutlivesStep ==
    ASSUME Inv, RestInv, ChainInv, Next PROVE \A l \in Hop : Outlives(l)'
<1>1. SUFFICES ASSUME NEW l \in Hop PROVE Outlives(l)'
  OBVIOUS
<1> DEFINE a == After(l)
           b == l[1]
<1>2. Moves /\ b \in Build
  BY NextMoves, Paths
<1>3. /\ Move(l) /\ Outlives(l) /\ Joins(l) /\ LiveInv(l)
      /\ broken \subseteq broken'
  BY <1>2 DEF Moves, ChainInv
<1>4. ASSUME next'[l] PROVE Extended(l)'
  <2>1. CASE l[2] = 1
    BY <2>1 DEF Extended
  <2>2. CASE l[2] # 1
    <3>1. /\ Before(l) \in Hop /\ Before(l)[1] = l[1] /\ Before(l)[2] = l[2] - 1
          /\ l[2] \in Nat
      BY <2>2, BeforeIs, Paths
    <3>2. next[Before(l)]
      <4>1. CASE next[l]
        BY <1>3, <2>2, <4>1 DEF Outlives, Extended
      <4>2. CASE loop[l] = "await"
        <5>1. Live(b) /\ loop[l] # "none"
          BY <4>2 DEF Live, Asking
        <5>2. next[Before(l)] \/ loop[Before(l)] = "await"
          BY <1>3, <2>2, <5>1 DEF LiveInv, Extended
        <5>3. loop[Before(l)] = "await" => l[2] - 1 = l[2]
          BY <3>1, <4>2, AwaitIs
        <5>4. QED
          BY <3>1, <5>2, <5>3
      <4>3. QED
        BY <1>2, <1>4, <4>1, <4>2, LoopsStay
    <3>3. next'[Before(l)]
      BY <1>2, <3>1, <3>2, LoopsStay
    <3>4. QED
      BY <3>3 DEF Extended, Before
  <2>3. QED
    BY <2>1, <2>2
<1>5. ASSUME loop'[l] = "ended", reader'[l] = "run", cpc'[b] = "waiting"
      PROVE  l \in broken \/ a \in broken
  <2>1. reader[l] = "run" /\ loop[l] # "none"
    BY <1>3, <1>5 DEF Move
  <2>2. cpc[b] = "waiting"
    <3>1. cpc[b] # "idle"
      BY <1>3, <2>1 DEF Joins
    <3>2. QED
      BY <1>2, <1>5, <3>1 DEF Moves
  <2>3. next[l]
    BY <2>1 DEF RestInv
  <2>4. /\ a \in Hop /\ a[1] = b /\ Before(a) = l /\ a[2] # 1
        /\ l[2] < N(b) /\ l[2] <= hops[b] /\ l[2] \in Nat /\ hops[b] \in Nat
    BY <2>3, HandlerIs, Neighbours, BeforeAfter
  <2>5. loop[l] \notin Asking
    BY <2>3 DEF RestInv
  <2>6. CASE loop[l] = "ended"
    BY <1>3, <2>1, <2>2, <2>6 DEF Outlives
  <2>7. CASE loop[l] # "ended"
    <3>1. \E k \in Hop : RelayLoop(k) \/ StallEnds(k)
      BY <1>5, <2>7, StartAt, ClientKeyAt, ClientEndsAt, BackwardAt, ReaderEofAt,
         FailureAt DEF Next, Progress, ClientStep, RelayReader
    <3>2. PICK k \in Hop : RelayLoop(k) \/ StallEnds(k)
      BY <3>1
    <3>3. CASE Created(k)
      <4>1. l = Goal(b)
        BY <1>5, <2>7, <3>3, CreatedAt
      <4>2. QED
        BY <1>2, <2>4, <4>1, BuildsAre
    <3>4. CASE AddCircuit(k) \/ Connect(k)
      BY <1>5, <2>7, <3>4, AddCircuitAt, ConnectAt
    <3>5. CASE Extend(k)
      <4>1. k = l
        BY <1>5, <2>7, <3>5, ExtendAt
      <4>2. /\ ~DownOpen(a) /\ down[l] # <<>> /\ Head(down[l]).cmd = "EXTEND"
        BY <1>5, <2>3, <2>7, <3>5, <4>1, ExtendAt
      <4>3. Live(b)
        BY <2>4, <4>2, DownLives
      <4>4. Held(a)
        BY <2>1, <2>4 DEF Held
      <4>5. loop[a] # "none"
        BY <1>3, <2>3, <2>4 DEF Joins
      <4>6. a \in broken \/ loop[a] = "ended"
        BY <4>2, <4>4, <4>5 DEF DownOpen
      <4>7. LiveInv(a)
        BY <2>4 DEF ChainInv
      <4>8. QED
        BY <2>2, <2>4, <4>3, <4>6, <4>7 DEF LiveInv
    <3>6. CASE ConnectFails(k) \/ StallEnds(k) \/ AwaitFails(k) \/ ExtendDone(k)
      <4>1. loop[k] \in Asking /\ \A m \in Hop : m # k => loop'[m] = loop[m]
        BY <3>6, FailsAt, ExtendDoneAt DEF Asking
      <4>2. QED
        BY <1>5, <2>5, <2>7, <4>1
    <3>7. CASE LoopEof(k)
      <4>1. DownEnds(l)
        BY <1>5, <2>7, <3>7, LoopEofAt
      <4>2. Held(l)
        <5>1. CASE l[2] = 1
          BY <2>2, <5>1 DEF Held
        <5>2. CASE l[2] # 1
          <6>1. next[Before(l)]
            BY <1>3, <2>3, <5>2 DEF Outlives, Extended
          <6>2. Handler(Before(l)) = Before(l)
            BY <5>2, <6>1, BeforeIs, HandlerIs
          <6>3. QED
            BY <5>2, <6>1, <6>2 DEF Held
        <5>3. QED
          BY <5>1, <5>2
      <4>3. QED
        BY <4>1, <4>2 DEF DownEnds
    <3>8. QED
      BY <3>2, <3>3, <3>4, <3>5, <3>6, <3>7 DEF RelayLoop
  <2>8. QED
    BY <2>6, <2>7
<1>6. ASSUME loop'[l] = "ended", reader'[l] = "run", cpc'[b] = "waiting"
      PROVE  l \in broken' \/ a \in broken'
  BY <1>3, <1>5, <1>6
<1>7. QED
  BY <1>4, <1>6 DEF Outlives, After

LEMMA OpenedStep ==
    ASSUME Inv, RestInv, ChainInv, Next PROVE \A b \in Build : Opened(b)'
<1>1. SUFFICES ASSUME NEW b \in Build, cpc'[b] = "waiting"
               PROVE  loop'[First(b)] # "none"
  BY DEF Opened, First
<1>2. Moves /\ First(b) \in Hop
  BY NextMoves, FirstIs
<1>3. CASE cpc[b] = "waiting"
  BY <1>2, <1>3, LoopsStay DEF ChainInv, Opened
<1>4. CASE cpc[b] # "waiting"
  <2>1. Start(b)
    <3>1. ASSUME NEW d \in Build, ClientStep(d) \/ Start(d) \/ ClientTimeout(d)
          PROVE  d = b /\ Start(b)
      BY <1>1, <1>4, <3>1, StartAt, ClientKeyAt, ClientEndsAt DEF ClientStep
    <3>2. ASSUME NEW l \in Hop, \/ RelayLoop(l) \/ RelayReader(l)
                               \/ Break(l) \/ Hang(l) \/ StallEnds(l)
          PROVE  FALSE
      <4>1. cpc' = cpc
        BY <3>2, CreatedAt, AddCircuitAt, ExtendAt, ConnectAt, FailsAt, ExtendDoneAt,
           LoopEofAt, BackwardAt, ReaderEofAt, FailureAt DEF RelayLoop, RelayReader
      <4>2. QED
        BY <1>1, <1>4, <4>1
    <3>3. QED
      BY <3>1, <3>2 DEF Next, Progress
  <2>2. QED
    BY <1>1, <1>2, <2>1, StartAt
<1>5. QED
  BY <1>3, <1>4

-----------------------------------------------------------------------------
(* Without failures.                                                       *)

LEMMA FaultlessIs ==
    ASSUME Inv, RestInv, ChainInv, faults = 0
    PROVE  /\ broken = {} /\ hung = {} /\ ~Late
           /\ \A l \in Hop :
                 /\ NoDestroy(up[l])
                 /\ loop[l] # "none" => /\ Held(l) /\ Answers(l)
                                        /\ UpOpen(l) /\ DownOpen(l)
                                        /\ ~DownEnds(l) /\ ~UpEnds(l)
<1>1. /\ broken = {} /\ hung = {}
      /\ \A l \in Hop : /\ loop[l] # "ended" /\ reader[l] # "ended"
                        /\ NoDestroy(up[l])
      /\ \A b \in Build : cpc[b] # "failed"
  BY DEF ChainInv, NoFaultInv
<1>2. ASSUME NEW l \in Hop, loop[l] # "none"
      PROVE  /\ Held(l) /\ Answers(l) /\ UpOpen(l) /\ DownOpen(l)
             /\ ~DownEnds(l) /\ ~UpEnds(l)
  <2>1. reader[l] \in {"none", "run"} /\ loop[l] # "ended"
    BY <1>1, Types
  <2>2. Answers(l)
    BY <1>2, <2>1 DEF Answers
  <2>3. Held(l)
    <3>1. CASE l[2] = 1
      BY <1>1, <3>1, Paths DEF Held
    <3>2. CASE l[2] # 1
      <4>1. /\ Before(l) \in Hop /\ After(Before(l)) = l
            /\ Before(l)[2] < N(Before(l)[1])
        BY <3>2, BeforeIs
      <4>2. reader[Before(l)] = "none" => loop[Before(l)] = "await"
        BY <1>1, <1>2, <4>1 DEF ChainInv, Joins
      <4>3. reader[Before(l)] = "run" \/ loop[Before(l)] = "await"
        BY <1>1, <4>1, <4>2, Types
      <4>4. QED
        BY <3>2, <4>3 DEF Held
    <3>3. QED
      BY <3>1, <3>2
  <2>4. QED
    BY <1>1, <1>2, <2>1, <2>2, <2>3 DEF UpOpen, DownOpen, DownEnds, UpEnds
<1>3. QED
  BY <1>1, <1>2 DEF Late

LEMMA AliveKept ==
    ASSUME NEW d \in Build, Alive(d), cpc'[d] = "waiting" => cpc[d] = "waiting",
           \A m \in Hop : m[1] = d =>
              /\ down[m] # <<>> => down'[m] # <<>>
              /\ up[m] # <<>> => up'[m] # <<>>
              /\ loop[m] = "connect" => loop'[m] = "connect"
    PROVE  Alive(d)'
  BY DEF Alive

LEMMA AliveAt ==
    ASSUME NEW m \in Hop, down'[m] # <<>> \/ up'[m] # <<>> \/ loop'[m] = "connect"
    PROVE  Alive(m[1])'
  BY DEF Alive

LEMMA NoDestroyKept ==
    ASSUME Inv, NEW m \in Hop, NoDestroy(up[m]),
           \/ up'[m] = up[m]
           \/ up[m] # <<>> /\ up'[m] = Tail(up[m])
           \/ \E w : w.cmd # "DESTROY" /\ up'[m] = Append(up[m], w)
    PROVE  NoDestroy(up'[m])
<1>1. up[m] \in Seq(Word)
  BY Types
<1>2. QED
  BY <1>1, HeadIsThere, NoDestroyAppend

\* What a step has to show, if it is none that fails.
Goes ==
    /\ UNCHANGED <<broken, hung>>
    /\ \A l \in Hop : /\ loop'[l] = "ended" => loop[l] = "ended"
                      /\ reader'[l] = "ended" => reader[l] = "ended"
                      /\ NoDestroy(up'[l])
    /\ \A b \in Build : /\ cpc'[b] = "failed" => cpc[b] = "failed"
                        /\ Alive(b)'

LEMMA ClientGoes ==
    ASSUME Inv, RestInv, ChainInv, faults = 0, faults' = 0, NEW b \in Build,
           ClientStep(b) \/ Start(b) \/ ClientTimeout(b)
    PROVE  Goes
<1> DEFINE f == First(b)
<1>1. f \in Hop /\ f[1] = b /\ \A l \in Hop : NoDestroy(up[l])
  BY FirstIs, FaultlessIs
<1>2. \A d \in Build : Alive(d)
  BY DEF ChainInv, NoFaultInv
<1>3. CASE Start(b)
  <2>1. /\ cpc'[b] = "waiting"
        /\ \A m \in Hop : /\ loop'[m] = IF m = f THEN "read" ELSE loop[m]
                          /\ down'[m] = IF m = f THEN <<CREATE(m)>> ELSE down[m]
    BY <1>3, StartAt DEF Fault
  <2>2. /\ UNCHANGED <<up, reader, broken, hung>>
        /\ \A d \in Build : d # b => cpc'[d] = cpc[d]
    BY <1>3, StartAt
  <2>3. Alive(b)'
    <3>1. down'[f] = <<CREATE(f)>>
      BY <1>1, <2>1
    <3>2. down'[f] # <<>>
      BY <3>1
    <3>3. Alive(f[1])'
      BY <1>1, <3>2, AliveAt
    <3>4. QED
      BY <1>1, <3>3
  <2>4. ASSUME NEW d \in Build, d # b PROVE Alive(d)'
    <3>1. \A m \in Hop : m[1] = d => m # f
      BY <1>1, <2>4
    <3>2. QED
      BY <1>2, <2>1, <2>2, <2>4, <3>1, AliveKept
  <2> HIDE DEF f
  <2>5. QED
    BY <1>1, <2>1, <2>2, <2>3, <2>4 DEF Goes
<1>4. CASE ClientKey(b)
  <2>1. /\ cpc[b] = "waiting" /\ up[f] # <<>>
        /\ UNCHANGED <<loop, reader, broken, hung>>
        /\ \A d \in Build : d # b => cpc'[d] = cpc[d]
        /\ \A m \in Hop : up'[m] = IF m = f THEN Tail(up[m]) ELSE up[m]
    BY <1>4, ClientKeyAt
  <2>2. up[f] \in Seq(Word)
    BY <1>1, Types
  <2>3. Head(up[f]).cmd # "DESTROY"
    BY <1>1, <2>1, <2>2, HeadIsThere
  <2>4. \/ cpc'[b] = "ready" /\ down' = down
        \/ cpc'[b] = "waiting" /\ \E v : down' = PutDown(down, f, v)
    BY <1>4, <2>3, ClientKeyAt
  <2>5. loop[f] # "none"
    BY <2>1 DEF ChainInv, Opened
  <2>6. Started(f) /\ DownOpen(f)
    BY <1>1, <2>5, FaultlessIs DEF ChainInv
  <2>7. \A v : /\ PutDown(down, f, v)[f] # <<>>
               /\ \A m \in Hop : m # f => PutDown(down, f, v)[m] = down[m]
    BY <1>1, <2>6, PutsDown
  <2>8. Alive(b)'
    <3>1. CASE cpc'[b] = "ready"
      BY <3>1 DEF Alive
    <3>2. CASE \E v : down' = PutDown(down, f, v)
      BY <1>1, <2>7, <3>2, AliveAt
    <3>3. QED
      BY <2>4, <3>1, <3>2
  <2>9. ASSUME NEW d \in Build, d # b PROVE Alive(d)'
    <3>1. \A m \in Hop : m[1] = d => m # f /\ down'[m] = down[m] /\ up'[m] = up[m]
      BY <1>1, <2>1, <2>4, <2>7, <2>9
    <3>2. QED
      BY <1>2, <2>1, <2>9, <3>1, AliveKept
  <2>10. \A m \in Hop : NoDestroy(up'[m])
    BY <1>1, <2>1, NoDestroyKept
  <2> HIDE DEF f
  <2>11. cpc'[b] # "failed"
    BY <2>4
  <2>12. QED
    BY <2>1, <2>8, <2>9, <2>10, <2>11 DEF Goes
<1>5. CASE ClientEof(b) \/ ClientTimeout(b)
  <2>1. cpc[b] = "waiting" /\ (UpEnds(f) \/ Late)
    BY <1>5, ClientEndsAt
  <2>2. loop[f] # "none"
    BY <2>1 DEF ChainInv, Opened
  <2>3. QED
    BY <1>1, <2>1, <2>2, FaultlessIs
<1>6. QED
  BY <1>3, <1>4, <1>5 DEF ClientStep

\* A step at one hop, of its loop or its reader.
LEMMA HopGoes ==
    ASSUME Inv, RestInv, ChainInv, faults = 0, NEW l \in Hop,
           UNCHANGED <<cpc, broken, hung>>,
           loop'[l] # "ended", reader'[l] # "ended",
           \A m \in Hop : m # l => /\ loop'[m] # "ended" \/ loop'[m] = loop[m]
                                   /\ reader'[m] = reader[m],
           \A m \in Hop : NoDestroy(up'[m]),
           Alive(l[1])',
           \A m \in Hop : m # l /\ m # After(l) =>
              /\ down'[m] = down[m] /\ up'[m] = up[m] /\ loop'[m] = loop[m]
    PROVE  Goes
<1>1. ASSUME NEW d \in Build PROVE Alive(d)'
  <2>1. CASE d # l[1]
    <3>1. \A m \in Hop : m[1] = d => m # l /\ m # After(l)
      BY <2>1 DEF After
    <3>2. Alive(d)
      BY DEF ChainInv, NoFaultInv
    <3>3. QED
      BY <3>1, <3>2, AliveKept
  <2>2. QED
    BY <2>1
<1>2. \A m \in Hop : /\ loop'[m] = "ended" => loop[m] = "ended"
                     /\ reader'[m] = "ended" => reader[m] = "ended"
  OBVIOUS
<1>3. QED
  BY <1>1, <1>2 DEF Goes

LEMMA LoopGoes ==
    ASSUME Inv, RestInv, ChainInv, faults = 0, faults' = 0, NEW l \in Hop,
           RelayLoop(l) \/ StallEnds(l)
    PROVE  Goes
<1> DEFINE a == After(l)
<1>1. /\ \A m \in Hop : NoDestroy(up[m]) /\ reader[m] # "ended"
      /\ l[1] \in Build /\ Alive(l[1])
  BY Paths DEF ChainInv, NoFaultInv
<1>2. Joins(l) /\ Started(l)
  BY DEF ChainInv
<1>3. l[2] < N(l[1]) => a \in Hop /\ a # l /\ a[1] = l[1] /\ a[2] = l[2] + 1
  BY Neighbours
<1>4. CASE Created(l)
  <2>1. UpOpen(l)
    BY <1>4, CreatedAt, FaultlessIs
  <2>2. /\ loop'[l] = "add" /\ up'[l] = Append(up[l], Cell("CREATED", l, {}))
        /\ up'[l] # <<>> /\ UNCHANGED <<cpc, reader, broken, hung>>
        /\ \A m \in Hop : m # l => /\ loop'[m] = loop[m]
                                   /\ down'[m] = down[m] /\ up'[m] = up[m]
    BY <1>4, <2>1, CreatedAt
  <2>3. Cell("CREATED", l, {}).cmd # "DESTROY"
    BY DEF Cell
  <2>4. \A m \in Hop : NoDestroy(up'[m])
    BY <1>1, <2>2, <2>3, NoDestroyKept
  <2>5. Alive(l[1])'
    BY <2>2, AliveAt
  <2>6. QED
    BY <1>1, <2>2, <2>4, <2>5, HopGoes
<1>5. CASE AddCircuit(l)
  <2>1. /\ loop[l] = "add" /\ loop'[l] = "read"
        /\ UNCHANGED <<cpc, down, up, reader, broken, hung>>
        /\ \A m \in Hop : m # l => loop'[m] = loop[m]
    BY <1>5, AddCircuitAt
  <2>2. Alive(l[1])'
    BY <1>1, <2>1, AliveKept
  <2>3. QED
    BY <1>1, <2>1, <2>2, HopGoes
<1>6. CASE Extend(l)
  <2>1. /\ loop[l] = "read" /\ UNCHANGED <<cpc, up, reader, broken, hung>>
        /\ \A m \in Hop : m # l => loop'[m] = loop[m]
        /\ \A m \in Hop : m # l /\ m # a => down'[m] = down[m]
    BY <1>6, ExtendAt
  <2>2. CASE next[l]
    <3>1. a \in Hop /\ loop[a] # "none"
      BY <1>2, <1>3, <2>2, HandlerIs DEF Joins
    <3>2. DownOpen(a)
      BY <3>1, FaultlessIs
    <3>3. loop'[l] = "read" /\ down'[a] # <<>>
      BY <1>6, <2>1, <2>2, <3>2, ExtendAt
    <3>4. a[1] = l[1]
      BY <1>3, <2>2, HandlerIs
    <3>5. Alive(l[1])'
      BY <3>1, <3>3, <3>4, AliveAt
    <3>6. QED
      BY <1>1, <2>1, <3>3, <3>5, HopGoes
  <2>3. CASE ~next[l]
    <3>1. ASSUME l[2] # hops[l[1]] PROVE FALSE
      <4>1. /\ l[2] \in 1 .. hops[l[1]] /\ hops[l[1]] <= N(l[1])
            /\ hops[l[1]] \in Nat /\ N(l[1]) \in Nat /\ l[2] \in Nat
        BY <1>1, <1>6, ExtendAt, BuildsAre, Paths
      <4>2. l[2] < N(l[1]) /\ l[2] + 1 <= hops[l[1]]
        BY <3>1, <4>1
      <4>3. Registered(a)
        BY <1>3, <4>2, HandlerIs
      <4>4. loop[a] # "none"
        BY <1>3, <4>2, <4>3 DEF Registered, ChainInv, Started
      <4>5. reader[l] = "none"
        BY <2>3 DEF RestInv
      <4>6. QED
        BY <1>2, <2>1, <4>2, <4>4, <4>5 DEF Joins
    <3>2. loop'[l] = "connect"
      BY <1>6, <2>3, <3>1, ExtendAt
    <3>3. Alive(l[1])'
      BY <3>2, AliveAt
    <3>4. QED
      BY <1>1, <2>1, <3>2, <3>3, HopGoes
  <2>4. QED
    BY <2>2, <2>3
<1>7. CASE Connect(l)
  <2>1. /\ a \in Hop /\ a # l /\ l[2] < N(l[1])
        /\ UNCHANGED <<cpc, up, reader, broken, hung>>
        /\ \A m \in Hop :
              /\ loop'[m] = IF m = l THEN "await" ELSE IF m = a THEN "read" ELSE loop[m]
              /\ down'[m] = IF m = a THEN <<CREATE(m)>> ELSE down[m]
    BY <1>7, ConnectAt
  <2>2. down'[a] # <<>> /\ a[1] = l[1]
    <3>1. down'[a] = <<CREATE(a)>>
      BY <2>1
    <3>2. QED
      BY <1>3, <2>1, <3>1
  <2>3. Alive(l[1])'
    BY <2>1, <2>2, AliveAt
  <2> HIDE DEF a
  <2>4. QED
    BY <1>1, <2>1, <2>3, HopGoes DEF a
<1>8. CASE ConnectFails(l) \/ StallEnds(l) \/ AwaitFails(l)
  <2>1. loop[l] = "await" /\ GivesUp(l)
    BY <1>8, FailsAt, FaultlessIs DEF Fault, Stalls
  <2>2. a \in Hop /\ loop[a] # "none"
    BY <1>2, <2>1, AwaitIs DEF Joins
  <2>3. QED
    BY <2>1, <2>2, FaultlessIs DEF GivesUp
<1>9. CASE ExtendDone(l)
  <2>1. loop[l] = "await" /\ UpOpen(l)
    BY <1>9, ExtendDoneAt, FaultlessIs
  <2>2. /\ a \in Hop /\ a # l /\ up[a] # <<>> /\ up'[a] = Tail(up[a])
        /\ UNCHANGED <<cpc, down, broken, hung>>
        /\ \A m \in Hop : m # l => /\ loop'[m] = loop[m] /\ reader'[m] = reader[m]
                                   /\ m # a => up'[m] = up[m]
        /\ loop'[l] = "read" /\ reader'[l] = "run" /\ up'[l] # <<>>
    BY <1>9, <2>1, ExtendDoneAt
  <2>3. \E w \in Word : w.cmd # "DESTROY" /\ up'[l] = Append(up[l], w)
    BY <1>9, <2>1, ExtendDoneAt
  <2>4. \A m \in Hop : NoDestroy(up'[m])
    BY <1>1, <2>2, <2>3, NoDestroyKept
  <2>5. Alive(l[1])'
    BY <2>2, AliveAt
  <2>6. QED
    BY <1>1, <2>2, <2>4, <2>5, HopGoes
<1>10. CASE LoopEof(l)
  BY <1>10, LoopEofAt, FaultlessIs
<1>11. QED
  BY <1>4, <1>5, <1>6, <1>7, <1>8, <1>9, <1>10 DEF RelayLoop

LEMMA ReaderGoes ==
    ASSUME Inv, RestInv, ChainInv, faults = 0, NEW l \in Hop, RelayReader(l)
    PROVE  Goes
<1> DEFINE a == After(l)
<1>1. /\ \A m \in Hop : NoDestroy(up[m]) /\ loop[m] # "ended"
      /\ Joins(l) /\ Started(l)
  BY DEF ChainInv, NoFaultInv
<1>2. reader[l] = "run"
  BY <1>1, BackwardAt, ReaderEofAt DEF RelayReader
<1>3. next[l] /\ l[2] < N(l[1]) /\ a \in Hop /\ a # l
  BY <1>2, ReaderRuns
<1>4. loop[l] # "none" /\ loop[a] # "none"
  BY <1>1, <1>2, <1>3 DEF Started, Joins
<1>5. UpOpen(l) /\ ~UpEnds(a)
  BY <1>3, <1>4, FaultlessIs
<1>6. Backward(l)
  BY <1>5, ReaderEofAt DEF RelayReader
<1>7. /\ up[a] # <<>> /\ up[a] \in Seq(Word)
      /\ UNCHANGED <<cpc, down, loop, broken, hung>>
      /\ \A m \in Hop : m # l => reader'[m] = reader[m] /\ (m # a => up'[m] = up[m])
      /\ up'[a] = Tail(up[a]) /\ up'[l] # <<>>
  BY <1>3, <1>5, <1>6, BackwardAt, Types
<1>8. Head(up[a]).cmd # "DESTROY"
  BY <1>1, <1>3, <1>7, HeadIsThere
<1>9. PICK w \in Word : /\ up'[l] = Append(up[l], w)
                        /\ IF Head(up[a]).cmd = "DESTROY" THEN w.cmd = "DESTROY"
                           ELSE w.cmd # "DESTROY" /\ reader'[l] = "run"
  BY <1>5, <1>6, BackwardAt
<1>10. reader'[l] = "run" /\ \A m \in Hop : NoDestroy(up'[m])
  BY <1>1, <1>7, <1>8, <1>9, NoDestroyKept
<1>11. Alive(l[1])'
  BY <1>7, AliveAt
<1>12. QED
  BY <1>1, <1>7, <1>10, <1>11, HopGoes

LEMMA NoFaultStep ==
    ASSUME Inv, RestInv, ChainInv, Next PROVE NoFaultInv'
<1>1. SUFFICES ASSUME faults' = 0
               PROVE  /\ broken' = {} /\ hung' = {}
                      /\ \A l \in Hop : /\ loop'[l] # "ended" /\ reader'[l] # "ended"
                                        /\ NoDestroy(up'[l])
                      /\ \A b \in Build : cpc'[b] # "failed" /\ Alive(b)'
  BY DEF NoFaultInv, NoDestroy
<1>2. faults \in Nat /\ (Fault => faults' # 0)
  BY NoneAssumption DEF RestInv, Fault
<1>3. faults = 0
  <2>1. faults' = faults \/ Fault
    <3>1. ASSUME NEW b \in Build, ClientStep(b) \/ Start(b) \/ ClientTimeout(b)
          PROVE  faults' = faults \/ Fault
      BY <3>1, StartAt, ClientKeyAt, ClientEndsAt DEF ClientStep
    <3>2. ASSUME NEW l \in Hop, RelayLoop(l) \/ StallEnds(l)
          PROVE  faults' = faults \/ Fault
      BY <3>2, CreatedAt, AddCircuitAt, ExtendAt, ConnectAt, FailsAt, ExtendDoneAt,
         LoopEofAt DEF RelayLoop
    <3>3. ASSUME NEW l \in Hop, RelayReader(l) PROVE faults' = faults
      BY <3>3, BackwardAt, ReaderEofAt DEF RelayReader
    <3>4. ASSUME NEW l \in Hop, Break(l) \/ Hang(l) PROVE Fault
      BY <3>4, FailureAt
    <3>5. QED
      BY <3>1, <3>2, <3>3, <3>4 DEF Next, Progress
  <2>2. QED
    BY <1>1, <1>2, <2>1
<1>4. Goes
  <2>1. ASSUME NEW l \in Hop, Break(l) \/ Hang(l) PROVE FALSE
    BY <1>1, <1>2, <2>1, FailureAt
  <2>2. QED
    BY <1>1, <1>3, <2>1, ClientGoes, LoopGoes, ReaderGoes DEF Next, Progress
<1>5. /\ broken = {} /\ hung = {}
      /\ \A l \in Hop : loop[l] # "ended" /\ reader[l] # "ended"
      /\ \A b \in Build : cpc[b] # "failed"
  BY <1>3 DEF ChainInv, NoFaultInv
<1>6. QED
  BY <1>4, <1>5 DEF Goes

-----------------------------------------------------------------------------
(* All steps.                                                              *)

LEMMA ChainInit ==
    ASSUME Init PROVE ChainInv
<1>1. /\ \A l \in Hop : /\ loop[l] = "none" /\ reader[l] = "none" /\ ~next[l]
                        /\ down[l] = <<>> /\ up[l] = <<>>
      /\ \A b \in Build : cpc[b] = "idle"
      /\ \A r \in Relay : lock[r] = None
      /\ broken = {} /\ hung = {}
  BY DEF Init
<1>2. LockInv
  BY <1>1 DEF LockInv
<1>3. ASSUME NEW l \in Hop
      PROVE  Started(l) /\ Joins(l) /\ Awaits(l) /\ LiveInv(l) /\ Outlives(l)
  <2>1. Handler(l) # l
    BY RelaysAre, NoneAssumption DEF Init, Handler
  <2>2. l[2] < N(l[1]) => After(l) \in Hop
    BY Neighbours
  <2>3. Started(l) /\ Awaits(l) /\ LiveInv(l) /\ Outlives(l)
    BY <1>1, <2>1 DEF Started, Awaits, LiveInv, Outlives
  <2>4. Joins(l)
    BY <1>1, <2>2 DEF Joins
  <2>5. QED
    BY <2>3, <2>4
<1>4. \A b \in Build : Opened(b)
  BY <1>1 DEF Opened
<1>5. NoFaultInv
  BY <1>1 DEF NoFaultInv, NoDestroy, Alive
<1>6. QED
  BY <1>2, <1>3, <1>4, <1>5 DEF ChainInv

LEMMA ChainStill ==
    ASSUME ChainInv, UNCHANGED vars PROVE ChainInv'
<1>1. UNCHANGED <<cpc, hops, down, up, loop, reader, next, circuits, lock, broken,
                  hung, faults>>
  BY DEF vars, client, relays, handler, failures
<1>2. LockInv'
  BY <1>1 DEF ChainInv, LockInv, RelayOf
<1>3. ASSUME NEW l \in Hop
      PROVE  (Started(l) /\ Joins(l) /\ Awaits(l) /\ LiveInv(l) /\ Outlives(l))'
  <2>1. Handler(l)' = Handler(l) /\ Live(l[1])' = Live(l[1])
        /\ Extended(l)' = Extended(l)
    BY <1>1 DEF Handler, Live, Bare, Extended, Before
  <2>2. Started(l) /\ Joins(l) /\ Awaits(l) /\ LiveInv(l) /\ Outlives(l)
    BY DEF ChainInv
  <2>3. Started(l)' /\ Joins(l)'
    BY <1>1, <2>1, <2>2 DEF Started, Joins, After
  <2>4. Awaits(l)'
    BY <1>1, <2>2 DEF Awaits, After
  <2>5. LiveInv(l)'
    BY <1>1, <2>1, <2>2 DEF LiveInv, Before
  <2>6. Outlives(l)'
    BY <1>1, <2>1, <2>2 DEF Outlives, After
  <2>7. QED
    BY <2>3, <2>4, <2>5, <2>6
<1>4. (\A b \in Build : Opened(b))'
  BY <1>1 DEF ChainInv, Opened, First
<1>5. NoFaultInv'
  BY <1>1 DEF ChainInv, NoFaultInv, Alive, NoDestroy
<1>6. QED
  BY <1>2, <1>3, <1>4, <1>5 DEF ChainInv

LEMMA ChainStep ==
    ASSUME Inv, RestInv, ChainInv, [Next]_vars PROVE ChainInv'
<1>1. CASE Next
  <2>1. Moves
    BY <1>1, NextMoves
  <2>2. (\A l \in Hop : Started(l) /\ Joins(l))'
    BY <2>1, StartedStep, JoinsStep
  <2>3. (\A l \in Hop : Awaits(l) /\ LiveInv(l) /\ Outlives(l))'
    BY <1>1, AwaitsStep, LiveInvStep, OutlivesStep
  <2>4. LockInv' /\ NoFaultInv' /\ (\A b \in Build : Opened(b))'
    BY <1>1, LockStep, NoFaultStep, OpenedStep
  <2>5. QED
    BY <2>2, <2>3, <2>4 DEF ChainInv
<1>2. CASE UNCHANGED vars
  BY <1>2, ChainStill
<1>3. QED
  BY <1>1, <1>2

-----------------------------------------------------------------------------
(* At rest.                                                                *)

LEMMA AsksAtRest ==
    ASSUME Inv, RestInv, ChainInv, AtRest
    PROVE  \A l \in Hop : loop[l] \in Asking => Stalls(l)
<1>1. SUFFICES ASSUME NEW l \in Hop, loop[l] \in Asking, ~Stalls(l) PROVE FALSE
  OBVIOUS
<1> DEFINE a == After(l)
<1>2. loop[l] = "await" /\ ~Readable(up, a) /\ ~GivesUp(l)
  BY <1>1 DEF AtRest, LoopRests, Asking
<1>3. hung = {} /\ ~UpEnds(a)
  BY <1>2 DEF GivesUp, Late
<1>4. a \in Hop /\ reader[a] = "none"
  BY <1>2, AwaitIs
<1>5. up[a] = <<>>
  BY <1>2, <1>3 DEF Readable
<1>6. a \notin broken /\ loop[a] # "ended"
  BY <1>3, <1>4, <1>5 DEF UpEnds, Answers
<1>7. loop[a] = "read" /\ down[a] # <<>> /\ Head(down[a]).cmd = "CREATE"
  BY <1>2, <1>5, <1>6 DEF ChainInv, Awaits
<1>8. Readable(down, a)
  BY <1>3, <1>7 DEF Readable
<1>9. QED
  BY <1>4, <1>7, <1>8 DEF AtRest, LoopRests

LEMMA NoneAwaitsAtRest ==
    ASSUME Inv, RestInv, ChainInv, AtRest
    PROVE  \A l \in Hop : loop[l] # "await"
BY AsksAtRest DEF Asking, Stalls

LEMMA LocksAtRest ==
    ASSUME Inv, RestInv, ChainInv, AtRest
    PROVE  LocksFree /\ \A l \in Hop : LockFree(l) \/ StallsAt(RelayOf(l))
<1>1. LocksFree
  BY AsksAtRest DEF ChainInv, LockInv, LocksFree, StallsAt
<1>2. QED
  BY <1>1, RelaysAre DEF LocksFree, LockFree

LEMMA BuildsAtRest ==
    ASSUME Inv, RestInv, ChainInv, AtRest PROVE BuildsDone
<1>1. SUFFICES ASSUME faults = 0, NEW b \in Build, cpc[b] \notin {"idle", "ready"}
               PROVE  FALSE
  BY DEF BuildsDone
<1>2. hung = {} /\ cpc[b] # "failed" /\ Alive(b)
      /\ \A m \in Hop : loop[m] # "ended" /\ reader[m] # "ended"
  BY <1>1 DEF ChainInv, NoFaultInv
<1>3. cpc[b] = "waiting"
  BY <1>1, <1>2, Types
<1>4. PICK l \in Hop : /\ l[1] = b
                       /\ down[l] # <<>> \/ up[l] # <<>> \/ loop[l] = "connect"
  BY <1>2, <1>3 DEF Alive
<1>5. \A m \in Hop : loop[m] \notin Asking /\ LockFree(m)
  <2>1. \A m : ~Stalls(m)
    BY <1>2 DEF Stalls
  <2>2. QED
    BY <2>1, AsksAtRest, LocksAtRest DEF StallsAt
<1>6. /\ loop[l] \notin {"none", "ended", "connect", "await"}
      /\ LockFree(l) /\ LoopRests(l)
  BY <1>2, <1>4, <1>5 DEF ChainInv, Started, Asking, AtRest
<1>7. loop[l] = "read"
  BY <1>6, Types DEF LoopRests
<1>8. CASE down[l] # <<>>
  <2>1. NoDestroy(down[l]) /\ down[l] \in Seq(Word) /\ Readable(down, l)
    BY <1>2, <1>8, Types DEF RestInv, Readable
  <2>2. Head(down[l]).cmd # "DESTROY"
    BY <1>8, <2>1, HeadIsThere
  <2>3. Head(down[l]).cmd \in {"CREATE", "EXTEND"}
    <3>1. Head(down[l]) = EXTEND(b, l[2]) \/ Head(down[l]) = CREATE(l)
      BY <1>4, <1>8, <2>2, DownHead
    <3>2. EXTEND(b, l[2]).cmd = "EXTEND" /\ CREATE(l).cmd = "CREATE"
      BY DEF EXTEND, CREATE, Cell
    <3>3. QED
      BY <3>1, <3>2
  <2>4. QED
    BY <1>6, <1>7, <2>1, <2>3 DEF LoopRests
<1>9. CASE up[l] # <<>>
  <2>1. Readable(up, l)
    BY <1>2, <1>9 DEF Readable
  <2>2. CASE l[2] = 1
    <3>1. l = First(b)
      BY <1>4, <2>2, FirstIs
    <3>2. QED
      BY <1>3, <2>1, <3>1 DEF AtRest, ClientRests
  <2>3. CASE l[2] # 1
    <3>1. /\ Before(l) \in Hop /\ After(Before(l)) = l
          /\ Before(l)[2] < N(Before(l)[1])
      BY <2>3, BeforeIs
    <3>2. reader[Before(l)] # "none"
      BY <1>2, <1>6, <1>5, <3>1 DEF ChainInv, Joins, Asking
    <3>3. reader[Before(l)] = "run"
      BY <1>2, <3>1, <3>2, Types
    <3>4. QED
      BY <1>5, <2>1, <3>1, <3>3 DEF AtRest, ReaderRests
  <2>4. QED
    BY <2>2, <2>3
<1>10. QED
  BY <1>4, <1>6, <1>8, <1>9

\* Nothing comes from here any more.
Gone(l) == loop[l] # "none" /\ (l \in broken \/ ~Answers(l))

LEMMA GoneBefore ==
    ASSUME Inv, RestInv, ChainInv, AtRest, NEW m \in Hop, Gone(m), m \notin hung,
           cpc[m[1]] = "waiting", m[2] # 1 => ~StallsAt(RelayOf(Before(m)))
    PROVE  m[2] # 1 /\ Gone(Before(m))
<1>1. UpEnds(m) \/ Readable(up, m)
  BY DEF Gone, UpEnds, Readable
<1>2. m[2] # 1
  <2>1. ASSUME m[2] = 1 PROVE FALSE
    <3>1. m[1] \in Build /\ m = First(m[1])
      BY <2>1, Paths, FirstIs
    <3>2. QED
      BY <1>1, <3>1 DEF AtRest, ClientRests
  <2>2. QED
    BY <2>1
<1> DEFINE k == Before(m)
<1>3. k \in Hop /\ After(k) = m /\ k[2] < N(k[1])
  BY <1>2, BeforeIs
<1>4. reader[k] # "run"
  BY <1>1, <1>2, <1>3, LocksAtRest DEF AtRest, ReaderRests
<1>5. reader[k] \in {"none", "ended"} /\ Started(k) /\ Joins(k)
  BY <1>3, <1>4, Types DEF ChainInv
<1>6. CASE reader[k] = "none"
  <2>1. loop[k] = "ended"
    BY <1>3, <1>5, <1>6, NoneAwaitsAtRest DEF Joins, Gone
  <2>2. QED
    BY <1>2, <1>6, <2>1 DEF Gone, Answers
<1>7. CASE reader[k] = "ended"
  BY <1>2, <1>5, <1>7 DEF Started, Gone, Answers
<1>8. QED
  BY <1>5, <1>6, <1>7

LEMMA ReportedAtRest ==
    ASSUME Inv, RestInv, ChainInv, AtRest PROVE Reported
<1>1. SUFFICES ASSUME NEW l \in Hop, loop[l] = "ended", cpc[l[1]] = "waiting",
                      \A j \in 1 .. l[2] : ~HeldUp(l, j)
               PROVE  FALSE
  BY DEF Reported
<1> DEFINE b == l[1]
           K == {j \in 1 .. l[2] : Gone(<<b, j>>)}
<1>2. b \in Build /\ l[2] \in 1 .. N(b) /\ l = <<b, l[2]>> /\ N(b) \in Nat
  BY Paths
<1>3. Gone(l)
  <2>1. CASE reader[l] = "run"
    <3>1. l \in broken \/ After(l) \in broken
      BY <1>1, <2>1 DEF ChainInv, Outlives
    <3>2. After(l) \notin broken
      BY <2>1 DEF AtRest, ReaderRests, UpEnds
    <3>3. QED
      BY <1>1, <3>1, <3>2 DEF Gone
  <2>2. CASE reader[l] # "run"
    BY <1>1, <2>2 DEF Gone, Answers
  <2>3. QED
    BY <2>1, <2>2
<1>4. l[2] \in K
  BY <1>2, <1>3
<1>5. K \subseteq Nat
  BY <1>2
<1>6. PICK j \in K : \A i \in K : ~(<<i, j>> \in OpToRel(<, Nat))
  BY <1>4, <1>5, NatLessThanWellFounded, WFMin
<1>7. j \in 1 .. l[2] /\ j \in Nat /\ Gone(<<b, j>>) /\ <<b, j>> \in Hop
  <2>1. j \in 1 .. l[2] /\ Gone(<<b, j>>)
    BY <1>6
  <2>2. j \in Nat /\ j \in 1 .. N(b)
    BY <1>2, <2>1
  <2>3. QED
    BY <1>2, <2>1, <2>2, Paths
<1>8. j # 1 /\ Gone(<<b, j - 1>>)
  <2>1. <<b, j>> \notin hung
    BY <1>1, <1>7 DEF HeldUp
  <2>2. j # 1 => ~StallsAt(RelayOf(<<b, j - 1>>))
    <3>1. j # 1 => j - 1 \in 1 .. l[2]
      BY <1>2, <1>7
    <3>2. QED
      BY <1>1, <3>1 DEF HeldUp, RelayOf
  <2>3. QED
    BY <1>1, <1>7, <2>1, <2>2, GoneBefore DEF Before
<1>9. j - 1 \in 1 .. l[2] /\ j - 1 \in Nat /\ j - 1 < j
  BY <1>2, <1>7, <1>8
<1>10. j - 1 \in K
  BY <1>8, <1>9
<1>11. <<j - 1, j>> \in OpToRel(<, Nat)
  BY <1>7, <1>9 DEF OpToRel
<1>12. QED
  BY <1>6, <1>10, <1>11

\* Where no task can take a step, a relay's registry is locked only by a loop
\* whose connection attempt hangs, the one await of handle_extend that no timer
\* ends; without failures every build that has begun is complete; and the client
\* of a circuit that a relay has given up has heard of it, unless a connection on
\* the way back hangs or the registry of a relay on the way is locked by such a
\* loop: handle_extend, spawn_nexthop_reader and the client never wait for each
\* other in a circle, nor for an answer that is lost.
THEOREM SettledAtRest ==
    ASSUME DistinctIds
    PROVE  Spec => [](AtRest => LocksFree /\ BuildsDone /\ Reported)
<1> DEFINE Full == Inv /\ RestInv /\ ChainInv
           Settled == AtRest => LocksFree /\ BuildsDone /\ Reported
<1>1. Init => Full
  BY InitInv, RestInit, ChainInit
<1>2. Full /\ [Next]_vars => Full'
  BY StepInv, RestStep, ChainStep
<1>3. Full => Settled
  BY LocksAtRest, BuildsAtRest, ReportedAtRest
<1> HIDE DEF Full, Settled
<1>4. Spec => []Settled
  BY <1>1, <1>2, <1>3, PTL DEF Spec
<1>5. QED
  BY <1>4 DEF Settled

=============================================================================
