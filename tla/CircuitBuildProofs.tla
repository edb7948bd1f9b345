-------------------------- MODULE CircuitBuildProofs --------------------------
(***************************************************************************)
(* A circuit that its client takes for built is built, for any builds,     *)
(* relays, paths and failures, as long as no relay is given the same       *)
(* circuit id twice; and until then no connection has more cells waiting   *)
(* on it than the path has hops.                                           *)
(***************************************************************************)
EXTENDS CircuitBuild, SequenceTheorems, TLAPS

\* No two circuits with one id pass the same relay: one client counts its
\* circuits, two clients have to have luck.
DistinctIds ==
    \A b, d \in Build :
        b # d /\ CircuitId[b] = CircuitId[d] =>
           \A i \in DOMAIN Path[b], j \in DOMAIN Path[d] :
              Path[b][i] # Path[d][j]

N(b) == Len(Path[b])

LEMMA Paths ==
    /\ \A b \in Build : /\ N(b) \in Nat /\ N(b) >= 3 /\ DOMAIN Path[b] = 1 .. N(b)
                        /\ \A i \in 1 .. N(b) : <<b, i>> \in Hop
    /\ \A l \in Hop : /\ l[1] \in Build /\ l[2] \in 1 .. N(l[1]) /\ l[2] \in Nat
                      /\ l = <<l[1], l[2]>>
<1>1. ASSUME NEW b \in Build
      PROVE  /\ N(b) \in Nat /\ N(b) >= 3 /\ DOMAIN Path[b] = 1 .. N(b)
             /\ \A i \in 1 .. N(b) : <<b, i>> \in Hop
  <2>1. Path[b] \in Seq(Relay) /\ N(b) >= 3
    BY PathAssumption DEF N
  <2>2. N(b) \in Nat /\ DOMAIN Path[b] = 1 .. N(b)
    BY <2>1, LenProperties DEF N
  <2>3. QED
    BY <2>1, <2>2 DEF Hop
<1>2. ASSUME NEW l \in Hop
      PROVE  /\ l[1] \in Build /\ l[2] \in 1 .. N(l[1]) /\ l[2] \in Nat
             /\ l = <<l[1], l[2]>>
  <2>1. PICK b \in Build : l \in {<<b, k>> : k \in DOMAIN Path[b]}
    BY DEF Hop
  <2>2. PICK k \in DOMAIN Path[b] : l = <<b, k>>
    BY <2>1
  <2>3. QED
    BY <1>1, <2>2
<1>3. QED
  BY <1>1, <1>2

LEMMA RelaysAre ==
    \A l \in Hop : /\ RelayOf(l) \in Relay /\ IdOf(l) \in Id
                   /\ RelayOf(l) = Path[l[1]][l[2]] /\ IdOf(l) = CircuitId[l[1]]
<1>1. ASSUME NEW l \in Hop PROVE RelayOf(l) \in Relay /\ IdOf(l) \in Id
  <2>1. l[1] \in Build /\ l[2] \in DOMAIN Path[l[1]] /\ Path[l[1]] \in Seq(Relay)
    BY Paths, PathAssumption
  <2>2. QED
    BY <2>1, ElementOfSeq, LenProperties DEF RelayOf, IdOf, Id
<1>2. QED
  BY <1>1 DEF RelayOf, IdOf

\* Each place in the registries belongs to one hop.
LEMMA OnePlace ==
    ASSUME DistinctIds, NEW l \in Hop, NEW m \in Hop,
           RelayOf(l) = RelayOf(m), IdOf(l) = IdOf(m)
    PROVE  l = m
<1>1. /\ l[1] \in Build /\ m[1] \in Build
      /\ l[2] \in DOMAIN Path[l[1]] /\ m[2] \in DOMAIN Path[m[1]]
      /\ l = <<l[1], l[2]>> /\ m = <<m[1], m[2]>>
  BY Paths
<1>2. /\ Path[l[1]][l[2]] = Path[m[1]][m[2]] /\ CircuitId[l[1]] = CircuitId[m[1]]
  BY DEF RelayOf, IdOf
<1>3. l[1] = m[1]
  BY <1>1, <1>2 DEF DistinctIds
<1>4. l[2] = m[2]
  BY <1>1, <1>2, <1>3, PathAssumption
<1>5. QED
  BY <1>1, <1>3, <1>4

-----------------------------------------------------------------------------
(* Channels: one cell of a handshake at most, among any number of DESTROY. *)

Word == [cmd : {"CREATE", "CREATED", "EXTEND", "EXTENDED", "DESTROY"},
         hop : Hop \cup {None}, layers : SUBSET (Hop \X Nat)]

Bare(s) == \A p \in 1 .. Len(s) : s[p].cmd = "DESTROY"

Holds(s, w) ==
    /\ w.cmd # "DESTROY"
    /\ \E p \in 1 .. Len(s) :
          s[p] = w /\ \A q \in 1 .. Len(s) : q # p => s[q].cmd = "DESTROY"

LEMMA TailAt ==
    ASSUME NEW S, NEW s \in Seq(S), s # <<>>
    PROVE  /\ Len(s) \in Nat \ {0} /\ Head(s) = s[1] /\ Head(s) \in S
           /\ Tail(s) \in Seq(S) /\ Len(Tail(s)) = Len(s) - 1
           /\ \A p \in 1 .. Len(Tail(s)) : Tail(s)[p] = s[p + 1]
  BY HeadTailProperties

LEMMA AppendAt ==
    ASSUME NEW S, NEW s \in Seq(S), NEW w \in S
    PROVE  /\ Len(s) \in Nat
           /\ Append(s, w) \in Seq(S) /\ Len(Append(s, w)) = Len(s) + 1
           /\ \A p \in 1 .. Len(Append(s, w)) :
                Append(s, w)[p] = IF p = Len(s) + 1 THEN w ELSE s[p]
  BY AppendProperties

LEMMA BareTail ==
    ASSUME NEW S, NEW s \in Seq(S), s # <<>>, Bare(s)
    PROVE  Head(s).cmd = "DESTROY" /\ Bare(Tail(s))
<1> DEFINE t == Tail(s)
<1>1. /\ Len(s) \in Nat \ {0} /\ Head(s) = s[1] /\ Len(t) = Len(s) - 1
      /\ \A p \in 1 .. Len(t) : t[p] = s[p + 1]
  BY TailAt
<1> HIDE DEF t
<1>2. 1 \in 1 .. Len(s) /\ \A p \in 1 .. Len(t) : p + 1 \in 1 .. Len(s)
  BY <1>1
<1>3. QED
  BY <1>1, <1>2 DEF Bare, t

LEMMA BareAppend ==
    ASSUME NEW S, NEW s \in Seq(S), NEW w \in S, Bare(s)
    PROVE  /\ w.cmd = "DESTROY" => Bare(Append(s, w))
           /\ w.cmd # "DESTROY" => Holds(Append(s, w), w)
<1> DEFINE t == Append(s, w)
<1>1. /\ Len(s) \in Nat /\ Len(t) = Len(s) + 1
      /\ \A p \in 1 .. Len(t) : t[p] = IF p = Len(s) + 1 THEN w ELSE s[p]
  BY AppendAt
<1> HIDE DEF t
<1>2. ASSUME NEW p \in 1 .. Len(t), p # Len(s) + 1 PROVE t[p].cmd = "DESTROY"
  <2>1. p \in 1 .. Len(s)
    BY <1>1, <1>2
  <2>2. QED
    BY <1>1, <1>2, <2>1 DEF Bare
<1>3. Len(s) + 1 \in 1 .. Len(t) /\ t[Len(s) + 1] = w
  BY <1>1
<1>4. QED
  BY <1>2, <1>3 DEF Bare, Holds, t

LEMMA HoldsTail ==
    ASSUME NEW S, NEW s \in Seq(S), s # <<>>, NEW w, Holds(s, w)
    PROVE  \/ Head(s).cmd = "DESTROY" /\ Holds(Tail(s), w)
           \/ Head(s) = w /\ Bare(Tail(s))
<1> DEFINE t == Tail(s)
<1>1. /\ Len(s) \in Nat \ {0} /\ Head(s) = s[1] /\ Len(t) = Len(s) - 1
      /\ \A p \in 1 .. Len(t) : t[p] = s[p + 1]
  BY TailAt
<1> HIDE DEF t
<1>2. 1 \in 1 .. Len(s) /\ \A p \in 1 .. Len(t) : p + 1 \in 1 .. Len(s)
  BY <1>1
<1>3. PICK p \in 1 .. Len(s) :
         s[p] = w /\ \A q \in 1 .. Len(s) : q # p => s[q].cmd = "DESTROY"
  BY DEF Holds
<1>4. CASE p = 1
  <2>1. \A q \in 1 .. Len(t) : q + 1 # 1
    BY <1>1
  <2>2. Bare(t)
    BY <1>1, <1>2, <1>3, <1>4, <2>1 DEF Bare
  <2>3. QED
    BY <1>1, <1>3, <1>4, <2>2 DEF t
<1>5. CASE p # 1
  <2>1. p - 1 \in 1 .. Len(t) /\ (p - 1) + 1 = p
    BY <1>1, <1>5
  <2>2. t[p - 1] = w
    BY <1>1, <1>3, <2>1
  <2>3. ASSUME NEW q \in 1 .. Len(t), q # p - 1 PROVE t[q].cmd = "DESTROY"
    <3>1. q + 1 \in 1 .. Len(s) /\ q + 1 # p
      BY <1>1, <1>2, <2>3
    <3>2. QED
      BY <1>1, <1>3, <3>1
  <2>4. Holds(t, w)
    BY <2>1, <2>2, <2>3 DEF Holds
  <2>5. Head(s).cmd = "DESTROY"
    BY <1>1, <1>2, <1>3, <1>5
  <2>6. QED
    BY <2>4, <2>5 DEF t
<1>6. QED
  BY <1>4, <1>5

LEMMA HoldsAppend ==
    ASSUME NEW S, NEW s \in Seq(S), NEW v \in S, NEW w, Holds(s, w),
           v.cmd = "DESTROY"
    PROVE  Holds(Append(s, v), w)
<1> DEFINE t == Append(s, v)
<1>1. /\ Len(s) \in Nat /\ Len(t) = Len(s) + 1
      /\ \A p \in 1 .. Len(t) : t[p] = IF p = Len(s) + 1 THEN v ELSE s[p]
  BY AppendAt
<1> HIDE DEF t
<1>2. PICK p \in 1 .. Len(s) :
         s[p] = w /\ \A q \in 1 .. Len(s) : q # p => s[q].cmd = "DESTROY"
  BY DEF Holds
<1>3. p \in 1 .. Len(t) /\ t[p] = w
  BY <1>1, <1>2
<1>4. ASSUME NEW q \in 1 .. Len(t), q # p PROVE t[q].cmd = "DESTROY"
  <2>1. q = Len(s) + 1 \/ q \in 1 .. Len(s)
    BY <1>1
  <2>2. QED
    BY <1>1, <1>2, <1>4, <2>1
<1>5. QED
  BY <1>3, <1>4 DEF Holds, t

\* A channel without DESTROY is empty or has one cell.
LEMMA OneCell ==
    ASSUME NEW S, NEW s \in Seq(S), \A p \in 1 .. Len(s) : s[p].cmd # "DESTROY"
    PROVE  /\ Bare(s) => s = <<>>
           /\ \A w : Holds(s, w) /\ s # <<>> => Head(s) = w /\ Tail(s) = <<>>
<1>1. Len(s) \in Nat
  BY LenProperties
<1>2. ASSUME Bare(s) PROVE s = <<>>
  <2>1. ASSUME s # <<>> PROVE FALSE
    <3>1. 1 \in 1 .. Len(s)
      BY <2>1, TailAt
    <3>2. QED
      BY <1>2, <3>1 DEF Bare
  <2>2. QED
    BY <2>1
<1>3. ASSUME NEW w, Holds(s, w), s # <<>> PROVE Head(s) = w /\ Tail(s) = <<>>
  <2>1. /\ Len(s) \in Nat \ {0} /\ Head(s) = s[1] /\ Tail(s) \in Seq(S)
        /\ Len(Tail(s)) = Len(s) - 1
    BY <1>3, TailAt
  <2>2. PICK p \in 1 .. Len(s) :
           s[p] = w /\ \A q \in 1 .. Len(s) : q # p => s[q].cmd = "DESTROY"
    BY <1>3 DEF Holds
  <2>3. \A q \in 1 .. Len(s) : q = p
    BY <2>2
  <2>4. 1 \in 1 .. Len(s) /\ Len(s) \in 1 .. Len(s)
    BY <2>1
  <2>5. Len(s) = 1 /\ p = 1
    BY <2>3, <2>4
  <2>6. Len(Tail(s)) = 0
    BY <2>1, <2>5
  <2>7. QED
    BY <2>1, <2>2, <2>5, <2>6, EmptySeq
<1>4. QED
  BY <1>2, <1>3

-----------------------------------------------------------------------------
(* The invariant.                                                          *)

TypeInv ==
    /\ cpc \in [Build -> {"idle", "waiting", "ready", "failed"}]
    /\ hops \in [Build -> Nat]
    /\ cf \in [Hop -> Nat] /\ cb \in [Hop -> Nat]
    /\ fpos \in [Hop -> Nat] /\ bpos \in [Hop -> Nat]
    /\ down \in [Hop -> Seq(Word)] /\ up \in [Hop -> Seq(Word)]
    /\ loop \in [Hop -> {"none", "read", "add", "connect", "await", "ended"}]
    /\ reader \in [Hop -> {"none", "run", "ended"}]
    /\ next \in [Hop -> BOOLEAN]
    /\ circuits \in [Relay -> [Id -> Hop \cup {None}]]

Asking == {"connect", "await"}

NoDestroy(s) == \A p \in 1 .. Len(s) : s[p].cmd # "DESTROY"

\* What holds of one hop, wherever the handshake of its build is.
Local(l) ==
    /\ Handler(l) \in {None, l}
    /\ reader[l] = "run" => next[l]
    /\ next[l] \/ loop[l] \in Asking => Handler(l) = l /\ l[2] < N(l[1])
    /\ loop[l] \in Asking => l[2] = hops[l[1]]
    /\ next[l] => l[2] <= hops[l[1]]
    /\ l[2] > hops[l[1]] => fpos[l] = 0 /\ bpos[l] = 0 /\ NoDestroy(up[l])
    /\ l[2] <= hops[l[1]] => Registered(l)
    /\ cb[l] = IF l[2] <= hops[l[1]] THEN hops[l[1]] - l[2] ELSE 0
    /\ cf[l] = IF l[2] > hops[l[1]] THEN 0
               ELSE IF hops[l[1]] = N(l[1]) THEN hops[l[1]] - l[2]
               ELSE hops[l[1]] - l[2] + 1

\* EXTEND has passed the hops before the j-th, EXTENDED those from it on.
Fwd(b, j) ==
    \A l \in Hop : l[1] = b /\ l[2] <= hops[b] =>
        fpos[l] = IF l[2] < j THEN hops[b] - l[2] + 1 ELSE hops[b] - l[2]

Bwd(b, j) ==
    \A l \in Hop : l[1] = b /\ l[2] <= hops[b] =>
        bpos[l] = IF l[2] < j THEN hops[b] - l[2] ELSE hops[b] - l[2] + 1

\* The layers of the hops from the j-th on.
Peel(b, j) == {<<<<b, i>>, hops[b] - i>> : i \in j .. hops[b]}

Goal(b) == <<b, hops[b] + 1>>
EXTEND(b, j) == Cell("EXTEND", Goal(b), Peel(b, j))
CREATED(b) == Cell("CREATED", Goal(b), {})
EXTENDED(b, j) == Cell("EXTENDED", Goal(b), Peel(b, j))

Bares(chan, b, J) ==
    \A l \in Hop : l[1] = b /\ l[2] \notin J => Bare(chan[l])

NoneConnects(b) == \A l \in Hop : l[1] = b => loop[l] # "connect"
NoneAsks(b) == \A l \in Hop : l[1] = b => loop[l] \notin Asking
NotExtended(b) == \A l \in Hop : l[1] = b /\ l[2] = hops[b] => ~next[l]
Joined(b) == \A l \in Hop : l[1] = b /\ l[2] = hops[b] + 1 => Registered(l)

\* Nothing of the handshake is on its way: there is none, or it was lost.
Quiet(b) == NoneConnects(b) /\ Bares(down, b, {}) /\ Bares(up, b, {})

Extending(b) ==
    /\ hops[b] < N(b) /\ NoneAsks(b) /\ NotExtended(b)
    /\ Bares(up, b, {}) /\ Bwd(b, hops[b] + 1)
    /\ \E j \in 1 .. hops[b] :
          /\ Bares(down, b, {j}) /\ Fwd(b, j)
          /\ Holds(down[<<b, j>>], EXTEND(b, j))

Connecting(b) ==
    /\ hops[b] < N(b) /\ NotExtended(b)
    /\ Bares(down, b, {}) /\ Bares(up, b, {})
    /\ Fwd(b, hops[b] + 1) /\ Bwd(b, hops[b] + 1)

Creating(b) ==
    /\ hops[b] < N(b) /\ NoneConnects(b) /\ NotExtended(b)
    /\ Bares(down, b, {hops[b] + 1}) /\ Bares(up, b, {})
    /\ Fwd(b, hops[b] + 1) /\ Bwd(b, hops[b] + 1)
    /\ Holds(down[Goal(b)], CREATE(Goal(b)))

Answered(b) ==
    /\ hops[b] < N(b) /\ NoneConnects(b) /\ NotExtended(b) /\ Joined(b)
    /\ Bares(down, b, {}) /\ Bares(up, b, {hops[b] + 1})
    /\ Fwd(b, hops[b] + 1) /\ Bwd(b, hops[b] + 1)
    /\ Holds(up[Goal(b)], CREATED(b))

Returning(b) ==
    /\ hops[b] < N(b) /\ NoneAsks(b) /\ Joined(b)
    /\ Bares(down, b, {}) /\ Fwd(b, hops[b] + 1)
    /\ \E j \in 1 .. hops[b] :
          /\ Bares(up, b, {j}) /\ Bwd(b, j)
          /\ Holds(up[<<b, j>>], EXTENDED(b, j))

Stage(b) ==
    \/ Quiet(b) \/ Extending(b) \/ Connecting(b) \/ Creating(b)
    \/ Answered(b) \/ Returning(b)

Counts(b) ==
    /\ hops[b] <= N(b)
    /\ cpc[b] = "idle" => hops[b] = 0 /\ Quiet(b)
    /\ cpc[b] = "waiting" => hops[b] < N(b)
    /\ cpc[b] = "ready" =>
          /\ hops[b] = N(b)
          /\ \A l \in Hop :
                l[1] = b => fpos[l] = N(b) - l[2] /\ bpos[l] = N(b) - l[2]

BuildInv(b) == (\A l \in Hop : l[1] = b => Local(l)) /\ Counts(b) /\ Stage(b)

Inv == TypeInv /\ \A b \in Build : BuildInv(b)

-----------------------------------------------------------------------------
(* Steps that only lose something, or that concern other builds.           *)

KeptAt(l) ==
    /\ cf'[l] = cf[l] /\ cb'[l] = cb[l] /\ next'[l] = next[l]
    /\ circuits'[RelayOf(l)][IdOf(l)] \in {Handler(l), l}
    /\ reader'[l] = "run" => reader[l] = "run"
    /\ loop'[l] \in Asking => loop'[l] = loop[l]
    /\ l[2] <= hops[l[1]] /\ Registered(l) => Registered(l)'
    /\ l[2] > hops[l[1]] =>
          /\ fpos'[l] = fpos[l] /\ bpos'[l] = bpos[l]
          /\ NoDestroy(up[l]) => NoDestroy(up'[l])

LEMMA LocalKept ==
    ASSUME NEW l \in Hop, Local(l), KeptAt(l), hops'[l[1]] = hops[l[1]]
    PROVE  Local(l)'
<1> DEFINE k == hops[l[1]]
<1>1. k' = k
  OBVIOUS
<1>2. /\ Handler(l)' = circuits'[RelayOf(l)][IdOf(l)]
      /\ RelayOf(l)' = RelayOf(l) /\ IdOf(l)' = IdOf(l)
  BY DEF Handler, RelayOf, IdOf
<1> HIDE DEF k
<1>3. QED
  BY <1>1, <1>2 DEF Local, KeptAt, N, k, NoDestroy

Kept(b) ==
    /\ hops'[b] = hops[b] /\ cpc'[b] \in {cpc[b], "failed"}
    /\ \A l \in Hop : l[1] = b =>
          /\ KeptAt(l)
          /\ fpos'[l] = fpos[l] /\ bpos'[l] = bpos[l] /\ down'[l] = down[l]
          /\ Registered(l) => Registered(l)'
          /\ Bare(up[l]) => Bare(up'[l])
          /\ \A w : Holds(up[l], w) => Holds(up'[l], w)

LEMMA BuildKept ==
    ASSUME TypeInv, NEW b \in Build, BuildInv(b), Kept(b) PROVE BuildInv(b)'
<1>1. \A l \in Hop : l[1] = b => Local(l)'
  BY LocalKept DEF BuildInv, Kept
<1>3. PICK k \in Nat : k = hops[b] /\ k = hops'[b]
  BY DEF Kept, TypeInv
<1>4. /\ \A j : Fwd(b, j) => Fwd(b, j)'
      /\ \A j : Bwd(b, j) => Bwd(b, j)'
      /\ \A J : Bares(down, b, J) => Bares(down', b, J)
      /\ \A J : Bares(up, b, J) => Bares(up', b, J)
      /\ NotExtended(b) => NotExtended(b)'
      /\ NoneConnects(b) => NoneConnects(b)'
      /\ NoneAsks(b) => NoneAsks(b)'
      /\ Joined(b) => Joined(b)'
  <2>1. (\A j : Fwd(b, j) => Fwd(b, j)') /\ \A j : Bwd(b, j) => Bwd(b, j)'
    BY <1>3 DEF Kept, Fwd, Bwd
  <2>2. \A J : /\ Bares(down, b, J) => Bares(down', b, J)
               /\ Bares(up, b, J) => Bares(up', b, J)
    BY DEF Kept, Bares
  <2>3. /\ NotExtended(b) => NotExtended(b)'
        /\ NoneConnects(b) => NoneConnects(b)'
        /\ NoneAsks(b) => NoneAsks(b)'
    BY <1>3 DEF Kept, KeptAt, NotExtended, NoneConnects, NoneAsks, Asking
  <2>4. Joined(b) => Joined(b)'
    BY <1>3 DEF Kept, Joined
  <2>5. QED
    BY <2>1, <2>2, <2>3, <2>4
<1>5. /\ \A j : /\ EXTEND(b, j)' = EXTEND(b, j)
                /\ EXTENDED(b, j)' = EXTENDED(b, j)
      /\ Goal(b)' = Goal(b) /\ CREATED(b)' = CREATED(b)
      /\ CREATE(Goal(b))' = CREATE(Goal(b))
  <2>1. \A j : Peel(b, j)' = Peel(b, j)
    BY <1>3 DEF Peel
  <2>2. Goal(b)' = Goal(b)
    BY <1>3 DEF Goal
  <2>3. QED
    BY <2>1, <2>2 DEF EXTEND, EXTENDED, CREATED, CREATE, Cell
<1>6. \A l \in Hop : \A w : l[1] = b =>
         /\ Holds(down[l], w) => Holds(down'[l], w)
         /\ Holds(up[l], w) => Holds(up'[l], w)
  BY DEF Kept
<1>7. /\ k <= N(b) => \A j \in 1 .. k : <<b, j>> \in Hop
      /\ k < N(b) => Goal(b) \in Hop /\ Goal(b)[1] = b
  <2>1. \A j \in 1 .. k : k <= N(b) => j \in 1 .. N(b)
    BY Paths
  <2>2. k < N(b) => k + 1 \in 1 .. N(b)
    BY Paths
  <2>3. QED
    BY <1>3, <2>1, <2>2, Paths DEF Goal
<1>8. hops[b] <= N(b) /\ N(b)' = N(b)
  BY DEF BuildInv, Counts, N
<1>9. Quiet(b) => Quiet(b)'
  BY <1>4 DEF Quiet
<1>10. Counts(b)'
  BY <1>3, <1>8, <1>9 DEF BuildInv, Counts, Kept
<1>11. Stage(b)'
  <2>1. CASE Quiet(b)
    BY <1>9, <2>1 DEF Stage
  <2>2. CASE Extending(b)
    <3>1. PICK j \in 1 .. hops[b] :
             /\ Bares(down, b, {j}) /\ Fwd(b, j)
             /\ Holds(down[<<b, j>>], EXTEND(b, j))
      BY <2>2 DEF Extending
    <3>2. Holds(down'[<<b, j>>], EXTEND(b, j)')
      BY <1>3, <1>5, <1>6, <1>7, <1>8, <3>1
    <3>3. Extending(b)'
      BY <1>3, <1>4, <1>8, <2>2, <3>1, <3>2 DEF Extending
    <3>4. QED
      BY <3>3 DEF Stage
  <2>3. CASE Connecting(b)
    BY <1>3, <1>4, <1>8, <2>3 DEF Stage, Connecting
  <2>4. CASE Creating(b)
    BY <1>3, <1>4, <1>5, <1>6, <1>7, <1>8, <2>4 DEF Stage, Creating
  <2>5. CASE Answered(b)
    BY <1>3, <1>4, <1>5, <1>6, <1>7, <1>8, <2>5 DEF Stage, Answered
  <2>6. CASE Returning(b)
    <3>1. PICK j \in 1 .. hops[b] :
             /\ Bares(up, b, {j}) /\ Bwd(b, j)
             /\ Holds(up[<<b, j>>], EXTENDED(b, j))
      BY <2>6 DEF Returning
    <3>2. Holds(up'[<<b, j>>], EXTENDED(b, j)')
      BY <1>3, <1>5, <1>6, <1>7, <1>8, <3>1
    <3>3. Returning(b)'
      BY <1>3, <1>4, <1>8, <2>6, <3>1, <3>2 DEF Returning
    <3>4. QED
      BY <3>3 DEF Stage
  <2>7. QED
    BY <2>1, <2>2, <2>3, <2>4, <2>5, <2>6 DEF BuildInv, Stage
<1>12. QED
  BY <1>1, <1>10, <1>11 DEF BuildInv

\* Nothing of the other builds changes.
Same(d) ==
    /\ hops'[d] = hops[d] /\ cpc'[d] = cpc[d]
    /\ \A l \in Hop : l[1] = d =>
          /\ cf'[l] = cf[l] /\ cb'[l] = cb[l]
          /\ fpos'[l] = fpos[l] /\ bpos'[l] = bpos[l] /\ next'[l] = next[l]
          /\ circuits'[RelayOf(l)][IdOf(l)] = Handler(l)
          /\ reader'[l] = reader[l] /\ loop'[l] = loop[l]
          /\ down'[l] = down[l] /\ up'[l] = up[l]

Others(b) == \A d \in Build : d # b => Same(d)

LEMMA SameIsKept ==
    ASSUME NEW d \in Build, Same(d) PROVE Kept(d)
  BY DEF Same, Kept, KeptAt, Registered, Handler, RelayOf, IdOf

LEMMA Glue ==
    ASSUME Inv, NEW b \in Build, TypeInv', Others(b), BuildInv(b)'
    PROVE  Inv'
<1>1. ASSUME NEW d \in Build, d # b PROVE BuildInv(d)'
  BY <1>1, SameIsKept, BuildKept DEF Inv, Others
<1>2. QED
  BY <1>1 DEF Inv

-----------------------------------------------------------------------------
(* What is written, taken and counted.                                     *)

LEMMA CellsAre ==
    /\ \A l \in Hop : /\ CREATE(l) \in Word /\ Cell("CREATED", l, {}) \in Word
                      /\ Cell("EXTENDED", l, {}) \in Word
    /\ DESTROY \in Word /\ DESTROY.cmd = "DESTROY"
    /\ \A w \in Word, l \in Hop, pos \in [Hop -> Nat] :
          /\ Crypt(w, l, pos) \in Word
          /\ Crypt(w, l, pos).cmd = w.cmd /\ Crypt(w, l, pos).hop = w.hop
          /\ Crypt(w, l, pos).layers = Xor(w.layers, {<<l, pos[l]>>})
<1>1. ASSUME NEW w \in Word, NEW l \in Hop, NEW pos \in [Hop -> Nat]
      PROVE  /\ Crypt(w, l, pos) \in Word
             /\ Crypt(w, l, pos).cmd = w.cmd /\ Crypt(w, l, pos).hop = w.hop
             /\ Crypt(w, l, pos).layers = Xor(w.layers, {<<l, pos[l]>>})
  <2>1. Xor(w.layers, {<<l, pos[l]>>}) \in SUBSET (Hop \X Nat)
    BY DEF Word, Xor
  <2>2. QED
    BY <2>1 DEF Crypt, Word
<1>2. QED
  BY <1>1 DEF CREATE, DESTROY, Cell, Word

LEMMA PutUpAt ==
    ASSUME NEW c \in [Hop -> Seq(Word)], NEW l \in Hop, NEW w \in Word
    PROVE  /\ PutUp(c, l, w) \in [Hop -> Seq(Word)]
           /\ \A m \in Hop : PutUp(c, l, w)[m] =
                 IF m = l /\ UpOpen(l) THEN Append(c[l], w) ELSE c[m]
<1>1. Append(c[l], w) \in Seq(Word)
  BY AppendAt
<1>2. QED
  BY <1>1 DEF PutUp

LEMMA PutDownAt ==
    ASSUME NEW c \in [Hop -> Seq(Word)], NEW l \in Hop, NEW w \in Word
    PROVE  /\ PutDown(c, l, w) \in [Hop -> Seq(Word)]
           /\ \A m \in Hop : PutDown(c, l, w)[m] =
                 IF m = l /\ DownOpen(l) THEN Append(c[l], w) ELSE c[m]
<1>1. Append(c[l], w) \in Seq(Word)
  BY AppendAt
<1>2. QED
  BY <1>1 DEF PutDown

LEMMA TakenAt ==
    ASSUME NEW c \in [Hop -> Seq(Word)], NEW l \in Hop, c[l] # <<>>
    PROVE  /\ Taken(c, l) \in [Hop -> Seq(Word)] /\ Head(c[l]) \in Word
           /\ \A m \in Hop :
                 Taken(c, l)[m] = IF m = l THEN Tail(c[l]) ELSE c[m]
<1>1. Tail(c[l]) \in Seq(Word) /\ Head(c[l]) \in Word
  BY TailAt
<1>2. QED
  BY <1>1 DEF Taken

LEMMA BumpAt ==
    ASSUME NEW pos \in [Hop -> Nat], NEW L
    PROVE  /\ Bump(pos, L) \in [Hop -> Nat]
           /\ \A m \in Hop :
                 Bump(pos, L)[m] = IF m \in L THEN pos[m] + 1 ELSE pos[m]
  BY DEF Bump

\* The layers of the hops from the j-th on, with one more or less.
LEMMA PeelXor ==
    ASSUME NEW b, hops[b] \in Nat, NEW j \in 1 .. hops[b]
    PROVE  /\ Xor(Peel(b, j), {<<<<b, j>>, hops[b] - j>>}) = Peel(b, j + 1)
           /\ Xor(Peel(b, j + 1), {<<<<b, j>>, hops[b] - j>>}) = Peel(b, j)
           /\ Peel(b, j + 1) = {} <=> j = hops[b]
<1>0. PICK k \in Nat : k = hops[b]
  OBVIOUS
<1> DEFINE x == <<<<b, j>>, k - j>>
<1>1. j .. k = {j} \cup (j + 1 .. k) /\ j \notin j + 1 .. k
  BY <1>0
<1>2. Peel(b, j) = {x} \cup Peel(b, j + 1)
  BY <1>0, <1>1 DEF Peel
<1>3. x \notin Peel(b, j + 1)
  BY <1>0, <1>1 DEF Peel
<1>4. Peel(b, j + 1) = {} <=> j + 1 .. k = {}
  BY <1>0 DEF Peel
<1>5. j + 1 .. k = {} <=> j = k
  <2>1. ASSUME j # k PROVE j + 1 \in j + 1 .. k
    BY <1>0, <2>1
  <2>2. QED
    BY <2>1
<1> HIDE DEF x
<1>6. /\ Xor(Peel(b, j), {x}) = Peel(b, j + 1)
      /\ Xor(Peel(b, j + 1), {x}) = Peel(b, j)
  BY <1>2, <1>3 DEF Xor
<1>7. QED
  BY <1>0, <1>4, <1>5, <1>6 DEF x

\* The hop after one of a build's, and the hop before.
LEMMA Neighbours ==
    ASSUME NEW l \in Hop
    PROVE  /\ l[2] < N(l[1]) => /\ After(l) \in Hop /\ After(l) # l
                                /\ After(l)[1] = l[1] /\ After(l)[2] = l[2] + 1
           /\ First(l[1]) \in Hop
<1>1. /\ l[1] \in Build /\ l[2] \in 1 .. N(l[1]) /\ l[2] \in Nat
      /\ N(l[1]) \in Nat /\ N(l[1]) >= 3 /\ l = <<l[1], l[2]>>
      /\ \A i \in 1 .. N(l[1]) : <<l[1], i>> \in Hop
  BY Paths
<1>2. l[2] < N(l[1]) => l[2] + 1 \in 1 .. N(l[1])
  BY <1>1
<1>3. 1 \in 1 .. N(l[1])
  BY <1>1
<1>4. QED
  BY <1>1, <1>2, <1>3 DEF After, First

-----------------------------------------------------------------------------
(* The steps that leave the handshake where it is, or lose it.             *)

LEMMA KeptStep ==
    ASSUME Inv, NEW b \in Build, TypeInv', Others(b), Kept(b) PROVE Inv'
  BY Glue, BuildKept DEF Inv

LEMMA AddCircuitStep ==
    ASSUME DistinctIds, Inv, NEW l \in Hop, AddCircuit(l) PROVE Inv'
<1>1. /\ loop[l] = "add" /\ loop' = [loop EXCEPT ![l] = "read"]
      /\ circuits' = [circuits EXCEPT ![RelayOf(l)][IdOf(l)] = l]
      /\ UNCHANGED <<cpc, hops, cf, cb, down, up, reader, next, fpos, bpos>>
  BY DEF AddCircuit, Loop, client, handler
<1>2. TypeInv /\ l[1] \in Build
  BY Paths DEF Inv
<1>3. ASSUME NEW m \in Hop
      PROVE  /\ circuits'[RelayOf(m)][IdOf(m)] = IF m = l THEN l ELSE Handler(m)
             /\ loop'[m] = IF m = l THEN "read" ELSE loop[m]
  <2>1. /\ RelayOf(m) \in Relay /\ IdOf(m) \in Id
        /\ RelayOf(l) \in Relay /\ IdOf(l) \in Id
    BY RelaysAre
  <2>2. m # l => RelayOf(m) # RelayOf(l) \/ IdOf(m) # IdOf(l)
    BY OnePlace
  <2>3. circuits'[RelayOf(m)][IdOf(m)] = IF m = l THEN l ELSE Handler(m)
    BY <1>1, <1>2, <2>1, <2>2 DEF TypeInv, Handler
  <2>4. QED
    BY <1>1, <1>2, <2>3 DEF TypeInv
<1>4. TypeInv'
  <2>1. RelayOf(l) \in Relay /\ IdOf(l) \in Id
    BY RelaysAre
  <2>2. QED
    BY <1>1, <1>2, <2>1 DEF TypeInv
<1>5. Others(l[1])
  BY <1>1, <1>3 DEF Others, Same
<1>6. Kept(l[1])
  <2>1. ASSUME NEW m \in Hop PROVE Registered(m) => Registered(m)'
    BY <1>1, <1>3 DEF Registered, Handler, RelayOf, IdOf
  <2>2. QED
    BY <1>1, <1>3, <2>1 DEF Kept, KeptAt, Asking
<1>7. QED
  BY <1>2, <1>4, <1>5, <1>6, KeptStep

\* The loop that reads from a connection ends.
LEMMA LoopEnds ==
    ASSUME Inv, NEW l \in Hop, loop[l] \in {"read", "connect", "await"},
           loop' = [loop EXCEPT ![l] = "ended"],
           UNCHANGED <<client, down, up, reader, handler, circuits>>
    PROVE  Inv'
<1>1. UNCHANGED <<cpc, hops, cf, cb, down, up, reader, next, fpos, bpos, circuits>>
  BY DEF client, handler
<1>2. TypeInv /\ l[1] \in Build
  BY Paths DEF Inv
<1>3. \A m \in Hop : loop'[m] = IF m = l THEN "ended" ELSE loop[m]
  BY <1>2 DEF TypeInv
<1>4. TypeInv'
  BY <1>1, <1>2 DEF TypeInv
<1>5. Others(l[1])
  BY <1>1, <1>3 DEF Others, Same, Handler
<1>6. \A m \in Hop : Registered(m) => Registered(m)'
  BY <1>1, <1>3 DEF Registered, Handler, RelayOf, IdOf
<1>7. Kept(l[1])
  BY <1>1, <1>3, <1>6 DEF Kept, KeptAt, Asking, Handler
<1>8. QED
  BY <1>2, <1>4, <1>5, <1>7, KeptStep

LEMMA LoopEndSteps ==
    ASSUME Inv, NEW l \in Hop, ConnectFails(l) \/ StallEnds(l) \/ AwaitFails(l) \/ LoopEof(l)
    PROVE  Inv'
<1>1. loop[l] \in {"read", "connect", "await"}
  BY DEF ConnectFails, StallEnds, Stalls, AwaitFails, LoopEof
<1>2. /\ loop' = [loop EXCEPT ![l] = "ended"]
      /\ UNCHANGED <<client, down, up, reader, handler, circuits>>
  BY DEF ConnectFails, StallEnds, Stalls, AwaitFails, LoopEof, ExtendFails, Loop
<1>3. QED
  BY <1>1, <1>2, LoopEnds

\* Connections fail, or nothing changes at all.
LEMMA Unchanged ==
    ASSUME Inv, UNCHANGED <<client, down, up, loop, reader, handler, circuits>>
    PROVE  Inv'
<1>1. UNCHANGED <<cpc, hops, cf, cb, down, up, loop, reader, next, fpos, bpos,
                  circuits>>
  BY DEF client, handler
<1>2. TypeInv'
  BY <1>1 DEF Inv, TypeInv
<1>3. \A d \in Build : Same(d)
  BY <1>1 DEF Same, Handler
<1>4. \A d \in Build : BuildInv(d)'
  BY <1>3, SameIsKept, BuildKept DEF Inv
<1>5. QED
  BY <1>2, <1>4 DEF Inv

\* The client gives up.
LEMMA ClientEnds ==
    ASSUME Inv, NEW b \in Build, cpc' = [cpc EXCEPT ![b] = "failed"],
           UNCHANGED <<hops, cf, cb, down, up, loop, reader, handler, circuits>>
    PROVE  Inv'
<1>1. UNCHANGED <<hops, cf, cb, down, up, loop, reader, next, fpos, bpos, circuits>>
  BY DEF handler
<1>2. TypeInv /\ \A d \in Build : cpc'[d] = IF d = b THEN "failed" ELSE cpc[d]
  BY DEF Inv, TypeInv
<1>3. TypeInv'
  BY <1>1, <1>2 DEF TypeInv
<1>4. Others(b)
  BY <1>1, <1>2 DEF Others, Same, Handler
<1>5. \A m \in Hop : Registered(m) => Registered(m)'
  BY <1>1 DEF Registered, Handler, RelayOf, IdOf
<1>6. Kept(b)
  BY <1>1, <1>2, <1>5 DEF Kept, KeptAt, Handler
<1>7. QED
  BY <1>2, <1>3, <1>4, <1>6, KeptStep

LEMMA ClientFailsStep ==
    ASSUME Inv, NEW b \in Build, ClientFails(b) PROVE Inv'
  BY ClientEnds DEF ClientFails, Client, relays

\* A DESTROY comes or goes.
LEMMA ChannelKept ==
    ASSUME NEW s \in Seq(Word), NEW t,
           \/ s # <<>> /\ Head(s).cmd = "DESTROY" /\ t = Tail(s)
           \/ \E v \in Word : v.cmd = "DESTROY" /\ t = Append(s, v)
    PROVE  /\ Bare(s) => Bare(t)
           /\ \A w : Holds(s, w) => Holds(t, w)
<1>1. CASE s # <<>> /\ Head(s).cmd = "DESTROY" /\ t = Tail(s)
  <2>1. Bare(s) => Bare(t)
    BY <1>1, BareTail
  <2>2. ASSUME NEW w, Holds(s, w) PROVE Holds(t, w)
    <3>1. w.cmd # "DESTROY"
      BY <2>2 DEF Holds
    <3>2. QED
      BY <1>1, <2>2, <3>1, HoldsTail
  <2>3. QED
    BY <2>1, <2>2
<1>2. CASE \E v \in Word : v.cmd = "DESTROY" /\ t = Append(s, v)
  <2>1. PICK v \in Word : v.cmd = "DESTROY" /\ t = Append(s, v)
    BY <1>2
  <2>2. QED
    BY <2>1, BareAppend, HoldsAppend
<1>3. QED
  BY <1>1, <1>2

LEMMA HeadIsThere ==
    ASSUME NEW s \in Seq(Word), s # <<>>
    PROVE  /\ Bare(s) => Head(s).cmd = "DESTROY"
           /\ NoDestroy(s) => Head(s).cmd # "DESTROY" /\ NoDestroy(Tail(s))
<1>1. /\ Len(s) \in Nat \ {0} /\ Head(s) = s[1] /\ Len(Tail(s)) = Len(s) - 1
      /\ \A p \in 1 .. Len(Tail(s)) : Tail(s)[p] = s[p + 1]
  BY TailAt
<1>2. /\ 1 \in 1 .. Len(s)
      /\ \A p \in 1 .. Len(Tail(s)) : p + 1 \in 1 .. Len(s)
  BY <1>1
<1>3. QED
  BY <1>1, <1>2 DEF Bare, NoDestroy

\* Only DESTROY moves, at most the client fails and readers end.
LEMMA OnlyDestroy ==
    ASSUME Inv, NEW b \in Build,
           UNCHANGED <<hops, cf, cb, down, loop, next, fpos, bpos, circuits>>,
           up' \in [Hop -> Seq(Word)],
           reader' \in [Hop -> {"none", "run", "ended"}],
           cpc' \in [Build -> {"idle", "waiting", "ready", "failed"}],
           cpc'[b] \in {cpc[b], "failed"},
           \A d \in Build : d # b => cpc'[d] = cpc[d],
           \A m \in Hop :
              \/ reader'[m] = reader[m]
              \/ m[1] = b /\ reader'[m] = "ended",
           \A m \in Hop :
              \/ up'[m] = up[m]
              \/ /\ m[1] = b /\ up[m] # <<>> /\ Head(up[m]).cmd = "DESTROY"
                 /\ up'[m] = Tail(up[m])
              \/ /\ m[1] = b /\ m[2] <= hops[b]
                 /\ \E v \in Word : v.cmd = "DESTROY" /\ up'[m] = Append(up[m], v)
    PROVE  Inv'
<1>1. TypeInv
  BY DEF Inv
<1>2. TypeInv'
  BY <1>1 DEF TypeInv
<1>3. Others(b)
  BY DEF Others, Same, Handler
<1>4. ASSUME NEW m \in Hop, m[1] = b
      PROVE  /\ Bare(up[m]) => Bare(up'[m])
             /\ \A w : Holds(up[m], w) => Holds(up'[m], w)
             /\ m[2] > hops[m[1]] /\ NoDestroy(up[m]) => NoDestroy(up'[m])
  <2>1. up[m] \in Seq(Word) /\ m[2] \in Nat /\ hops[b] \in Nat
    BY <1>1, Paths DEF TypeInv
  <2>2. CASE up'[m] = up[m]
    BY <2>2
  <2>3. CASE /\ up[m] # <<>> /\ Head(up[m]).cmd = "DESTROY"
             /\ up'[m] = Tail(up[m])
    BY <2>1, <2>3, ChannelKept, HeadIsThere
  <2>4. CASE /\ m[2] <= hops[b]
             /\ \E v \in Word : v.cmd = "DESTROY" /\ up'[m] = Append(up[m], v)
    <3>1. ~(m[2] > hops[m[1]])
      BY <1>4, <2>1, <2>4
    <3>2. QED
      BY <2>1, <2>4, <3>1, ChannelKept
  <2>5. QED
    BY <2>2, <2>3, <2>4
<1>5. \A m \in Hop : Registered(m) => Registered(m)'
  BY DEF Registered, Handler, RelayOf, IdOf
<1>6. Kept(b)
  BY <1>1, <1>4, <1>5 DEF Kept, KeptAt, Handler
<1>7. QED
  BY <1>2, <1>3, <1>6, KeptStep

LEMMA ReaderRuns ==
    ASSUME Inv, NEW l \in Hop, reader[l] = "run"
    PROVE  /\ l[1] \in Build /\ next[l] /\ Handler(l) = l
           /\ l[2] <= hops[l[1]] /\ l[2] < N(l[1])
           /\ After(l) \in Hop /\ After(l) # l
           /\ After(l)[1] = l[1] /\ After(l)[2] = l[2] + 1
<1>1. l[1] \in Build /\ Local(l)
  BY Paths DEF Inv, BuildInv
<1>2. /\ next[l] /\ Handler(l) = l /\ l[2] <= hops[l[1]] /\ l[2] < N(l[1])
  BY <1>1 DEF Local
<1>3. QED
  BY <1>1, <1>2, Neighbours

LEMMA ReaderEofStep ==
    ASSUME Inv, NEW l \in Hop, ReaderEof(l) PROVE Inv'
<1>1. /\ reader[l] = "run" /\ up' = PutUp(up, l, DESTROY)
      /\ reader' = [reader EXCEPT ![l] = "ended"]
      /\ UNCHANGED <<cpc, hops, cf, cb, down, loop, next, fpos, bpos, circuits>>
  BY DEF ReaderEof, EndReader, client, handler
<1>2. TypeInv
  BY DEF Inv
<1>3. l[1] \in Build /\ l[2] <= hops[l[1]]
  BY <1>1, ReaderRuns
<1>4. up' \in [Hop -> Seq(Word)] /\ \A m \in Hop :
         up'[m] = IF m = l /\ UpOpen(l) THEN Append(up[l], DESTROY) ELSE up[m]
  <2>1. up \in [Hop -> Seq(Word)] /\ DESTROY \in Word
    BY <1>2, CellsAre DEF TypeInv
  <2>2. QED
    BY <1>1, <2>1, PutUpAt
<1>5. /\ reader' \in [Hop -> {"none", "run", "ended"}]
      /\ \A m \in Hop : reader'[m] = IF m = l THEN "ended" ELSE reader[m]
  BY <1>1, <1>2 DEF TypeInv
<1>6. /\ cpc' \in [Build -> {"idle", "waiting", "ready", "failed"}]
      /\ \A d \in Build : cpc'[d] = cpc[d]
  BY <1>1, <1>2 DEF TypeInv
<1>7. ASSUME NEW m \in Hop
      PROVE  \/ up'[m] = up[m]
             \/ /\ m[1] = l[1] /\ m[2] <= hops[l[1]]
                /\ \E v \in Word : v.cmd = "DESTROY" /\ up'[m] = Append(up[m], v)
  BY <1>3, <1>4, CellsAre
<1>8. QED
  BY <1>1, <1>3, <1>4, <1>5, <1>6, <1>7, OnlyDestroy

\* The reader gets a DESTROY.
LEMMA BackwardDestroy ==
    ASSUME Inv, NEW l \in Hop, Backward(l), Head(up[After(l)]).cmd = "DESTROY"
    PROVE  Inv'
<1> DEFINE a == After(l)
           w == Head(up[a])
           rest == Taken(up, a)
<1>1. reader[l] = "run" /\ up[a] # <<>>
  BY DEF Backward, Readable
<1>2. TypeInv
  BY DEF Inv
<1>3. /\ l[1] \in Build /\ l[2] <= hops[l[1]]
      /\ a \in Hop /\ a # l /\ a[1] = l[1]
  BY <1>1, ReaderRuns
<1>4. /\ rest \in [Hop -> Seq(Word)] /\ w \in Word
      /\ \A m \in Hop : rest[m] = IF m = a THEN Tail(up[a]) ELSE up[m]
  BY <1>1, <1>2, <1>3, TakenAt DEF TypeInv
<1>5. UNCHANGED <<cpc, hops, cf, cb, down, loop, next, fpos, bpos, circuits>>
  BY DEF Backward, client, EndReader
<1>6. /\ \E v \in Word : v.cmd = "DESTROY" /\ up' = PutUp(rest, l, v)
      /\ reader' \in {reader, [reader EXCEPT ![l] = "ended"]}
  BY <1>4, CellsAre DEF Backward, EndReader
<1>7. PICK v \in Word : v.cmd = "DESTROY" /\ up' = PutUp(rest, l, v)
  BY <1>6
<1>8. up' \in [Hop -> Seq(Word)] /\ \A m \in Hop :
         up'[m] = IF m = l /\ UpOpen(l) THEN Append(rest[l], v) ELSE rest[m]
  BY <1>4, <1>7, PutUpAt
<1>9. /\ reader' \in [Hop -> {"none", "run", "ended"}]
      /\ \A m \in Hop : reader'[m] = reader[m] \/ (m = l /\ reader'[m] = "ended")
  BY <1>2, <1>6 DEF TypeInv
<1>10. /\ cpc' \in [Build -> {"idle", "waiting", "ready", "failed"}]
       /\ \A d \in Build : cpc'[d] = cpc[d]
  BY <1>2, <1>5 DEF TypeInv
<1> HIDE DEF w, rest
<1>11. ASSUME NEW m \in Hop
       PROVE  \/ up'[m] = up[m]
              \/ /\ m[1] = l[1] /\ up[m] # <<>> /\ Head(up[m]).cmd = "DESTROY"
                 /\ up'[m] = Tail(up[m])
              \/ /\ m[1] = l[1] /\ m[2] <= hops[l[1]]
                 /\ \E u \in Word : u.cmd = "DESTROY" /\ up'[m] = Append(up[m], u)
  BY <1>1, <1>3, <1>4, <1>7, <1>8
<1>12. QED
  BY <1>3, <1>5, <1>8, <1>9, <1>10, <1>11, OnlyDestroy

-----------------------------------------------------------------------------
(* Where a cell of the handshake can be.                                   *)

LEMMA BuildsAre ==
    ASSUME Inv, NEW b \in Build
    PROVE  /\ TypeInv /\ BuildInv(b) /\ N(b) \in Nat /\ N(b) >= 3
           /\ hops[b] \in Nat /\ hops[b] <= N(b)
           /\ \A j \in 1 .. hops[b] : <<b, j>> \in Hop
           /\ hops[b] < N(b) => Goal(b) \in Hop
           /\ Goal(b)[1] = b /\ Goal(b)[2] = hops[b] + 1
<1>1. TypeInv /\ BuildInv(b) /\ hops[b] \in Nat /\ hops[b] <= N(b)
  BY DEF Inv, TypeInv, BuildInv, Counts
<1>2. N(b) \in Nat /\ N(b) >= 3 /\ \A i \in 1 .. N(b) : <<b, i>> \in Hop
  BY Paths
<1>3. /\ \A j \in 1 .. hops[b] : j \in 1 .. N(b)
      /\ hops[b] < N(b) => hops[b] + 1 \in 1 .. N(b)
  BY <1>1, <1>2
<1>4. QED
  BY <1>1, <1>2, <1>3 DEF Goal

LEMMA DownHead ==
    ASSUME Inv, NEW b \in Build, NEW l \in Hop, l[1] = b,
           down[l] # <<>>, Head(down[l]).cmd # "DESTROY"
    PROVE  /\ cpc[b] # "idle"
           /\ Bare(Tail(down[l]))
           /\ \/ /\ Extending(b) /\ l[2] \in 1 .. hops[b]
                 /\ Bares(down, b, {l[2]}) /\ Fwd(b, l[2])
                 /\ Head(down[l]) = EXTEND(b, l[2])
              \/ Creating(b) /\ l = Goal(b) /\ Head(down[l]) = CREATE(l)
<1>1. /\ TypeInv /\ BuildInv(b) /\ down[l] \in Seq(Word) /\ l = <<b, l[2]>>
      /\ hops[b] \in Nat /\ l[2] \in Nat
  BY BuildsAre, Paths DEF TypeInv
<1>2. ~Bare(down[l])
  BY <1>1, HeadIsThere
<1>3. \A J : Bares(down, b, J) => l[2] \in J
  BY <1>2 DEF Bares
<1>4. cpc[b] # "idle"
  BY <1>1, <1>3 DEF BuildInv, Counts, Quiet
<1>5. \A w : Holds(down[l], w) => Head(down[l]) = w /\ Bare(Tail(down[l]))
  BY <1>1, HoldsTail
<1>6. CASE Extending(b)
  <2>1. PICK j \in 1 .. hops[b] :
           /\ Bares(down, b, {j}) /\ Fwd(b, j)
           /\ Holds(down[<<b, j>>], EXTEND(b, j))
    BY <1>6 DEF Extending
  <2>2. j = l[2]
    BY <1>3, <2>1
  <2>3. QED
    BY <1>1, <1>4, <1>5, <1>6, <2>1, <2>2
<1>7. CASE Creating(b)
  <2>1. l[2] = hops[b] + 1 /\ Holds(down[Goal(b)], CREATE(Goal(b)))
    BY <1>3, <1>7 DEF Creating
  <2>2. l = Goal(b)
    BY <1>1, <2>1 DEF Goal
  <2>3. QED
    BY <1>4, <1>5, <1>7, <2>1, <2>2
<1>8. QED
  BY <1>1, <1>3, <1>6, <1>7
     DEF BuildInv, Stage, Quiet, Connecting, Answered, Returning

LEMMA UpHead ==
    ASSUME Inv, NEW b \in Build, NEW l \in Hop, l[1] = b,
           up[l] # <<>>, Head(up[l]).cmd # "DESTROY"
    PROVE  /\ cpc[b] # "idle"
           /\ Bare(Tail(up[l]))
           /\ \/ Answered(b) /\ l = Goal(b) /\ Head(up[l]) = CREATED(b)
              \/ /\ Returning(b) /\ l[2] \in 1 .. hops[b]
                 /\ Bares(up, b, {l[2]}) /\ Bwd(b, l[2])
                 /\ Head(up[l]) = EXTENDED(b, l[2])
<1>1. /\ TypeInv /\ BuildInv(b) /\ up[l] \in Seq(Word) /\ l = <<b, l[2]>>
      /\ hops[b] \in Nat /\ l[2] \in Nat
  BY BuildsAre, Paths DEF TypeInv
<1>2. ~Bare(up[l])
  BY <1>1, HeadIsThere
<1>3. \A J : Bares(up, b, J) => l[2] \in J
  BY <1>2 DEF Bares
<1>4. cpc[b] # "idle"
  BY <1>1, <1>3 DEF BuildInv, Counts, Quiet
<1>5. \A w : Holds(up[l], w) => Head(up[l]) = w /\ Bare(Tail(up[l]))
  BY <1>1, HoldsTail
<1>6. CASE Returning(b)
  <2>1. PICK j \in 1 .. hops[b] :
           /\ Bares(up, b, {j}) /\ Bwd(b, j)
           /\ Holds(up[<<b, j>>], EXTENDED(b, j))
    BY <1>6 DEF Returning
  <2>2. j = l[2]
    BY <1>3, <2>1
  <2>3. QED
    BY <1>1, <1>4, <1>5, <1>6, <2>1, <2>2
<1>7. CASE Answered(b)
  <2>1. l[2] = hops[b] + 1 /\ Holds(up[Goal(b)], CREATED(b))
    BY <1>3, <1>7 DEF Answered
  <2>2. l = Goal(b)
    BY <1>1, <2>1 DEF Goal
  <2>3. QED
    BY <1>4, <1>5, <1>7, <2>1, <2>2
<1>8. QED
  BY <1>1, <1>3, <1>6, <1>7
     DEF BuildInv, Stage, Quiet, Connecting, Creating, Extending

\* A cell that is written to a channel without another, or is lost.
LEMMA Written ==
    ASSUME NEW s \in Seq(Word), Bare(s), NEW w \in Word, w.cmd # "DESTROY"
    PROVE  Holds(Append(s, w), w)
  BY BareAppend

-----------------------------------------------------------------------------
(* The steps that move the handshake.                                      *)

LEMMA CreatedStep ==
    ASSUME Inv, NEW l \in Hop, Created(l) PROVE Inv'
<1> DEFINE b == l[1]
           v == Cell("CREATED", l, {})
<1>1. /\ loop[l] = "read" /\ down[l] # <<>> /\ Head(down[l]).cmd = "CREATE"
      /\ down' = Taken(down, l) /\ up' = PutUp(up, l, v)
      /\ \/ loop' = [loop EXCEPT ![l] = "add"]
         \/ ~UpOpen(l) /\ loop' = [loop EXCEPT ![l] = "ended"]
      /\ UNCHANGED <<cpc, hops, cf, cb, reader, next, fpos, bpos, circuits>>
  BY DEF Created, Readable, CreatedThen, Loop, client, handler
<1>2. b \in Build /\ l[2] \in Nat
  BY Paths
<1>4. /\ Creating(b) /\ l = Goal(b) /\ Bare(Tail(down[l])) /\ cpc[b] # "idle"
  <2>1. Head(down[l]).cmd # "DESTROY"
    BY <1>1
  <2>2. \A j : Head(down[l]) # EXTEND(b, j)
    BY <1>1 DEF EXTEND, Cell
  <2>3. QED
    BY <1>1, <1>2, <2>1, <2>2, DownHead
<1>5. /\ TypeInv /\ BuildInv(b) /\ hops[b] \in Nat
      /\ hops[b] < N(b) /\ l[2] = hops[b] + 1
  BY <1>2, <1>4, BuildsAre DEF Creating
<1>6. /\ down' \in [Hop -> Seq(Word)]
      /\ \A m \in Hop : down'[m] = IF m = l THEN Tail(down[l]) ELSE down[m]
  <2>1. down \in [Hop -> Seq(Word)]
    BY <1>5 DEF TypeInv
  <2>2. QED
    BY <1>1, <2>1, TakenAt
<1>7. /\ v \in Word /\ up' \in [Hop -> Seq(Word)]
      /\ \A m \in Hop :
            up'[m] = IF m = l /\ UpOpen(l) THEN Append(up[l], v) ELSE up[m]
  <2>1. up \in [Hop -> Seq(Word)] /\ v \in Word
    BY <1>5, CellsAre DEF TypeInv
  <2>2. QED
    BY <1>1, <2>1, PutUpAt
<1>8. /\ loop' \in [Hop -> {"none", "read", "add", "connect", "await", "ended"}]
      /\ \A m \in Hop : m # l => loop'[m] = loop[m]
      /\ loop'[l] = "add" \/ (~UpOpen(l) /\ loop'[l] = "ended")
  BY <1>1, <1>5 DEF TypeInv
<1>9. TypeInv'
  BY <1>1, <1>5, <1>6, <1>7, <1>8 DEF TypeInv
<1>10. Others(b)
  BY <1>1, <1>6, <1>7, <1>8 DEF Others, Same, Handler
<1>11. ASSUME NEW m \in Hop, m[1] = b PROVE Local(m)'
  <2>1. Local(m) /\ hops'[m[1]] = hops[m[1]] /\ m[2] \in Nat /\ m = <<m[1], m[2]>>
    BY <1>1, <1>5, <1>11, Paths DEF BuildInv
  <2>2. m[2] <= hops[m[1]] => m # l
    BY <1>5, <1>11, <2>1
  <2>3. m # l => (Registered(m) => Registered(m)')
    BY <1>1, <1>8 DEF Registered, Handler, RelayOf, IdOf
  <2>4. loop'[m] \in Asking => loop'[m] = loop[m]
    BY <1>8 DEF Asking
  <2>5. NoDestroy(up[m]) => NoDestroy(up'[m])
    <3>1. CASE m = l /\ UpOpen(l)
      <4>1. up[l] \in Seq(Word) /\ v \in Word /\ v.cmd # "DESTROY"
        BY <1>5, <1>7 DEF TypeInv, Cell
      <4>2. /\ Len(up[l]) \in Nat /\ Len(Append(up[l], v)) = Len(up[l]) + 1
            /\ \A p \in 1 .. Len(Append(up[l], v)) :
                 Append(up[l], v)[p] = IF p = Len(up[l]) + 1 THEN v ELSE up[l][p]
        BY <4>1, AppendAt
      <4>3. NoDestroy(up[l]) => NoDestroy(Append(up[l], v))
        <5> HIDE DEF v
        <5>1. QED
          BY <4>1, <4>2 DEF NoDestroy
      <4>4. QED
        BY <1>7, <3>1, <4>3
    <3>2. CASE ~(m = l /\ UpOpen(l))
      BY <1>7, <3>2
    <3>3. QED
      BY <3>1, <3>2
  <2>6. KeptAt(m)
    BY <1>1, <2>2, <2>3, <2>4, <2>5 DEF KeptAt, Handler
  <2>7. QED
    BY <2>1, <2>6, LocalKept
<1>12. Counts(b)'
  BY <1>1, <1>4, <1>5 DEF BuildInv, Counts, N
<1>13. /\ NoneConnects(b)' /\ NotExtended(b)' /\ Bares(down', b, {})
       /\ Fwd(b, hops[b] + 1)' /\ Bwd(b, hops[b] + 1)'
  <2>1. /\ NoneConnects(b) /\ NotExtended(b) /\ Bares(down, b, {hops[b] + 1})
        /\ Fwd(b, hops[b] + 1) /\ Bwd(b, hops[b] + 1)
    BY <1>4 DEF Creating
  <2>2. NoneConnects(b)'
    BY <1>8, <2>1 DEF NoneConnects
  <2>3. NotExtended(b)' /\ Fwd(b, hops[b] + 1)' /\ Bwd(b, hops[b] + 1)'
    BY <1>1, <2>1 DEF NotExtended, Fwd, Bwd
  <2>4. Bares(down', b, {})
    <3>1. ASSUME NEW m \in Hop, m[1] = b, m # l PROVE m[2] # hops[b] + 1
      BY <1>5, <3>1, Paths
    <3>2. QED
      BY <1>4, <1>6, <2>1, <3>1 DEF Bares
  <2>5. QED
    BY <2>2, <2>3, <2>4
<1>14. Stage(b)'
  <2>1. CASE ~UpOpen(l)
    <3>1. Bares(up', b, {})
      BY <1>4, <1>7, <2>1 DEF Bares, Creating
    <3>2. QED
      BY <1>13, <3>1 DEF Stage, Quiet
  <2>2. CASE UpOpen(l)
    <3>1. Joined(b)'
      <4>1. ASSUME NEW m \in Hop, m[1] = b, m[2] = hops[b] + 1 PROVE m = l
        BY <1>5, <4>1, Paths
      <4>2. QED
        BY <1>1, <1>8, <2>2, <4>1 DEF Joined, Registered
    <3>2. Bares(up', b, {hops[b] + 1})
      BY <1>4, <1>5, <1>7 DEF Bares, Creating
    <3>3. Holds(up'[l], v)
      <4>1. up[l] \in Seq(Word) /\ Bare(up[l]) /\ v.cmd # "DESTROY"
        BY <1>4, <1>5 DEF Creating, Bares, TypeInv, Cell
      <4>2. QED
        BY <1>7, <2>2, <4>1, Written
    <3>4. Goal(b)' = l /\ CREATED(b)' = v
      BY <1>1, <1>4 DEF Goal, CREATED
    <3>5. Answered(b)'
      BY <1>1, <1>5, <1>13, <3>1, <3>2, <3>3, <3>4 DEF Answered, N
    <3>6. QED
      BY <3>5 DEF Stage
  <2>3. QED
    BY <2>1, <2>2
<1>15. BuildInv(b)'
  BY <1>11, <1>12, <1>14 DEF BuildInv
<1>16. QED
  BY <1>2, <1>9, <1>10, <1>15, Glue

LEMMA ConnectStep ==
    ASSUME Inv, NEW l \in Hop, Connect(l) PROVE Inv'
<1> DEFINE b == l[1]
           a == After(l)
<1>1. /\ loop[l] = "connect"
      /\ loop' = [loop EXCEPT ![l] = "await", ![a] = "read"]
      /\ down' = [down EXCEPT ![a] = <<CREATE(a)>>]
      /\ UNCHANGED <<cpc, hops, cf, cb, up, reader, next, fpos, bpos, circuits>>
  BY DEF Connect, client, handler
<1>2. b \in Build /\ l[2] \in Nat
  BY Paths
<1>3. TypeInv /\ BuildInv(b) /\ hops[b] \in Nat /\ hops[b] <= N(b)
  BY <1>2, BuildsAre
<1>4. /\ Local(l) /\ l[2] = hops[b] /\ l[2] < N(b)
      /\ a \in Hop /\ a # l /\ a[1] = b /\ a[2] = hops[b] + 1 /\ a = Goal(b)
  <2>1. Local(l) /\ l[2] = hops[b] /\ l[2] < N(b)
    BY <1>1, <1>3 DEF BuildInv, Local, Asking
  <2>2. QED
    BY <2>1, Neighbours DEF Goal, After
<1>5. Connecting(b) /\ cpc[b] # "idle"
  <2>1. ~NoneConnects(b) /\ ~NoneAsks(b)
    BY <1>1 DEF NoneConnects, NoneAsks, Asking
  <2>2. QED
    BY <1>3, <2>1
       DEF BuildInv, Stage, Counts, Quiet, Extending, Creating, Answered, Returning
<1>6. /\ loop' \in [Hop -> {"none", "read", "add", "connect", "await", "ended"}]
      /\ loop'[l] = "await" /\ loop'[a] = "read"
      /\ \A m \in Hop : m # l /\ m # a => loop'[m] = loop[m]
  BY <1>1, <1>3, <1>4 DEF TypeInv
<1>7. /\ down' \in [Hop -> Seq(Word)] /\ down'[a] = <<CREATE(a)>>
      /\ \A m \in Hop : m # a => down'[m] = down[m]
  BY <1>1, <1>3, <1>4, CellsAre DEF TypeInv
<1>8. TypeInv'
  BY <1>1, <1>3, <1>6, <1>7 DEF TypeInv
<1>9. Others(b)
  BY <1>1, <1>4, <1>6, <1>7 DEF Others, Same, Handler
<1>10. ASSUME NEW m \in Hop, m[1] = b PROVE Local(m)'
  <2>1. Local(m) /\ hops'[m[1]] = hops[m[1]] /\ m[2] \in Nat
    BY <1>1, <1>3, <1>10, Paths DEF BuildInv
  <2>2. CASE m = l
    <3>1. Registered(l) => Registered(l)'
      BY <1>1, <1>6 DEF Registered, Handler, RelayOf, IdOf
    <3>2. /\ Handler(l) = l /\ Handler(l)' = l
          /\ loop[l] \in Asking /\ loop'[l] \in Asking
      BY <1>1, <1>4, <1>6 DEF Local, Asking, Handler, RelayOf, IdOf
    <3>3. QED
      BY <1>1, <1>4, <2>1, <2>2, <3>1, <3>2 DEF Local, N, NoDestroy
  <2>3. CASE m # l
    <3>1. m[2] <= hops[b] => m # a
      BY <1>3, <1>4, <2>1
    <3>2. m[2] <= hops[b] /\ Registered(m) => Registered(m)'
      BY <1>1, <1>6, <2>3, <3>1 DEF Registered, Handler, RelayOf, IdOf
    <3>3. loop'[m] \in Asking => loop'[m] = loop[m]
      BY <1>6, <2>3 DEF Asking
    <3>4. KeptAt(m)
      BY <1>1, <1>10, <3>2, <3>3 DEF KeptAt, Handler
    <3>5. QED
      BY <2>1, <3>4, LocalKept
  <2>4. QED
    BY <2>2, <2>3
<1>11. Counts(b)'
  BY <1>1, <1>3, <1>5 DEF BuildInv, Counts, N
<1>12. Creating(b)'
  <2>1. /\ NotExtended(b) /\ Bares(down, b, {}) /\ Bares(up, b, {})
        /\ Fwd(b, hops[b] + 1) /\ Bwd(b, hops[b] + 1)
    BY <1>5 DEF Connecting
  <2>2. NoneConnects(b)'
    <3>1. ASSUME NEW m \in Hop, m[1] = b, m # l, m # a PROVE loop[m] # "connect"
      <4>1. loop[m] = "connect" => m[2] = hops[b]
        BY <1>3, <3>1 DEF BuildInv, Local, Asking
      <4>2. m[2] = l[2] => m = l
        BY <3>1, Paths
      <4>3. QED
        BY <1>4, <3>1, <4>1, <4>2
    <3>2. QED
      BY <1>6, <3>1 DEF NoneConnects
  <2>3. /\ NotExtended(b)' /\ Fwd(b, hops[b] + 1)' /\ Bwd(b, hops[b] + 1)'
        /\ Bares(up', b, {})
    BY <1>1, <2>1 DEF NotExtended, Fwd, Bwd, Bares
  <2>4. Bares(down', b, {hops[b] + 1})
    BY <1>4, <1>7, <2>1 DEF Bares
  <2>5. Goal(b)' = a
    BY <1>1, <1>4 DEF Goal
  <2>6. Holds(down'[a], CREATE(a))
    <3> DEFINE c == CREATE(a)
    <3>1. c.cmd # "DESTROY"
      BY DEF CREATE, Cell
    <3> HIDE DEF c
    <3>2. Len(<<c>>) = 1 /\ <<c>>[1] = c /\ 1 .. 1 = {1}
      OBVIOUS
    <3>3. Holds(<<c>>, c)
      BY <3>1, <3>2 DEF Holds
    <3>4. QED
      BY <1>7, <3>3 DEF c
  <2>7. QED
    BY <1>1, <1>4, <2>2, <2>3, <2>4, <2>5, <2>6 DEF Creating, N
<1>13. BuildInv(b)'
  BY <1>10, <1>11, <1>12 DEF BuildInv, Stage
<1>14. QED
  BY <1>2, <1>8, <1>9, <1>13, Glue

\* EXTEND arrives where the circuit goes on, or where it ends.
\* An EXTEND finds its hop's handler, which takes the layer off that is its own;
\* none is left at the last hop that the client knows, and only there.
LEMMA ExtendIs ==
    ASSUME Inv, NEW l \in Hop, Extend(l)
    PROVE  LET b == l[1]
               a == After(l)
               w == Crypt(Head(down[l]), l, fpos)
               rest == Taken(down, l)
           IN  /\ loop[l] = "read" /\ down[l] # <<>>
               /\ Head(down[l]).cmd = "EXTEND"
               /\ Extending(b) /\ l[2] \in 1 .. hops[b] /\ cpc[b] # "idle"
               /\ Bares(down, b, {l[2]}) /\ Fwd(b, l[2]) /\ Bare(Tail(down[l]))
               /\ Head(down[l]) = EXTEND(b, l[2])
               /\ Handler(l) = l
               /\ next[l] => l[2] < hops[b] /\ a \in Hop /\ a # l
                             /\ a[1] = b /\ a[2] = l[2] + 1
               /\ w \in Word /\ w = EXTEND(b, l[2] + 1)
               /\ w.layers = {} <=> l[2] = hops[b]
               /\ UNCHANGED <<cpc, hops, cf, cb, up, reader, next, bpos, circuits>>
               /\ fpos' = Bump(fpos, {l})
               /\ down' = IF next[l] THEN PutDown(rest, a, w) ELSE rest
               /\ \/ next[l] /\ loop' = loop
                  \/ next[l] /\ ~DownOpen(a) /\ loop' = [loop EXCEPT ![l] = "ended"]
                  \/ ~next[l] /\ w.layers = {} /\ loop' = [loop EXCEPT ![l] = "connect"]
                  \/ ~next[l] /\ w.layers # {} /\ loop' = [loop EXCEPT ![l] = "ended"]
<1> DEFINE b == l[1]
           j == l[2]
           a == After(l)
           w == Crypt(Head(down[l]), l, fpos)
           rest == Taken(down, l)
<1>1. b \in Build /\ l = <<b, j>> /\ j \in Nat
  BY Paths
<1>2. /\ TypeInv /\ BuildInv(b) /\ N(b) \in Nat
      /\ hops[b] \in Nat /\ hops[b] <= N(b)
  BY <1>1, BuildsAre
<1>3. /\ loop[l] = "read" /\ down[l] # <<>> /\ Head(down[l]).cmd = "EXTEND"
  BY DEF Extend, Readable
<1>4. /\ Extending(b) /\ j \in 1 .. hops[b] /\ cpc[b] # "idle"
      /\ Bares(down, b, {j}) /\ Fwd(b, j) /\ Bare(Tail(down[l]))
      /\ Head(down[l]) = EXTEND(b, j)
  <2>1. Head(down[l]).cmd # "DESTROY"
    BY <1>3
  <2>2. Head(down[l]) # CREATE(l)
    BY <1>3 DEF CREATE, Cell
  <2>3. QED
    BY <1>1, <1>3, <2>1, <2>2, DownHead
<1>5. Handler(l) = l
  BY <1>1, <1>2, <1>3, <1>4 DEF BuildInv, Local, Registered
<1>6. next[l] => j < hops[b] /\ a \in Hop /\ a # l /\ a[1] = b /\ a[2] = j + 1
  <2>1. next[l] => j # hops[b]
    BY <1>1, <1>4 DEF Extending, NotExtended
  <2>2. j # hops[b] => j < hops[b] /\ j < N(b)
    BY <1>1, <1>2, <1>4
  <2>3. j < N(b) => a \in Hop /\ a # l /\ a[1] = b /\ a[2] = j + 1
    BY Neighbours
  <2>4. QED
    BY <2>1, <2>2, <2>3
<1>7. /\ w \in Word /\ w = EXTEND(b, j + 1)
      /\ w.layers = {} <=> j = hops[b]
  <2>1. fpos[l] = hops[b] - j
    BY <1>1, <1>2, <1>4 DEF Fwd
  <2>2. Head(down[l]) \in Word
    BY <1>2, <1>3, TakenAt DEF TypeInv
  <2>3. fpos \in [Hop -> Nat]
    BY <1>2 DEF TypeInv
  <2>4. /\ w \in Word /\ w.cmd = "EXTEND" /\ w.hop = Goal(b)
        /\ w.layers = Xor(Peel(b, j), {<<l, hops[b] - j>>})
    BY <1>4, <2>1, <2>2, <2>3, CellsAre DEF EXTEND, Cell
  <2>5. w.layers = Peel(b, j + 1) /\ (Peel(b, j + 1) = {} <=> j = hops[b])
    <3>1. /\ Xor(Peel(b, j), {<<<<b, j>>, hops[b] - j>>}) = Peel(b, j + 1)
          /\ Peel(b, j + 1) = {} <=> j = hops[b]
      <4> HIDE DEF b, j
      <4>1. QED
        BY <1>2, <1>4, PeelXor
    <3>2. QED
      BY <1>1, <2>4, <3>1
  <2>6. w = EXTEND(b, j + 1)
    <3> HIDE DEF w
    <3>1. QED
      BY <2>4, <2>5 DEF Word, EXTEND, Cell
  <2>7. QED
    BY <2>4, <2>5, <2>6
<1>8. /\ UNCHANGED <<cpc, hops, cf, cb, up, reader, next, bpos, circuits>>
      /\ fpos' = Bump(fpos, {l})
      /\ down' = IF next[l] THEN PutDown(rest, a, w) ELSE rest
      /\ \/ next[l] /\ loop' = loop
         \/ next[l] /\ ~DownOpen(a) /\ loop' = [loop EXCEPT ![l] = "ended"]
         \/ ~next[l] /\ w.layers = {} /\ loop' = [loop EXCEPT ![l] = "connect"]
         \/ ~next[l] /\ w.layers # {} /\ loop' = [loop EXCEPT ![l] = "ended"]
  <2>1. l # None
    BY NoneAssumption
  <2>2. QED
    BY <1>5, <2>1 DEF Extend, Loop, client, handler
<1> HIDE DEF w
<1>9. QED
  BY <1>3, <1>4, <1>5, <1>6, <1>7, <1>8 DEF w

LEMMA ExtendStep ==
    ASSUME Inv, NEW l \in Hop, Extend(l) PROVE Inv'
<1> DEFINE b == l[1]
           j == l[2]
           a == After(l)
           w == Crypt(Head(down[l]), l, fpos)
           rest == Taken(down, l)
<1>1. b \in Build /\ l = <<b, j>> /\ j \in Nat
  BY Paths
<1>2. /\ TypeInv /\ BuildInv(b) /\ N(b) \in Nat
      /\ hops[b] \in Nat /\ hops[b] <= N(b)
  BY <1>1, BuildsAre
<1>3. /\ loop[l] = "read" /\ down[l] # <<>> /\ Head(down[l]).cmd = "EXTEND"
  BY ExtendIs
<1>4. /\ Extending(b) /\ j \in 1 .. hops[b] /\ cpc[b] # "idle"
      /\ Bares(down, b, {j}) /\ Fwd(b, j) /\ Bare(Tail(down[l]))
      /\ Head(down[l]) = EXTEND(b, j)
  BY ExtendIs
<1>5. Handler(l) = l
  BY ExtendIs
<1>6. next[l] => j < hops[b] /\ a \in Hop /\ a # l /\ a[1] = b /\ a[2] = j + 1
  BY ExtendIs
<1>7. /\ w \in Word /\ w = EXTEND(b, j + 1)
      /\ w.layers = {} <=> j = hops[b]
  BY ExtendIs
<1>8. /\ UNCHANGED <<cpc, hops, cf, cb, up, reader, next, bpos, circuits>>
      /\ fpos' = Bump(fpos, {l})
      /\ down' = IF next[l] THEN PutDown(rest, a, w) ELSE rest
      /\ \/ next[l] /\ loop' = loop
         \/ next[l] /\ ~DownOpen(a) /\ loop' = [loop EXCEPT ![l] = "ended"]
         \/ ~next[l] /\ w.layers = {} /\ loop' = [loop EXCEPT ![l] = "connect"]
         \/ ~next[l] /\ w.layers # {} /\ loop' = [loop EXCEPT ![l] = "ended"]
  BY ExtendIs
<1> HIDE DEF w
<1>9. /\ fpos' \in [Hop -> Nat]
      /\ \A m \in Hop : fpos'[m] = IF m = l THEN fpos[m] + 1 ELSE fpos[m]
  <2>1. fpos \in [Hop -> Nat]
    BY <1>2 DEF TypeInv
  <2>2. /\ Bump(fpos, {l}) \in [Hop -> Nat]
        /\ \A m \in Hop :
              Bump(fpos, {l})[m] = IF m \in {l} THEN fpos[m] + 1 ELSE fpos[m]
    BY <2>1, BumpAt
  <2>3. QED
    BY <1>8, <2>2
<1>10. /\ rest \in [Hop -> Seq(Word)]
       /\ \A m \in Hop : rest[m] = IF m = l THEN Tail(down[l]) ELSE down[m]
  BY <1>2, <1>3, TakenAt DEF TypeInv
<1>11. /\ down' \in [Hop -> Seq(Word)]
       /\ \A m \in Hop : down'[m] = IF next[l] /\ m = a /\ DownOpen(a)
                                   THEN Append(rest[a], w) ELSE rest[m]
  <2> HIDE DEF rest, a
  <2>1. CASE next[l]
    <3>1. /\ PutDown(rest, a, w) \in [Hop -> Seq(Word)]
          /\ \A m \in Hop : PutDown(rest, a, w)[m] =
                IF m = a /\ DownOpen(a) THEN Append(rest[a], w) ELSE rest[m]
      BY <1>6, <1>7, <1>10, <2>1, PutDownAt
    <3>2. QED
      BY <1>8, <2>1, <3>1
  <2>2. CASE ~next[l]
    BY <1>8, <1>10, <2>2
  <2>3. QED
    BY <2>1, <2>2
<1>12. /\ loop' \in [Hop -> {"none", "read", "add", "connect", "await", "ended"}]
       /\ \A m \in Hop : m # l => loop'[m] = loop[m]
       /\ next[l] => loop'[l] \in {"read", "ended"}
       /\ ~next[l] => loop'[l] = IF j = hops[b] THEN "connect" ELSE "ended"
  BY <1>2, <1>3, <1>7, <1>8 DEF TypeInv
<1> HIDE DEF rest
<1>13. TypeInv'
  BY <1>2, <1>8, <1>9, <1>11, <1>12 DEF TypeInv
<1>14. Others(b)
  BY <1>6, <1>8, <1>9, <1>10, <1>11, <1>12 DEF Others, Same, Handler
<1>15. ASSUME NEW m \in Hop, m[1] = b PROVE Local(m)'
  <2>1. Local(m) /\ hops'[m[1]] = hops[m[1]] /\ m[2] \in Nat
    BY <1>2, <1>8, <1>15, Paths DEF BuildInv
  <2>2. CASE m = l
    <3>1. Handler(l)' = l /\ Registered(l)' /\ Registered(l)
      BY <1>5, <1>8 DEF Registered, Handler, RelayOf, IdOf
    <3>2. loop'[l] \in Asking => j = hops[b] /\ j < N(b)
      BY <1>4, <1>12 DEF Asking, Extending
    <3>3. ~(j > hops[b])
      BY <1>2, <1>4
    <3>4. QED
      BY <1>1, <1>5, <1>8, <2>1, <2>2, <3>1, <3>2, <3>3 DEF Local, N, NoDestroy
  <2>3. CASE m # l
    <3>1. Registered(m) => Registered(m)'
      BY <1>8, <1>12, <2>3 DEF Registered, Handler, RelayOf, IdOf
    <3>2. KeptAt(m)
      BY <1>8, <1>9, <1>12, <2>3, <3>1 DEF KeptAt, Handler
    <3>3. QED
      BY <2>1, <3>2, LocalKept
  <2>4. QED
    BY <2>2, <2>3
<1>16. Counts(b)'
  BY <1>2, <1>4, <1>8 DEF BuildInv, Counts, N, Extending
<1>17. /\ hops'[b] = hops[b] /\ N(b)' = N(b) /\ hops[b] < N(b)
       /\ NotExtended(b)' /\ Bares(up', b, {}) /\ Bwd(b, hops[b] + 1)'
       /\ Fwd(b, j + 1)'
  <2>1. /\ hops[b] < N(b) /\ NotExtended(b)
        /\ Bares(up, b, {}) /\ Bwd(b, hops[b] + 1)
    BY <1>4 DEF Extending
  <2>2. NotExtended(b)' /\ Bares(up', b, {}) /\ Bwd(b, hops[b] + 1)'
    BY <1>8, <2>1 DEF NotExtended, Bares, Bwd
  <2>3. Fwd(b, j + 1)'
    <3>1. ASSUME NEW m \in Hop, m[1] = b, m[2] <= hops[b]
          PROVE  fpos'[m] = IF m[2] < j + 1 THEN hops[b] - m[2] + 1
                                            ELSE hops[b] - m[2]
      <4>1. fpos[m] = IF m[2] < j THEN hops[b] - m[2] + 1 ELSE hops[b] - m[2]
        BY <1>4, <3>1 DEF Fwd
      <4>2. m[2] \in Nat /\ (m = l <=> m[2] = j)
        BY <1>1, <3>1, Paths
      <4>3. QED
        BY <1>1, <1>2, <1>9, <4>1, <4>2
    <3>2. QED
      BY <1>8, <3>1 DEF Fwd
  <2>4. QED
    BY <1>8, <2>1, <2>2, <2>3 DEF N
<1>18. Bares(rest, b, {})
  <2>1. ASSUME NEW m \in Hop, m[1] = b, m # l PROVE m[2] # j
    BY <1>1, <2>1, Paths
  <2>2. QED
    BY <1>4, <1>10, <2>1 DEF Bares
<1>19. NoneAsks(b)
  BY <1>4 DEF Extending
<1>20. Stage(b)'
  <2>1. CASE next[l] /\ DownOpen(a)
    <3>1. NoneAsks(b)'
      BY <1>12, <1>19, <2>1 DEF NoneAsks, Asking
    <3>2. j + 1 \in 1 .. hops[b] /\ a = <<b, j + 1>>
      BY <1>1, <1>2, <1>6, <2>1 DEF After
    <3>3. Bares(down', b, {j + 1})
      BY <1>6, <1>11, <1>18, <2>1 DEF Bares
    <3>4. Holds(down'[a], EXTEND(b, j + 1)')
      <4>1. EXTEND(b, j + 1)' = EXTEND(b, j + 1)
        BY <1>17 DEF EXTEND, Goal, Peel, Cell
      <4>2. rest[a] \in Seq(Word) /\ Bare(rest[a]) /\ w.cmd # "DESTROY"
        BY <1>6, <1>7, <1>10, <1>18, <2>1 DEF Bares, EXTEND, Cell
      <4>3. Holds(Append(rest[a], w), w)
        BY <1>7, <4>2, Written
      <4>4. QED
        BY <1>6, <1>7, <1>11, <2>1, <4>1, <4>3
    <3>5. Extending(b)'
      BY <1>17, <3>1, <3>2, <3>3, <3>4 DEF Extending
    <3>6. QED
      BY <3>5 DEF Stage
  <2>2. CASE ~(next[l] /\ DownOpen(a))
    <3>1. Bares(down', b, {})
      BY <1>11, <1>18, <2>2 DEF Bares
    <3>2. CASE j = hops[b]
      BY <1>17, <3>1, <3>2 DEF Stage, Connecting
    <3>3. CASE j # hops[b]
      <4>1. NoneConnects(b)'
        BY <1>12, <1>19, <3>3 DEF NoneConnects, NoneAsks, Asking
      <4>2. QED
        BY <1>17, <3>1, <4>1 DEF Stage, Quiet
    <3>4. QED
      BY <3>2, <3>3
  <2>3. QED
    BY <2>1, <2>2
<1>21. BuildInv(b)'
  BY <1>15, <1>16, <1>20 DEF BuildInv
<1>22. QED
  BY <1>1, <1>13, <1>14, <1>21, Glue

\* A channel with one cell and no DESTROY.
LEMMA OnlyCell ==
    ASSUME NEW s \in Seq(Word), s # <<>>, NoDestroy(s)
    PROVE  /\ ~Bare(s)
           /\ \A w : Holds(s, w) => Head(s) = w /\ Tail(s) = <<>>
  BY OneCell DEF NoDestroy

LEMMA ExtendDoneStep ==
    ASSUME Inv, NEW l \in Hop, ExtendDone(l) PROVE Inv'
<1> DEFINE b == l[1]
           j == l[2]
           a == After(l)
           w == Crypt(Cell("EXTENDED", a, {}), l, bpos)
           rest == Taken(up, a)
<1>1. b \in Build /\ l = <<b, j>> /\ j \in Nat /\ j \in 1 .. N(b)
  BY Paths
<1>2. /\ TypeInv /\ BuildInv(b) /\ N(b) \in Nat
      /\ hops[b] \in Nat /\ hops[b] <= N(b)
  BY <1>1, BuildsAre
<1>3. /\ loop[l] = "await" /\ up[a] # <<>>
      /\ next' = [next EXCEPT ![l] = TRUE] /\ bpos' = Bump(bpos, {l})
      /\ up' = PutUp(rest, l, w)
      /\ \/ /\ loop' = [loop EXCEPT ![l] = "read"]
            /\ reader' = [reader EXCEPT ![l] = "run"]
         \/ /\ ~UpOpen(l) /\ loop' = [loop EXCEPT ![l] = "ended"]
            /\ reader' = reader
      /\ UNCHANGED <<cpc, hops, cf, cb, down, fpos, circuits>>
  BY DEF ExtendDone, Readable, Loop, client
<1>4. /\ Local(l) /\ Handler(l) = l /\ j = hops[b] /\ j < N(b)
      /\ a \in Hop /\ a # l /\ a[1] = b /\ a[2] = hops[b] + 1 /\ a = Goal(b)
  <2>1. Local(l) /\ Handler(l) = l /\ j = hops[b] /\ j < N(b)
    BY <1>1, <1>2, <1>3 DEF BuildInv, Local, Asking
  <2>2. QED
    BY <2>1, Neighbours DEF Goal, After
<1>5. /\ Answered(b) /\ cpc[b] # "idle" /\ Tail(up[a]) = <<>>
  <2>1. up[a] \in Seq(Word) /\ NoDestroy(up[a])
    <3>1. Local(a)
      BY <1>2, <1>4 DEF BuildInv
    <3>2. a[2] > hops[a[1]]
      BY <1>2, <1>4
    <3>3. QED
      BY <1>2, <1>4, <3>1, <3>2 DEF TypeInv, Local
  <2>2. Head(up[a]).cmd # "DESTROY"
    BY <1>3, <2>1, HeadIsThere
  <2>3. ~Returning(b)
    BY <1>1, <1>3 DEF Returning, NoneAsks, Asking
  <2>4. Answered(b) /\ cpc[b] # "idle"
    BY <1>1, <1>3, <1>4, <2>2, <2>3, UpHead
  <2>5. QED
    BY <1>3, <1>4, <2>1, <2>4, OnlyCell DEF Answered
<1>6. w \in Word /\ w = EXTENDED(b, j)
  <2>1. bpos[l] = hops[b] - j /\ bpos \in [Hop -> Nat]
    <3>1. Bwd(b, hops[b] + 1) /\ j < hops[b] + 1 /\ j <= hops[b]
      BY <1>1, <1>2, <1>4, <1>5 DEF Answered
    <3>2. QED
      BY <1>2, <3>1 DEF Bwd, TypeInv
  <2>2. Cell("EXTENDED", a, {}) \in Word
    BY <1>4, CellsAre
  <2>3. /\ w \in Word /\ w.cmd = "EXTENDED" /\ w.hop = Goal(b)
        /\ w.layers = Xor({}, {<<l, hops[b] - j>>})
    <3> DEFINE e == Cell("EXTENDED", a, {})
    <3>1. e.cmd = "EXTENDED" /\ e.hop = a /\ e.layers = {}
      BY DEF Cell
    <3>2. w = Crypt(e, l, bpos) /\ e \in Word
      BY <2>2
    <3> HIDE DEF e, w
    <3>3. /\ Crypt(e, l, bpos) \in Word
          /\ Crypt(e, l, bpos).cmd = e.cmd /\ Crypt(e, l, bpos).hop = e.hop
          /\ Crypt(e, l, bpos).layers = Xor(e.layers, {<<l, bpos[l]>>})
      BY <2>1, <3>2, CellsAre
    <3>4. QED
      BY <1>4, <2>1, <3>1, <3>2, <3>3
  <2>4. w.layers = Peel(b, j)
    <3>1. j \in 1 .. hops[b]
      BY <1>1, <1>2, <1>4
    <3>2. /\ Xor(Peel(b, j + 1), {<<<<b, j>>, hops[b] - j>>}) = Peel(b, j)
          /\ Peel(b, j + 1) = {}
      <4> HIDE DEF b, j
      <4>1. QED
        BY <1>2, <1>4, <3>1, PeelXor
    <3>3. QED
      BY <1>1, <2>3, <3>2
  <2>5. QED
    <3> HIDE DEF w
    <3>1. QED
      BY <2>3, <2>4 DEF Word, EXTENDED, Cell
<1> HIDE DEF w
<1>7. /\ bpos' \in [Hop -> Nat]
      /\ \A m \in Hop : bpos'[m] = IF m = l THEN bpos[m] + 1 ELSE bpos[m]
  <2>1. bpos \in [Hop -> Nat]
    BY <1>2 DEF TypeInv
  <2>2. /\ Bump(bpos, {l}) \in [Hop -> Nat]
        /\ \A m \in Hop :
              Bump(bpos, {l})[m] = IF m \in {l} THEN bpos[m] + 1 ELSE bpos[m]
    BY <2>1, BumpAt
  <2>3. QED
    BY <1>3, <2>2
<1>8. /\ rest \in [Hop -> Seq(Word)]
      /\ \A m \in Hop : rest[m] = IF m = a THEN <<>> ELSE up[m]
  <2>1. up \in [Hop -> Seq(Word)]
    BY <1>2 DEF TypeInv
  <2>2. /\ Taken(up, a) \in [Hop -> Seq(Word)]
        /\ \A m \in Hop : Taken(up, a)[m] = IF m = a THEN Tail(up[a]) ELSE up[m]
    BY <1>3, <1>4, <2>1, TakenAt
  <2>3. QED
    BY <1>5, <2>2
<1>9. /\ up' \in [Hop -> Seq(Word)]
      /\ \A m \in Hop : up'[m] = IF m = l /\ UpOpen(l)
                                 THEN Append(rest[l], w) ELSE rest[m]
  BY <1>3, <1>6, <1>8, PutUpAt
<1>10. /\ loop' \in [Hop -> {"none", "read", "add", "connect", "await", "ended"}]
       /\ \A m \in Hop : m # l => loop'[m] = loop[m]
       /\ loop'[l] \in {"read", "ended"}
       /\ reader' \in [Hop -> {"none", "run", "ended"}]
       /\ \A m \in Hop : m # l => reader'[m] = reader[m]
       /\ next' \in [Hop -> BOOLEAN] /\ next'[l]
       /\ \A m \in Hop : m # l => next'[m] = next[m]
  BY <1>2, <1>3 DEF TypeInv
<1> HIDE DEF rest
<1>11. TypeInv'
  BY <1>2, <1>3, <1>7, <1>9, <1>10 DEF TypeInv
<1>12. Others(b)
  <2>1. \A m \in Hop : m[1] # b => m # l /\ m # a
    BY <1>4
  <2>2. ASSUME NEW m \in Hop, m[1] # b
        PROVE  /\ up'[m] = up[m] /\ bpos'[m] = bpos[m] /\ loop'[m] = loop[m]
               /\ reader'[m] = reader[m] /\ next'[m] = next[m]
    BY <1>7, <1>8, <1>9, <1>10, <2>1, <2>2
  <2>3. QED
    BY <1>3, <2>2 DEF Others, Same, Handler
<1>13. ASSUME NEW m \in Hop, m[1] = b PROVE Local(m)'
  <2>1. Local(m) /\ hops'[m[1]] = hops[m[1]] /\ m[2] \in Nat
    BY <1>2, <1>3, <1>13, Paths DEF BuildInv
  <2>2. CASE m = l
    <3>1. Handler(l)' = l /\ Registered(l)'
      BY <1>3, <1>4 DEF Registered, Handler, RelayOf, IdOf
    <3>2. ~(j > hops[b]) /\ j <= hops[b]
      BY <1>2, <1>4
    <3>3. loop'[l] \notin Asking
      BY <1>10 DEF Asking
    <3>4. QED
      BY <1>3, <1>4, <1>10, <2>1, <2>2, <3>1, <3>2, <3>3 DEF Local, N, NoDestroy
  <2>3. CASE m # l
    <3>1. Registered(m) => Registered(m)'
      BY <1>3, <1>10, <2>3 DEF Registered, Handler, RelayOf, IdOf
    <3>2. NoDestroy(up[m]) => NoDestroy(up'[m])
      <4>1. CASE m = a
        <5>1. up'[m] = <<>> /\ Len(<<>>) = 0
          BY <1>8, <1>9, <2>3, <4>1
        <5>2. QED
          BY <5>1 DEF NoDestroy
      <4>2. CASE m # a
        BY <1>8, <1>9, <2>3, <4>2
      <4>3. QED
        BY <4>1, <4>2
    <3>3. KeptAt(m)
      BY <1>3, <1>7, <1>10, <2>3, <3>1, <3>2 DEF KeptAt, Handler
    <3>4. QED
      BY <2>1, <3>3, LocalKept
  <2>4. QED
    BY <2>2, <2>3
<1>14. Counts(b)'
  BY <1>2, <1>3, <1>4, <1>5 DEF BuildInv, Counts, N
<1>15. /\ hops'[b] = hops[b] /\ N(b)' = N(b) /\ hops[b] < N(b)
       /\ Bares(down', b, {}) /\ Fwd(b, hops[b] + 1)'
       /\ Joined(b)' /\ NoneAsks(b)' /\ Bwd(b, j)'
  <2>1. /\ hops[b] < N(b) /\ NoneConnects(b) /\ Joined(b)
        /\ Bares(down, b, {}) /\ Fwd(b, hops[b] + 1) /\ Bwd(b, hops[b] + 1)
    BY <1>5 DEF Answered
  <2>2. Bares(down', b, {}) /\ Fwd(b, hops[b] + 1)'
    BY <1>3, <2>1 DEF Bares, Fwd
  <2>3. Joined(b)'
    <3>1. ASSUME NEW m \in Hop, m[1] = b, m[2] = hops[b] + 1
          PROVE  m # l /\ Registered(m)
      BY <1>2, <1>4, <2>1, <3>1 DEF Joined
    <3>2. \A m \in Hop : m # l /\ Registered(m) => Registered(m)'
      BY <1>3, <1>10 DEF Registered, Handler, RelayOf, IdOf
    <3>3. QED
      BY <1>3, <3>1, <3>2 DEF Joined
  <2>4. NoneAsks(b)'
    <3>1. ASSUME NEW m \in Hop, m[1] = b, m # l PROVE loop[m] \notin Asking
      <4>1. loop[m] \in Asking => m[2] = hops[b]
        BY <1>2, <3>1 DEF BuildInv, Local
      <4>2. m[2] = l[2] => m = l
        BY <3>1, Paths
      <4>3. QED
        BY <1>4, <3>1, <4>1, <4>2
    <3>2. QED
      BY <1>10, <3>1 DEF NoneAsks, Asking
  <2>5. Bwd(b, j)'
    <3>1. ASSUME NEW m \in Hop, m[1] = b, m[2] <= hops[b]
          PROVE  bpos'[m] = IF m[2] < j THEN hops[b] - m[2]
                                        ELSE hops[b] - m[2] + 1
      <4>1. m[2] \in Nat /\ (m = l <=> m[2] = j)
        BY <1>1, <3>1, Paths
      <4>2. bpos[m] = hops[b] - m[2]
        BY <1>2, <2>1, <3>1, <4>1 DEF Bwd
      <4>3. QED
        BY <1>1, <1>2, <1>4, <1>7, <3>1, <4>1, <4>2
    <3>2. QED
      BY <1>3, <3>1 DEF Bwd
  <2>6. QED
    BY <1>3, <2>1, <2>2, <2>3, <2>4, <2>5 DEF N
<1>16. Bares(rest, b, {})
  <2>1. Bares(up, b, {hops[b] + 1})
    BY <1>5 DEF Answered
  <2>2. ASSUME NEW m \in Hop, m[1] = b, m # a PROVE m[2] # hops[b] + 1
    BY <1>4, <2>2, Paths
  <2>3. Len(<<>>) = 0 /\ 1 .. 0 = {}
    OBVIOUS
  <2>4. QED
    BY <1>8, <2>1, <2>2, <2>3 DEF Bares, Bare
<1>17. Stage(b)'
  <2>1. CASE UpOpen(l)
    <3>1. j \in 1 .. hops[b]
      BY <1>1, <1>2, <1>4
    <3>2. Bares(up', b, {j})
      BY <1>9, <1>16 DEF Bares
    <3>3. Holds(up'[l], EXTENDED(b, j)')
      <4>1. EXTENDED(b, j)' = EXTENDED(b, j)
        BY <1>15 DEF EXTENDED, Goal, Peel, Cell
      <4>2. rest[l] \in Seq(Word) /\ Bare(rest[l]) /\ w.cmd # "DESTROY"
        BY <1>6, <1>8, <1>16 DEF Bares, EXTENDED, Cell
      <4>3. Holds(Append(rest[l], w), w)
        BY <1>6, <4>2, Written
      <4>4. QED
        BY <1>6, <1>9, <2>1, <4>1, <4>3
    <3>4. Returning(b)'
      BY <1>1, <1>15, <3>1, <3>2, <3>3 DEF Returning
    <3>5. QED
      BY <3>4 DEF Stage
  <2>2. CASE ~UpOpen(l)
    <3>1. Bares(up', b, {})
      BY <1>9, <1>16, <2>2 DEF Bares
    <3>2. NoneConnects(b)'
      BY <1>15 DEF NoneConnects, NoneAsks, Asking
    <3>3. QED
      BY <1>15, <3>1, <3>2 DEF Stage, Quiet
  <2>3. QED
    BY <2>1, <2>2
<1>18. BuildInv(b)'
  BY <1>13, <1>14, <1>17 DEF BuildInv
<1>19. QED
  BY <1>1, <1>11, <1>12, <1>18, Glue

\* The reader gets an EXTENDED.
LEMMA BackwardExtended ==
    ASSUME Inv, NEW l \in Hop, Backward(l), Head(up[After(l)]).cmd # "DESTROY"
    PROVE  Inv'
<1> DEFINE b == l[1]
           j == l[2]
           a == After(l)
           w == Crypt(Head(up[a]), l, bpos)
           rest == Taken(up, a)
<1>1. b \in Build /\ l = <<b, j>> /\ j \in Nat /\ j \in 1 .. N(b)
  BY Paths
<1>2. /\ TypeInv /\ BuildInv(b) /\ N(b) \in Nat
      /\ hops[b] \in Nat /\ hops[b] <= N(b)
  BY <1>1, BuildsAre
<1>3. reader[l] = "run" /\ up[a] # <<>>
  BY DEF Backward, Readable
<1>4. /\ next[l] /\ Handler(l) = l /\ j <= hops[b]
      /\ a \in Hop /\ a # l /\ a[1] = b /\ a[2] = j + 1 /\ a = <<b, j + 1>>
  BY <1>3, ReaderRuns DEF After
<1>5. /\ Returning(b) /\ cpc[b] # "idle" /\ j + 1 \in 1 .. hops[b]
      /\ Bares(up, b, {j + 1}) /\ Bwd(b, j + 1)
      /\ Head(up[a]) = EXTENDED(b, j + 1) /\ Bare(Tail(up[a]))
  <2>1. /\ cpc[b] # "idle" /\ Bare(Tail(up[a]))
        /\ \/ Answered(b) /\ a = Goal(b)
           \/ /\ Returning(b) /\ a[2] \in 1 .. hops[b]
              /\ Bares(up, b, {a[2]}) /\ Bwd(b, a[2])
              /\ Head(up[a]) = EXTENDED(b, a[2])
    BY <1>1, <1>3, <1>4, UpHead
  <2>2. ASSUME Answered(b), a = Goal(b) PROVE FALSE
    <3>1. j + 1 = hops[b] + 1
      BY <1>4, <2>2 DEF Goal
    <3>2. j = hops[b]
      BY <1>1, <1>2, <3>1
    <3>3. QED
      BY <1>1, <1>4, <2>2, <3>2 DEF Answered, NotExtended
  <2>3. QED
    BY <1>4, <2>1, <2>2
<1>6. /\ Head(up[a]) \in Word /\ rest \in [Hop -> Seq(Word)]
      /\ \A m \in Hop : rest[m] = IF m = a THEN Tail(up[a]) ELSE up[m]
  <2>1. up \in [Hop -> Seq(Word)]
    BY <1>2 DEF TypeInv
  <2>2. QED
    BY <1>3, <1>4, <2>1, TakenAt
<1>7. w \in Word /\ w = EXTENDED(b, j)
  <2>1. bpos[l] = hops[b] - j /\ bpos \in [Hop -> Nat]
    <3>1. Bwd(b, j + 1) /\ j < j + 1 /\ j <= hops[b]
      BY <1>1, <1>4, <1>5
    <3>2. QED
      BY <1>2, <3>1 DEF Bwd, TypeInv
  <2>2. /\ w \in Word /\ w.cmd = "EXTENDED" /\ w.hop = Goal(b)
        /\ w.layers = Xor(Peel(b, j + 1), {<<l, hops[b] - j>>})
    <3>1. /\ EXTENDED(b, j + 1).cmd = "EXTENDED"
          /\ EXTENDED(b, j + 1).hop = Goal(b)
          /\ EXTENDED(b, j + 1).layers = Peel(b, j + 1)
      BY DEF EXTENDED, Cell
    <3> DEFINE e == EXTENDED(b, j + 1)
    <3>2. w = Crypt(e, l, bpos) /\ e \in Word
      BY <1>5, <1>6
    <3>3. e.cmd = "EXTENDED" /\ e.hop = Goal(b) /\ e.layers = Peel(b, j + 1)
      BY <3>1
    <3> HIDE DEF e, w
    <3>4. /\ Crypt(e, l, bpos) \in Word
          /\ Crypt(e, l, bpos).cmd = e.cmd /\ Crypt(e, l, bpos).hop = e.hop
          /\ Crypt(e, l, bpos).layers = Xor(e.layers, {<<l, bpos[l]>>})
      BY <2>1, <3>2, CellsAre
    <3>5. QED
      BY <2>1, <3>2, <3>3, <3>4
  <2>3. w.layers = Peel(b, j)
    <3>1. j \in 1 .. hops[b]
      BY <1>1, <1>2, <1>4
    <3>2. Xor(Peel(b, j + 1), {<<<<b, j>>, hops[b] - j>>}) = Peel(b, j)
      <4> HIDE DEF b, j
      <4>1. QED
        BY <1>2, <3>1, PeelXor
    <3>3. QED
      BY <1>1, <2>2, <3>2
  <2>4. QED
    <3> HIDE DEF w
    <3>1. QED
      BY <2>2, <2>3 DEF Word, EXTENDED, Cell
<1>8. /\ UNCHANGED <<cpc, hops, cf, cb, down, loop, next, fpos, circuits>>
      /\ bpos' = Bump(bpos, {l})
      /\ \/ up' = PutUp(rest, l, w) /\ reader' = reader
         \/ /\ ~UpOpen(l) /\ up' = PutUp(rest, l, DESTROY)
            /\ reader' = [reader EXCEPT ![l] = "ended"]
  BY <1>4 DEF Backward, EndReader, client
<1> HIDE DEF w
<1>9. /\ bpos' \in [Hop -> Nat]
      /\ \A m \in Hop : bpos'[m] = IF m = l THEN bpos[m] + 1 ELSE bpos[m]
  <2>1. bpos \in [Hop -> Nat]
    BY <1>2 DEF TypeInv
  <2>2. /\ Bump(bpos, {l}) \in [Hop -> Nat]
        /\ \A m \in Hop :
              Bump(bpos, {l})[m] = IF m \in {l} THEN bpos[m] + 1 ELSE bpos[m]
    BY <2>1, BumpAt
  <2>3. QED
    BY <1>8, <2>2
<1> HIDE DEF rest
<1>10. /\ up' \in [Hop -> Seq(Word)]
       /\ \A m \in Hop : up'[m] = IF m = l /\ UpOpen(l)
                                  THEN Append(rest[l], w) ELSE rest[m]
  <2>1. CASE up' = PutUp(rest, l, w)
    BY <1>6, <1>7, <2>1, PutUpAt
  <2>2. CASE ~UpOpen(l) /\ up' = PutUp(rest, l, DESTROY)
    <3>1. DESTROY \in Word
      BY CellsAre
    <3>2. QED
      BY <1>6, <2>2, <3>1, PutUpAt
  <2>3. QED
    BY <1>8, <2>1, <2>2
<1>11. /\ reader' \in [Hop -> {"none", "run", "ended"}]
       /\ \A m \in Hop : reader'[m] = reader[m] \/ (m = l /\ reader'[m] = "ended")
  BY <1>2, <1>8 DEF TypeInv
<1>12. TypeInv'
  BY <1>2, <1>8, <1>9, <1>10, <1>11 DEF TypeInv
<1>13. Others(b)
  <2>1. \A m \in Hop : m[1] # b => m # l /\ m # a
    BY <1>4
  <2>2. ASSUME NEW m \in Hop, m[1] # b
        PROVE  /\ up'[m] = up[m] /\ bpos'[m] = bpos[m]
               /\ reader'[m] = reader[m]
    BY <1>6, <1>9, <1>10, <1>11, <2>1, <2>2
  <2>3. QED
    BY <1>8, <2>2 DEF Others, Same, Handler
<1>14. ASSUME NEW m \in Hop, m[1] = b PROVE Local(m)'
  <2>1. Local(m) /\ hops'[m[1]] = hops[m[1]] /\ m[2] \in Nat
    BY <1>2, <1>8, <1>14, Paths DEF BuildInv
  <2>2. Registered(m) => Registered(m)'
    BY <1>8 DEF Registered, Handler, RelayOf, IdOf
  <2>3. m[2] > hops[m[1]] => m # l /\ m # a
    BY <1>1, <1>2, <1>4, <1>5, <1>14, <2>1
  <2>4. m[2] > hops[m[1]] => up'[m] = up[m] /\ bpos'[m] = bpos[m]
    BY <1>6, <1>9, <1>10, <2>3
  <2>5. reader'[m] = "run" => reader[m] = "run"
    BY <1>11
  <2>6. KeptAt(m)
    BY <1>8, <2>2, <2>4, <2>5 DEF KeptAt, Handler
  <2>7. QED
    BY <2>1, <2>6, LocalKept
<1>15. hops[b] < N(b) /\ Counts(b)'
  BY <1>2, <1>5, <1>8 DEF BuildInv, Counts, N, Returning
<1>16. /\ hops'[b] = hops[b] /\ N(b)' = N(b) /\ Bares(down', b, {})
       /\ Fwd(b, hops[b] + 1)' /\ Joined(b)' /\ NoneAsks(b)' /\ Bwd(b, j)'
  <2>1. /\ NoneAsks(b) /\ Joined(b)
        /\ Bares(down, b, {}) /\ Fwd(b, hops[b] + 1)
    BY <1>5 DEF Returning
  <2>2. Bares(down', b, {}) /\ Fwd(b, hops[b] + 1)' /\ NoneAsks(b)'
    BY <1>8, <2>1 DEF Bares, Fwd, NoneAsks
  <2>3. Joined(b)'
    BY <1>8, <2>1 DEF Joined, Registered, Handler, RelayOf, IdOf
  <2>4. Bwd(b, j)'
    <3>1. ASSUME NEW m \in Hop, m[1] = b, m[2] <= hops[b]
          PROVE  bpos'[m] = IF m[2] < j THEN hops[b] - m[2]
                                        ELSE hops[b] - m[2] + 1
      <4>1. m[2] \in Nat /\ (m = l <=> m[2] = j)
        BY <1>1, <3>1, Paths
      <4>2. bpos[m] = IF m[2] < j + 1 THEN hops[b] - m[2]
                                      ELSE hops[b] - m[2] + 1
        BY <1>5, <3>1 DEF Bwd
      <4>3. QED
        BY <1>1, <1>2, <1>9, <4>1, <4>2
    <3>2. QED
      BY <1>8, <3>1 DEF Bwd
  <2>5. QED
    BY <1>8, <2>2, <2>3, <2>4 DEF N
<1>17. Bares(rest, b, {})
  <2>1. ASSUME NEW m \in Hop, m[1] = b, m # a PROVE m[2] # j + 1
    BY <1>4, <2>1, Paths
  <2>2. QED
    BY <1>5, <1>6, <2>1 DEF Bares
<1>18. Stage(b)'
  <2>1. CASE UpOpen(l)
    <3>1. j \in 1 .. hops[b]
      BY <1>1, <1>2, <1>4
    <3>2. Bares(up', b, {j})
      BY <1>10, <1>17 DEF Bares
    <3>3. Holds(up'[l], EXTENDED(b, j)')
      <4>1. EXTENDED(b, j)' = EXTENDED(b, j)
        BY <1>16 DEF EXTENDED, Goal, Peel, Cell
      <4>2. rest[l] \in Seq(Word) /\ Bare(rest[l]) /\ w.cmd # "DESTROY"
        BY <1>6, <1>7, <1>17 DEF Bares, EXTENDED, Cell
      <4>3. Holds(Append(rest[l], w), w)
        BY <1>7, <4>2, Written
      <4>4. QED
        BY <1>7, <1>10, <2>1, <4>1, <4>3
    <3>4. Returning(b)'
      BY <1>1, <1>15, <1>16, <3>1, <3>2, <3>3 DEF Returning
    <3>5. QED
      BY <3>4 DEF Stage
  <2>2. CASE ~UpOpen(l)
    <3>1. Bares(up', b, {})
      BY <1>10, <1>17, <2>2 DEF Bares
    <3>2. NoneConnects(b)'
      BY <1>16 DEF NoneConnects, NoneAsks, Asking
    <3>3. QED
      BY <1>16, <3>1, <3>2 DEF Stage, Quiet
  <2>3. QED
    BY <2>1, <2>2
<1>19. BuildInv(b)'
  BY <1>14, <1>15, <1>18 DEF BuildInv
<1>20. QED
  BY <1>1, <1>12, <1>13, <1>19, Glue

\* A client sends its first CREATE, or cannot connect.
LEMMA StartStep ==
    ASSUME Inv, NEW b \in Build, Start(b) PROVE Inv'
<1> DEFINE f == First(b)
<1>1. /\ cpc[b] = "idle"
      /\ UNCHANGED <<hops, cf, cb, up, reader, next, fpos, bpos, circuits>>
      /\ \/ /\ cpc' = [cpc EXCEPT ![b] = "waiting"]
            /\ loop' = [loop EXCEPT ![f] = "read"]
            /\ down' = [down EXCEPT ![f] = <<CREATE(f)>>]
         \/ /\ cpc' = [cpc EXCEPT ![b] = "failed"]
            /\ UNCHANGED <<loop, down>>
  BY DEF Start, Client, handler
<1>2. CASE cpc' = [cpc EXCEPT ![b] = "failed"] /\ UNCHANGED <<loop, down>>
  BY <1>1, <1>2, ClientEnds DEF handler
<1>3. CASE /\ cpc' = [cpc EXCEPT ![b] = "waiting"]
           /\ loop' = [loop EXCEPT ![f] = "read"]
           /\ down' = [down EXCEPT ![f] = <<CREATE(f)>>]
  <2>1. /\ TypeInv /\ BuildInv(b) /\ N(b) \in Nat /\ N(b) >= 3
        /\ hops[b] = 0 /\ Quiet(b) /\ f \in Hop /\ f = Goal(b)
    <3>1. /\ TypeInv /\ BuildInv(b) /\ N(b) \in Nat /\ N(b) >= 3
          /\ hops[b] = 0 /\ Quiet(b)
      BY <1>1, BuildsAre DEF BuildInv, Counts
    <3>2. 1 \in 1 .. N(b)
      BY <3>1
    <3>3. QED
      BY <3>1, <3>2, Paths DEF First, Goal
  <2>2. /\ loop' \in [Hop -> {"none", "read", "add", "connect", "await", "ended"}]
        /\ loop'[f] = "read" /\ \A m \in Hop : m # f => loop'[m] = loop[m]
    BY <1>3, <2>1 DEF TypeInv
  <2>3. /\ cpc' \in [Build -> {"idle", "waiting", "ready", "failed"}]
        /\ cpc'[b] = "waiting" /\ \A d \in Build : d # b => cpc'[d] = cpc[d]
    BY <1>3, <2>1 DEF TypeInv
  <2>4. /\ down' \in [Hop -> Seq(Word)] /\ down'[f] = <<CREATE(f)>>
        /\ \A m \in Hop : m # f => down'[m] = down[m]
    BY <1>3, <2>1, CellsAre DEF TypeInv
  <2>5. TypeInv'
    BY <1>1, <2>1, <2>2, <2>3, <2>4 DEF TypeInv
  <2>6. Others(b)
    <3>1. f[1] = b
      BY DEF First
    <3>2. QED
      BY <1>1, <2>2, <2>3, <2>4, <3>1 DEF Others, Same, Handler
  <2>7. ASSUME NEW m \in Hop, m[1] = b PROVE Local(m)'
    <3>1. Local(m) /\ hops'[m[1]] = hops[m[1]] /\ m[2] > hops[m[1]]
      BY <1>1, <2>1, <2>7, Paths DEF BuildInv
    <3>2. loop'[m] \in Asking => loop'[m] = loop[m]
      BY <2>2 DEF Asking
    <3>3. ~(m[2] <= hops[m[1]])
      BY <2>1, <2>7, Paths
    <3>4. KeptAt(m)
      BY <1>1, <3>2, <3>3 DEF KeptAt, Handler
    <3>5. QED
      BY <3>1, <3>4, LocalKept
  <2>8. Counts(b)'
    BY <1>1, <2>1, <2>3 DEF BuildInv, Counts, N
  <2>9. Creating(b)'
    <3>1. NoneConnects(b) /\ Bares(down, b, {}) /\ Bares(up, b, {})
      BY <2>1 DEF Quiet
    <3>2. \A m \in Hop : m[1] = b => ~(m[2] <= hops[b]) /\ m[2] # 0
      BY <2>1, Paths
    <3>3. /\ NoneConnects(b)' /\ NotExtended(b)' /\ Bares(up', b, {})
          /\ Fwd(b, hops[b] + 1)' /\ Bwd(b, hops[b] + 1)'
      BY <1>1, <2>1, <2>2, <3>1, <3>2
         DEF NoneConnects, NotExtended, Bares, Fwd, Bwd
    <3>4. Bares(down', b, {hops[b] + 1})
      <4>1. f[2] = hops[b] + 1
        BY <2>1 DEF First
      <4>2. QED
        BY <2>4, <3>1, <4>1 DEF Bares
    <3>5. Goal(b)' = f
      BY <1>1, <2>1 DEF Goal
    <3>6. Holds(down'[f], CREATE(f))
      <4> DEFINE c == CREATE(f)
      <4>1. c.cmd # "DESTROY"
        BY DEF CREATE, Cell
      <4> HIDE DEF c
      <4>2. Len(<<c>>) = 1 /\ <<c>>[1] = c /\ 1 .. 1 = {1}
        OBVIOUS
      <4>3. Holds(<<c>>, c)
        BY <4>1, <4>2 DEF Holds
      <4>4. QED
        BY <2>4, <4>3 DEF c
    <3>7. QED
      BY <1>1, <2>1, <3>3, <3>4, <3>5, <3>6 DEF Creating, N
  <2>10. BuildInv(b)'
    BY <2>7, <2>8, <2>9 DEF BuildInv, Stage
  <2>11. QED
    BY <2>1, <2>5, <2>6, <2>10, Glue
<1>4. QED
  BY <1>1, <1>2, <1>3

LEMMA KeyedAre ==
    ASSUME Inv, NEW b \in Build
    PROVE  /\ Keyed(b) \in SUBSET Hop
           /\ \A m \in Hop : m \in Keyed(b) <=> m[1] = b /\ m[2] <= hops[b]
<1>1. /\ hops[b] \in Nat /\ \A i \in 1 .. hops[b] : <<b, i>> \in Hop
  BY BuildsAre
<1>2. Keyed(b) \in SUBSET Hop
  BY <1>1 DEF Keyed
<1>3. ASSUME NEW m \in Hop
      PROVE  m \in Keyed(b) <=> m[1] = b /\ m[2] <= hops[b]
  <2>1. m = <<m[1], m[2]>> /\ m[2] \in 1 .. N(m[1]) /\ m[2] \in Nat /\ m[2] >= 1
    BY Paths
  <2>2. ASSUME m[1] = b, m[2] <= hops[b] PROVE m \in Keyed(b)
    <3>1. m[2] \in 1 .. hops[b]
      BY <1>1, <2>1, <2>2
    <3>2. QED
      BY <2>1, <2>2, <3>1 DEF Keyed
  <2>3. ASSUME m \in Keyed(b) PROVE m[1] = b /\ m[2] <= hops[b]
    <3>1. PICK i \in 1 .. hops[b] : m = <<b, i>>
      BY <2>3 DEF Keyed
    <3>2. QED
      BY <1>1, <3>1
  <2>4. QED
    BY <2>2, <2>3
<1>4. QED
  BY <1>2, <1>3

\* What the client reads on its connection, if it is not DESTROY, is the answer
\* to the handshake that it is in, and it accepts it.
LEMMA AnswerAccepted ==
    ASSUME Inv, NEW b \in Build, up[First(b)] # <<>>,
           Head(up[First(b)]).cmd # "DESTROY"
    PROVE  /\ Verifies(b, Head(up[First(b)])) /\ cpc[b] # "idle"
           /\ hops[b] < N(b) /\ Bare(Tail(up[First(b)]))
           /\ NoneAsks(b) /\ Joined(b)
           /\ Bares(down, b, {}) /\ Bares(up, b, {1})
           /\ Fwd(b, hops[b] + 1) /\ Bwd(b, 1)
<1> DEFINE f == First(b)
           w == Head(up[f])
<1>1. /\ TypeInv /\ BuildInv(b) /\ N(b) \in Nat /\ N(b) >= 3
      /\ hops[b] \in Nat /\ hops[b] <= N(b)
  BY BuildsAre
<1>2. f \in Hop /\ f[1] = b /\ f[2] = 1
  <2>1. 1 \in 1 .. N(b)
    BY <1>1
  <2>2. QED
    BY <2>1, Paths DEF First
<1>3. /\ cpc[b] # "idle" /\ Bare(Tail(up[f]))
      /\ \/ Answered(b) /\ f = Goal(b) /\ w = CREATED(b)
         \/ /\ Returning(b) /\ 1 \in 1 .. hops[b]
            /\ Bares(up, b, {1}) /\ Bwd(b, 1) /\ w = EXTENDED(b, 1)
  BY <1>2, UpHead
<1>4. Xor(Peel(b, 1), Layers(Keyed(b), cb)) = {}
  <2>1. ASSUME NEW i \in 1 .. hops[b]
        PROVE  <<b, i>> \in Hop /\ cb[<<b, i>>] = hops[b] - i
    <3>1. <<b, i>> \in Hop /\ i <= hops[b]
      BY <1>1, BuildsAre
    <3>2. Local(<<b, i>>)
      BY <1>1, <3>1 DEF BuildInv
    <3>3. QED
      BY <3>1, <3>2 DEF Local
  <2>2. Layers(Keyed(b), cb) = {<<l, cb[l]>> : l \in Keyed(b)}
    BY DEF Layers
  <2>3. ASSUME NEW x \in Peel(b, 1) PROVE x \in Layers(Keyed(b), cb)
    <3>1. PICK i \in 1 .. hops[b] : x = <<<<b, i>>, hops[b] - i>>
      BY DEF Peel
    <3>2. <<b, i>> \in Keyed(b)
      BY DEF Keyed
    <3>3. QED
      BY <2>1, <2>2, <3>1, <3>2
  <2>4. ASSUME NEW x \in Layers(Keyed(b), cb) PROVE x \in Peel(b, 1)
    <3>1. PICK l \in Keyed(b) : x = <<l, cb[l]>>
      BY <2>2
    <3>2. PICK i \in 1 .. hops[b] : l = <<b, i>>
      BY DEF Keyed
    <3>3. QED
      BY <2>1, <3>1, <3>2 DEF Peel
  <2>5. QED
    BY <2>3, <2>4 DEF Xor
<1>5. CASE Answered(b) /\ f = Goal(b) /\ w = CREATED(b)
  <2>1. hops[b] = 0
    BY <1>1, <1>2, <1>5 DEF Goal
  <2>2. Peel(b, 1) = {}
    BY <2>1 DEF Peel
  <2>3. w.cmd = "CREATED" /\ w.hop = <<b, hops[b] + 1>> /\ w.layers = {}
    BY <1>5 DEF CREATED, Cell, Goal
  <2>4. Verifies(b, w)
    BY <1>4, <2>1, <2>2, <2>3 DEF Verifies
  <2>5. \A m \in Hop : m[1] = b => ~(m[2] <= hops[b]) /\ m[2] # hops[b]
    BY <2>1, Paths
  <2>6. NoneAsks(b) /\ Bwd(b, 1)
    BY <1>1, <2>5 DEF NoneAsks, Bwd, BuildInv, Local
  <2>7. QED
    BY <1>3, <1>5, <2>1, <2>4, <2>6 DEF Answered
<1>6. CASE /\ Returning(b) /\ 1 \in 1 .. hops[b]
           /\ Bares(up, b, {1}) /\ Bwd(b, 1) /\ w = EXTENDED(b, 1)
  <2>1. hops[b] # 0
    BY <1>6
  <2>2. w.cmd = "EXTENDED" /\ w.hop = <<b, hops[b] + 1>> /\ w.layers = Peel(b, 1)
    BY <1>6 DEF EXTENDED, Cell, Goal
  <2>3. Verifies(b, w)
    BY <1>4, <2>1, <2>2 DEF Verifies
  <2>4. QED
    BY <1>3, <1>6, <2>3 DEF Returning
<1>7. QED
  BY <1>3, <1>5, <1>6

LEMMA ClientKeyStep ==
    ASSUME Inv, NEW b \in Build, ClientKey(b) PROVE Inv'
<1> DEFINE f == First(b)
           w == Head(up[f])
           k == hops[b] + 1
           keyed == Keyed(b) \cup {<<b, k>>}
           v == Cell("EXTEND", <<b, k + 1>>, Layers(keyed, cf))
<1>1. /\ TypeInv /\ BuildInv(b) /\ N(b) \in Nat /\ N(b) >= 3
      /\ hops[b] \in Nat /\ hops[b] <= N(b)
  BY BuildsAre
<1>2. f \in Hop /\ f[1] = b /\ f[2] = 1
  <2>1. 1 \in 1 .. N(b)
    BY <1>1
  <2>2. QED
    BY <2>1, Paths DEF First
<1>3. /\ cpc[b] = "waiting" /\ up[f] # <<>> /\ up' = Taken(up, f)
      /\ UNCHANGED <<loop, reader, next, fpos, bpos, circuits>>
      /\ ~Verifies(b, w) => /\ cpc' = [cpc EXCEPT ![b] = "failed"]
                            /\ UNCHANGED <<hops, cf, cb, down>>
      /\ Verifies(b, w) =>
            /\ hops' = [hops EXCEPT ![b] = k] /\ cb' = Peeled(b)
            /\ k = N(b) => /\ cpc' = [cpc EXCEPT ![b] = "ready"]
                           /\ UNCHANGED <<cf, down>>
            /\ k # N(b) => /\ cf' = Bump(cf, keyed) /\ cpc' = cpc
                           /\ down' = PutDown(down, f, v)
  BY DEF ClientKey, Readable, Client, relays, handler, N
<1>4. /\ up' \in [Hop -> Seq(Word)]
      /\ \A m \in Hop : up'[m] = IF m = f THEN Tail(up[f]) ELSE up[m]
  <2>1. up \in [Hop -> Seq(Word)]
    BY <1>1 DEF TypeInv
  <2>2. QED
    BY <1>2, <1>3, <2>1, TakenAt
<1>5. CASE w.cmd = "DESTROY"
  <2>1. ~Verifies(b, w)
    BY <1>5 DEF Verifies
  <2>2. /\ cpc' \in [Build -> {"idle", "waiting", "ready", "failed"}]
        /\ cpc'[b] = "failed" /\ \A d \in Build : d # b => cpc'[d] = cpc[d]
    BY <1>1, <1>3, <2>1 DEF TypeInv
  <2>3. reader' \in [Hop -> {"none", "run", "ended"}]
    BY <1>1, <1>3 DEF TypeInv
  <2>4. \A m \in Hop :
           \/ up'[m] = up[m]
           \/ /\ m[1] = b /\ up[m] # <<>> /\ Head(up[m]).cmd = "DESTROY"
              /\ up'[m] = Tail(up[m])
    BY <1>2, <1>3, <1>4, <1>5
  <2>5. QED
    BY <1>3, <1>4, <2>1, <2>2, <2>3, <2>4, OnlyDestroy
<1>6. CASE w.cmd # "DESTROY"
  <2>1. /\ Verifies(b, w) /\ hops[b] < N(b) /\ Bare(Tail(up[f]))
        /\ NoneAsks(b) /\ Joined(b)
        /\ Bares(down, b, {}) /\ Bares(up, b, {1})
        /\ Fwd(b, hops[b] + 1) /\ Bwd(b, 1)
    BY <1>3, <1>6, AnswerAccepted
  <2>2. k \in Nat /\ k \in 1 .. N(b) /\ <<b, k>> \in Hop
    <3>1. k \in 1 .. N(b)
      BY <1>1, <2>1
    <3>2. QED
      BY <1>1, <3>1, Paths
  <2>3. ASSUME NEW m \in Hop
        PROVE  /\ m \in Keyed(b) <=> m[1] = b /\ m[2] <= hops[b]
               /\ m \in keyed <=> m[1] = b /\ m[2] <= k
               /\ m[2] \in Nat /\ m[2] >= 1
    <3>1. m \in Keyed(b) <=> m[1] = b /\ m[2] <= hops[b]
      BY KeyedAre
    <3>2. m[2] \in Nat /\ m[2] >= 1 /\ m = <<m[1], m[2]>>
      BY Paths
    <3>3. m[2] <= k <=> m[2] <= hops[b] \/ m[2] = k
      BY <1>1, <3>2
    <3>4. m = <<b, k>> <=> m[1] = b /\ m[2] = k
      BY <3>2
    <3> HIDE DEF k
    <3>5. QED
      BY <3>1, <3>2, <3>3, <3>4
  <2>4. /\ hops' \in [Build -> Nat] /\ hops'[b] = k
        /\ \A d \in Build : d # b => hops'[d] = hops[d]
    BY <1>1, <1>3, <2>1, <2>2 DEF TypeInv
  <2>5. /\ cpc' \in [Build -> {"idle", "waiting", "ready", "failed"}]
        /\ cpc'[b] = IF k = N(b) THEN "ready" ELSE "waiting"
        /\ \A d \in Build : d # b => cpc'[d] = cpc[d]
    BY <1>1, <1>3, <2>1 DEF TypeInv
  <2>6. /\ cb' \in [Hop -> Nat]
        /\ \A m \in Hop : cb'[m] = IF m[1] = b /\ m[2] <= hops[b]
                                   THEN cb[m] + 1 ELSE cb[m]
    <3>1. cb \in [Hop -> Nat]
      BY <1>1 DEF TypeInv
    <3>2. CASE hops[b] = 0
      <4>1. cb' = cb
        BY <1>3, <2>1, <3>2 DEF Peeled
      <4>2. \A m \in Hop : ~(m[2] <= hops[b])
        BY <2>3, <3>2
      <4>3. QED
        BY <3>1, <4>1, <4>2
    <3>3. CASE hops[b] # 0
      <4>1. cb' = Bump(cb, Keyed(b))
        BY <1>3, <2>1, <3>3 DEF Peeled
      <4>2. /\ Bump(cb, Keyed(b)) \in [Hop -> Nat]
            /\ \A m \in Hop : Bump(cb, Keyed(b))[m] =
                  IF m \in Keyed(b) THEN cb[m] + 1 ELSE cb[m]
        BY <3>1, BumpAt
      <4>3. QED
        BY <2>3, <4>1, <4>2
    <3>4. QED
      BY <3>2, <3>3
  <2>7. /\ cf' \in [Hop -> Nat]
        /\ \A m \in Hop : cf'[m] = IF k # N(b) /\ m[1] = b /\ m[2] <= k
                                   THEN cf[m] + 1 ELSE cf[m]
    <3>1. cf \in [Hop -> Nat]
      BY <1>1 DEF TypeInv
    <3>2. CASE k = N(b)
      BY <1>3, <2>1, <3>1, <3>2
    <3>3. CASE k # N(b)
      <4>1. cf' = Bump(cf, keyed)
        BY <1>3, <2>1, <3>3
      <4>2. /\ Bump(cf, keyed) \in [Hop -> Nat]
            /\ \A m \in Hop : Bump(cf, keyed)[m] =
                  IF m \in keyed THEN cf[m] + 1 ELSE cf[m]
        <5> HIDE DEF keyed
        <5>1. QED
          BY <3>1, BumpAt
      <4>3. QED
        BY <2>3, <3>3, <4>1, <4>2
    <3>4. QED
      BY <3>2, <3>3
  <2>8. ASSUME NEW m \in Hop, m[1] = b
        PROVE  /\ Local(m)
               /\ m[2] <= hops[b] => cf[m] = hops[b] - m[2] + 1
               /\ m[2] > hops[b] => cf[m] = 0 /\ fpos[m] = 0 /\ bpos[m] = 0
               /\ m[2] <= hops[b] =>
                     /\ fpos[m] = hops[b] - m[2] + 1
                     /\ bpos[m] = hops[b] - m[2] + 1
    <3>1. Local(m) /\ hops[b] # N(b)
      BY <1>1, <2>1, <2>8 DEF BuildInv
    <3>2. m[2] <= hops[b] => ~(m[2] > hops[b]) /\ m[2] < hops[b] + 1 /\ ~(m[2] < 1)
      BY <1>1, <2>3
    <3>3. /\ m[2] <= hops[b] => cf[m] = hops[b] - m[2] + 1
          /\ m[2] > hops[b] => cf[m] = 0 /\ fpos[m] = 0 /\ bpos[m] = 0
      BY <2>8, <3>1, <3>2 DEF Local
    <3>4. m[2] <= hops[b] => /\ fpos[m] = hops[b] - m[2] + 1
                             /\ bpos[m] = hops[b] - m[2] + 1
      BY <2>1, <2>8, <3>2 DEF Fwd, Bwd
    <3>5. QED
      BY <3>1, <3>3, <3>4
  <2>9. k # N(b) => k < N(b) /\ <<b, k + 1>> \in Hop
    <3>1. k # N(b) => k + 1 \in 1 .. N(b) /\ k < N(b)
      BY <1>1, <2>2
    <3>2. QED
      BY <3>1, Paths
  <2>10. k # N(b) => v \in Word
    <3>1. Layers(keyed, cf) \in SUBSET (Hop \X Nat)
      <4>1. keyed \in SUBSET Hop
        BY <2>2, KeyedAre
      <4>2. cf \in [Hop -> Nat]
        BY <1>1 DEF TypeInv
      <4> HIDE DEF keyed
      <4>3. QED
        BY <4>1, <4>2 DEF Layers
    <3>2. QED
      BY <2>9, <3>1 DEF Cell, Word
  <2>11. /\ down' \in [Hop -> Seq(Word)]
         /\ \A m \in Hop : down'[m] = IF k # N(b) /\ m = f /\ DownOpen(f)
                                      THEN Append(down[f], v) ELSE down[m]
    <3>1. down \in [Hop -> Seq(Word)]
      BY <1>1 DEF TypeInv
    <3>2. CASE k = N(b)
      BY <1>3, <2>1, <3>1, <3>2
    <3>3. CASE k # N(b)
      <4>1. down' = PutDown(down, f, v) /\ v \in Word
        BY <1>3, <2>1, <2>10, <3>3
      <4> HIDE DEF v
      <4>2. /\ PutDown(down, f, v) \in [Hop -> Seq(Word)]
            /\ \A m \in Hop : PutDown(down, f, v)[m] =
                  IF m = f /\ DownOpen(f) THEN Append(down[f], v) ELSE down[m]
        BY <1>2, <3>1, <4>1, PutDownAt
      <4>3. QED
        BY <3>3, <4>1, <4>2
    <3>4. QED
      BY <3>2, <3>3
  <2> HIDE DEF v, keyed
  <2>12. TypeInv'
    BY <1>1, <1>3, <1>4, <2>4, <2>5, <2>6, <2>7, <2>11 DEF TypeInv
  <2>13. Others(b)
    <3>1. \A m \in Hop : m[1] # b => m # f
      BY <1>2
    <3>2. ASSUME NEW m \in Hop, m[1] # b
          PROVE  /\ up'[m] = up[m] /\ down'[m] = down[m]
                 /\ cf'[m] = cf[m] /\ cb'[m] = cb[m]
      BY <1>4, <2>6, <2>7, <2>11, <3>1, <3>2
    <3>3. QED
      BY <1>3, <2>4, <2>5, <3>2 DEF Others, Same, Handler
  <2>14. ASSUME NEW m \in Hop, m[1] = b PROVE Local(m)'
    <3>1. /\ Local(m) /\ loop[m] \notin Asking
          /\ (Registered(m) <=> Registered(m)') /\ (Handler(m)' = Handler(m))
      BY <1>3, <2>1, <2>8, <2>14
         DEF NoneAsks, Registered, Handler, RelayOf, IdOf
    <3>2. /\ next[m] => m[2] <= k
          /\ m[2] > k => m[2] > hops[b] /\ m # f
          /\ m[2] <= k => m[2] <= hops[b] \/ m[2] = hops[b] + 1
          /\ m[2] <= hops[b] => m[2] <= k
      <4>1. next[m] => m[2] <= hops[b]
        BY <2>14, <3>1 DEF Local
      <4>2. QED
        BY <1>1, <1>2, <2>3, <4>1
    <3>3. m[2] > k => fpos[m] = 0 /\ bpos[m] = 0 /\ NoDestroy(up'[m])
      BY <1>4, <2>14, <3>1, <3>2 DEF Local
    <3>4. m[2] <= k => Registered(m)'
      BY <2>1, <2>14, <3>1, <3>2 DEF Local, Joined
    <3>5. cb'[m] = IF m[2] <= k THEN k - m[2] ELSE 0
      <4>1. cb[m] = IF m[2] <= hops[b] THEN hops[b] - m[2] ELSE 0
        BY <2>14, <3>1 DEF Local
      <4>2. cb'[m] = IF m[2] <= hops[b] THEN cb[m] + 1 ELSE cb[m]
        BY <2>6, <2>14
      <4>3. QED
        BY <1>1, <2>3, <3>2, <4>1, <4>2
    <3>6. cf'[m] = IF m[2] > k THEN 0
                   ELSE IF k = N(b) THEN k - m[2] ELSE k - m[2] + 1
      <4>1. /\ m[2] <= hops[b] => cf[m] = hops[b] - m[2] + 1
            /\ m[2] > hops[b] => cf[m] = 0
        BY <2>8, <2>14
      <4>2. cf'[m] = IF k # N(b) /\ m[2] <= k THEN cf[m] + 1 ELSE cf[m]
        BY <2>7, <2>14
      <4>3. QED
        BY <1>1, <2>2, <2>3, <3>2, <4>1, <4>2
    <3>7. /\ loop'[m] = loop[m] /\ reader'[m] = reader[m] /\ next'[m] = next[m]
          /\ fpos'[m] = fpos[m] /\ bpos'[m] = bpos[m] /\ hops'[m[1]] = k
          /\ N(m[1])' = N(b) /\ N(m[1]) = N(b)
      BY <1>3, <2>4, <2>14 DEF N
    <3>8. NoDestroy(up[m])' <=> NoDestroy(up'[m])
      BY DEF NoDestroy
    <3> HIDE DEF k
    <3>9. QED
      BY <3>1, <3>2, <3>3, <3>4, <3>5, <3>6, <3>7, <3>8 DEF Local
  <2>15. /\ N(b)' = N(b) /\ NoneAsks(b)' /\ NoneConnects(b)' /\ Bares(up', b, {})
    <3>1. \A m \in Hop : m[1] = b /\ m # f => m[2] # 1
      BY <1>2, Paths
    <3>2. Bares(up', b, {})
      BY <1>4, <2>1, <3>1 DEF Bares
    <3>3. QED
      BY <1>3, <2>1, <3>2 DEF N, NoneAsks, NoneConnects, Asking
  <2>16. CASE k = N(b)
    <3>1. Quiet(b)'
      <4>1. Bares(down', b, {})
        BY <2>1, <2>11, <2>16 DEF Bares
      <4>2. QED
        BY <2>15, <4>1 DEF Quiet
    <3>2. ASSUME NEW m \in Hop, m[1] = b
          PROVE  fpos'[m] = N(b) - m[2] /\ bpos'[m] = N(b) - m[2]
      <4>1. m[2] \in 1 .. N(b) /\ m[2] \in Nat
        BY <3>2, Paths
      <4>2. m[2] <= hops[b] \/ (m[2] > hops[b] /\ m[2] = N(b))
        BY <1>1, <2>16, <4>1
      <4>3. QED
        BY <1>1, <1>3, <2>8, <2>16, <3>2, <4>1, <4>2
    <3>3. Counts(b)'
      BY <1>1, <2>2, <2>4, <2>5, <2>15, <2>16, <3>2 DEF Counts
    <3>4. BuildInv(b)'
      BY <2>14, <3>1, <3>3 DEF BuildInv, Stage
    <3>5. QED
      BY <2>12, <2>13, <3>4, Glue
  <2>17. CASE k # N(b)
    <3>1. Counts(b)'
      BY <1>1, <2>2, <2>4, <2>5, <2>9, <2>15, <2>17 DEF Counts
    <3>2. CASE ~DownOpen(f)
      <4>1. Bares(down', b, {})
        BY <2>1, <2>11, <3>2 DEF Bares
      <4>2. BuildInv(b)'
        BY <2>14, <2>15, <3>1, <4>1 DEF BuildInv, Stage, Quiet
      <4>3. QED
        BY <2>12, <2>13, <4>2, Glue
    <3>3. CASE DownOpen(f)
      <4>1. NotExtended(b)'
        <5>1. ASSUME NEW m \in Hop, m[1] = b, m[2] = k PROVE ~next[m]
          <6>1. ~(m[2] <= hops[b])
            BY <1>1, <5>1
          <6>2. QED
            BY <2>8, <5>1, <6>1 DEF Local
        <5>2. QED
          BY <1>3, <2>4, <5>1 DEF NotExtended
      <4>2. Bwd(b, hops[b] + 1)' /\ Fwd(b, 1)'
        <5>1. ASSUME NEW m \in Hop, m[1] = b, m[2] <= k
              PROVE  /\ fpos'[m] = k - m[2] /\ bpos'[m] = k - m[2]
                     /\ m[2] < k + 1 /\ ~(m[2] < 1)
          <6>1. m[2] \in Nat /\ m[2] >= 1
            BY <2>3
          <6>2. m[2] <= hops[b] \/ (m[2] > hops[b] /\ m[2] = k)
            BY <1>1, <5>1, <6>1
          <6>3. QED
            BY <1>1, <1>3, <2>8, <5>1, <6>1, <6>2
        <5>2. QED
          BY <2>4, <5>1 DEF Bwd, Fwd
      <4>3. Bares(down', b, {1})
        BY <1>2, <2>1, <2>11 DEF Bares
      <4>4. EXTEND(b, 1)' = v
        <5>1. Peel(b, 1)' = {<<<<b, i>>, k - i>> : i \in 1 .. k}
          BY <2>4 DEF Peel
        <5>2. keyed = {<<b, i>> : i \in 1 .. k}
          <6>1. 1 .. k = (1 .. hops[b]) \cup {k}
            BY <1>1
          <6>2. QED
            BY <6>1 DEF keyed, Keyed
        <5>3. ASSUME NEW i \in 1 .. k PROVE cf[<<b, i>>] = k - i
          <6>1. i \in 1 .. N(b) /\ <<b, i>> \in Hop
            BY <1>1, <2>2, Paths
          <6>2. i <= hops[b] \/ (i > hops[b] /\ i = k)
            BY <1>1
          <6>3. QED
            BY <1>1, <2>8, <6>1, <6>2
        <5>4. Layers(keyed, cf) = {<<<<b, i>>, k - i>> : i \in 1 .. k}
          BY <5>2, <5>3 DEF Layers
        <5>5. Goal(b)' = <<b, k + 1>>
          BY <2>4 DEF Goal
        <5>6. QED
          BY <5>1, <5>4, <5>5 DEF EXTEND, v
      <4>5. Holds(down'[f], v)
        <5>1. down[f] \in Seq(Word) /\ Bare(down[f])
          BY <1>1, <1>2, <2>1 DEF TypeInv, Bares
        <5>2. v.cmd # "DESTROY"
          BY DEF v, Cell
        <5>3. QED
          BY <1>2, <2>10, <2>11, <2>17, <3>3, <5>1, <5>2, Written
      <4>6. Extending(b)'
        <5>1. hops'[b] < N(b)' /\ 1 \in 1 .. hops'[b] /\ f = <<b, 1>>
          BY <1>1, <2>2, <2>4, <2>9, <2>15, <2>17 DEF First
        <5>2. QED
          BY <2>15, <4>1, <4>2, <4>3, <4>4, <4>5, <5>1 DEF Extending
      <4>7. BuildInv(b)'
        BY <2>14, <3>1, <4>6 DEF BuildInv, Stage
      <4>8. QED
        BY <2>12, <2>13, <4>7, Glue
    <3>4. QED
      BY <3>2, <3>3
  <2>18. QED
    BY <2>16, <2>17
<1>7. QED
  BY <1>5, <1>6

-----------------------------------------------------------------------------
(* The theorems.                                                           *)

LEMMA InitInv ==
    ASSUME Init PROVE Inv
<1>1. TypeInv
  <2>1. <<>> \in Seq(Word)
    OBVIOUS
  <2>2. QED
    BY <2>1 DEF Init, TypeInv
<1>2. ASSUME NEW b \in Build PROVE BuildInv(b)
  <2>1. hops[b] = 0 /\ cpc[b] = "idle" /\ N(b) \in Nat /\ N(b) >= 3
    BY Paths DEF Init
  <2>2. Len(<<>>) = 0 /\ 1 .. 0 = {}
    OBVIOUS
  <2>3. ASSUME NEW l \in Hop, l[1] = b PROVE Local(l)
    <3>1. /\ l[2] \in Nat /\ ~(l[2] <= hops[b]) /\ l[2] > hops[b]
          /\ RelayOf(l) \in Relay /\ IdOf(l) \in Id
      BY <2>1, <2>3, Paths, RelaysAre
    <3>2. Handler(l) = None /\ NoDestroy(up[l])
      BY <2>2, <3>1 DEF Init, Handler, NoDestroy
    <3>3. QED
      BY <2>3, <3>1, <3>2 DEF Init, Local, Asking
  <2>4. Quiet(b)
    BY <2>2 DEF Init, Quiet, NoneConnects, Bares, Bare
  <2>5. Counts(b)
    BY <2>1, <2>4 DEF Counts
  <2>6. QED
    BY <2>3, <2>4, <2>5 DEF BuildInv, Stage
<1>3. QED
  BY <1>1, <1>2 DEF Inv

LEMMA StepInv ==
    ASSUME DistinctIds, Inv, [Next]_vars PROVE Inv'
<1>1. ASSUME NEW b \in Build, Start(b) PROVE Inv'
  BY <1>1, StartStep
<1>2. ASSUME NEW b \in Build, ClientKey(b) PROVE Inv'
  BY <1>2, ClientKeyStep
<1>3. ASSUME NEW b \in Build, ClientEof(b) \/ ClientTimeout(b) PROVE Inv'
  BY <1>3, ClientFailsStep DEF ClientEof, ClientTimeout
<1>4. ASSUME NEW l \in Hop, RelayLoop(l) \/ StallEnds(l) PROVE Inv'
  BY <1>4, CreatedStep, AddCircuitStep, ExtendStep, ConnectStep, ExtendDoneStep,
     LoopEndSteps DEF RelayLoop
<1>5. ASSUME NEW l \in Hop, RelayReader(l) PROVE Inv'
  BY <1>5, BackwardDestroy, BackwardExtended, ReaderEofStep DEF RelayReader
<1>6. ASSUME NEW l \in Hop, Break(l) \/ Hang(l) PROVE Inv'
  BY <1>6, Unchanged DEF Break, Hang, relays
<1>7. CASE UNCHANGED vars
  BY <1>7, Unchanged DEF vars, relays
<1>8. QED
  BY <1>1, <1>2, <1>3, <1>4, <1>5, <1>6, <1>7 DEF Next, Progress, ClientStep

LEMMA InvIsEnough ==
    ASSUME Inv PROVE BuiltInStep
<1>1. ASSUME NEW b \in Build, cpc[b] = "ready", NEW l \in Hop, l[1] = b
      PROVE  /\ Registered(l)
             /\ cf[l] = Len(Path[b]) - l[2] /\ fpos[l] = cf[l]
             /\ cb[l] = Len(Path[b]) - l[2] /\ bpos[l] = cb[l]
  <2>1. BuildInv(b) /\ l[2] \in 1 .. N(b) /\ l[2] \in Nat /\ N(b) \in Nat
    BY <1>1, Paths DEF Inv
  <2>2. /\ hops[b] = N(b) /\ Local(l)
        /\ fpos[l] = N(b) - l[2] /\ bpos[l] = N(b) - l[2]
    BY <1>1, <2>1 DEF BuildInv, Counts
  <2>3. l[2] <= hops[l[1]] /\ ~(l[2] > hops[l[1]])
    BY <1>1, <2>1, <2>2
  <2>4. QED
    BY <1>1, <2>2, <2>3 DEF Local, N
<1>2. QED
  BY <1>1 DEF BuiltInStep

LEMMA Invariance ==
    ASSUME DistinctIds PROVE Spec => []Inv
<1>1. Init => Inv
  BY InitInv
<1>2. Inv /\ [Next]_vars => Inv'
  BY StepInv
<1>3. QED
  BY <1>1, <1>2, PTL DEF Spec

\* Whatever fails, and however the builds overlap at the relays: once a client
\* has all its keys (CircuitBuilder::build returns), every relay of the path has
\* the circuit's handler, and the ciphers of both ends stand in step.  Without
\* DistinctIds the handler may be another circuit's (add_circuit replaces it).
THEOREM BuiltInStepHolds ==
    ASSUME DistinctIds PROVE Spec => []BuiltInStep
<1>1. Inv => BuiltInStep
  BY InvIsEnough
<1>2. QED
  BY <1>1, Invariance, PTL

-----------------------------------------------------------------------------
(* No channel holds more cells than the path has hops.                     *)

Single(s) == Bare(s) \/ \E w \in Word : Holds(s, w)

Teardowns(s) == IF Bare(s) THEN Len(s) ELSE Len(s) - 1

\* What the readers have written towards the client, and what the reader of hop
\* l itself may still write of its own: at most once, as it ends.
MayEnd(l) == l[2] < N(l[1]) /\ reader[l] # "ended"
Owed(l) == Teardowns(up[l]) + IF MayEnd(l) THEN 1 ELSE 0

\* T[k] bounds what passes the k-th hop yet.
Debt(b, T) ==
    \A k \in 1 .. N(b) : /\ T[k] <= N(b) - k
                         /\ T[k] >= T[k + 1] + Owed(<<b, k>>)

DebtInv ==
    \A b \in Build : \E T \in [1 .. N(b) + 1 -> Nat] : Debt(b, T)

RestInv ==
    /\ lock \in [Relay -> Hop \cup {None}]
    /\ broken \subseteq Hop /\ hung \subseteq Hop
    /\ faults \in 0 .. MaxFaults
    /\ \A l \in Hop : /\ NoDestroy(down[l])
                      /\ reader[l] # "none" => next[l]
                      /\ loop[l] \in Asking => ~next[l]

LEMMA TeardownsAre ==
    ASSUME NEW s \in Seq(Word), Single(s)
    PROVE  /\ Teardowns(s) \in Nat /\ Len(s) \in Nat /\ Len(s) <= Teardowns(s) + 1
           /\ NoDestroy(s) => Len(s) <= 1
<1>1. Len(s) \in Nat /\ (s # <<>> => Len(s) # 0 /\ Len(Tail(s)) = Len(s) - 1)
  BY TailAt, LenProperties
<1>2. ~Bare(s) => s # <<>>
  BY DEF Bare
<1>3. NoDestroy(s) => s = <<>> \/ Tail(s) = <<>>
  BY OneCell DEF NoDestroy, Single
<1>5. \A r : r = <<>> => Len(r) = 0
  OBVIOUS
<1>6. Teardowns(s) \in Nat /\ Len(s) <= Teardowns(s) + 1
  BY <1>1, <1>2 DEF Teardowns
<1>7. ASSUME NoDestroy(s) PROVE Len(s) <= 1
  <2>1. CASE s = <<>>
    BY <1>5, <2>1
  <2>2. CASE s # <<>> /\ Tail(s) = <<>>
    BY <1>1, <1>5, <2>2
  <2>3. QED
    BY <1>3, <1>7, <2>1, <2>2
<1>8. QED
  BY <1>1, <1>6, <1>7

LEMMA TeardownsTail ==
    ASSUME NEW s \in Seq(Word), s # <<>>, Single(s)
    PROVE  Teardowns(Tail(s)) =
              IF Head(s).cmd = "DESTROY" THEN Teardowns(s) - 1 ELSE Teardowns(s)
<1>1. Len(s) \in Nat /\ Len(Tail(s)) = Len(s) - 1
  BY TailAt
<1>2. \A t, w : Holds(t, w) => ~Bare(t) /\ w.cmd # "DESTROY"
  BY DEF Holds, Bare
<1>3. CASE Bare(s)
  BY <1>1, <1>3, BareTail DEF Teardowns
<1>4. ASSUME NEW w \in Word, Holds(s, w) PROVE  Teardowns(Tail(s)) =
              IF Head(s).cmd = "DESTROY" THEN Teardowns(s) - 1 ELSE Teardowns(s)
  <2>1. \/ Head(s).cmd = "DESTROY" /\ Holds(Tail(s), w)
        \/ Head(s) = w /\ Bare(Tail(s))
    BY <1>4, HoldsTail
  <2>2. QED
    BY <1>1, <1>2, <1>4, <2>1 DEF Teardowns
<1>5. QED
  BY <1>3, <1>4 DEF Single

LEMMA TeardownsAppend ==
    ASSUME NEW s \in Seq(Word), Single(s), NEW w \in Word
    PROVE  /\ w.cmd = "DESTROY" =>
                 Teardowns(Append(s, w)) = Teardowns(s) + 1
           /\ w.cmd # "DESTROY" /\ Single(Append(s, w)) =>
                 Teardowns(Append(s, w)) = Teardowns(s)
<1> DEFINE t == Append(s, w)
<1>1. /\ Len(s) \in Nat /\ Len(t) = Len(s) + 1
      /\ \A p \in 1 .. Len(t) : t[p] = IF p = Len(s) + 1 THEN w ELSE s[p]
  BY AppendAt
<1>2. \A r, v : Holds(r, v) => ~Bare(r)
  BY DEF Holds, Bare
<1>3. ASSUME w.cmd = "DESTROY" PROVE Teardowns(t) = Teardowns(s) + 1
  <2>1. CASE Bare(s)
    BY <1>1, <1>3, <2>1, BareAppend DEF Teardowns
  <2>2. ASSUME NEW v \in Word, Holds(s, v) PROVE Teardowns(t) = Teardowns(s) + 1
    <3>1. Holds(t, v)
      BY <1>3, <2>2, HoldsAppend
    <3>2. QED
      BY <1>1, <1>2, <2>2, <3>1 DEF Teardowns
  <2>3. QED
    BY <2>1, <2>2 DEF Single
<1> HIDE DEF t
<1>4. ASSUME w.cmd # "DESTROY", Single(t) PROVE Teardowns(t) = Teardowns(s)
  <2>1. Len(s) + 1 \in 1 .. Len(t) /\ t[Len(s) + 1] = w
    BY <1>1
  <2>2. ~Bare(t)
    BY <1>4, <2>1 DEF Bare
  <2>3. PICK v : Holds(t, v)
    BY <1>4, <2>2 DEF Single
  <2>4. PICK p \in 1 .. Len(t) : \A q \in 1 .. Len(t) : q # p => t[q].cmd = "DESTROY"
    BY <2>3 DEF Holds
  <2>5. p = Len(s) + 1
    BY <1>4, <2>1, <2>4
  <2>6. \A q \in 1 .. Len(s) : q \in 1 .. Len(t) /\ q # p /\ t[q] = s[q]
    BY <1>1, <2>5
  <2>7. Bare(s)
    BY <2>4, <2>6 DEF Bare
  <2>8. QED
    BY <1>1, <2>2, <2>7 DEF Teardowns
<1>5. QED
  BY <1>3, <1>4 DEF t

LEMMA NoDestroyAppend ==
    ASSUME NEW s \in Seq(Word), NEW w, NoDestroy(s), w.cmd # "DESTROY"
    PROVE  NoDestroy(Append(s, w))
<1> DEFINE S == Word \cup {w}
<1>1. s \in Seq(S)
  OBVIOUS
<1> HIDE DEF S
<1>2. \A v \in S : /\ Len(s) \in Nat /\ Len(Append(s, v)) = Len(s) + 1
                   /\ \A p \in 1 .. Len(Append(s, v)) :
                        Append(s, v)[p] = IF p = Len(s) + 1 THEN v ELSE s[p]
  BY <1>1, AppendAt
<1>3. w \in S
  BY DEF S
<1>4. QED
  BY <1>2, <1>3 DEF NoDestroy

\* At most one cell of the handshake is on each channel, and one at a time.
LEMMA AllSingle ==
    Inv => \A l \in Hop : Single(up[l]) /\ Single(down[l])
<1> SUFFICES ASSUME Inv, NEW l \in Hop PROVE Single(up[l]) /\ Single(down[l])
  OBVIOUS
<1> DEFINE b == l[1]
<1>1. b \in Build /\ Stage(b) /\ l = <<b, l[2]>> /\ hops[b] \in Nat
  BY Paths DEF Inv, BuildInv, TypeInv
<1>2. \A c, J : Bares(c, b, J) /\ l[2] \notin J => Bare(c[l])
  BY DEF Bares
<1>3. up[l] \in Seq(Word) /\ down[l] \in Seq(Word)
  BY DEF Inv, TypeInv
<1>4. ASSUME NEW s \in Seq(Word), NEW w, Holds(s, w) PROVE Single(s)
  <2>1. PICK p \in 1 .. Len(s) : s[p] = w
    BY <1>4 DEF Holds
  <2>2. w \in Word
    BY <2>1, ElementOfSeq
  <2>3. QED
    BY <1>4, <2>2 DEF Single
<1>5. \A s : Bare(s) => Single(s)
  BY DEF Single
<1> HIDE DEF b
<1>6. CASE Quiet(b) \/ Connecting(b)
  BY <1>2, <1>5, <1>6 DEF Quiet, Connecting
<1>7. CASE Extending(b)
  BY <1>1, <1>2, <1>3, <1>4, <1>5, <1>7 DEF Extending
<1>8. CASE Creating(b)
  BY <1>1, <1>2, <1>3, <1>4, <1>5, <1>8 DEF Creating, Goal
<1>9. CASE Answered(b)
  BY <1>1, <1>2, <1>3, <1>4, <1>5, <1>9 DEF Answered, Goal
<1>10. CASE Returning(b)
  BY <1>1, <1>2, <1>3, <1>4, <1>5, <1>10 DEF Returning
<1>11. QED
  BY <1>1, <1>6, <1>7, <1>8, <1>9, <1>10 DEF Stage

LEMMA OwedIsNat ==
    Inv => \A l \in Hop : Owed(l) \in Nat /\ Teardowns(up[l]) \in Nat
<1> SUFFICES ASSUME Inv, NEW l \in Hop
             PROVE  Owed(l) \in Nat /\ Teardowns(up[l]) \in Nat
  OBVIOUS
<1>1. up[l] \in Seq(Word) /\ Single(up[l])
  BY AllSingle DEF Inv, TypeInv
<1>2. Teardowns(up[l]) \in Nat
  BY <1>1, TeardownsAre
<1>3. QED
  BY <1>2 DEF Owed

\* The same after a step.
LEMMA OwedIsNatNext ==
    ASSUME Inv' PROVE \A l \in Hop : Owed(l)' \in Nat
<1>1. (\A l \in Hop : Owed(l) \in Nat /\ Teardowns(up[l]) \in Nat)'
  BY OwedIsNat, PTL
<1>2. QED
  BY <1>1

\* A step after which no hop owes more.
LEMMA DebtKept ==
    ASSUME Inv, Inv', DebtInv, \A l \in Hop : Owed(l)' <= Owed(l)
    PROVE  DebtInv'
<1> SUFFICES ASSUME NEW b \in Build
             PROVE  \E T \in [1 .. N(b) + 1 -> Nat] : Debt(b, T)'
  BY DEF DebtInv, N
<1>1. PICK T \in [1 .. N(b) + 1 -> Nat] : Debt(b, T)
  BY DEF DebtInv
<1>2. N(b) \in Nat /\ \A k \in 1 .. N(b) : <<b, k>> \in Hop
  BY Paths
<1>3. ASSUME NEW k \in 1 .. N(b)
      PROVE  T[k] <= N(b) - k /\ T[k] >= T[k + 1] + Owed(<<b, k>>)'
  <2>1. Owed(<<b, k>>) \in Nat /\ Owed(<<b, k>>)' \in Nat
    <3>1. \A l \in Hop : Owed(l) \in Nat
      BY OwedIsNat
    <3>2. \A l \in Hop : Owed(l)' \in Nat
      BY OwedIsNatNext
    <3>3. QED
      BY <1>2, <3>1, <3>2
  <2>2. T[k] \in Nat /\ T[k + 1] \in Nat
    BY <1>2
  <2>3. QED
    BY <1>1, <1>2, <2>1, <2>2 DEF Debt
<1>4. Debt(b, T)'
  BY <1>3 DEF Debt, N
<1>5. QED
  BY <1>4

\* A step in which the reader of a middle passes a DESTROY on.
LEMMA DebtPassed ==
    ASSUME Inv, Inv', DebtInv, NEW l \in Hop, l[2] < N(l[1]),
           Owed(l)' <= Owed(l) + 1, Owed(After(l))' = Owed(After(l)) - 1,
           \A m \in Hop : m # l => Owed(m)' <= Owed(m)
    PROVE  DebtInv'
<1> SUFFICES ASSUME NEW b \in Build
             PROVE  \E T \in [1 .. N(b) + 1 -> Nat] : Debt(b, T)'
  BY DEF DebtInv, N
<1>1. PICK T \in [1 .. N(b) + 1 -> Nat] : Debt(b, T)
  BY DEF DebtInv
<1>2. N(b) \in Nat /\ \A k \in 1 .. N(b) : <<b, k>> \in Hop
  BY Paths
<1>3. /\ l[2] \in 1 .. N(l[1]) /\ l = <<l[1], l[2]>>
      /\ After(l) = <<l[1], l[2] + 1>>
  BY Paths DEF After
<1>4. \A m \in Hop : Owed(m) \in Nat /\ Owed(m)' \in Nat
  <2>1. \A m \in Hop : Owed(m) \in Nat
    BY OwedIsNat
  <2>2. \A m \in Hop : Owed(m)' \in Nat
    BY OwedIsNatNext
  <2>3. QED
    BY <2>1, <2>2
<1>5. CASE b # l[1]
  <2>1. ASSUME NEW k \in 1 .. N(b)
        PROVE  T[k] <= N(b) - k /\ T[k] >= T[k + 1] + Owed(<<b, k>>)'
    <3>1. Owed(<<b, k>>)' <= Owed(<<b, k>>)
      BY <1>2, <1>3, <1>5
    <3>2. T[k] \in Nat /\ T[k + 1] \in Nat
      BY <1>2
    <3>3. QED
      BY <1>1, <1>2, <1>4, <3>1, <3>2 DEF Debt
  <2>2. Debt(b, T)'
    BY <2>1 DEF Debt, N
  <2>3. QED
    BY <2>2
<1>6. CASE b = l[1]
  <2>1. PICK h \in 1 .. N(b) : h = l[2] /\ h < N(b) /\ l = <<b, h>>
    BY <1>3, <1>6
  <2>2. PICK g \in 1 .. N(b) : g = h + 1 /\ After(l) = <<b, g>>
    BY <1>2, <1>3, <1>6, <2>1
  <2>3. /\ Owed(<<b, h>>)' <= Owed(<<b, h>>) + 1
        /\ Owed(<<b, g>>)' = Owed(<<b, g>>) - 1
        /\ \A k \in 1 .. N(b) : k # h => Owed(<<b, k>>)' <= Owed(<<b, k>>)
    <3>1. Owed(l)' = Owed(<<b, h>>)'
      BY <2>1
    <3>2. Owed(After(l))' = Owed(<<b, g>>)'
      BY <2>2 DEF Owed, MayEnd, After
    <3>3. \A k \in 1 .. N(b) : k # h => <<b, k>> \in Hop /\ <<b, k>> # l
      BY <1>2, <2>1
    <3>4. Owed(After(l)) = Owed(<<b, g>>)
      BY <2>2
    <3>5. Owed(l) = Owed(<<b, h>>)
      BY <2>1
    <3>6. \A k \in 1 .. N(b) : k # h => Owed(<<b, k>>)' <= Owed(<<b, k>>)
      BY <3>3
    <3>7. QED
      BY <3>1, <3>2, <3>4, <3>5, <3>6
  <2>4. \A k \in 1 .. N(b) : /\ T[k] \in Nat /\ T[k + 1] \in Nat
                             /\ Owed(<<b, k>>) \in Nat /\ Owed(<<b, k>>)' \in Nat
                             /\ T[k] <= N(b) - k
                             /\ T[k] >= T[k + 1] + Owed(<<b, k>>)
    BY <1>1, <1>2, <1>4 DEF Debt
  <2>5. T[g] \in Nat /\ T[g] >= 1
    BY <2>3, <2>4
  <2> DEFINE U == [T EXCEPT ![g] = T[g] - 1]
  <2>6. /\ U \in [1 .. N(b) + 1 -> Nat]
        /\ \A k \in 1 .. N(b) + 1 : U[k] = IF k = g THEN T[g] - 1 ELSE T[k]
    <3>1. PICK t \in Nat : t = T[g] - 1
      BY <2>5
    <3>2. QED
      BY <3>1
  <2> HIDE DEF U
  <2>7. ASSUME NEW k \in 1 .. N(b)
        PROVE  U[k] <= N(b) - k /\ U[k] >= U[k + 1] + Owed(<<b, k>>)'
    <3>1. k \in 1 .. N(b) + 1 /\ k + 1 \in 1 .. N(b) + 1
      BY <1>2
    <3>2. CASE k = g
      <4>1. k + 1 # g /\ k # h
        BY <2>2, <3>2
      <4>2. U[k] = T[k] - 1 /\ U[k + 1] = T[k + 1]
        BY <2>6, <3>1, <3>2, <4>1
      <4>3. QED
        BY <1>2, <2>3, <2>4, <3>2, <4>2
    <3>3. CASE k = h
      <4>1. U[k] = T[k] /\ U[k + 1] = T[k + 1] - 1
        BY <2>2, <2>6, <3>1, <3>3
      <4>2. QED
        BY <1>2, <2>3, <2>4, <3>3, <4>1
    <3>4. CASE k # g /\ k # h
      <4>1. k + 1 # g
        BY <2>2, <3>4
      <4>2. U[k] = T[k] /\ U[k + 1] = T[k + 1]
        BY <2>6, <3>1, <3>4, <4>1
      <4>3. Owed(<<b, k>>)' <= Owed(<<b, k>>)
        BY <2>3, <3>4
      <4>4. /\ T[k] \in Nat /\ T[k + 1] \in Nat
            /\ Owed(<<b, k>>) \in Nat /\ Owed(<<b, k>>)' \in Nat
            /\ T[k] <= N(b) - k /\ T[k] >= T[k + 1] + Owed(<<b, k>>)
        BY <2>4
      <4>5. T[k] >= T[k + 1] + Owed(<<b, k>>)'
        BY <4>3, <4>4
      <4>6. QED
        BY <4>2, <4>4, <4>5
    <3>5. QED
      BY <3>2, <3>3, <3>4
  <2>8. Debt(b, U)'
    BY <2>7 DEF Debt, N
  <2>9. QED
    BY <2>6, <2>8
<1>7. QED
  BY <1>5, <1>6

\* The channel and the reader of a hop are as before, or owe less.
LEMMA OwesSame ==
    ASSUME Inv, NEW m \in Hop, up'[m] = up[m],
           reader'[m] = reader[m] \/ reader'[m] = "ended"
    PROVE  Owed(m)' <= Owed(m)
<1>1. Teardowns(up[m]) \in Nat /\ Teardowns(up[m])' = Teardowns(up[m])
  BY OwedIsNat DEF Teardowns
<1>2. QED
  BY <1>1 DEF Owed, MayEnd, N

LEMMA DebtStill ==
    ASSUME Inv, Inv', DebtInv, UNCHANGED <<up, reader>> PROVE DebtInv'
<1>1. \A m \in Hop : up'[m] = up[m] /\ reader'[m] = reader[m]
  OBVIOUS
<1>2. QED
  BY <1>1, DebtKept, OwesSame

\* The first cell of a channel is taken.
LEMMA OwesTaken ==
    ASSUME Inv, NEW m \in Hop, up[m] # <<>>, up'[m] = Tail(up[m]),
           reader'[m] = reader[m]
    PROVE  Owed(m)' = IF Head(up[m]).cmd = "DESTROY"
                      THEN Owed(m) - 1 ELSE Owed(m)
<1>1. up[m] \in Seq(Word) /\ Single(up[m])
  BY AllSingle DEF Inv, TypeInv
<1>2. /\ Teardowns(up[m]) \in Nat
      /\ Teardowns(Tail(up[m])) = IF Head(up[m]).cmd = "DESTROY"
                                  THEN Teardowns(up[m]) - 1 ELSE Teardowns(up[m])
  BY <1>1, OwedIsNat, TeardownsTail
<1>3. Teardowns(up[m])' = Teardowns(Tail(up[m]))
  BY DEF Teardowns
<1>4. QED
  BY <1>2, <1>3 DEF Owed, MayEnd, N

\* A cell is written to a channel, unless it is lost.
LEMMA OwesPut ==
    ASSUME Inv, Inv', NEW m \in Hop, NEW w \in Word,
           up'[m] \in {up[m], Append(up[m], w)}
    PROVE  /\ Teardowns(up[m])' <= Teardowns(up[m])
                 + IF w.cmd = "DESTROY" THEN 1 ELSE 0
           /\ Teardowns(up[m]) \in Nat /\ Teardowns(up[m])' \in Nat
<1>1. up[m] \in Seq(Word) /\ Single(up[m])
  BY AllSingle DEF Inv, TypeInv
<1>2. Single(up'[m])
  <2>1. (\A l \in Hop : Single(up[l]) /\ Single(down[l]))'
    BY AllSingle, PTL
  <2>2. Single(up[m])'
    BY <2>1
  <2>3. QED
    BY <2>2 DEF Single, Bare, Holds
<1>3. Teardowns(up[m]) \in Nat /\ Teardowns(up[m])' \in Nat
  <2>1. (\A l \in Hop : Owed(l) \in Nat /\ Teardowns(up[l]) \in Nat)'
    BY OwedIsNat, PTL
  <2>2. QED
    BY <2>1, OwedIsNat
<1>4. Teardowns(up[m])' = Teardowns(up'[m])
  BY DEF Teardowns, Bare
<1>5. CASE up'[m] = up[m]
  BY <1>3, <1>4, <1>5
<1>6. CASE up'[m] = Append(up[m], w)
  <2>1. w.cmd # "DESTROY" => Teardowns(up'[m]) = Teardowns(up[m])
    BY <1>1, <1>2, <1>6, TeardownsAppend
  <2>2. w.cmd = "DESTROY" => Teardowns(up'[m]) = Teardowns(up[m]) + 1
    BY <1>1, <1>6, TeardownsAppend
  <2>3. QED
    BY <1>3, <1>4, <2>1, <2>2
<1>7. QED
  BY <1>5, <1>6

-----------------------------------------------------------------------------
(* The debt through the steps.                                             *)

LEMMA DebtInit ==
    ASSUME Init PROVE DebtInv
<1> SUFFICES ASSUME NEW b \in Build
             PROVE  \E T \in [1 .. N(b) + 1 -> Nat] : Debt(b, T)
  BY DEF DebtInv
<1>1. N(b) \in Nat /\ \A k \in 1 .. N(b) : <<b, k>> \in Hop
  BY Paths
<1> DEFINE T == [k \in 1 .. N(b) + 1 |-> IF k <= N(b) THEN N(b) - k ELSE 0]
<1>2. T \in [1 .. N(b) + 1 -> Nat]
  BY <1>1
<1>3. ASSUME NEW k \in 1 .. N(b)
      PROVE  T[k] <= N(b) - k /\ T[k] >= T[k + 1] + Owed(<<b, k>>)
  <2>1. up[<<b, k>>] = <<>> /\ reader[<<b, k>>] = "none"
    BY <1>1 DEF Init
  <2>2. Teardowns(up[<<b, k>>]) = 0
    BY <2>1 DEF Teardowns, Bare
  <2>3. Owed(<<b, k>>) = IF k < N(b) THEN 1 ELSE 0
    BY <2>1, <2>2 DEF Owed, MayEnd
  <2>4. T[k] = N(b) - k /\ T[k + 1] = IF k < N(b) THEN N(b) - (k + 1) ELSE 0
    BY <1>1
  <2>5. QED
    BY <1>1, <2>3, <2>4
<1>4. QED
  BY <1>2, <1>3 DEF Debt

\* A relay answers CREATE, or the client reads an answer.
LEMMA CreatedDebt ==
    ASSUME Inv, Inv', DebtInv, NEW l \in Hop, Created(l) PROVE DebtInv'
<1> DEFINE w == Cell("CREATED", l, {})
<1>1. up \in [Hop -> Seq(Word)] /\ w \in Word /\ w.cmd = "CREATED"
  BY CellsAre DEF Inv, TypeInv, Cell
<1>2. up' = PutUp(up, l, w) /\ reader' = reader
  BY DEF Created
<1> HIDE DEF w
<1>3. \A m \in Hop : up'[m] = IF m = l /\ UpOpen(l) THEN Append(up[l], w)
                                                    ELSE up[m]
  BY <1>1, <1>2, PutUpAt
<1>4. Owed(l)' <= Owed(l)
  <2>1. up'[l] \in {up[l], Append(up[l], w)}
    BY <1>3
  <2>2. /\ Teardowns(up[l])' <= Teardowns(up[l])
        /\ Teardowns(up[l]) \in Nat /\ Teardowns(up[l])' \in Nat
    BY <1>1, <2>1, OwesPut
  <2>3. QED
    BY <1>2, <2>2 DEF Owed, MayEnd, N
<1>5. \A m \in Hop : m # l => up'[m] = up[m] /\ reader'[m] = reader[m]
  BY <1>2, <1>3
<1>6. \A m \in Hop : Owed(m)' <= Owed(m)
  BY <1>4, <1>5, OwesSame
<1>7. QED
  BY <1>6, DebtKept

LEMMA ClientKeyDebt ==
    ASSUME Inv, Inv', DebtInv, NEW b \in Build, ClientKey(b) PROVE DebtInv'
<1> DEFINE f == First(b)
<1>1. f \in Hop /\ up \in [Hop -> Seq(Word)]
  <2>1. 1 \in 1 .. N(b)
    BY Paths
  <2>2. QED
    BY <2>1, Paths DEF Inv, TypeInv, First
<1>2. up[f] # <<>> /\ up' = Taken(up, f) /\ reader' = reader
  BY DEF ClientKey, Readable, relays
<1> HIDE DEF f
<1>3. \A m \in Hop : up'[m] = IF m = f THEN Tail(up[f]) ELSE up[m]
  BY <1>1, <1>2, TakenAt
<1>4. Owed(f)' <= Owed(f)
  <2>1. Owed(f)' = IF Head(up[f]).cmd = "DESTROY" THEN Owed(f) - 1 ELSE Owed(f)
    BY <1>1, <1>2, <1>3, OwesTaken
  <2>2. Owed(f) \in Nat
    BY <1>1, OwedIsNat
  <2>3. QED
    BY <2>1, <2>2
<1>5. \A m \in Hop : m # f => up'[m] = up[m] /\ reader'[m] = reader[m]
  BY <1>2, <1>3
<1>6. \A m \in Hop : Owed(m)' <= Owed(m)
  BY <1>4, <1>5, OwesSame
<1>7. QED
  BY <1>6, DebtKept

LEMMA ExtendDoneDebt ==
    ASSUME Inv, Inv', DebtInv, RestInv, NEW l \in Hop, ExtendDone(l)
    PROVE  DebtInv'
<1> DEFINE a == After(l)
           w == Crypt(Cell("EXTENDED", After(l), {}), l, bpos)
<1>1. /\ up \in [Hop -> Seq(Word)] /\ bpos \in [Hop -> Nat]
      /\ reader \in [Hop -> {"none", "run", "ended"}]
  BY DEF Inv, TypeInv
<1>2. l[1] \in Build /\ Local(l) /\ loop[l] = "await"
  BY Paths DEF Inv, BuildInv, ExtendDone
<1>3. l[2] < N(l[1]) /\ reader[l] = "none"
  BY <1>1, <1>2 DEF Local, Asking, RestInv
<1>4. a \in Hop /\ a # l
  BY <1>3, Neighbours
<1>5. up[a] # <<>> /\ w \in Word /\ w.cmd # "DESTROY"
  BY <1>1, <1>4, CellsAre DEF ExtendDone, Readable, Cell
<1>6. up' = PutUp(Taken(up, a), l, w) /\ \A m \in Hop : m # l => reader'[m] = reader[m]
  BY <1>1 DEF ExtendDone
<1>7. reader'[l] # "ended"
  BY <1>1, <1>3 DEF ExtendDone
<1> HIDE DEF a, w
<1>8. /\ Taken(up, a) \in [Hop -> Seq(Word)]
      /\ \A m \in Hop : Taken(up, a)[m] = IF m = a THEN Tail(up[a]) ELSE up[m]
  BY <1>1, <1>4, <1>5, TakenAt
<1>9. \A m \in Hop :
         up'[m] = IF m = l /\ UpOpen(l) THEN Append(up[l], w)
                  ELSE IF m = a THEN Tail(up[a]) ELSE up[m]
  <2>1. \A m \in Hop :
           up'[m] = IF m = l /\ UpOpen(l) THEN Append(Taken(up, a)[l], w)
                                          ELSE Taken(up, a)[m]
    BY <1>5, <1>6, <1>8, PutUpAt
  <2>2. QED
    BY <1>4, <1>8, <2>1
<1>10. Owed(l)' <= Owed(l)
  <2>1. up'[l] \in {up[l], Append(up[l], w)}
    BY <1>4, <1>9
  <2>2. /\ Teardowns(up[l])' <= Teardowns(up[l])
        /\ Teardowns(up[l]) \in Nat /\ Teardowns(up[l])' \in Nat
    BY <1>5, <2>1, OwesPut
  <2>3. QED
    BY <1>3, <1>7, <2>2 DEF Owed, MayEnd, N
<1>11. Owed(a)' <= Owed(a)
  <2>1. Owed(a)' = IF Head(up[a]).cmd = "DESTROY" THEN Owed(a) - 1 ELSE Owed(a)
    BY <1>4, <1>5, <1>6, <1>9, OwesTaken
  <2>2. Owed(a) \in Nat
    BY <1>4, OwedIsNat
  <2>3. QED
    BY <2>1, <2>2
<1>12. \A m \in Hop : m # l /\ m # a => up'[m] = up[m] /\ reader'[m] = reader[m]
  BY <1>6, <1>9
<1>13. \A m \in Hop : Owed(m)' <= Owed(m)
  BY <1>10, <1>11, <1>12, OwesSame
<1>14. QED
  BY <1>13, DebtKept

\* A reader that ends writes a DESTROY of its own, or does not.
LEMMA OwesEnds ==
    ASSUME Inv, Inv', NEW l \in Hop, l[2] < N(l[1]), reader[l] # "ended",
           reader'[l] = "ended", up'[l] \in {up[l], Append(up[l], DESTROY)}
    PROVE  Owed(l)' <= Owed(l)
<1>1. DESTROY \in Word /\ DESTROY.cmd = "DESTROY"
  BY CellsAre
<1>2. /\ Teardowns(up[l])' <= Teardowns(up[l]) + 1
      /\ Teardowns(up[l]) \in Nat /\ Teardowns(up[l])' \in Nat
  BY <1>1, OwesPut
<1>3. QED
  BY <1>2 DEF Owed, MayEnd, N

LEMMA ReaderEofDebt ==
    ASSUME Inv, Inv', DebtInv, NEW l \in Hop, ReaderEof(l) PROVE DebtInv'
<1>1. /\ up \in [Hop -> Seq(Word)] /\ DESTROY \in Word
      /\ reader \in [Hop -> {"none", "run", "ended"}]
  BY CellsAre DEF Inv, TypeInv
<1>2. l[1] \in Build /\ Local(l) /\ reader[l] = "run"
  BY Paths DEF Inv, BuildInv, ReaderEof
<1>3. l[2] < N(l[1])
  BY <1>2 DEF Local
<1>4. up' = PutUp(up, l, DESTROY) /\ reader' = [reader EXCEPT ![l] = "ended"]
  BY DEF ReaderEof, EndReader
<1>5. \A m \in Hop : up'[m] = IF m = l /\ UpOpen(l) THEN Append(up[l], DESTROY)
                                                    ELSE up[m]
  BY <1>1, <1>4, PutUpAt
<1>6. Owed(l)' <= Owed(l)
  BY <1>1, <1>2, <1>3, <1>4, <1>5, OwesEnds
<1>7. \A m \in Hop : m # l => up'[m] = up[m] /\ reader'[m] = reader[m]
  BY <1>1, <1>4, <1>5
<1>8. \A m \in Hop : Owed(m)' <= Owed(m)
  BY <1>6, <1>7, OwesSame
<1>9. QED
  BY <1>8, DebtKept

LEMMA BackwardDebt ==
    ASSUME Inv, Inv', DebtInv, NEW l \in Hop, Backward(l) PROVE DebtInv'
<1> DEFINE a == After(l)
           h == Head(up[a])
           rest == Taken(up, a)
           w == IF h.cmd = "DESTROY" THEN h ELSE Crypt(h, Handler(l), bpos)
<1>1. /\ up \in [Hop -> Seq(Word)] /\ bpos \in [Hop -> Nat]
      /\ reader \in [Hop -> {"none", "run", "ended"}]
      /\ DESTROY \in Word /\ DESTROY.cmd = "DESTROY"
  BY CellsAre DEF Inv, TypeInv
<1>2. l[1] \in Build /\ Local(l) /\ reader[l] = "run" /\ up[a] # <<>>
  BY Paths DEF Inv, BuildInv, Backward, Readable
<1>3. l[2] < N(l[1]) /\ Handler(l) = l
  BY <1>2 DEF Local
<1>4. a \in Hop /\ a # l
  BY <1>3, Neighbours
<1>5. /\ rest \in [Hop -> Seq(Word)] /\ h \in Word
      /\ \A m \in Hop : rest[m] = IF m = a THEN Tail(up[a]) ELSE up[m]
  BY <1>1, <1>2, <1>4, TakenAt
<1>6. w \in Word /\ w.cmd = h.cmd
  BY <1>1, <1>3, <1>5, CellsAre
<1>7. \/ /\ up' = PutUp(rest, l, w) /\ reader' = reader
      \/ /\ up' = PutUp(rest, l, DESTROY)
         /\ reader' = [reader EXCEPT ![l] = "ended"]
         /\ h.cmd = "DESTROY" \/ ~UpOpen(l)
  BY DEF Backward, EndReader
<1> HIDE DEF a, h, rest, w
<1>8. reader'[a] = reader[a] /\ \A m \in Hop : m # l => reader'[m] = reader[m]
  BY <1>1, <1>4, <1>7
<1>9. \A v \in Word : /\ PutUp(rest, l, v)[l] \in {up[l], Append(up[l], v)}
                      /\ ~UpOpen(l) => PutUp(rest, l, v)[l] = up[l]
                      /\ \A m \in Hop : m # l => PutUp(rest, l, v)[m] = rest[m]
  <2>1. \A v \in Word : \A m \in Hop :
           PutUp(rest, l, v)[m] =
              IF m = l /\ UpOpen(l) THEN Append(rest[l], v) ELSE rest[m]
    BY <1>5, PutUpAt
  <2>2. rest[l] = up[l]
    BY <1>4, <1>5
  <2>3. QED
    BY <2>1, <2>2
<1>10. up'[a] = Tail(up[a]) /\ \A m \in Hop : m # l /\ m # a => up'[m] = up[m]
  BY <1>1, <1>4, <1>5, <1>6, <1>7, <1>9
<1>11. Owed(a)' = IF h.cmd = "DESTROY" THEN Owed(a) - 1 ELSE Owed(a)
  BY <1>2, <1>4, <1>8, <1>10, OwesTaken DEF h
<1>12. \A m \in Hop : m # l /\ m # a => Owed(m)' <= Owed(m)
  BY <1>8, <1>10, OwesSame
<1>13. Owed(a) \in Nat /\ Owed(l) \in Nat
  BY <1>4, OwedIsNat
<1>14. \A m \in Hop : m # l => Owed(m)' <= Owed(m)
  BY <1>11, <1>12, <1>13
<1>15. CASE up' = PutUp(rest, l, w) /\ reader' = reader
  <2>1. up'[l] \in {up[l], Append(up[l], w)}
    BY <1>6, <1>9, <1>15
  <2>2. /\ Teardowns(up[l])' <= Teardowns(up[l])
                                + IF w.cmd = "DESTROY" THEN 1 ELSE 0
        /\ Teardowns(up[l]) \in Nat /\ Teardowns(up[l])' \in Nat
    BY <1>6, <2>1, OwesPut
  <2>3. Owed(l)' <= Owed(l) + IF w.cmd = "DESTROY" THEN 1 ELSE 0
    BY <1>15, <2>2 DEF Owed, MayEnd, N
  <2>4. CASE h.cmd = "DESTROY"
    BY <1>3, <1>6, <1>11, <1>14, <2>3, <2>4, DebtPassed DEF a
  <2>5. CASE h.cmd # "DESTROY"
    <3>1. Owed(l)' <= Owed(l)
      BY <1>6, <1>13, <2>3, <2>5
    <3>2. QED
      BY <1>14, <3>1, DebtKept
  <2>6. QED
    BY <2>4, <2>5
<1>16. CASE /\ up' = PutUp(rest, l, DESTROY)
            /\ reader' = [reader EXCEPT ![l] = "ended"]
  <2>1. up'[l] \in {up[l], Append(up[l], DESTROY)} /\ reader'[l] = "ended"
    BY <1>1, <1>9, <1>16
  <2>2. Owed(l)' <= Owed(l)
    BY <1>2, <1>3, <2>1, OwesEnds
  <2>3. QED
    BY <1>14, <2>2, DebtKept
<1>17. QED
  BY <1>7, <1>15, <1>16

LEMMA DebtStep ==
    ASSUME Inv, Inv', DebtInv, RestInv, [Next]_vars PROVE DebtInv'
<1>1. ASSUME NEW b \in Build, Start(b) \/ ClientEof(b) \/ ClientTimeout(b)
      PROVE  DebtInv'
  <2>1. UNCHANGED <<up, reader>>
    BY <1>1 DEF Start, ClientEof, ClientTimeout, ClientFails, relays
  <2>2. QED
    BY <2>1, DebtStill
<1>2. ASSUME NEW b \in Build, ClientKey(b) PROVE DebtInv'
  BY <1>2, ClientKeyDebt
<1>3. ASSUME NEW l \in Hop, RelayLoop(l) \/ StallEnds(l) PROVE DebtInv'
  <2>1. CASE Created(l)
    BY <2>1, CreatedDebt
  <2>2. CASE ExtendDone(l)
    BY <2>2, ExtendDoneDebt
  <2>3. CASE ~Created(l) /\ ~ExtendDone(l)
    <3>1. UNCHANGED <<up, reader>>
      BY <1>3, <2>3 DEF RelayLoop, AddCircuit, Extend, Connect, ConnectFails, StallEnds,
                        AwaitFails, ExtendFails, LoopEof
    <3>2. QED
      BY <3>1, DebtStill
  <2>4. QED
    BY <2>1, <2>2, <2>3
<1>4. ASSUME NEW l \in Hop, RelayReader(l) PROVE DebtInv'
  BY <1>4, BackwardDebt, ReaderEofDebt DEF RelayReader
<1>5. ASSUME NEW l \in Hop, Break(l) \/ Hang(l) PROVE DebtInv'
  <2>1. UNCHANGED <<up, reader>>
    BY <1>5 DEF Break, Hang, relays
  <2>2. QED
    BY <2>1, DebtStill
<1>6. CASE UNCHANGED vars
  <2>1. UNCHANGED <<up, reader>>
    BY <1>6 DEF vars, relays
  <2>2. QED
    BY <2>1, DebtStill
<1>7. QED
  BY <1>1, <1>2, <1>3, <1>4, <1>5, <1>6 DEF Next, Progress, ClientStep

-----------------------------------------------------------------------------
(* The rest of the invariant.                                              *)

LEMMA RestInit ==
    ASSUME Init PROVE RestInv
  BY NoneAssumption DEF Init, RestInv, NoDestroy, Asking

\* No DESTROY goes towards the exit.
DownClean == \A l \in Hop : NoDestroy(down[l])

LEMMA DownPut ==
    ASSUME NEW c \in [Hop -> Seq(Word)], NEW l \in Hop, NEW w,
           w.cmd # "DESTROY", \A m \in Hop : NoDestroy(c[m])
    PROVE  \A m \in Hop : NoDestroy(PutDown(c, l, w)[m])
<1>1. NoDestroy(Append(c[l], w))
  BY NoDestroyAppend
<1>2. QED
  BY <1>1 DEF PutDown

LEMMA DownTaken ==
    ASSUME NEW c \in [Hop -> Seq(Word)], NEW l \in Hop, c[l] # <<>>,
           \A m \in Hop : NoDestroy(c[m])
    PROVE  \A m \in Hop : NoDestroy(Taken(c, l)[m])
<1>1. NoDestroy(Tail(c[l]))
  BY HeadIsThere
<1>2. QED
  BY <1>1, TakenAt

LEMMA OneClean ==
    ASSUME NEW c \in [Hop -> Seq(Word)], NEW l \in Hop, NEW w,
           w.cmd # "DESTROY", \A m \in Hop : NoDestroy(c[m])
    PROVE  \A m \in Hop : NoDestroy([c EXCEPT ![l] = <<w>>][m])
<1>1. NoDestroy(<<w>>)
  BY DEF NoDestroy
<1>2. QED
  BY <1>1

LEMMA DownStep ==
    ASSUME Inv, RestInv, Next PROVE DownClean'
<1>1. /\ down \in [Hop -> Seq(Word)] /\ fpos \in [Hop -> Nat]
      /\ hops \in [Build -> Nat] /\ cf \in [Hop -> Nat]
      /\ \A m \in Hop : NoDestroy(down[m])
  BY DEF Inv, TypeInv, RestInv
<1> DEFINE Clean(c) == \A m \in Hop : NoDestroy(c[m])
<1> SUFFICES Clean(down')
  BY DEF DownClean, NoDestroy
<1> HIDE DEF Clean
<1>2. Clean(down)
  BY <1>1 DEF Clean
<1>3. ASSUME NEW b \in Build, Start(b) PROVE Clean(down')
  <2>1. First(b) \in Hop
    <3>1. 1 \in 1 .. N(b)
      BY Paths
    <3>2. QED
      BY <3>1, Paths DEF First
  <2>2. CREATE(First(b)).cmd # "DESTROY"
    BY DEF CREATE, Cell
  <2>3. Clean([down EXCEPT ![First(b)] = <<CREATE(First(b))>>])
    BY <1>1, <2>1, <2>2, OneClean DEF Clean
  <2>4. QED
    BY <1>2, <1>3, <2>3 DEF Start
<1>4. ASSUME NEW b \in Build, ClientKey(b) PROVE Clean(down')
  <2> DEFINE w == Cell("EXTEND", <<b, hops[b] + 1 + 1>>,
                       Layers(Keyed(b) \cup {<<b, hops[b] + 1>>}, cf))
  <2>1. down' = down \/ down' = PutDown(down, First(b), w)
    BY <1>4 DEF ClientKey
  <2>2. w.cmd # "DESTROY"
    BY DEF Cell
  <2>3. First(b) \in Hop
    <3>1. 1 \in 1 .. N(b)
      BY Paths
    <3>2. QED
      BY <3>1, Paths DEF First
  <2> HIDE DEF w
  <2>4. Clean(PutDown(down, First(b), w))
    BY <1>1, <2>2, <2>3, DownPut DEF Clean
  <2>5. QED
    BY <1>2, <2>1, <2>4
<1>5. ASSUME NEW l \in Hop, Created(l) PROVE Clean(down')
  BY <1>1, <1>5, DownTaken DEF Created, Readable, Clean
<1>6. ASSUME NEW l \in Hop, Connect(l) PROVE Clean(down')
  <2>1. Local(l) /\ loop[l] = "connect"
    BY <1>6, Paths DEF Inv, BuildInv, Connect
  <2>2. After(l) \in Hop
    BY <2>1, Neighbours DEF Local, Asking
  <2>3. CREATE(After(l)).cmd # "DESTROY"
    BY DEF CREATE, Cell
  <2>4. QED
    BY <1>1, <1>6, <2>2, <2>3, OneClean DEF Connect, Clean
<1>7. ASSUME NEW l \in Hop, Extend(l) PROVE Clean(down')
  <2> DEFINE g == Handler(l)
             w == Crypt(Head(down[l]), g, fpos)
             rest == Taken(down, l)
  <2>1. /\ down[l] # <<>> /\ Head(down[l]).cmd = "EXTEND"
        /\ down' = rest \/ (g # None /\ next[g] /\ down' = PutDown(rest, After(g), w))
    BY <1>7 DEF Extend, Readable
  <2>2. rest \in [Hop -> Seq(Word)] /\ Head(down[l]) \in Word /\ Clean(rest)
    BY <1>1, <2>1, TakenAt, DownTaken DEF Clean
  <2>3. g \in {None, l} /\ (next[l] => l[2] < N(l[1]))
    BY Paths DEF Inv, BuildInv, Local
  <2>4. CASE g = l /\ next[l]
    <3>1. After(l) \in Hop
      BY <2>3, <2>4, Neighbours
    <3>2. w \in Word /\ w.cmd # "DESTROY"
      BY <1>1, <2>1, <2>2, <2>4, CellsAre
    <3>3. QED
      BY <2>1, <2>2, <2>4, <3>1, <3>2, DownPut DEF Clean
  <2>5. QED
    BY <2>1, <2>2, <2>3, <2>4
<1>8. ASSUME NEW l \in Hop, RelayReader(l) \/ Break(l) \/ Hang(l)
      PROVE  down' = down
  BY <1>8 DEF RelayReader, Backward, ReaderEof, Break, Hang
<1>9. ASSUME NEW l \in Hop, \/ AddCircuit(l) \/ ConnectFails(l) \/ ExtendDone(l)
                            \/ StallEnds(l) \/ AwaitFails(l) \/ LoopEof(l)
      PROVE  down' = down
  BY <1>9 DEF AddCircuit, ConnectFails, StallEnds, Stalls, ExtendDone, AwaitFails, LoopEof,
              ExtendFails
<1>10. ASSUME NEW b \in Build, ClientEof(b) \/ ClientTimeout(b)
       PROVE  down' = down
  BY <1>10 DEF ClientEof, ClientTimeout, ClientFails
<1>11. QED
  BY <1>2, <1>3, <1>4, <1>5, <1>6, <1>7, <1>8, <1>9, <1>10
  DEF Next, Progress, ClientStep, RelayLoop

\* A relay extends once: a handler that has a next hop is not extended again.
LEMMA ReaderStep ==
    ASSUME Inv, RestInv, Next
    PROVE  \A m \in Hop : /\ reader'[m] # "none" => next'[m]
                          /\ loop'[m] \in Asking => ~next'[m]
<1>1. /\ loop \in [Hop -> {"none", "read", "add", "connect", "await", "ended"}]
      /\ reader \in [Hop -> {"none", "run", "ended"}] /\ next \in [Hop -> BOOLEAN]
      /\ \A m \in Hop : /\ reader[m] # "none" => next[m]
                        /\ loop[m] \in Asking => ~next[m]
  BY DEF Inv, TypeInv, RestInv
<1> DEFINE Once == \A m \in Hop : /\ reader'[m] # "none" => next'[m]
                                  /\ loop'[m] \in Asking => ~next'[m]
<1>2. ASSUME UNCHANGED <<reader, next>>,
             \A m \in Hop : loop'[m] \in Asking => loop[m] \in Asking
      PROVE  Once
  BY <1>1, <1>2
<1>3. ASSUME NEW b \in Build, Start(b) PROVE Once
  <2>1. UNCHANGED <<reader, next>>
    BY <1>3 DEF Start, handler
  <2>2. \A m \in Hop : loop'[m] = loop[m] \/ loop'[m] = "read"
    BY <1>1, <1>3 DEF Start
  <2>3. QED
    BY <1>2, <2>1, <2>2 DEF Asking
<1>4. ASSUME NEW b \in Build, ClientKey(b) \/ ClientEof(b) \/ ClientTimeout(b)
      PROVE  Once
  <2>1. UNCHANGED <<reader, next, loop>>
    BY <1>4 DEF ClientKey, ClientEof, ClientTimeout, ClientFails, relays, handler
  <2>2. QED
    BY <1>2, <2>1
<1>5. ASSUME NEW l \in Hop, \/ Created(l) \/ AddCircuit(l) \/ ConnectFails(l)
                            \/ StallEnds(l) \/ AwaitFails(l) \/ LoopEof(l)
      PROVE  Once
  <2>1. UNCHANGED <<reader, next>>
    BY <1>5 DEF Created, AddCircuit, ConnectFails, StallEnds, Stalls, AwaitFails, ExtendFails,
                LoopEof, handler
  <2>2. \E v \in {"read", "add", "ended"} : loop' = [loop EXCEPT ![l] = v]
    BY <1>5 DEF Created, AddCircuit, ConnectFails, StallEnds, Stalls, AwaitFails, ExtendFails,
                LoopEof, Loop, CreatedThen
  <2>3. \A m \in Hop : loop'[m] = loop[m] \/ loop'[m] \in {"read", "add", "ended"}
    BY <1>1, <2>2
  <2>4. QED
    BY <1>2, <2>1, <2>3 DEF Asking
<1>6. ASSUME NEW l \in Hop, Connect(l) PROVE Once
  <2>1. UNCHANGED <<reader, next>> /\ loop[l] = "connect"
    BY <1>6 DEF Connect, handler
  <2>2. \A m \in Hop : m = l \/ loop'[m] = loop[m] \/ loop'[m] = "read"
    BY <1>1, <1>6 DEF Connect
  <2>3. QED
    BY <1>2, <2>1, <2>2 DEF Asking
<1>7. ASSUME NEW l \in Hop, Extend(l) PROVE Once
  <2>1. UNCHANGED <<reader, next>>
    BY <1>7 DEF Extend
  <2>2. Handler(l) \in {None, l}
    BY Paths DEF Inv, BuildInv, Local
  <2>3. \A m \in Hop : m # l => loop'[m] = loop[m]
    BY <1>1, <1>7 DEF Extend, Loop
  <2>4. loop'[l] \in Asking => ~next[l]
    BY <1>1, <1>7, <2>2 DEF Extend, Loop, Asking
  <2>5. QED
    BY <1>1, <2>1, <2>3, <2>4
<1>8. ASSUME NEW l \in Hop, ExtendDone(l) PROVE Once
  <2>1. next'[l] = TRUE /\ loop'[l] \in {"read", "ended"}
    BY <1>1, <1>8 DEF ExtendDone, Loop
  <2>2. \A m \in Hop : m # l => /\ next'[m] = next[m] /\ loop'[m] = loop[m]
                                /\ reader'[m] = reader[m]
    BY <1>1, <1>8 DEF ExtendDone, Loop
  <2>3. QED
    BY <1>1, <2>1, <2>2 DEF Asking
<1>9. ASSUME NEW l \in Hop, RelayReader(l) PROVE Once
  <2>1. UNCHANGED <<next, loop>> /\ reader[l] = "run"
    BY <1>9 DEF RelayReader, Backward, ReaderEof, handler
  <2>2. \A m \in Hop : m # l => reader'[m] = reader[m]
    BY <1>1, <1>9 DEF RelayReader, Backward, ReaderEof, EndReader
  <2>3. QED
    BY <1>1, <2>1, <2>2
<1>10. ASSUME NEW l \in Hop, Break(l) \/ Hang(l) PROVE Once
  <2>1. UNCHANGED <<reader, next, loop>>
    BY <1>10 DEF Break, Hang, relays, handler
  <2>2. QED
    BY <1>2, <2>1
<1> HIDE DEF Once
<1>11. Once
  BY <1>3, <1>4, <1>5, <1>6, <1>7, <1>8, <1>9, <1>10
  DEF Next, Progress, ClientStep, RelayLoop
<1>12. QED
  BY <1>11 DEF Once

LEMMA RestStep ==
    ASSUME Inv, RestInv, [Next]_vars PROVE RestInv'
<1>1. /\ lock \in [Relay -> Hop \cup {None}]
      /\ broken \subseteq Hop /\ hung \subseteq Hop
      /\ faults \in 0 .. MaxFaults /\ MaxFaults \in Nat
      /\ \A l \in Hop : RelayOf(l) \in Relay
  BY NoneAssumption, RelaysAre DEF RestInv
<1>2. CASE Next
  <2>1. /\ \A l \in Hop : NoDestroy(down[l])'
        /\ \A l \in Hop : /\ reader'[l] # "none" => next'[l]
                          /\ loop'[l] \in Asking => ~next'[l]
    BY <1>2, DownStep, ReaderStep DEF DownClean
  <2>2. /\ lock' \in [Relay -> Hop \cup {None}]
        /\ broken' \subseteq Hop /\ hung' \subseteq Hop
        /\ faults' \in 0 .. MaxFaults
    <3>1. ASSUME NEW b \in Build,
                 Start(b) \/ ClientKey(b) \/ ClientEof(b) \/ ClientTimeout(b)
          PROVE  /\ UNCHANGED <<lock, broken, hung>>
                 /\ faults' = faults \/ Fault
      BY <3>1 DEF Start, ClientKey, ClientEof, ClientTimeout, ClientFails,
                  relays, failures
    <3>2. ASSUME NEW l \in Hop,
                 RelayLoop(l) \/ StallEnds(l) \/ RelayReader(l)
          PROVE  /\ UNCHANGED <<broken, hung>>
                 /\ faults' = faults \/ Fault
                 /\ \E m \in Hop \cup {None} :
                       lock' = lock \/ lock' = [lock EXCEPT ![RelayOf(l)] = m]
      <4>1. CASE RelayReader(l)
        BY <3>2, <4>1 DEF RelayReader, Backward, ReaderEof, failures
      <4>2. CASE \/ Created(l) \/ AddCircuit(l) \/ Connect(l) \/ LoopEof(l)
        BY <4>2 DEF Created, AddCircuit, Connect, LoopEof, failures
      <4>3. CASE Extend(l)
        BY <4>3 DEF Extend, failures
      <4>4. CASE ConnectFails(l) \/ StallEnds(l) \/ AwaitFails(l) \/ ExtendDone(l)
        BY <4>4 DEF ConnectFails, StallEnds, Stalls, AwaitFails, ExtendDone, ExtendFails, Unlock,
                    failures
      <4>5. QED
        BY <3>2, <4>1, <4>2, <4>3, <4>4 DEF RelayLoop
    <3>3. ASSUME NEW l \in Hop, Break(l) \/ Hang(l)
          PROVE  /\ lock' = lock /\ Fault
                 /\ broken' \subseteq broken \cup {l} /\ hung' \subseteq hung \cup {l}
      BY <3>3 DEF Break, Hang, relays
    <3>4. Fault => faults' \in 0 .. MaxFaults
      BY <1>1 DEF Fault
    <3>5. CASE \E b \in Build : \/ Start(b) \/ ClientKey(b) \/ ClientEof(b)
                                \/ ClientTimeout(b)
      BY <1>1, <3>1, <3>4, <3>5
    <3>6. CASE \E l \in Hop : RelayLoop(l) \/ StallEnds(l) \/ RelayReader(l)
      BY <1>1, <3>2, <3>4, <3>6
    <3>7. CASE \E l \in Hop : Break(l) \/ Hang(l)
      BY <1>1, <3>3, <3>4, <3>7
    <3>8. QED
      BY <1>2, <3>5, <3>6, <3>7 DEF Next, Progress, ClientStep
  <2>3. QED
    BY <2>1, <2>2 DEF RestInv
<1>3. CASE UNCHANGED vars
  <2>1. UNCHANGED <<down, lock, broken, hung, faults, reader, next, loop>>
    BY <1>3 DEF vars, relays, handler, failures
  <2>2. QED
    BY <2>1 DEF RestInv, NoDestroy
<1>4. QED
  BY <1>2, <1>3

LEMMA WordIsCell ==
    ASSUME NEW w \in Word PROVE IsCell(w)
  BY DEF Word, IsCell

\* T[k] is at most N(b) - k, and what is on the k-th channel is less, but for
\* one cell of the handshake.
LEMMA ChannelsFit ==
    ASSUME Inv, DebtInv, RestInv, NEW l \in Hop
    PROVE  Len(up[l]) <= N(l[1]) /\ Len(down[l]) <= N(l[1])
<1> DEFINE b == l[1]
           k == l[2]
<1>1. b \in Build /\ N(b) \in Nat /\ N(b) >= 3 /\ k \in 1 .. N(b) /\ l = <<b, k>>
  BY Paths
<1>2. /\ up[l] \in Seq(Word) /\ Single(up[l])
      /\ down[l] \in Seq(Word) /\ Single(down[l]) /\ NoDestroy(down[l])
  BY AllSingle DEF Inv, TypeInv, RestInv
<1>3. /\ Teardowns(up[l]) \in Nat /\ Len(up[l]) \in Nat
      /\ Len(up[l]) <= Teardowns(up[l]) + 1
      /\ Len(down[l]) \in Nat /\ Len(down[l]) <= 1
  BY <1>2, TeardownsAre
<1>4. PICK T \in [1 .. N(b) + 1 -> Nat] : Debt(b, T)
  BY <1>1 DEF DebtInv
<1> HIDE DEF b, k
<1>5. /\ T[k] \in Nat /\ T[k + 1] \in Nat
      /\ T[k] <= N(b) - k /\ T[k] >= T[k + 1] + Owed(l)
  BY <1>1, <1>4 DEF Debt
<1>6. Teardowns(up[l]) <= Owed(l) /\ Owed(l) \in Nat
  BY <1>3 DEF Owed
<1>7. Len(up[l]) <= N(b)
  BY <1>1, <1>3, <1>5, <1>6
<1>8. QED
  BY <1>1, <1>3, <1>7 DEF b

LEMMA TypeOKFollows ==
    ASSUME Inv, DebtInv, RestInv PROVE TypeOK
<1>1. \A pos \in {cf, cb, fpos, bpos} : pos \in [Hop -> Nat]
  BY DEF Inv, TypeInv
<1>2. ASSUME NEW chan \in {down, up}
      PROVE  /\ DOMAIN chan = Hop
             /\ \A l \in Hop : /\ \A i \in DOMAIN chan[l] : IsCell(chan[l][i])
                               /\ Len(chan[l]) <= Len(Path[l[1]])
  <2>1. chan \in [Hop -> Seq(Word)]
    BY DEF Inv, TypeInv
  <2>2. ASSUME NEW l \in Hop, NEW i \in DOMAIN chan[l] PROVE IsCell(chan[l][i])
    <3>1. chan[l] \in Seq(Word)
      BY <2>1
    <3>2. chan[l][i] \in Word
      BY <3>1, ElementOfSeq, LenProperties
    <3>3. QED
      BY <3>2, WordIsCell
  <2>3. \A l \in Hop : Len(chan[l]) <= Len(Path[l[1]])
    BY ChannelsFit DEF N
  <2>4. QED
    BY <2>1, <2>2, <2>3
<1>3. QED
  BY <1>1, <1>2 DEF TypeOK, Inv, TypeInv, RestInv

\* Whatever fails, a connection never has more cells waiting on it than the
\* path has hops: at most one of the handshake, and towards the client one
\* DESTROY for each reader that has ended further down.  That is as much as the
\* readers and writers of a circuit under construction have to buffer.
THEOREM TypeCorrect ==
    ASSUME DistinctIds PROVE Spec => []TypeOK
<1> DEFINE Full == Inv /\ DebtInv /\ RestInv
<1>1. Init => Full
  BY InitInv, DebtInit, RestInit
<1>2. Full /\ [Next]_vars => Full'
  BY StepInv, DebtStep, RestStep
<1>3. Full => TypeOK
  BY TypeOKFollows
<1> HIDE DEF Full
<1>4. QED
  BY <1>1, <1>2, <1>3, PTL DEF Spec

=============================================================================
