---------------------------- MODULE StreamsProofs ----------------------------
(***************************************************************************)
(* What holds of the streams of a circuit for any connections, pieces and  *)
(* failures: Streams implements ByteStreams in both directions, and where  *)
(* it rests nobody waits for what cannot come, as long as no stream id     *)
(* wraps onto one that is in use.                                          *)
(***************************************************************************)
EXTENDS Streams, FiniteSetTheorems, SequenceTheorems, TLAPS

-----------------------------------------------------------------------------
(* Sequences of cells.                                                     *)

LEMMA TailAt ==
    ASSUME NEW S, NEW s \in Seq(S), s # <<>>
    PROVE  /\ Len(s) \in Nat \ {0} /\ Head(s) = s[1] /\ Head(s) \in S
           /\ Tail(s) \in Seq(S) /\ Len(Tail(s)) = Len(s) - 1
           /\ \A p \in 1 .. Len(Tail(s)) : Tail(s)[p] = s[p + 1]
  BY HeadTailProperties

LEMMA AppendAt ==
    ASSUME NEW S, NEW s \in Seq(S), NEW w \in S
    PROVE  /\ Len(s) \in Nat
           /\ Append(s, w) \in Seq(S) /\ Len(Append(s, w)) = Len(s) + 1
           /\ \A p \in 1 .. Len(Append(s, w)) :
                Append(s, w)[p] = IF p = Len(s) + 1 THEN w ELSE s[p]
  BY AppendProperties

LEMMA SeqGrows ==
    ASSUME NEW S, NEW T, S \subseteq T, NEW s \in Seq(S) PROVE s \in Seq(T)
  OBVIOUS

IsData(w, i) == w.cmd = "DATA" /\ w.id = i

\* The DATA cells of stream i in s carry the pieces a + 1 .. z of c, in order.
Window(s, i, c, a, z) ==
    /\ \A p \in 1 .. Len(s) :
          IsData(s[p], i) => \E k \in a + 1 .. z : s[p].data = <<c, k>>
    /\ \A p, q \in 1 .. Len(s) :
          p < q /\ IsData(s[p], i) /\ IsData(s[q], i) =>
             s[p].data[2] < s[q].data[2]
    /\ \A k \in a + 1 .. z :
          \E p \in 1 .. Len(s) : IsData(s[p], i) /\ s[p].data = <<c, k>>

HasEnd(s, i) == \E p \in 1 .. Len(s) : s[p].cmd = "END" /\ s[p].id = i

\* No DATA of stream i comes after its END.
EndsLast(s, i) ==
    \A p, q \in 1 .. Len(s) :
        p < q /\ s[p].cmd = "END" /\ s[p].id = i => ~IsData(s[q], i)

LEMMA WindowSkips ==
    ASSUME NEW S, NEW s \in Seq(S), s # <<>>, NEW i, NEW c,
           NEW a \in Nat, NEW z \in Nat, Window(s, i, c, a, z),
           ~IsData(Head(s), i)
    PROVE  Window(Tail(s), i, c, a, z)
<1> DEFINE t == Tail(s)
<1>1. /\ Len(s) \in Nat \ {0} /\ Head(s) = s[1] /\ Len(t) = Len(s) - 1
      /\ \A p \in 1 .. Len(t) : t[p] = s[p + 1]
  BY TailAt
<1> HIDE DEF t
<1>2. \A p \in 1 .. Len(t) : p + 1 \in 1 .. Len(s)
  BY <1>1
<1>3. \A p \in 1 .. Len(t) :
         IsData(t[p], i) => \E k \in a + 1 .. z : t[p].data = <<c, k>>
  BY <1>1, <1>2 DEF Window
<1>4. \A p, q \in 1 .. Len(t) :
         p < q /\ IsData(t[p], i) /\ IsData(t[q], i) =>
            t[p].data[2] < t[q].data[2]
  <2> SUFFICES ASSUME NEW p \in 1 .. Len(t), NEW q \in 1 .. Len(t), p < q,
                      IsData(t[p], i), IsData(t[q], i)
               PROVE  t[p].data[2] < t[q].data[2]
    OBVIOUS
  <2>1. t[p] = s[p + 1] /\ t[q] = s[q + 1] /\ p + 1 < q + 1
    BY <1>1
  <2>2. QED
    BY <1>2, <2>1 DEF Window
<1>5. ASSUME NEW k \in a + 1 .. z
      PROVE  \E p \in 1 .. Len(t) : IsData(t[p], i) /\ t[p].data = <<c, k>>
  <2>1. PICK p \in 1 .. Len(s) : IsData(s[p], i) /\ s[p].data = <<c, k>>
    BY DEF Window
  <2>2. p # 1
    BY <1>1, <2>1
  <2>3. p - 1 \in 1 .. Len(t) /\ t[p - 1] = s[p]
    BY <1>1, <2>2
  <2>4. QED
    BY <2>1, <2>3
<1>6. QED
  BY <1>3, <1>4, <1>5 DEF Window, t

LEMMA WindowTakes ==
    ASSUME NEW S, NEW s \in Seq(S), s # <<>>, NEW i, NEW c,
           NEW a \in Nat, NEW z \in Nat, Window(s, i, c, a, z),
           IsData(Head(s), i)
    PROVE  /\ a + 1 <= z /\ Head(s).data = <<c, a + 1>>
           /\ Window(Tail(s), i, c, a + 1, z)
<1> DEFINE t == Tail(s)
<1>1. /\ Len(s) \in Nat \ {0} /\ Head(s) = s[1] /\ Len(t) = Len(s) - 1
      /\ \A p \in 1 .. Len(t) : t[p] = s[p + 1]
  BY TailAt
<1> HIDE DEF t
<1>2. \A p \in 1 .. Len(t) : p + 1 \in 1 .. Len(s)
  BY <1>1
<1>3. PICK k \in a + 1 .. z : s[1].data = <<c, k>>
  BY <1>1 DEF Window
<1>4. ASSUME NEW p \in 1 .. Len(s), p # 1, IsData(s[p], i)
      PROVE  k < s[p].data[2]
  BY <1>1, <1>3, <1>4 DEF Window
<1>5. k = a + 1
  <2> SUFFICES ASSUME k # a + 1 PROVE FALSE
    OBVIOUS
  <2>1. PICK p \in 1 .. Len(s) : IsData(s[p], i) /\ s[p].data = <<c, a + 1>>
    BY DEF Window
  <2>2. p # 1
    BY <1>3, <2>1
  <2>3. QED
    BY <1>4, <2>1, <2>2
<1>6. \A p \in 1 .. Len(t) :
         IsData(t[p], i) => \E j \in a + 2 .. z : t[p].data = <<c, j>>
  <2> SUFFICES ASSUME NEW p \in 1 .. Len(t), IsData(t[p], i)
               PROVE  \E j \in a + 2 .. z : t[p].data = <<c, j>>
    OBVIOUS
  <2>1. t[p] = s[p + 1] /\ p + 1 \in 1 .. Len(s) /\ p + 1 # 1
    BY <1>1, <1>2
  <2>2. PICK j \in a + 1 .. z : s[p + 1].data = <<c, j>>
    BY <2>1 DEF Window
  <2>3. k < j
    BY <1>4, <2>1, <2>2
  <2>4. QED
    BY <1>5, <2>1, <2>2, <2>3
<1>7. \A p, q \in 1 .. Len(t) :
         p < q /\ IsData(t[p], i) /\ IsData(t[q], i) =>
            t[p].data[2] < t[q].data[2]
  <2> SUFFICES ASSUME NEW p \in 1 .. Len(t), NEW q \in 1 .. Len(t), p < q,
                      IsData(t[p], i), IsData(t[q], i)
               PROVE  t[p].data[2] < t[q].data[2]
    OBVIOUS
  <2>1. t[p] = s[p + 1] /\ t[q] = s[q + 1] /\ p + 1 < q + 1
    BY <1>1
  <2>2. QED
    BY <1>2, <2>1 DEF Window
<1>8. ASSUME NEW j \in a + 2 .. z
      PROVE  \E p \in 1 .. Len(t) : IsData(t[p], i) /\ t[p].data = <<c, j>>
  <2>1. PICK p \in 1 .. Len(s) : IsData(s[p], i) /\ s[p].data = <<c, j>>
    BY DEF Window
  <2>2. p # 1
    BY <1>3, <1>5, <2>1
  <2>3. p - 1 \in 1 .. Len(t) /\ t[p - 1] = s[p]
    BY <1>1, <2>2
  <2>4. QED
    BY <2>1, <2>3
<1>9. (a + 1) + 1 = a + 2
  OBVIOUS
<1>10. Window(t, i, c, a + 1, z)
  BY <1>6, <1>7, <1>8, <1>9 DEF Window
<1>11. QED
  BY <1>1, <1>3, <1>5, <1>10 DEF t

LEMMA WindowIgnores ==
    ASSUME NEW S, NEW s \in Seq(S), NEW w \in S, NEW i, NEW c,
           NEW a \in Nat, NEW z \in Nat, Window(s, i, c, a, z), ~IsData(w, i)
    PROVE  Window(Append(s, w), i, c, a, z)
<1> DEFINE t == Append(s, w)
<1>1. /\ Len(s) \in Nat /\ Len(t) = Len(s) + 1
      /\ \A p \in 1 .. Len(t) : t[p] = IF p = Len(s) + 1 THEN w ELSE s[p]
  BY AppendAt
<1> HIDE DEF t
<1>2. ASSUME NEW p \in 1 .. Len(t), IsData(t[p], i)
      PROVE  p \in 1 .. Len(s) /\ t[p] = s[p]
  BY <1>1, <1>2
<1>3. \A p \in 1 .. Len(s) : p \in 1 .. Len(t) /\ t[p] = s[p]
  BY <1>1
<1>4. QED
  BY <1>2, <1>3 DEF Window, t

LEMMA WindowAdds ==
    ASSUME NEW S, NEW s \in Seq(S), NEW w \in S, NEW i, NEW c,
           NEW a \in Nat, NEW z \in Nat, a <= z, Window(s, i, c, a, z),
           IsData(w, i), w.data = <<c, z + 1>>
    PROVE  Window(Append(s, w), i, c, a, z + 1)
<1> DEFINE t == Append(s, w)
<1>1. /\ Len(s) \in Nat /\ Len(t) = Len(s) + 1
      /\ \A p \in 1 .. Len(t) : t[p] = IF p = Len(s) + 1 THEN w ELSE s[p]
  BY AppendAt
<1> HIDE DEF t
<1>2. \A p \in 1 .. Len(s) : p \in 1 .. Len(t) /\ t[p] = s[p]
  BY <1>1
<1>3. Len(t) \in 1 .. Len(t) /\ t[Len(t)] = w
  BY <1>1
<1>4. ASSUME NEW p \in 1 .. Len(t), p # Len(t)
      PROVE  p \in 1 .. Len(s) /\ t[p] = s[p]
  BY <1>1, <1>4
<1>5. ASSUME NEW p \in 1 .. Len(t), IsData(t[p], i)
      PROVE  \E k \in a + 1 .. z + 1 : t[p].data = <<c, k>>
  <2>1. CASE p = Len(t)
    BY <1>3, <2>1
  <2>2. CASE p # Len(t)
    BY <1>4, <1>5, <2>2 DEF Window
  <2>3. QED
    BY <2>1, <2>2
<1>6. ASSUME NEW p \in 1 .. Len(t), NEW q \in 1 .. Len(t), p < q,
             IsData(t[p], i), IsData(t[q], i)
      PROVE  t[p].data[2] < t[q].data[2]
  <2>1. p # Len(t)
    BY <1>1, <1>6
  <2>2. p \in 1 .. Len(s) /\ t[p] = s[p]
    BY <1>4, <2>1
  <2>3. CASE q # Len(t)
    BY <1>4, <1>6, <2>2, <2>3 DEF Window
  <2>4. CASE q = Len(t)
    <3>1. PICK k \in a + 1 .. z : t[p].data = <<c, k>>
      BY <1>6, <2>2 DEF Window
    <3>2. t[q].data = <<c, z + 1>>
      BY <1>3, <2>4
    <3>3. QED
      BY <3>1, <3>2
  <2>5. QED
    BY <2>3, <2>4
<1>7. ASSUME NEW k \in a + 1 .. z + 1
      PROVE  \E p \in 1 .. Len(t) : IsData(t[p], i) /\ t[p].data = <<c, k>>
  <2>1. CASE k = z + 1
    BY <1>3, <2>1
  <2>2. CASE k # z + 1
    <3>1. k \in a + 1 .. z
      BY <2>2
    <3>2. QED
      BY <1>2, <3>1 DEF Window
  <2>3. QED
    BY <2>1, <2>2
<1>8. QED
  BY <1>5, <1>6, <1>7 DEF Window, t

\* Nothing of the stream is under way.
LEMMA WindowEmpty ==
    ASSUME NEW s, NEW i, NEW c, NEW a \in Nat,
           \A p \in 1 .. Len(s) : ~IsData(s[p], i)
    PROVE  /\ Window(s, i, c, a, a)
           /\ \A z \in Nat : a <= z /\ Window(s, i, c, a, z) => z = a
<1>1. Window(s, i, c, a, a)
  BY DEF Window
<1>2. ASSUME NEW z \in Nat, a <= z, Window(s, i, c, a, z), z # a PROVE FALSE
  <2>1. a + 1 \in a + 1 .. z
    BY <1>2
  <2>2. QED
    BY <1>2, <2>1 DEF Window
<1>3. QED
  BY <1>1, <1>2

LEMMA EndsTail ==
    ASSUME NEW S, NEW s \in Seq(S), s # <<>>, NEW i, EndsLast(s, i)
    PROVE  /\ EndsLast(Tail(s), i)
           /\ HasEnd(Tail(s), i) => HasEnd(s, i)
           /\ Head(s).cmd = "END" /\ Head(s).id = i =>
                \A p \in 1 .. Len(Tail(s)) : ~IsData(Tail(s)[p], i)
<1> DEFINE t == Tail(s)
<1>1. /\ Len(s) \in Nat \ {0} /\ Head(s) = s[1] /\ Len(t) = Len(s) - 1
      /\ \A p \in 1 .. Len(t) : t[p] = s[p + 1]
  BY TailAt
<1> HIDE DEF t
<1>2. \A p \in 1 .. Len(t) : p + 1 \in 1 .. Len(s) /\ t[p] = s[p + 1] /\ 1 < p + 1
  BY <1>1
<1>3. \A p, q \in 1 .. Len(t) : p < q => p + 1 < q + 1
  BY <1>1
<1>4. EndsLast(t, i)
  BY <1>2, <1>3 DEF EndsLast
<1>5. HasEnd(t, i) => HasEnd(s, i)
  BY <1>2 DEF HasEnd
<1>6. Head(s).cmd = "END" /\ Head(s).id = i =>
        \A p \in 1 .. Len(t) : ~IsData(t[p], i)
  BY <1>1, <1>2 DEF EndsLast
<1>7. QED
  BY <1>4, <1>5, <1>6 DEF t

LEMMA EndsAppend ==
    ASSUME NEW S, NEW s \in Seq(S), NEW w \in S, NEW i, EndsLast(s, i),
           IsData(w, i) => ~HasEnd(s, i)
    PROVE  /\ EndsLast(Append(s, w), i)
           /\ HasEnd(Append(s, w), i) =>
                HasEnd(s, i) \/ (w.cmd = "END" /\ w.id = i)
<1> DEFINE t == Append(s, w)
<1>1. /\ Len(s) \in Nat /\ Len(t) = Len(s) + 1
      /\ \A p \in 1 .. Len(t) : t[p] = IF p = Len(s) + 1 THEN w ELSE s[p]
  BY AppendAt
<1> HIDE DEF t
<1>2. ASSUME NEW p \in 1 .. Len(t)
      PROVE  \/ p = Len(t) /\ t[p] = w
             \/ p \in 1 .. Len(s) /\ t[p] = s[p]
  BY <1>1
<1>3. EndsLast(t, i)
  <2> SUFFICES ASSUME NEW p \in 1 .. Len(t), NEW q \in 1 .. Len(t), p < q,
                      t[p].cmd = "END", t[p].id = i, IsData(t[q], i)
               PROVE  FALSE
    BY DEF EndsLast
  <2>1. p \in 1 .. Len(s) /\ t[p] = s[p]
    BY <1>1, <1>2
  <2>2. CASE q = Len(t) /\ t[q] = w
    BY <2>1, <2>2 DEF HasEnd
  <2>3. CASE q \in 1 .. Len(s) /\ t[q] = s[q]
    BY <2>1, <2>3 DEF EndsLast
  <2>4. QED
    BY <1>2, <2>2, <2>3
<1>4. HasEnd(t, i) => HasEnd(s, i) \/ (w.cmd = "END" /\ w.id = i)
  BY <1>2 DEF HasEnd
<1>5. QED
  BY <1>3, <1>4 DEF t

-----------------------------------------------------------------------------
(* Types.                                                                  *)

Word == [cmd : {"BEGIN", "CONNECTED", "DATA", "END"}, id : Id,
         data : Conn \cup Piece \cup {None}]

\* Stream i is, or was, that of connection c.
Owns(c, i) == cpc[c] # "new" /\ sid[c] = i

FwdCell ==
    {w \in Word :
        \/ w.cmd = "BEGIN" /\ w.data \in Conn /\ Owns(w.data, w.id)
        \/ /\ w.cmd = "DATA"
           /\ \E c \in Conn : /\ Owns(c, w.id)
                              /\ w.data \in Piece
                              /\ \E k \in 1 .. sent[c] : w.data = <<c, k>>
        \/ w.cmd = "END" /\ \E c \in Conn : Owns(c, w.id) /\ cpc[c] = "done"}

BwdCell ==
    {w \in Word :
        /\ w.cmd # "BEGIN" /\ \E c \in Conn : Owns(c, w.id)
        /\ w.cmd = "DATA" =>
              \E c \in Conn : /\ Owns(c, w.id)
                              /\ w.data \in Piece
                              /\ \E k \in 1 .. read[c] : w.data = <<c, k>>}

RxCell(c) == {w \in BwdCell : Owns(c, w.id)}

Scalars ==
    /\ nextId \in Id
    /\ senders \in [Id -> Conn \cup {None}]
    /\ cpc \in [Conn -> {"new", "waiting", "streaming", "leaving",
                         "done", "gone"}]
    /\ sid \in [Conn -> Id \cup {None}]
    /\ \A c \in Conn : cpc[c] # "new" => sid[c] \in Id
    /\ sent \in [Conn -> Nat]
    /\ heardEnd \in [Conn -> BOOLEAN]
    /\ streams \in [Id -> Conn \cup {None}]
    /\ task \in [Conn -> {"none", "run", "drained", "eof", "failed"}]
    /\ read \in [Conn -> Nat]
    /\ {reader, broken, loop} \subseteq BOOLEAN
    /\ faults \in 0 .. MaxFaults

Owners ==
    /\ begin # None => begin \in FwdCell /\ begin.cmd = "BEGIN"
    /\ \A i \in Id, c \in Conn : streams[i] = c => Owns(c, i)
    /\ \A i \in Id, c \in Conn : senders[i] = c => Owns(c, i)
    /\ \A c \in Conn : task[c] # "none" => cpc[c] # "new"

Contents ==
    /\ fwd \in Seq(FwdCell)
    /\ bwd \in Seq(BwdCell)
    /\ rx \in [Conn -> Seq(Word)] /\ \A c \in Conn : rx[c] \in Seq(RxCell(c))
    /\ got \in [Conn -> Seq(Piece)]
    /\ written \in [Conn -> Seq(Piece)]
    /\ queue \in [Conn -> Seq(Piece)]

TypeInv == Scalars /\ Owners /\ Contents

LEMMA Parameters ==
    /\ MaxStreamId \in Nat \ {0} /\ Id = 1 .. MaxStreamId /\ None \notin Conn
    /\ 1 \in Id /\ MaxFaults \in Nat
    /\ \A i \in Id : IdAfter(i) \in Id
    /\ \A c \in Conn : \A k \in Nat \ {0} :
          k <= MaxUp[c] \/ k <= MaxDown[c] => <<c, k>> \in Piece
<1>1. /\ MaxStreamId \in Nat \ {0} /\ Id = 1 .. MaxStreamId /\ None \notin Conn
      /\ 1 \in Id /\ MaxFaults \in Nat
      /\ \A i \in Id : IdAfter(i) \in Id
  BY StreamsAssumption DEF Id, IdAfter
<1>2. ASSUME NEW c \in Conn, NEW k \in Nat \ {0},
             k <= MaxUp[c] \/ k <= MaxDown[c]
      PROVE  <<c, k>> \in Piece
  <2>1. MaxUp[c] \in Nat /\ MaxDown[c] \in Nat
    BY StreamsAssumption
  <2>2. k \in 1 .. MaxUp[c] + MaxDown[c]
    BY <1>2, <2>1
  <2>3. <<c, k>> \in {c} \X (1 .. MaxUp[c] + MaxDown[c])
    BY <2>2
  <2>4. QED
    BY <2>3 DEF Piece
<1>3. QED
  BY <1>1, <1>2

LEMMA Types == TypeInv => TypeOK
<1> SUFFICES ASSUME TypeInv PROVE TypeOK
  OBVIOUS
<1>1. ASSUME NEW s \in Seq(Word) PROVE Cells(s)
  <2>1. \A i \in DOMAIN s : s[i] \in Word
    BY ElementOfSeq, LenProperties
  <2>2. QED
    BY <2>1 DEF Cells, IsCell, Word
<1>2. FwdCell \subseteq Word /\ BwdCell \subseteq Word
  BY DEF FwdCell, BwdCell
<1>3. Cells(fwd) /\ Cells(bwd) /\ \A c \in Conn : Cells(rx[c])
  BY <1>1, <1>2, SeqGrows DEF TypeInv, Contents
<1>4. begin # None => IsCell(begin) /\ begin.data \in Conn
  BY DEF TypeInv, Owners, FwdCell, Word, IsCell
<1>5. QED
  BY <1>3, <1>4 DEF TypeInv, Scalars, Contents, TypeOK

LEMMA NewCell ==
    ASSUME NEW cmd \in {"BEGIN", "CONNECTED", "DATA", "END"}, NEW i \in Id,
           NEW d \in Conn \cup Piece \cup {None}
    PROVE  /\ Cell(cmd, i, d) \in Word
           /\ Cell(cmd, i, d).cmd = cmd /\ Cell(cmd, i, d).id = i
           /\ Cell(cmd, i, d).data = d
  BY DEF Cell, Word

LEMMA TypeInit == Init => TypeInv
<1> SUFFICES ASSUME Init PROVE TypeInv
  OBVIOUS
<1>1. Scalars
  <2>1. faults \in 0 .. MaxFaults /\ nextId \in Id
    BY Parameters DEF Init
  <2>2. QED
    BY <2>1 DEF Init, Scalars
<1>2. Owners
  BY Parameters DEF Init, Owners
<1>3. Contents
  BY DEF Init, Contents
<1>4. QED
  BY <1>1, <1>2, <1>3 DEF TypeInv

\* What a stream was opened for, and what has been sent and read, stays.
Grows ==
    /\ \A c \in Conn : cpc[c] # "new" => cpc'[c] # "new" /\ sid'[c] = sid[c]
    /\ \A c \in Conn : cpc[c] = "done" => cpc'[c] = "done"
    /\ \A c \in Conn : /\ sent[c] \in Nat /\ sent'[c] \in Nat
                       /\ sent[c] <= sent'[c]
                       /\ read[c] \in Nat /\ read'[c] \in Nat
                       /\ read[c] <= read'[c]

Actions(c) ==
    \/ Open(c) \/ Answered(c) \/ ChannelClosed(c) \/ Timeout(c) \/ Close(c)
    \/ SendData(c) \/ Receive(c) \/ Cleanup(c)
    \/ TaskWrites(c) \/ TaskDrained(c) \/ TaskReads(c) \/ TaskEof(c)

LEMMA NextIs ==
    Next => \/ \E c \in Conn : Actions(c)
            \/ Deliver \/ ReaderEnds \/ ExitStep \/ Break
  BY DEF Next, Progress, ClientStep, Actions

LEMMA FaultCounts ==
    ASSUME Scalars, Fault \/ faults' = faults PROVE faults' \in 0 .. MaxFaults
  BY Parameters DEF Scalars, Fault

LEMMA ScalarsNext == ASSUME TypeInv, Next PROVE Scalars'
<1> USE DEF TypeInv
<1>1. ASSUME NEW c \in Conn, Open(c) PROVE Scalars'
  BY <1>1, Parameters DEF Open, Scalars, Goto, exit
<1>2. ASSUME NEW c \in Conn, Answered(c) PROVE Scalars'
  <2>1. Fault \/ faults' = faults
    BY <1>2 DEF Answered
  <2>2. faults' \in 0 .. MaxFaults
    BY <2>1, FaultCounts
  <2>3. QED
    BY <1>2, <2>2 DEF Answered, Scalars, Goto, exit
<1>3. ASSUME NEW c \in Conn, Leave(c), cpc[c] # "new" PROVE Scalars'
  BY <1>3 DEF Leave, Scalars, Goto, exit
<1>4. ASSUME NEW c \in Conn, SendData(c) PROVE Scalars'
  BY <1>4 DEF SendData, Scalars, Goto, exit
<1>5. ASSUME NEW c \in Conn, Receive(c) PROVE Scalars'
  BY <1>5 DEF Receive, Scalars, Goto, exit
<1>6. ASSUME NEW c \in Conn, Cleanup(c) PROVE Scalars'
  BY <1>6 DEF Cleanup, Scalars, Goto, exit
<1>7. ASSUME NEW c \in Conn,
             TaskWrites(c) \/ TaskDrained(c) \/ TaskReads(c) \/ TaskEof(c)
      PROVE  Scalars'
  <2>1. Fault \/ faults' = faults
    BY <1>7 DEF TaskWrites, TaskDrained, TaskReads, TaskEof
  <2>2. faults' \in 0 .. MaxFaults
    BY <2>1, FaultCounts
  <2>3. UNCHANGED <<nextId, senders, cpc, sid, sent, heardEnd, streams,
                    reader, broken, loop>>
    BY <1>7 DEF TaskWrites, TaskDrained, TaskReads, TaskEof, client
  <2>4. \/ task' = task
        \/ \E l \in {"drained", "eof", "failed"} : task' = [task EXCEPT ![c] = l]
    BY <1>7 DEF TaskWrites, TaskDrained, TaskReads, TaskEof, Ends
  <2>5. read' = read \/ read' = [read EXCEPT ![c] = @ + 1]
    BY <1>7 DEF TaskWrites, TaskDrained, TaskReads, TaskEof
  <2>6. QED
    BY <2>2, <2>3, <2>4, <2>5 DEF Scalars
<1>8. CASE Deliver \/ ReaderEnds \/ Break
  <2>1. Fault \/ faults' = faults
    BY <1>8 DEF Deliver, ReaderEnds, Break
  <2>2. faults' \in 0 .. MaxFaults
    BY <2>1, FaultCounts
  <2>3. CASE Deliver
    <3>1. UNCHANGED <<nextId, senders, cpc, sid, sent, heardEnd, streams, task,
                      read, reader, broken, loop>>
      BY <2>3 DEF Deliver, exit
    <3>2. QED
      BY <2>2, <3>1 DEF Scalars
  <2>4. CASE ReaderEnds
    BY <2>2, <2>4 DEF ReaderEnds, Scalars, exit
  <2>5. CASE Break
    BY <2>2, <2>5 DEF Break, Scalars, client, exit
  <2>6. QED
    BY <1>8, <2>3, <2>4, <2>5
<1>9. CASE Connected
  BY <1>9 DEF Connected, Scalars, Owners, FwdCell, Word, client
<1>10. CASE HandleBegin \/ Refused \/ HandleData \/ HandleEnd \/ LoopEnds
  BY <1>10 DEF HandleBegin, Refused, HandleData, HandleEnd, LoopEnds, Scalars,
     client
<1>11. QED
  BY <1>1, <1>2, <1>3, <1>4, <1>5, <1>6, <1>7, <1>8, <1>9, <1>10, NextIs
     DEF Actions, ExitStep, ChannelClosed, Timeout, Close, Listens

LEMMA GrowsNext == ASSUME TypeInv, Next PROVE Grows
<1>1. Scalars'
  BY ScalarsNext
<1>2. \A c \in Conn : sent[c] \in Nat /\ sent'[c] \in Nat /\ read[c] \in Nat
                      /\ read'[c] \in Nat
  BY <1>1 DEF TypeInv, Scalars
<1> USE DEF TypeInv
<1>3. ASSUME NEW c \in Conn, SendData(c) PROVE Grows
  BY <1>2, <1>3 DEF SendData, Grows, Scalars, Goto, exit
<1>4. ASSUME NEW c \in Conn, TaskReads(c) PROVE Grows
  BY <1>2, <1>4 DEF TaskReads, Grows, client
<1>5. ASSUME NEW c \in Conn,
             Open(c) \/ Answered(c) \/ (Leave(c) /\ cpc[c] \in {"waiting", "streaming"}) \/ Receive(c) \/ Cleanup(c)
      PROVE  Grows
  <2>1. UNCHANGED <<sent, read>>
    BY <1>5 DEF Open, Answered, Leave, Receive, Cleanup, exit
  <2>2. \/ cpc[c] = "new" /\ sid' = [sid EXCEPT ![c] = nextId]
        \/ cpc[c] # "new" /\ sid' = sid
    BY <1>5 DEF Open, Answered, Leave, Receive, Cleanup
  <2>3. \/ cpc' = cpc
        \/ /\ cpc[c] # "done"
           /\ \E l \in {"waiting", "streaming", "leaving", "done", "gone"} : 
                 cpc' = [cpc EXCEPT ![c] = l]
    BY <1>5 DEF Open, Answered, Leave, Receive, Cleanup, Goto
  <2>4. QED
    BY <1>2, <2>1, <2>2, <2>3 DEF Grows, Scalars
<1>6. CASE UNCHANGED <<cpc, sid, sent, read>>
  BY <1>2, <1>6 DEF Grows
<1>7. QED
  BY <1>3, <1>4, <1>5, <1>6, NextIs
     DEF Actions, ExitStep, ChannelClosed, Timeout, Close, Listens, TaskWrites,
         TaskDrained, TaskEof, Deliver, ReaderEnds, Break, Connected,
         HandleBegin, Refused, HandleData, HandleEnd, LoopEnds, client, exit

LEMMA CellsGrow ==
    ASSUME TypeInv, Grows
    PROVE  /\ FwdCell \subseteq FwdCell' /\ BwdCell \subseteq BwdCell'
           /\ \A c \in Conn : RxCell(c) \subseteq RxCell(c)'
           /\ \A c \in Conn, i \in Id : Owns(c, i) => Owns(c, i)'
<1>1. \A c \in Conn, i \in Id : Owns(c, i) => Owns(c, i)'
  BY DEF Grows, Owns
<1>2. \A c \in Conn : /\ \A k \in 1 .. sent[c] : k \in 1 .. sent'[c]
                      /\ \A k \in 1 .. read[c] : k \in 1 .. read'[c]
  BY DEF Grows
<1>3. \A w \in Word : w.id \in Id
  BY DEF Word
<1>4. ASSUME NEW w \in FwdCell PROVE w \in FwdCell'
  <2>1. CASE w.cmd = "BEGIN"
    BY <1>1, <1>3, <2>1 DEF FwdCell
  <2>2. CASE w.cmd = "DATA"
    <3>1. PICK c \in Conn :
             /\ Owns(c, w.id) /\ w.data \in Piece
             /\ \E k \in 1 .. sent[c] : w.data = <<c, k>>
      BY <2>2 DEF FwdCell
    <3>2. w \in Word /\ Owns(c, w.id)' /\ \E k \in 1 .. sent'[c] : w.data = <<c, k>>
      BY <1>1, <1>2, <1>3, <3>1 DEF FwdCell
    <3>3. QED
      BY <2>2, <3>1, <3>2 DEF FwdCell
  <2>3. CASE w.cmd = "END"
    <3>1. PICK c \in Conn : Owns(c, w.id) /\ cpc[c] = "done"
      BY <2>3 DEF FwdCell
    <3>2. w \in Word /\ Owns(c, w.id)' /\ cpc'[c] = "done"
      BY <1>1, <1>3, <3>1 DEF FwdCell, Grows
    <3>3. QED
      BY <2>3, <3>2 DEF FwdCell
  <2>4. QED
    BY <2>1, <2>2, <2>3 DEF FwdCell
<1>5. ASSUME NEW w \in BwdCell PROVE w \in BwdCell'
  <2>1. w \in Word /\ w.cmd # "BEGIN" /\ \E c \in Conn : Owns(c, w.id)'
    BY <1>1, <1>3 DEF BwdCell
  <2>2. ASSUME w.cmd = "DATA"
        PROVE  \E c \in Conn : /\ Owns(c, w.id)' /\ w.data \in Piece
                               /\ \E k \in 1 .. read'[c] : w.data = <<c, k>>
    <3>1. PICK c \in Conn :
             /\ Owns(c, w.id) /\ w.data \in Piece
             /\ \E k \in 1 .. read[c] : w.data = <<c, k>>
      BY <2>2 DEF BwdCell
    <3>2. Owns(c, w.id)' /\ \E k \in 1 .. read'[c] : w.data = <<c, k>>
      BY <1>1, <1>2, <1>3, <2>1, <3>1
    <3>3. QED
      BY <3>1, <3>2
  <2>3. QED
    BY <2>1, <2>2 DEF BwdCell
<1>6. QED
  BY <1>1, <1>3, <1>4, <1>5 DEF RxCell, BwdCell

LEMMA BeginIs ==
    ASSUME TypeInv, begin # None
    PROVE  /\ begin.id \in Id /\ begin.data \in Conn /\ begin.cmd = "BEGIN"
           /\ Owns(begin.data, begin.id)
  BY DEF TypeInv, Owners, FwdCell, Word

LEMMA TakesHead ==
    ASSUME TypeInv, NEW cmd, Takes(cmd)
    PROVE  /\ Head(fwd) \in FwdCell /\ Head(fwd).cmd = cmd
           /\ Head(fwd).id \in Id /\ fwd' = Tail(fwd) /\ begin = None
           /\ fwd # <<>> /\ loop
  BY TailAt DEF Takes, TypeInv, Contents, FwdCell, Word

LEMMA OwnersNext == ASSUME TypeInv, Next PROVE Owners'
<1>0. Grows
  BY GrowsNext
<1>1. /\ FwdCell \subseteq FwdCell'
      /\ \A c \in Conn, i \in Id : Owns(c, i) => Owns(c, i)'
      /\ \A c \in Conn : cpc[c] # "new" => cpc'[c] # "new"
  BY <1>0, CellsGrow DEF Grows
<1>2. /\ senders \in [Id -> Conn \cup {None}] /\ streams \in [Id -> Conn \cup {None}]
      /\ task \in [Conn -> {"none", "run", "drained", "eof", "failed"}]
      /\ cpc \in [Conn -> {"new", "waiting", "streaming", "leaving", "done",
                           "gone"}]
      /\ sid \in [Conn -> Id \cup {None}] /\ nextId \in Id
  BY DEF TypeInv, Scalars
<1>3. begin' # None => begin' \in FwdCell' /\ begin'.cmd = "BEGIN"
  <2>1. CASE HandleBegin
    BY <1>1, <2>1, TakesHead DEF HandleBegin
  <2>2. CASE begin' = None \/ begin' = begin
    BY <1>1, <2>2 DEF TypeInv, Owners
  <2>3. QED
    BY <2>1, <2>2, NextIs
       DEF Actions, ExitStep, Open, Answered, ChannelClosed, Timeout, Close,
           Leave, SendData, Receive, Cleanup, TaskWrites, TaskDrained,
           TaskReads, TaskEof, Deliver, ReaderEnds, Break, Connected, Refused,
           HandleData, HandleEnd, LoopEnds, exit
<1>4. \A i \in Id, d \in Conn : streams'[i] = d => Owns(d, i)'
  <2>1. CASE streams' = streams
    BY <1>1, <1>2, <2>1 DEF TypeInv, Owners
  <2>2. CASE Connected /\ streams' = [streams EXCEPT ![begin.id] = begin.data]
    <3>1. PICK j \in Id, c \in Conn : j = begin.id /\ c = begin.data
      BY <2>2, BeginIs DEF Connected
    <3>2. Owns(c, j)
      BY <2>2, <3>1, BeginIs DEF Connected
    <3>3. QED
      BY <1>1, <1>2, <2>2, <3>1, <3>2 DEF TypeInv, Owners
  <2>3. CASE HandleEnd
    BY <1>1, <1>2, <2>3, Parameters DEF HandleEnd, TypeInv, Owners
  <2>4. QED
    BY <2>1, <2>2, <2>3, NextIs
       DEF Actions, ExitStep, Open, Answered, ChannelClosed, Timeout, Close,
           Leave, SendData, Receive, Cleanup, TaskWrites, TaskDrained,
           TaskReads, TaskEof, Deliver, ReaderEnds, Break, Connected, Refused,
           HandleBegin, HandleData, LoopEnds, exit
<1>5. \A i \in Id, d \in Conn : senders'[i] = d => Owns(d, i)'
  <2>1. CASE senders' = senders
    BY <1>1, <1>2, <2>1 DEF TypeInv, Owners
  <2>2. ASSUME NEW c \in Conn, Open(c)
        PROVE  \A i \in Id, d \in Conn : senders'[i] = d => Owns(d, i)'
    <3>1. PICK j \in Id : j = nextId
      BY <1>2
    <3>2. Owns(c, j)' /\ senders' = [senders EXCEPT ![j] = c]
      BY <1>2, <2>2, <3>1 DEF Open, Goto, Owns
    <3>3. QED
      BY <1>1, <1>2, <3>2 DEF TypeInv, Owners
  <2>3. ASSUME NEW c \in Conn, Cleanup(c)
        PROVE  \A i \in Id, d \in Conn : senders'[i] = d => Owns(d, i)'
    BY <1>1, <1>2, <2>3, Parameters DEF Cleanup, TypeInv, Owners
  <2>4. CASE ReaderEnds
    BY <2>4, Parameters DEF ReaderEnds
  <2>5. QED
    BY <2>1, <2>2, <2>3, <2>4, NextIs
       DEF Actions, ExitStep, Answered, ChannelClosed, Timeout, Close,
           Leave, SendData, Receive, TaskWrites, TaskDrained,
           TaskReads, TaskEof, Deliver, Break, Connected, Refused,
           HandleBegin, HandleData, HandleEnd, LoopEnds, client
<1>6. \A c \in Conn : task'[c] # "none" => cpc'[c] # "new"
  <2>1. CASE Connected
    BY <1>1, <1>2, <2>1, BeginIs DEF Connected, TypeInv, Owners, Owns
  <2>2. ASSUME NEW c \in Conn, task[c] = "run",
               \/ task' = task
               \/ \E l \in {"drained", "eof", "failed"} :
                     task' = [task EXCEPT ![c] = l]
        PROVE  \A d \in Conn : task'[d] # "none" => cpc'[d] # "new"
    BY <1>1, <1>2, <2>2 DEF TypeInv, Owners
  <2>3. CASE task' = task
    BY <1>1, <1>2, <2>3 DEF TypeInv, Owners
  <2>4. QED
    BY <2>1, <2>2, <2>3, NextIs
       DEF Actions, ExitStep, Open, Answered, ChannelClosed, Timeout, Close,
           Leave, SendData, Receive, Cleanup, TaskWrites, TaskDrained, Ends,
           TaskReads, TaskEof, Deliver, ReaderEnds, Break, Refused,
           HandleBegin, HandleData, HandleEnd, LoopEnds, exit
<1>7. QED
  BY <1>3, <1>4, <1>5, <1>6 DEF Owners

\* The cells that connections send.
LEMMA OpenCell ==
    ASSUME TypeInv, NEW c \in Conn, Open(c)
    PROVE  Cell("BEGIN", nextId, c) \in FwdCell'
<1>0. PICK w : w = Cell("BEGIN", nextId, c)
  OBVIOUS
<1>1. w \in Word /\ w.cmd = "BEGIN" /\ w.id = nextId /\ w.data = c
  BY <1>0, NewCell DEF TypeInv, Scalars
<1>2. w \in FwdCell'
  BY <1>1 DEF FwdCell, Open, Goto, Owns, TypeInv, Scalars
<1>3. QED
  BY <1>0, <1>2

LEMMA DataCell ==
    ASSUME TypeInv, NEW c \in Conn, SendData(c)
    PROVE  Cell("DATA", sid[c], <<c, sent[c] + 1>>) \in FwdCell'
<1>w. PICK w : w = Cell("DATA", sid[c], <<c, sent[c] + 1>>)
  OBVIOUS
<1>0. sent[c] \in Nat /\ sent'[c] = sent[c] + 1 /\ sid' = sid /\ sid[c] \in Id
      /\ cpc'[c] # "new" /\ sent[c] < MaxUp[c] /\ MaxUp[c] \in Nat
  BY StreamsAssumption DEF SendData, Goto, TypeInv, Scalars
<1>1. <<c, sent[c] + 1>> \in Piece
  <2>1. PICK k \in Nat \ {0} : k = sent[c] + 1
    BY <1>0
  <2>2. k <= MaxUp[c]
    BY <1>0, <2>1
  <2>3. QED
    BY <2>1, <2>2, Parameters
<1>2. /\ w \in Word /\ w.cmd = "DATA" /\ w.id = sid[c]
      /\ w.data = <<c, sent[c] + 1>>
  BY <1>w, <1>0, <1>1, NewCell
<1>3. Owns(c, w.id)' /\ sent[c] + 1 \in 1 .. sent'[c]
  BY <1>0, <1>2 DEF Owns
<1>4. w \in FwdCell'
  BY <1>1, <1>2, <1>3 DEF FwdCell
<1>5. QED
  BY <1>w, <1>4

LEMMA EndCell ==
    ASSUME TypeInv, NEW c \in Conn, Cleanup(c)
    PROVE  Cell("END", sid[c], None) \in FwdCell'
<1>w. PICK w : w = Cell("END", sid[c], None)
  OBVIOUS
<1>1. sid[c] \in Id /\ cpc'[c] = "done" /\ sid' = sid
  BY DEF Cleanup, Goto, TypeInv, Scalars
<1>2. w \in Word /\ w.cmd = "END" /\ w.id = sid[c]
  BY <1>w, <1>1, NewCell
<1>3. w \in FwdCell'
  BY <1>1, <1>2 DEF FwdCell, Owns
<1>4. QED
  BY <1>w, <1>3

\* Each channel after a step.
LEMMA FwdMoves ==
    ASSUME TypeInv, Next
    PROVE  \/ fwd' = fwd
           \/ fwd # <<>> /\ fwd' = Tail(fwd)
           \/ \E w \in FwdCell' : fwd' = Append(fwd, w)
<1>1. ASSUME NEW c \in Conn, Open(c) \/ SendData(c) \/ Cleanup(c)
      PROVE  fwd' = fwd \/ \E w \in FwdCell' : fwd' = Append(fwd, w)
  BY <1>1, OpenCell, DataCell, EndCell DEF Open, SendData, Cleanup, Send, Put
<1>2. CASE fwd' = fwd \/ (fwd # <<>> /\ fwd' = Tail(fwd))
  BY <1>2
<1>3. QED
  BY <1>1, <1>2, NextIs
     DEF Actions, ExitStep, Answered, ChannelClosed, Timeout, Close,
         Leave, Receive, TaskWrites, TaskDrained,
         TaskReads, TaskEof, Deliver, ReaderEnds, Break, Connected, Refused,
         HandleBegin, HandleData, HandleEnd, LoopEnds, Takes

\* Answers belong to the stream of a connection.
LEMMA AnswerCell ==
    ASSUME TypeInv, Grows, NEW i \in Id, NEW cmd \in {"CONNECTED", "END"},
           \E c \in Conn : Owns(c, i)
    PROVE  Cell(cmd, i, None) \in BwdCell'
<1>1. /\ Cell(cmd, i, None) \in Word /\ Cell(cmd, i, None).cmd = cmd
      /\ Cell(cmd, i, None).id = i
  BY NewCell
<1>2. \E c \in Conn : Owns(c, i)'
  BY CellsGrow
<1>3. QED
  BY <1>1, <1>2 DEF BwdCell

LEMMA BwdMoves ==
    ASSUME TypeInv, Next
    PROVE  \/ bwd' = bwd
           \/ bwd # <<>> /\ bwd' = Tail(bwd)
           \/ \E w \in BwdCell' : bwd' = Append(bwd, w)
<1> DEFINE Goal == \/ bwd' = bwd
                   \/ bwd # <<>> /\ bwd' = Tail(bwd)
                   \/ \E w \in BwdCell' : bwd' = Append(bwd, w)
<1>0. Grows
  BY GrowsNext
<1>1. CASE Connected \/ Refused
  BY <1>0, <1>1, BeginIs, AnswerCell DEF Connected, Refused, Refusal, Reply, Put
<1>2. CASE HandleData \/ HandleEnd
  <2>1. PICK w : w = Head(fwd)
    OBVIOUS
  <2>2. w \in FwdCell /\ w.id \in Id /\ w.cmd \in {"DATA", "END"}
    BY <1>2, <2>1, TakesHead DEF HandleData, HandleEnd
  <2>3. \E c \in Conn : Owns(c, w.id)
    BY <2>2 DEF FwdCell
  <2>4. Cell("END", w.id, None) \in BwdCell'
    BY <1>0, <2>2, <2>3, AnswerCell
  <2>5. QED
    BY <1>2, <2>1, <2>4 DEF HandleData, HandleEnd, Reply, Put
<1>3. ASSUME NEW c \in Conn, TaskReads(c) PROVE Goal
  <2>w. PICK w : w = Cell("DATA", sid[c], <<c, read[c] + 1>>)
    OBVIOUS
  <2>0. /\ read[c] \in Nat /\ read'[c] = read[c] + 1 /\ sid' = sid
        /\ cpc' = cpc /\ cpc[c] # "new" /\ sid[c] \in Id
        /\ read[c] < MaxDown[c] /\ MaxDown[c] \in Nat
    BY <1>3, StreamsAssumption DEF TaskReads, client, TypeInv, Scalars, Owners
  <2>1. <<c, read[c] + 1>> \in Piece
    <3>1. PICK k \in Nat \ {0} : k = read[c] + 1
      BY <2>0
    <3>2. k <= MaxDown[c]
      BY <2>0, <3>1
    <3>3. QED
      BY <3>1, <3>2, Parameters
  <2>2. /\ w \in Word /\ w.cmd = "DATA" /\ w.id = sid[c]
        /\ w.data = <<c, read[c] + 1>>
    BY <2>w, <2>0, <2>1, NewCell
  <2>3. Owns(c, w.id)' /\ read[c] + 1 \in 1 .. read'[c]
    BY <2>0, <2>2 DEF Owns
  <2>4. w \in BwdCell'
    BY <2>1, <2>2, <2>3 DEF BwdCell
  <2>5. bwd' = Put(bwd, w)
    BY <1>3, <2>w DEF TaskReads, Reply
  <2>6. QED
    BY <2>4, <2>5 DEF Put
<1>4. ASSUME NEW c \in Conn, TaskEof(c) PROVE Goal
  <2>1. sid[c] \in Id /\ Owns(c, sid[c])
    BY <1>4 DEF TaskEof, TypeInv, Scalars, Owners, Owns
  <2>2. Cell("END", sid[c], None) \in BwdCell'
    BY <1>0, <2>1, AnswerCell
  <2>3. QED
    BY <1>4, <2>2 DEF TaskEof, EndOf, Put
<1>5. CASE bwd' = bwd \/ (bwd # <<>> /\ bwd' = Tail(bwd))
  BY <1>5
<1>6. QED
  BY <1>1, <1>2, <1>3, <1>4, <1>5, NextIs
     DEF Actions, ExitStep, Open, Answered, ChannelClosed, Timeout, Close,
         Leave, SendData, Receive, Cleanup, TaskWrites, TaskDrained,
         Deliver, ReaderEnds, Break, HandleBegin, LoopEnds

LEMMA DeliverIs ==
    ASSUME TypeInv, Deliver
    PROVE  /\ Head(bwd) \in BwdCell /\ Head(bwd).id \in Id /\ bwd # <<>>
           /\ \A c \in Conn : c = senders[Head(bwd).id] =>
                 Owns(c, Head(bwd).id) /\ Head(bwd) \in RxCell(c)
<1>1. Head(bwd) \in BwdCell /\ Head(bwd).id \in Id /\ bwd # <<>>
  BY TailAt DEF Deliver, TypeInv, Contents, BwdCell, Word
<1>2. QED
  BY <1>1 DEF TypeInv, Owners, RxCell

LEMMA RxMoves ==
    ASSUME TypeInv, Next
    PROVE  \/ rx' = rx
           \/ \E c \in Conn :
                 \/ rx' = [rx EXCEPT ![c] = <<>>]
                 \/ rx[c] # <<>> /\ rx' = [rx EXCEPT ![c] = Tail(@)]
           \/ /\ Deliver
              /\ rx' = [c \in Conn |->
                          IF c = senders[Head(bwd).id] /\ Listens(c)
                          THEN Append(rx[c], Head(bwd)) ELSE rx[c]]
<1>1. ASSUME NEW c \in Conn,
             Answered(c) \/ Leave(c) \/ SendData(c) \/ Receive(c)
      PROVE  \/ rx' = rx
             \/ rx' = [rx EXCEPT ![c] = <<>>]
             \/ rx[c] # <<>> /\ rx' = [rx EXCEPT ![c] = Tail(@)]
  BY <1>1 DEF Answered, Leave, SendData, Receive, Received, Dropped
<1>2. CASE Deliver
  BY <1>2 DEF Deliver, Owner
<1>3. CASE rx' = rx
  BY <1>3
<1>4. QED
  BY <1>1, <1>2, <1>3, NextIs
     DEF Actions, ExitStep, Open, ChannelClosed, Timeout, Close,
         Cleanup, TaskWrites, TaskDrained, TaskReads, TaskEof,
         ReaderEnds, Break, Connected, Refused, HandleBegin, HandleData,
         HandleEnd, LoopEnds, client

LEMMA BytesMove ==
    ASSUME TypeInv, Next
    PROVE  /\ got' \in [Conn -> Seq(Piece)]
           /\ written' \in [Conn -> Seq(Piece)]
           /\ queue' \in [Conn -> Seq(Piece)]
<1>0. /\ got \in [Conn -> Seq(Piece)] /\ written \in [Conn -> Seq(Piece)]
      /\ queue \in [Conn -> Seq(Piece)]
  BY DEF TypeInv, Contents
<1>1. got' \in [Conn -> Seq(Piece)]
  <2>1. ASSUME NEW c \in Conn, Receive(c) PROVE got' \in [Conn -> Seq(Piece)]
    <3>1. CASE got' = got
      BY <1>0, <3>1
    <3>2. CASE /\ Head(rx[c]).cmd = "DATA" /\ rx[c] # <<>>
               /\ got' = [got EXCEPT ![c] = Append(@, Head(rx[c]).data)]
      <4>1. Head(rx[c]) \in RxCell(c)
        BY <3>2, TailAt DEF TypeInv, Contents
      <4>2. PICK d \in Piece : d = Head(rx[c]).data
        BY <3>2, <4>1 DEF RxCell, BwdCell
      <4>3. Append(got[c], d) \in Seq(Piece)
        BY <1>0, AppendAt
      <4>4. QED
        BY <1>0, <3>2, <4>2, <4>3
    <3>3. QED
      BY <2>1, <3>1, <3>2 DEF Receive
  <2>2. CASE got' = got
    BY <1>0, <2>2
  <2>3. QED
    BY <2>1, <2>2, NextIs
       DEF Actions, ExitStep, Open, Answered, ChannelClosed, Timeout, Close,
           Leave, SendData, Cleanup, TaskWrites, TaskDrained,
           TaskReads, TaskEof, Deliver, ReaderEnds, Break, Connected, Refused,
           HandleBegin, HandleData, HandleEnd, LoopEnds, client
<1>2. /\ written' \in [Conn -> Seq(Piece)]
      /\ queue' \in [Conn -> Seq(Piece)]
  <2>1. ASSUME NEW c \in Conn,
               TaskWrites(c) \/ TaskDrained(c) \/ TaskReads(c) \/ TaskEof(c)
        PROVE  /\ written' \in [Conn -> Seq(Piece)]
               /\ queue' \in [Conn -> Seq(Piece)]
    <3>1. CASE /\ written' = written
               /\ queue' = queue \/ queue' = [queue EXCEPT ![c] = <<>>]
      <4>1. <<>> \in Seq(Piece)
        OBVIOUS
      <4>2. queue' \in [Conn -> Seq(Piece)]
        BY <1>0, <3>1, <4>1
      <4>3. QED
        BY <1>0, <3>1, <4>2
    <3>2. CASE /\ queue[c] # <<>> /\ queue' = [queue EXCEPT ![c] = Tail(@)]
               /\ written' = [written EXCEPT ![c] = Append(@, Head(queue[c]))]
      <4>1. Tail(queue[c]) \in Seq(Piece) /\ Head(queue[c]) \in Piece
        BY <1>0, <3>2, TailAt
      <4>2. Append(written[c], Head(queue[c])) \in Seq(Piece)
        BY <1>0, <4>1, AppendAt
      <4>3. QED
        BY <1>0, <3>2, <4>1, <4>2
    <3>3. QED
      BY <2>1, <3>1, <3>2
         DEF TaskWrites, TaskDrained, TaskReads, TaskEof, Ends
  <2>2. CASE HandleData
    <3>1. written' = written
      BY <2>2 DEF HandleData
    <3>2. CASE queue' = queue
      BY <1>0, <3>1, <3>2
    <3>3. PICK w : w = Head(fwd)
      OBVIOUS
    <3>4. w.data \in Piece /\ w.id \in Id
      BY <2>2, <3>3, TakesHead DEF HandleData, FwdCell
    <3>5. CASE /\ streams[w.id] # None
               /\ queue' = [queue EXCEPT ![streams[w.id]] = Append(@, w.data)]
      <4>1. PICK c \in Conn : c = streams[w.id]
        BY <3>4, <3>5 DEF TypeInv, Scalars
      <4>2. Append(queue[c], w.data) \in Seq(Piece)
        BY <1>0, <3>4, AppendAt
      <4>3. QED
        BY <1>0, <3>1, <3>5, <4>1, <4>2
    <3>6. QED
      BY <2>2, <3>2, <3>3, <3>5 DEF HandleData
  <2>3. CASE UNCHANGED <<written, queue>>
    BY <1>0, <2>3
  <2>4. QED
    BY <2>1, <2>2, <2>3, NextIs
       DEF Actions, ExitStep, Open, Answered, ChannelClosed, Timeout, Close,
           Leave, SendData, Receive, Cleanup, Deliver, ReaderEnds, Break,
           Connected, Refused, HandleBegin, HandleEnd, LoopEnds, exit
<1>3. QED
  BY <1>1, <1>2

LEMMA ContentsNext == ASSUME TypeInv, Next PROVE Contents'
<1>0. Grows
  BY GrowsNext
<1>1. /\ fwd \in Seq(FwdCell') /\ bwd \in Seq(BwdCell')
      /\ \A c \in Conn : rx[c] \in Seq(RxCell(c)')
  BY <1>0, CellsGrow, SeqGrows DEF TypeInv, Contents
<1>2. fwd' \in Seq(FwdCell')
  <2>1. PICK S : S = FwdCell'
    OBVIOUS
  <2>2. /\ \A w \in S : Append(fwd, w) \in Seq(S)
        /\ fwd # <<>> => Tail(fwd) \in Seq(S)
    BY <1>1, <2>1, TailAt
  <2>3. QED
    BY <1>1, <2>1, <2>2, FwdMoves
<1>3. bwd' \in Seq(BwdCell')
  <2>1. PICK S : S = BwdCell'
    OBVIOUS
  <2>2. /\ \A w \in S : Append(bwd, w) \in Seq(S)
        /\ bwd # <<>> => Tail(bwd) \in Seq(S)
    BY <1>1, <2>1, TailAt, AppendAt
  <2>3. QED
    BY <1>1, <2>1, <2>2, BwdMoves
<1>4. rx \in [Conn -> Seq(Word)]
  BY DEF TypeInv, Contents
<1>5. /\ rx' \in [Conn -> Seq(Word)]
      /\ \A c \in Conn : rx'[c] \in Seq(RxCell(c)')
  <2>1. CASE rx' = rx
    BY <1>1, <1>4, <2>1
  <2>2. ASSUME NEW d \in Conn,
               \/ rx' = [rx EXCEPT ![d] = <<>>]
               \/ rx[d] # <<>> /\ rx' = [rx EXCEPT ![d] = Tail(@)]
        PROVE  /\ rx' \in [Conn -> Seq(Word)]
               /\ \A c \in Conn : rx'[c] \in Seq(RxCell(c)')
    <3>1. rx[d] # <<>> => /\ Tail(rx[d]) \in Seq(Word)
                          /\ Tail(rx[d]) \in Seq(RxCell(d)')
      BY <1>1, <1>4, TailAt
    <3>2. /\ <<>> \in Seq(Word) /\ <<>> \in Seq(RxCell(d)')
          /\ \A c \in Conn : c # d => rx'[c] = rx[c]
          /\ rx'[d] = <<>> \/ (rx[d] # <<>> /\ rx'[d] = Tail(rx[d]))
      BY <1>4, <2>2
    <3>3. rx' \in [Conn -> Seq(Word)]
      BY <1>4, <2>2, <3>1, <3>2
    <3>4. QED
      BY <1>1, <3>1, <3>2, <3>3
  <2>3. CASE /\ Deliver
             /\ rx' = [c \in Conn |->
                         IF c = senders[Head(bwd).id] /\ Listens(c)
                         THEN Append(rx[c], Head(bwd)) ELSE rx[c]]
    <3>1. PICK w : w = Head(bwd)
      OBVIOUS
    <3>2. w \in Word
      BY <2>3, <3>1, DeliverIs DEF BwdCell
    <3>3. \A c \in Conn : Append(rx[c], w) \in Seq(Word)
      BY <1>4, <3>2, AppendAt
    <3>4. ASSUME NEW c \in Conn, c = senders[w.id]
          PROVE  Append(rx[c], w) \in Seq(RxCell(c)')
      <4>1. w \in RxCell(c)'
        BY <1>0, <2>3, <3>1, <3>4, DeliverIs, CellsGrow
      <4>2. QED
        BY <1>1, <4>1, AppendAt
    <3>5. QED
      BY <1>1, <1>4, <2>3, <3>1, <3>3, <3>4
  <2>4. QED
    BY <2>1, <2>2, <2>3, RxMoves
<1>6. QED
  BY <1>2, <1>3, <1>5, BytesMove DEF Contents

LEMMA TypeNext == TypeInv /\ [Next]_vars => TypeInv'
<1>1. CASE Next
  BY <1>1, ScalarsNext, OwnersNext, ContentsNext DEF TypeInv
<1>2. ASSUME TypeInv, UNCHANGED vars PROVE TypeInv'
  <2>1. /\ FwdCell' = FwdCell /\ BwdCell' = BwdCell
        /\ \A c \in Conn : RxCell(c)' = RxCell(c)
    BY <1>2 DEF vars, client, exit, FwdCell, BwdCell, RxCell, Owns
  <2>2. Scalars'
    BY <1>2 DEF TypeInv, Scalars, vars, client, exit
  <2>3. Owners'
    BY <1>2, <2>1 DEF TypeInv, Owners, vars, client, exit, Owns
  <2>4. Contents'
    BY <1>2, <2>1 DEF TypeInv, Contents, vars, client, exit
  <2>5. QED
    BY <2>2, <2>3, <2>4 DEF TypeInv
<1>3. QED
  BY <1>1, <1>2

\* Every variable keeps its type: whatever the client, the reader and the exit
\* do, ids, cells and pieces stay what their readers expect.
THEOREM TypeCorrect == Spec => []TypeOK
<1>1. Spec => []TypeInv
  BY TypeInit, TypeNext, PTL DEF Spec
<1>2. QED
  BY <1>1, Types, PTL

-----------------------------------------------------------------------------
(* Stream ids: as long as there are enough, no two connections share one.  *)

Enough == IsFiniteSet(Conn) /\ Cardinality(Conn) <= MaxStreamId

Opened == {c \in Conn : cpc[c] # "new"}

IdInv ==
    /\ nextId = IF Cardinality(Opened) = MaxStreamId THEN 1
                ELSE Cardinality(Opened) + 1
    /\ \A c \in Opened : sid[c] \in 1 .. Cardinality(Opened)
    /\ \A c, d \in Opened : sid[c] = sid[d] => c = d

LEMMA IdsInit == Init => IdInv
<1> SUFFICES ASSUME Init PROVE IdInv
  OBVIOUS
<1>1. Opened = {}
  BY DEF Init, Opened
<1>2. Cardinality(Opened) = 0
  BY <1>1, FS_EmptySet
<1>3. QED
  BY <1>1, <1>2, Parameters DEF Init, IdInv

LEMMA IdsNext == ASSUME Enough, TypeInv, IdInv, [Next]_vars PROVE IdInv'
<1>1. /\ Opened \subseteq Conn /\ IsFiniteSet(Opened)
      /\ Cardinality(Opened) \in Nat /\ Cardinality(Conn) \in Nat
  BY FS_Subset, FS_CardinalityType DEF Opened, Enough
<1>2. ASSUME NEW c \in Conn, Open(c) PROVE IdInv'
  <2>1. c \notin Opened /\ Opened' = Opened \cup {c}
    BY <1>2 DEF Open, Goto, Opened, TypeInv, Scalars
  <2>2. /\ Cardinality(Opened)' = Cardinality(Opened) + 1
        /\ IsFiniteSet(Opened \cup {c})
    BY <1>1, <2>1, FS_AddElement
  <2>3. Cardinality(Opened)' <= Cardinality(Conn)
    BY <1>1, <2>1, <2>2, FS_Subset DEF Enough
  <2>4. Cardinality(Opened) < MaxStreamId
    BY <1>1, <2>2, <2>3, Parameters DEF Enough
  <2>5. nextId = Cardinality(Opened) + 1
    BY <1>1, <2>4, Parameters DEF IdInv
  <2>6. nextId' = IF nextId = MaxStreamId THEN 1 ELSE nextId + 1
    BY <1>2 DEF Open, IdAfter
  <2>7. /\ sid'[c] = nextId /\ \A d \in Opened : sid'[d] = sid[d]
    BY <1>2, <2>1 DEF Open, TypeInv, Scalars, Opened
  <2>8. \A d \in Opened' : sid'[d] \in 1 .. Cardinality(Opened)'
    BY <1>1, <2>1, <2>2, <2>5, <2>7 DEF IdInv
  <2>9. \A d \in Opened : sid'[d] # nextId
    BY <1>1, <2>5, <2>7 DEF IdInv
  <2>10. \A d, e \in Opened' : sid'[d] = sid'[e] => d = e
    BY <2>1, <2>7, <2>9 DEF IdInv
  <2>11. nextId' = IF Cardinality(Opened)' = MaxStreamId THEN 1
                   ELSE Cardinality(Opened)' + 1
    BY <1>1, <2>2, <2>5, <2>6
  <2>12. QED
    BY <2>8, <2>10, <2>11 DEF IdInv
<1>3. CASE UNCHANGED <<nextId, sid>> /\ Opened' = Opened
  BY <1>3 DEF IdInv
<1>4. ASSUME NEW c \in Conn, cpc[c] # "new",
             NEW l \in {"streaming", "leaving", "done", "gone"},
             UNCHANGED <<nextId, sid>>, cpc' = [cpc EXCEPT ![c] = l]
      PROVE  IdInv'
  <2>1. Opened' = Opened
    BY <1>4 DEF Opened, TypeInv, Scalars
  <2>2. QED
    BY <1>3, <1>4, <2>1
<1>5. ASSUME UNCHANGED <<nextId, sid, cpc>> PROVE IdInv'
  <2>1. Opened' = Opened
    BY <1>5 DEF Opened
  <2>2. QED
    BY <1>3, <1>5, <2>1
<1>6. QED
  BY <1>2, <1>4, <1>5, NextIs
     DEF Actions, ExitStep, Answered, ChannelClosed, Timeout, Close,
         Leave, SendData, Receive, Cleanup, Deliver, ReaderEnds, Break,
         Connected, Refused, HandleBegin, HandleData, HandleEnd, LoopEnds,
         TaskWrites, TaskDrained, TaskReads, TaskEof, Goto, Listens, client,
         exit, vars

LEMMA OneOwner ==
    ASSUME IdInv, NEW c \in Conn, NEW d \in Conn, NEW i,
           Owns(c, i), Owns(d, i)
    PROVE  c = d
  BY DEF IdInv, Opened, Owns

-----------------------------------------------------------------------------
(* The life of one stream, from its BEGIN to its task.                     *)

IsBegin(w, c) == w.cmd = "BEGIN" /\ w.data = c

Connecting(c) == begin # None /\ begin.data = c

Life(c) ==
    /\ \A p, q \in 1 .. Len(fwd) :
          IsBegin(fwd[p], c) /\ IsBegin(fwd[q], c) => p = q
    /\ \A p \in 1 .. Len(fwd) :
          IsBegin(fwd[p], c) => task[c] = "none" /\ ~Connecting(c)
    /\ Connecting(c) => task[c] = "none"
    /\ cpc[c] = "streaming" \/ sent[c] > 0 => task[c] # "none"
    /\ \A p \in 1 .. Len(bwd) :
          bwd[p].cmd = "CONNECTED" /\ Owns(c, bwd[p].id) => task[c] # "none"
    /\ \A p \in 1 .. Len(rx[c]) :
          rx[c][p].cmd = "CONNECTED" => task[c] # "none"
    /\ task[c] = "none" => written[c] = <<>> /\ read[c] = 0
    /\ task[c] # "run" => queue[c] = <<>>
    /\ reader /\ Listens(c) => senders[sid[c]] = c
    /\ cpc[c] = "new" => sent[c] = 0 /\ got[c] = <<>>
    /\ heardEnd[c] => cpc[c] \in {"leaving", "done"}

LifeInv == \A c \in Conn : Life(c)

LEMMA LifeInit == Init => LifeInv
<1> SUFFICES ASSUME Init, NEW c \in Conn PROVE Life(c)
  BY DEF LifeInv
<1>1. /\ Len(fwd) = 0 /\ Len(bwd) = 0 /\ Len(rx[c]) = 0
      /\ heardEnd[c] = FALSE /\ ~Connecting(c)
  BY DEF Init, Connecting
<1>2. QED
  BY <1>1 DEF Init, Life, Listens

\* What a step does to the exit's task of c.
LEMMA TaskMoves ==
    ASSUME TypeInv, Next, NEW c \in Conn
    PROVE  \/ task'[c] = task[c] /\ ~(Connected /\ task' # task /\ begin.data = c)
           \/ /\ task[c] = "run" /\ task'[c] \in {"drained", "eof", "failed"}
              /\ queue'[c] = <<>>
              /\ UNCHANGED <<begin, fwd, client, streams, broken, loop>>
           \/ /\ Connected /\ begin # None /\ begin.data = c
              /\ task'[c] = "run" /\ begin' = None
<1>1. ASSUME NEW d \in Conn,
             TaskWrites(d) \/ TaskDrained(d) \/ TaskReads(d) \/ TaskEof(d)
      PROVE  \/ task' = task
             \/ /\ task[d] = "run"
                /\ \E l \in {"drained", "eof", "failed"} : Ends(d, l)
                /\ UNCHANGED <<begin, fwd, client, streams, broken, loop>>
  BY <1>1 DEF TaskWrites, TaskDrained, TaskReads, TaskEof
<1>2. task \in [Conn -> {"none", "run", "drained", "eof", "failed"}]
      /\ queue \in [Conn -> Seq(Piece)]
  BY DEF TypeInv, Scalars, Contents
<1>3. ASSUME NEW d \in Conn, task[d] = "run",
             NEW l \in {"drained", "eof", "failed"}, Ends(d, l), ~Connected,
             UNCHANGED <<begin, fwd, client, streams, broken, loop>>
      PROVE  \/ task'[c] = task[c] /\ ~Connected
             \/ /\ task[c] = "run" /\ task'[c] \in {"drained", "eof", "failed"}
                /\ queue'[c] = <<>>
                /\ UNCHANGED <<begin, fwd, client, streams, broken, loop>>
  BY <1>2, <1>3 DEF Ends
<1>4. CASE Connected
  BY <1>2, <1>4, BeginIs DEF Connected
<1>5. CASE task' = task
  BY <1>5
<1>6. ASSUME NEW d \in Conn,
             TaskWrites(d) \/ TaskDrained(d) \/ TaskReads(d) \/ TaskEof(d),
             Connected, task' # task
      PROVE  FALSE
  BY <1>6 DEF TaskWrites, TaskDrained, TaskReads, TaskEof, Connected
<1>7. QED
  BY <1>1, <1>3, <1>4, <1>5, <1>6, NextIs
     DEF Actions, ExitStep, Open, Answered, ChannelClosed, Timeout, Close,
         Leave, SendData, Receive, Cleanup, Deliver, ReaderEnds, Break,
         Refused, HandleBegin, HandleData, HandleEnd, LoopEnds, exit

\* What a step does to the BEGIN of c.
LEMMA BeginMoves ==
    ASSUME TypeInv, Next, NEW c \in Conn
    PROVE  \/ /\ cpc[c] = "new" /\ begin' = begin
              /\ \E w \in FwdCell' : fwd' = Append(fwd, w)
           \/ fwd' = fwd /\ begin' \in {begin, None}
           \/ fwd # <<>> /\ fwd' = Tail(fwd) /\ begin' = begin
           \/ /\ fwd # <<>> /\ fwd' = Tail(fwd)
              /\ begin = None /\ begin' = Head(fwd)
           \/ /\ begin' = begin
              /\ \E w \in FwdCell' : fwd' = Append(fwd, w) /\ ~IsBegin(w, c)
<1> DEFINE Adds(w) == begin' = begin /\ w \in FwdCell' /\ fwd' = Append(fwd, w)
<1>1. CASE begin' = begin /\ fwd' = fwd
  BY <1>1
<1>2. ASSUME NEW d \in Conn, Open(d), fwd' # fwd
      PROVE  \E w : Adds(w) /\ (cpc[c] = "new" \/ ~IsBegin(w, c))
  <2>1. Adds(Cell("BEGIN", nextId, d))
    BY <1>2, OpenCell DEF Open, Put, exit
  <2>2. cpc[c] = "new" \/ ~IsBegin(Cell("BEGIN", nextId, d), c)
    BY <1>2 DEF Open, IsBegin, Cell
  <2>3. QED
    BY <2>1, <2>2
<1>3. ASSUME NEW d \in Conn, SendData(d), fwd' # fwd
      PROVE  \E w : Adds(w) /\ ~IsBegin(w, c)
  <2>1. Adds(Cell("DATA", sid[d], <<d, sent[d] + 1>>))
    BY <1>3, DataCell DEF SendData, Send, Put, exit
  <2>2. ~IsBegin(Cell("DATA", sid[d], <<d, sent[d] + 1>>), c)
    BY DEF IsBegin, Cell
  <2>3. QED
    BY <2>1, <2>2
<1>4. ASSUME NEW d \in Conn, Cleanup(d), fwd' # fwd
      PROVE  \E w : Adds(w) /\ ~IsBegin(w, c)
  <2>1. Adds(Cell("END", sid[d], None))
    BY <1>4, EndCell DEF Cleanup, Send, Put, exit
  <2>2. ~IsBegin(Cell("END", sid[d], None), c)
    BY DEF IsBegin, Cell
  <2>3. QED
    BY <2>1, <2>2
<1>5. CASE ExitStep
  BY <1>5, TakesHead
     DEF ExitStep, HandleBegin, HandleData, HandleEnd, Connected, Refused,
         LoopEnds
<1>6. ASSUME NEW d \in Conn, Actions(d)
      PROVE  \/ begin' = begin /\ fwd' = fwd
             \/ (Open(d) \/ SendData(d) \/ Cleanup(d)) /\ fwd' # fwd
  BY <1>6
     DEF Actions, Open, Answered, ChannelClosed, Timeout, Close, Leave,
         SendData, Receive, Cleanup, TaskWrites, TaskDrained, TaskReads,
         TaskEof, client, exit
<1>7. CASE Deliver \/ ReaderEnds \/ Break
  BY <1>7 DEF Deliver, ReaderEnds, Break, exit
<1>8. QED
  BY <1>1, <1>2, <1>3, <1>4, <1>5, <1>6, <1>7, NextIs

LEMMA BeginsNext ==
    ASSUME TypeInv, LifeInv, Next, NEW c \in Conn
    PROVE  /\ \A p, q \in 1 .. Len(fwd') :
                 IsBegin(fwd'[p], c) /\ IsBegin(fwd'[q], c) => p = q
           /\ \A p \in 1 .. Len(fwd') :
                 IsBegin(fwd'[p], c) => task'[c] = "none" /\ ~Connecting(c)'
           /\ Connecting(c)' => task'[c] = "none"
<1>0. Life(c)
  BY DEF LifeInv
<1>1. fwd \in Seq(FwdCell)
  BY DEF TypeInv, Contents
<1>2. /\ \A p \in 1 .. Len(fwd) : IsBegin(fwd[p], c) => cpc[c] # "new"
      /\ Connecting(c) => cpc[c] # "new"
      /\ task[c] # "none" => cpc[c] # "new"
  <2>1. \A p \in 1 .. Len(fwd) : fwd[p] \in FwdCell
    BY <1>1
  <2>2. QED
    BY <2>1, BeginIs DEF FwdCell, IsBegin, Owns, Connecting, TypeInv, Owners
<1>3. \/ task'[c] = task[c]
      \/ task[c] # "none" /\ task'[c] # "none" /\ begin' = begin /\ fwd' = fwd
      \/ Connecting(c) /\ begin' = None /\ fwd' = fwd
  BY TaskMoves DEF Connected, Connecting
<1>4. CASE fwd' = fwd /\ begin' \in {begin, None}
  BY <1>0, <1>3, <1>4 DEF Life, Connecting
<1>5. CASE fwd # <<>> /\ fwd' = Tail(fwd) /\ begin' = begin
  <2>1. /\ Len(fwd) \in Nat \ {0} /\ Len(fwd') = Len(fwd) - 1
        /\ \A p \in 1 .. Len(fwd') : fwd'[p] = fwd[p + 1]
    BY <1>1, <1>5, TailAt
  <2>2. \A p \in 1 .. Len(fwd') : p + 1 \in 1 .. Len(fwd)
    BY <2>1
  <2>3. task'[c] = task[c]
    <3>1. Len(fwd') # Len(fwd)
      BY <2>1
    <3>2. QED
      BY <1>3, <3>1
  <2>4. Connecting(c)' = Connecting(c)
    BY <1>5 DEF Connecting
  <2>5. \A p, q \in 1 .. Len(fwd') :
           IsBegin(fwd'[p], c) /\ IsBegin(fwd'[q], c) => p = q
    <3> SUFFICES ASSUME NEW p \in 1 .. Len(fwd'), NEW q \in 1 .. Len(fwd'),
                        IsBegin(fwd'[p], c), IsBegin(fwd'[q], c)
                 PROVE  p = q
      OBVIOUS
    <3>1. p + 1 = q + 1
      BY <1>0, <2>1, <2>2 DEF Life
    <3>2. QED
      BY <3>1
  <2>6. \A p \in 1 .. Len(fwd') :
           IsBegin(fwd'[p], c) => task'[c] = "none" /\ ~Connecting(c)'
    BY <1>0, <2>1, <2>2, <2>3, <2>4 DEF Life
  <2>7. QED
    BY <1>0, <2>3, <2>4, <2>5, <2>6 DEF Life
<1>6. CASE fwd # <<>> /\ fwd' = Tail(fwd) /\ begin = None /\ begin' = Head(fwd)
  <2>1. /\ Len(fwd) \in Nat \ {0} /\ Len(fwd') = Len(fwd) - 1
        /\ \A p \in 1 .. Len(fwd') : fwd'[p] = fwd[p + 1]
        /\ Head(fwd) = fwd[1]
    BY <1>1, <1>6, TailAt
  <2>2. \A p \in 1 .. Len(fwd') : p + 1 \in 1 .. Len(fwd)
    BY <2>1
  <2>3. task'[c] = task[c]
    <3>1. Len(fwd') # Len(fwd)
      BY <2>1
    <3>2. QED
      BY <1>3, <3>1
  <2>4. Connecting(c)' => IsBegin(fwd[1], c)
    <3>1. HandleBegin => fwd[1].cmd = "BEGIN"
      BY <2>1, TakesHead DEF HandleBegin
    <3>2. begin' # begin => HandleBegin \/ begin' = None
      BY NextIs
         DEF Actions, ExitStep, Open, Answered, ChannelClosed, Timeout, Close,
             Leave, SendData, Receive, Cleanup, TaskWrites, TaskDrained,
             TaskReads, TaskEof, Deliver, ReaderEnds, Break, Connected, Refused,
             HandleData, HandleEnd, LoopEnds, exit
    <3>3. QED
      BY <1>6, <2>1, <3>1, <3>2 DEF Connecting, IsBegin
  <2>5. \A p, q \in 1 .. Len(fwd') :
           IsBegin(fwd'[p], c) /\ IsBegin(fwd'[q], c) => p = q
    <3> SUFFICES ASSUME NEW p \in 1 .. Len(fwd'), NEW q \in 1 .. Len(fwd'),
                        IsBegin(fwd'[p], c), IsBegin(fwd'[q], c)
                 PROVE  p = q
      OBVIOUS
    <3>1. p + 1 = q + 1
      BY <1>0, <2>1, <2>2 DEF Life
    <3>2. QED
      BY <3>1
  <2>6. ASSUME NEW p \in 1 .. Len(fwd'), IsBegin(fwd'[p], c)
        PROVE  task'[c] = "none" /\ ~Connecting(c)'
    <3>1. p + 1 \in 1 .. Len(fwd) /\ IsBegin(fwd[p + 1], c) /\ p + 1 # 1
      BY <2>1, <2>2, <2>6
    <3>2. 1 \in 1 .. Len(fwd)
      BY <2>1
    <3>3. ~IsBegin(fwd[1], c)
      BY <1>0, <3>1, <3>2 DEF Life
    <3>4. QED
      BY <1>0, <2>3, <2>4, <3>1, <3>3 DEF Life
  <2>7. Connecting(c)' => task'[c] = "none"
    <3>1. 1 \in 1 .. Len(fwd)
      BY <2>1
    <3>2. QED
      BY <1>0, <2>3, <2>4, <3>1 DEF Life
  <2>8. QED
    BY <2>5, <2>6, <2>7
<1>7. ASSUME NEW w \in FwdCell', fwd' = Append(fwd, w), begin' = begin,
             cpc[c] = "new" \/ ~IsBegin(w, c)
      PROVE  /\ \A p, q \in 1 .. Len(fwd') :
                   IsBegin(fwd'[p], c) /\ IsBegin(fwd'[q], c) => p = q
             /\ \A p \in 1 .. Len(fwd') :
                   IsBegin(fwd'[p], c) => task'[c] = "none" /\ ~Connecting(c)'
             /\ Connecting(c)' => task'[c] = "none"
  <2>1. /\ Len(fwd) \in Nat /\ Len(fwd') = Len(fwd) + 1
        /\ \A p \in 1 .. Len(fwd') :
              fwd'[p] = IF p = Len(fwd) + 1 THEN w ELSE fwd[p]
    BY <1>1, <1>7
  <2>2. task'[c] = task[c]
    <3>1. Len(fwd') # Len(fwd)
      BY <2>1
    <3>2. QED
      BY <1>3, <3>1
  <2>3. Connecting(c)' = Connecting(c)
    BY <1>7 DEF Connecting
  <2>4. CASE cpc[c] = "new"
    <3>1. \A p \in 1 .. Len(fwd') : IsBegin(fwd'[p], c) => p = Len(fwd) + 1
      BY <1>2, <2>1, <2>4
    <3>2. QED
      BY <1>2, <2>2, <2>3, <2>4, <3>1
  <2>5. CASE ~IsBegin(w, c)
    <3>1. \A p \in 1 .. Len(fwd') :
             IsBegin(fwd'[p], c) => p \in 1 .. Len(fwd) /\ IsBegin(fwd[p], c)
      BY <2>1, <2>5
    <3>2. QED
      BY <1>0, <2>2, <2>3, <3>1 DEF Life
  <2>6. QED
    BY <1>7, <2>4, <2>5
<1>8. QED
  BY <1>4, <1>5, <1>6, <1>7, BeginMoves

\* A stream that has an owner keeps it.
LEMMA OwnerStays ==
    ASSUME TypeInv, IdInv', Grows, NEW c \in Conn, NEW d \in Conn, NEW i \in Id,
           Owns(d, i), Owns(c, i)'
    PROVE  c = d
<1>1. Owns(d, i)'
  BY CellsGrow
<1>2. c \in Opened' /\ d \in Opened' /\ sid'[c] = sid'[d]
  BY <1>1 DEF Owns, Opened
<1>3. QED
  BY <1>2 DEF IdInv

LEMMA TaskStays ==
    ASSUME TypeInv, Next, NEW c \in Conn, task[c] # "none"
    PROVE  task'[c] # "none"
  BY TaskMoves

\* CONNECTED comes from a task.
LEMMA ConnectedNext ==
    ASSUME TypeInv, IdInv, IdInv', LifeInv, Next, NEW c \in Conn
    PROVE  \A p \in 1 .. Len(bwd') :
              bwd'[p].cmd = "CONNECTED" /\ cpc'[c] # "new" /\ sid'[c] = bwd'[p].id
                 => task'[c] # "none"
<1>0. Life(c) /\ Grows /\ bwd \in Seq(BwdCell)
  BY GrowsNext DEF LifeInv, TypeInv, Contents
<1>1. ASSUME NEW w \in BwdCell, NEW p \in 1 .. Len(bwd), w = bwd[p],
             w.cmd = "CONNECTED", Owns(c, w.id)'
      PROVE  task'[c] # "none"
  <2>1. PICK d \in Conn : Owns(d, w.id) /\ w.id \in Id
    BY DEF BwdCell, Word
  <2>2. c = d
    BY <1>0, <1>1, <2>1, OwnerStays
  <2>3. QED
    BY <1>0, <1>1, <2>1, <2>2, TaskStays DEF Life
<1>2. CASE bwd' = bwd
  BY <1>0, <1>1, <1>2, ElementOfSeq DEF Owns
<1>3. CASE bwd # <<>> /\ bwd' = Tail(bwd)
  <2>1. /\ Len(bwd) \in Nat \ {0} /\ Len(bwd') = Len(bwd) - 1
        /\ \A p \in 1 .. Len(bwd') : bwd'[p] = bwd[p + 1]
    BY <1>0, <1>3, TailAt
  <2>2. \A p \in 1 .. Len(bwd') : p + 1 \in 1 .. Len(bwd) /\ bwd[p + 1] \in BwdCell
    BY <1>0, <2>1
  <2>3. QED
    BY <1>1, <2>1, <2>2 DEF Owns
<1>4. ASSUME NEW w \in BwdCell', bwd' = Append(bwd, w),
             w.cmd = "CONNECTED" /\ Owns(c, w.id)' => task'[c] # "none"
      PROVE  \A p \in 1 .. Len(bwd') :
                bwd'[p].cmd = "CONNECTED" /\ cpc'[c] # "new" /\ sid'[c] = bwd'[p].id
                   => task'[c] # "none"
  <2>1. /\ Len(bwd) \in Nat /\ Len(bwd') = Len(bwd) + 1
        /\ \A p \in 1 .. Len(bwd') :
              bwd'[p] = IF p = Len(bwd) + 1 THEN w ELSE bwd[p]
    BY <1>0, <1>4
  <2>2. ASSUME NEW p \in 1 .. Len(bwd'), bwd'[p].cmd = "CONNECTED",
               cpc'[c] # "new" /\ sid'[c] = bwd'[p].id
        PROVE  task'[c] # "none"
    <3>1. CASE p = Len(bwd) + 1
      BY <1>4, <2>1, <2>2, <3>1 DEF Owns
    <3>2. CASE p # Len(bwd) + 1
      <4>1. p \in 1 .. Len(bwd) /\ bwd'[p] = bwd[p] /\ bwd[p] \in BwdCell
        BY <1>0, <2>1, <3>2
      <4>2. PICK x \in BwdCell : x = bwd[p]
        BY <4>1
      <4>3. Owns(c, x.id)' /\ x.cmd = "CONNECTED"
        BY <2>2, <4>1, <4>2 DEF Owns
      <4>4. QED
        BY <1>1, <4>1, <4>2, <4>3
    <3>3. QED
      BY <3>1, <3>2
  <2>3. QED
    BY <2>2
<1>5. CASE Connected /\ bwd' # bwd
  <2>1. PICK i \in Id, d \in Conn : i = begin.id /\ d = begin.data /\ Owns(d, i)
    BY <1>5, BeginIs DEF Connected
  <2>2. PICK w : w = Cell("CONNECTED", i, None)
    OBVIOUS
  <2>3. w.id = i /\ w.cmd = "CONNECTED" /\ w \in BwdCell'
    BY <1>0, <2>1, <2>2, NewCell, AnswerCell
  <2>4. bwd' = Append(bwd, w) /\ task' = [task EXCEPT ![d] = "run"]
    BY <1>5, <2>1, <2>2 DEF Connected, Reply, Put
  <2>5. Owns(c, w.id)' => task'[c] # "none"
    BY <1>0, <2>1, <2>3, <2>4, OwnerStays DEF TypeInv, Scalars
  <2>6. QED
    BY <1>4, <2>3, <2>4, <2>5
<1>6. ASSUME NEW w \in BwdCell', bwd' = Append(bwd, w), ~Connected
      PROVE  w.cmd # "CONNECTED"
  <2>1. \E i, x : bwd' = Append(bwd, Cell("DATA", i, x))
                  \/ bwd' = Append(bwd, Cell("END", i, x))
    <3>1. bwd' # bwd /\ ~(bwd # <<>> /\ bwd' = Tail(bwd))
      <4>1. Len(bwd) \in Nat /\ Len(bwd') = Len(bwd) + 1
        BY <1>0, <1>6
      <4>2. bwd # <<>> => Len(Tail(bwd)) = Len(bwd) - 1
        BY <1>0, TailAt
      <4>3. QED
        BY <4>1, <4>2
    <3>2. ASSUME NEW d \in Conn, Actions(d)
          PROVE  \E i, x : bwd' = Append(bwd, Cell("DATA", i, x))
                           \/ bwd' = Append(bwd, Cell("END", i, x))
      BY <3>1, <3>2
         DEF Actions, Open, Answered, ChannelClosed, Timeout, Close, Leave,
             SendData, Receive, Cleanup, TaskWrites, TaskDrained, TaskReads,
             TaskEof, Reply, EndOf, Put
    <3>3. CASE Refused \/ HandleData \/ HandleEnd
      BY <3>1, <3>3 DEF Refused, HandleData, HandleEnd, Refusal, Reply, Put
    <3>4. QED
      BY <1>6, <3>1, <3>2, <3>3, NextIs
         DEF ExitStep, Deliver, ReaderEnds, Break, HandleBegin, LoopEnds
  <2>2. PICK i : \E x : bwd' = Append(bwd, Cell("DATA", i, x))
                        \/ bwd' = Append(bwd, Cell("END", i, x))
    BY <2>1
  <2>3. PICK x : bwd' = Append(bwd, Cell("DATA", i, x))
                 \/ bwd' = Append(bwd, Cell("END", i, x))
    BY <2>2
  <2>4. /\ bwd'[Len(bwd) + 1] = w
        /\ \/ bwd'[Len(bwd) + 1] = Cell("DATA", i, x)
           \/ bwd'[Len(bwd) + 1] = Cell("END", i, x)
    BY <1>0, <1>6, <2>3
  <2>5. QED
    BY <2>4 DEF Cell
<1>7. QED
  BY <1>2, <1>3, <1>4, <1>5, <1>6, BwdMoves

LEMMA RxConnectedNext ==
    ASSUME TypeInv, LifeInv, Next, NEW c \in Conn
    PROVE  \A p \in 1 .. Len(rx'[c]) :
              rx'[c][p].cmd = "CONNECTED" => task'[c] # "none"
<1>0. Life(c) /\ rx[c] \in Seq(Word) /\ rx \in [Conn -> Seq(Word)]
  BY DEF LifeInv, TypeInv, Contents
<1>1. \A p \in 1 .. Len(rx[c]) :
         rx[c][p].cmd = "CONNECTED" => task'[c] # "none"
  BY <1>0, TaskStays DEF Life
<1>2. CASE rx'[c] = rx[c]
  BY <1>1, <1>2
<1>3. CASE rx'[c] = <<>>
  BY <1>3
<1>4. CASE rx[c] # <<>> /\ rx'[c] = Tail(rx[c])
  <2>1. /\ Len(rx'[c]) = Len(rx[c]) - 1 /\ Len(rx[c]) \in Nat \ {0}
        /\ \A p \in 1 .. Len(rx'[c]) : rx'[c][p] = rx[c][p + 1]
    BY <1>0, <1>4, TailAt
  <2>2. \A p \in 1 .. Len(rx'[c]) : p + 1 \in 1 .. Len(rx[c])
    BY <2>1
  <2>3. QED
    BY <1>1, <2>1, <2>2
<1>5. CASE Deliver /\ rx'[c] = Append(rx[c], Head(bwd)) /\ c = senders[Head(bwd).id]
  <2>1. PICK w : w = Head(bwd)
    OBVIOUS
  <2>2. /\ w \in BwdCell /\ w \in Word /\ w = bwd[1] /\ 1 \in 1 .. Len(bwd)
        /\ Owns(c, w.id)
    <3>1. bwd \in Seq(BwdCell) /\ bwd # <<>>
      BY <1>5, DeliverIs DEF TypeInv, Contents
    <3>2. w = bwd[1] /\ 1 \in 1 .. Len(bwd)
      BY <2>1, <3>1, TailAt
    <3>3. w \in BwdCell /\ Owns(c, w.id)
      BY <1>5, <2>1, DeliverIs
    <3>4. QED
      BY <3>2, <3>3 DEF BwdCell
  <2>3. w.cmd = "CONNECTED" => task'[c] # "none"
    BY <1>0, <2>2, TaskStays DEF Life
  <2>4. /\ Len(rx'[c]) = Len(rx[c]) + 1 /\ Len(rx[c]) \in Nat
        /\ \A p \in 1 .. Len(rx'[c]) :
              rx'[c][p] = IF p = Len(rx[c]) + 1 THEN w ELSE rx[c][p]
    BY <1>0, <1>5, <2>1, <2>2, AppendAt
  <2>5. QED
    BY <1>1, <2>3, <2>4
<1>6. QED
  BY <1>0, <1>2, <1>3, <1>4, <1>5, RxMoves

\* The client's end of the stream.
LEMMA ClientLifeNext ==
    ASSUME TypeInv, LifeInv, Next, NEW c \in Conn
    PROVE  /\ cpc'[c] = "streaming" \/ sent'[c] > 0 => task'[c] # "none"
           /\ cpc'[c] = "new" => sent'[c] = 0 /\ got'[c] = <<>>
           /\ heardEnd'[c] => cpc'[c] \in {"leaving", "done"}
<1>0. Life(c) /\ (task[c] # "none" => task'[c] # "none")
  BY TaskStays DEF LifeInv
<1>t. /\ cpc \in [Conn -> {"new", "waiting", "streaming", "leaving",
                           "done", "gone"}]
      /\ sent \in [Conn -> Nat] /\ heardEnd \in [Conn -> BOOLEAN]
      /\ got \in [Conn -> Seq(Piece)]
  BY DEF TypeInv, Scalars, Contents
<1> DEFINE Goal == /\ cpc'[c] = "streaming" \/ sent'[c] > 0 => task'[c] # "none"
                   /\ cpc'[c] = "new" => sent'[c] = 0 /\ got'[c] = <<>>
                   /\ heardEnd'[c] => cpc'[c] \in {"leaving", "done"}
<1>1. ASSUME NEW d \in Conn, Open(d) PROVE Goal
  BY <1>0, <1>t, <1>1 DEF Open, Goto, Life
<1>2. ASSUME NEW d \in Conn, Answered(d) PROVE Goal
  <2>1. CASE d # c
    BY <1>0, <1>t, <1>2, <2>1 DEF Answered, Goto, Life
  <2>2. CASE d = c
    <3>1. rx[c] # <<>> => rx[c][1] = Head(rx[c]) /\ 1 \in 1 .. Len(rx[c])
      BY TailAt DEF TypeInv, Contents
    <3>2. UNCHANGED <<sent, heardEnd, got>> /\ cpc[c] = "waiting"
          /\ cpc'[c] \in {"streaming", "gone", "leaving"}
          /\ (cpc'[c] = "streaming" => Head(rx[c]).cmd = "CONNECTED")
          /\ rx[c] # <<>>
      BY <1>t, <1>2, <2>2 DEF Answered, Goto
    <3>3. cpc'[c] = "streaming" => task[c] # "none"
      BY <1>0, <3>1, <3>2 DEF Life
    <3>4. QED
      BY <1>0, <3>2, <3>3 DEF Life
  <2>3. QED
    BY <2>1, <2>2
<1>3. ASSUME NEW d \in Conn, Leave(d), cpc[d] # "new" PROVE Goal
  BY <1>0, <1>t, <1>3 DEF Leave, Goto, Life
<1>4. ASSUME NEW d \in Conn, SendData(d) PROVE Goal
  <2>1. /\ UNCHANGED <<heardEnd, got>>
        /\ cpc[d] = "streaming" /\ cpc'[d] \in {"streaming", "leaving"}
        /\ \A e \in Conn : e # d => cpc'[e] = cpc[e] /\ sent'[e] = sent[e]
    BY <1>t, <1>4 DEF SendData, Goto
  <2>2. CASE d = c
    BY <1>0, <2>1, <2>2 DEF Life
  <2>3. CASE d # c
    BY <1>0, <2>1, <2>3 DEF Life
  <2>4. QED
    BY <2>2, <2>3
<1>5. ASSUME NEW d \in Conn, Receive(d) PROVE Goal
  <2>1. /\ sent' = sent /\ cpc[d] = "streaming"
        /\ \/ cpc' = cpc /\ heardEnd' = heardEnd
           \/ cpc'[d] = "leaving" /\ heardEnd' = [heardEnd EXCEPT ![d] = TRUE]
        /\ \A e \in Conn : e # d => cpc'[e] = cpc[e] /\ got'[e] = got[e]
    BY <1>t, <1>5 DEF Receive, Goto
  <2>2. CASE d = c
    BY <1>0, <2>1, <2>2 DEF Life
  <2>3. CASE d # c
    BY <1>0, <1>t, <2>1, <2>3 DEF Life
  <2>4. QED
    BY <2>2, <2>3
<1>6. ASSUME NEW d \in Conn, Cleanup(d) PROVE Goal
  BY <1>0, <1>t, <1>6 DEF Cleanup, Goto, Life
<1>7. CASE UNCHANGED <<cpc, sent, heardEnd, got>>
  BY <1>0, <1>7 DEF Life
<1>8. QED
  BY <1>1, <1>2, <1>3, <1>4, <1>5, <1>6, <1>7, NextIs
     DEF Actions, ExitStep, ChannelClosed, Timeout, Close, Listens,
         TaskWrites, TaskDrained, TaskReads, TaskEof, Deliver, ReaderEnds,
         Break, Connected, Refused, HandleBegin, HandleData, HandleEnd,
         LoopEnds, client

\* A connection that listens is registered as long as the reader runs.
LEMMA RegisteredNext ==
    ASSUME TypeInv, TypeInv', IdInv, IdInv', LifeInv, Next, NEW c \in Conn
    PROVE  reader' /\ Listens(c)' => senders'[sid'[c]] = c
<1> SUFFICES ASSUME reader', Listens(c)' PROVE senders'[sid'[c]] = c
  OBVIOUS
<1>0. Life(c)
  BY DEF LifeInv
<1>t. /\ cpc \in [Conn -> {"new", "waiting", "streaming", "leaving",
                           "done", "gone"}]
      /\ sid \in [Conn -> Id \cup {None}] /\ nextId \in Id
      /\ senders \in [Id -> Conn \cup {None}]
      /\ \A d \in Conn : cpc[d] # "new" => sid[d] \in Id
      /\ sid'[c] \in Id
  BY DEF TypeInv, Scalars, Listens
<1>1. ASSUME NEW d \in Conn, Open(d) PROVE senders'[sid'[c]] = c
  <2>1. CASE d = c
    BY <1>t, <1>1, <2>1 DEF Open
  <2>2. CASE d # c
    <3>1. reader /\ Listens(c) /\ sid'[c] = sid[c]
      BY <1>t, <1>1, <2>2 DEF Open, Goto, Listens
    <3>2. sid'[d] = nextId /\ c \in Opened' /\ d \in Opened'
      BY <1>t, <1>1, <2>2 DEF Open, Goto, Opened, Listens
    <3>3. sid'[c] # nextId
      BY <2>2, <3>2 DEF IdInv
    <3>4. QED
      BY <1>0, <1>t, <1>1, <3>1, <3>3 DEF Open, Life
  <2>3. QED
    BY <2>1, <2>2
<1>2. ASSUME NEW d \in Conn, Cleanup(d) PROVE senders'[sid'[c]] = c
  <2>1. reader /\ Listens(c) /\ c # d /\ sid' = sid
    BY <1>t, <1>2 DEF Cleanup, Goto, Listens
  <2>2. sid[c] # sid[d]
    BY <1>2, <2>1 DEF IdInv, Opened, Listens, Cleanup
  <2>3. QED
    BY <1>0, <1>t, <1>2, <2>1, <2>2 DEF Cleanup, Life
<1>3. CASE UNCHANGED <<senders, sid, reader>> /\ Listens(c)
  BY <1>0, <1>3 DEF Life
<1>4. ASSUME NEW d \in Conn,
             \/ Answered(d) \/ (Leave(d) /\ cpc[d] # "new")
             \/ SendData(d) \/ Receive(d)
      PROVE  senders'[sid'[c]] = c
  <2>1. UNCHANGED <<senders, sid, reader>> /\ Listens(c)
    BY <1>t, <1>4 DEF Answered, Leave, SendData, Receive, Goto, Listens
  <2>2. QED
    BY <1>3, <2>1
<1>5. CASE UNCHANGED <<senders, sid, reader, cpc>>
  BY <1>3, <1>5 DEF Listens
<1>6. ~ReaderEnds
  BY DEF ReaderEnds
<1>7. ASSUME NEW d \in Conn, Actions(d)
      PROVE  \/ Open(d) \/ Cleanup(d) \/ UNCHANGED <<senders, sid, reader, cpc>>
             \/ Answered(d) \/ (Leave(d) /\ cpc[d] # "new")
             \/ SendData(d) \/ Receive(d)
  BY <1>7 DEF Actions, ChannelClosed, Timeout, Close, Listens, TaskWrites,
     TaskDrained, TaskReads, TaskEof, client
<1>8. CASE Deliver \/ ExitStep \/ Break
  BY <1>5, <1>8 DEF Deliver, Break, ExitStep, Connected, Refused, HandleBegin,
     HandleData, HandleEnd, LoopEnds, client
<1>9. CASE \E d \in Conn : Actions(d)
  BY <1>1, <1>2, <1>4, <1>5, <1>7, <1>9
<1>10. QED
  BY <1>6, <1>8, <1>9, NextIs

\* The exit's end of it.
LEMMA ExitLifeNext ==
    ASSUME TypeInv, LifeInv, Next, NEW c \in Conn
    PROVE  /\ task'[c] = "none" => written'[c] = <<>> /\ read'[c] = 0
           /\ task'[c] # "run" => queue'[c] = <<>>
<1>0. Life(c)
  BY DEF LifeInv
<1>t. /\ task \in [Conn -> {"none", "run", "drained", "eof", "failed"}]
      /\ queue \in [Conn -> Seq(Piece)] /\ written \in [Conn -> Seq(Piece)]
      /\ read \in [Conn -> Nat]
  BY DEF TypeInv, Scalars, Contents
<1>1. ASSUME NEW d \in Conn,
             TaskWrites(d) \/ TaskDrained(d) \/ TaskReads(d) \/ TaskEof(d)
      PROVE  /\ task[d] = "run"
             /\ \A e \in Conn : e # d => /\ task'[e] = task[e]
                                         /\ written'[e] = written[e]
                                         /\ read'[e] = read[e]
                                         /\ queue'[e] = queue[e]
  BY <1>t, <1>1 DEF TaskWrites, TaskDrained, TaskReads, TaskEof, Ends
<1>2. CASE HandleData
  <2>1. \/ queue'[c] = queue[c]
        \/ task[c] = "run"
    <3>1. CASE queue' = queue
      BY <3>1
    <3>2. ASSUME NEW d, task[d] = "run", NEW x,
                 queue' = [queue EXCEPT ![d] = x]
          PROVE  queue'[c] = queue[c] \/ task[c] = "run"
      BY <1>t, <3>2
    <3>3. QED
      BY <1>2, <3>1, <3>2 DEF HandleData
  <2>2. UNCHANGED <<task, written, read>>
    BY <1>2 DEF HandleData
  <2>3. QED
    BY <1>0, <2>1, <2>2 DEF Life
<1>3. CASE UNCHANGED <<written, read, queue>> /\ ~HandleData
  BY <1>0, <1>3, TaskMoves DEF Life
<1>4. QED
  BY <1>0, <1>1, <1>2, <1>3, NextIs, TaskMoves
     DEF Actions, ExitStep, Open, Answered, ChannelClosed, Timeout, Close,
         Leave, SendData, Receive, Cleanup, Deliver, ReaderEnds,
         Break, Connected, Refused, HandleBegin, HandleData, HandleEnd,
         LoopEnds, exit, Life

LEMMA LifeNext ==
    ASSUME TypeInv, TypeInv', IdInv, IdInv', LifeInv, Next PROVE LifeInv'
  BY BeginsNext, ConnectedNext, RxConnectedNext, ClientLifeNext,
     RegisteredNext, ExitLifeNext DEF LifeInv, Life, Owns

-----------------------------------------------------------------------------
(* From the SOCKS client to its destination.                               *)

Handled(c) == Len(written[c]) + Len(queue[c])

\* What the exit has not handled yet of stream sid[c]: all that was sent
\* unless the circuit broke, and certainly all that was sent before its END.
Unhandled(c) ==
    \E z \in Nat : /\ Handled(c) <= z /\ z <= sent[c]
                   /\ Window(fwd, sid[c], c, Handled(c), z)
                   /\ ~broken \/ HasEnd(fwd, sid[c]) => z = sent[c]

Up(c) ==
    /\ \A n \in 1 .. Len(written[c]) : written[c][n] = <<c, n>>
    /\ Len(written[c]) <= sent[c]
    /\ EndsLast(fwd, sid[c])
    /\ HasEnd(fwd, sid[c]) => cpc[c] = "done"
    /\ task[c] = "none" =>
          \A p \in 1 .. Len(fwd) : ~IsData(fwd[p], sid[c])
    /\ task[c] = "run" =>
          /\ \A n \in 1 .. Len(queue[c]) :
                queue[c][n] = <<c, Len(written[c]) + n>>
          /\ Unhandled(c)
          /\ streams[sid[c]] # c => cpc[c] = "done" /\ Handled(c) = sent[c]
    /\ task[c] = "drained" => cpc[c] = "done" /\ Len(written[c]) = sent[c]

UpInv == \A c \in Conn : cpc[c] # "new" => Up(c)

LEMMA UpInit == Init => UpInv
  BY DEF Init, UpInv

\* Nothing carries the id of a stream that is not open yet.
LEMMA IdIsNew ==
    ASSUME TypeInv, IdInv', Next, NEW c \in Conn, cpc[c] = "new",
           cpc'[c] # "new"
    PROVE  /\ \A p \in 1 .. Len(fwd) : fwd[p].id # sid'[c]
           /\ \A p \in 1 .. Len(bwd) : bwd[p].id # sid'[c]
<1>1. ASSUME NEW i \in Id, NEW d \in Conn, Owns(d, i) PROVE i # sid'[c]
  <2>1. SUFFICES ASSUME i = sid'[c] PROVE FALSE
    OBVIOUS
  <2>2. Owns(c, i)'
    BY <2>1 DEF Owns
  <2>3. c = d
    BY <1>1, <2>2, GrowsNext, OwnerStays
  <2>4. QED
    BY <1>1, <2>3 DEF Owns
<1>2. ASSUME NEW w \in FwdCell \cup BwdCell PROVE w.id # sid'[c]
  <2>1. w.id \in Id /\ \E d \in Conn : Owns(d, w.id)
    BY DEF FwdCell, BwdCell, Word
  <2>2. QED
    BY <1>1, <2>1
<1>3. /\ \A p \in 1 .. Len(fwd) : fwd[p] \in FwdCell
      /\ \A p \in 1 .. Len(bwd) : bwd[p] \in BwdCell
  BY ElementOfSeq DEF TypeInv, Contents
<1>4. QED
  BY <1>2, <1>3

LEMMA OpensIs ==
    ASSUME TypeInv, Next, NEW c \in Conn, cpc[c] = "new", cpc'[c] # "new"
    PROVE  Open(c)
<1>1. \A d \in Conn : cpc[d] # "new" /\ cpc' = [cpc EXCEPT ![d] = "done"]
                        => cpc'[c] = cpc[c]
  BY DEF TypeInv, Scalars
<1>2. ASSUME NEW d \in Conn, NEW l, cpc[d] # "new", cpc' = [cpc EXCEPT ![d] = l]
      PROVE  cpc'[c] = cpc[c]
  BY <1>2 DEF TypeInv, Scalars
<1>3. ASSUME NEW d \in Conn, Open(d), d # c PROVE cpc'[c] = cpc[c]
  BY <1>3 DEF Open, Goto, TypeInv, Scalars
<1>4. cpc' = cpc => cpc'[c] = cpc[c]
  OBVIOUS
<1>5. ASSUME NEW d \in Conn, Actions(d)
      PROVE  \/ Open(d) \/ cpc' = cpc
             \/ \E l : cpc[d] # "new" /\ cpc' = [cpc EXCEPT ![d] = l]
  BY <1>5
     DEF Actions, Answered, ChannelClosed, Timeout, Close, Listens, Leave,
         SendData, Receive, Cleanup, Goto, TaskWrites, TaskDrained, TaskReads,
         TaskEof, client
<1>6. CASE Deliver \/ ReaderEnds \/ ExitStep \/ Break
  BY <1>6
     DEF Deliver, ReaderEnds, Break, ExitStep, Connected, Refused,
         HandleBegin, HandleData, HandleEnd, LoopEnds, client
<1>7. QED
  BY <1>2, <1>3, <1>4, <1>5, <1>6, NextIs

LEMMA UpOpens ==
    ASSUME TypeInv, TypeInv', IdInv, IdInv', LifeInv, Next, NEW c \in Conn,
           cpc[c] = "new", cpc'[c] # "new"
    PROVE  Up(c)'
<1>1. Open(c)
  BY OpensIs
<1>2. PICK i \in Id : i = sid'[c]
  BY DEF TypeInv, Scalars
<1>3. \A p \in 1 .. Len(fwd) : fwd[p].id # i
  BY <1>2, IdIsNew
<1>4. \A p \in 1 .. Len(fwd') : fwd'[p].id = i => fwd'[p].cmd = "BEGIN"
  <2>1. CASE fwd' = fwd
    BY <1>3, <2>1
  <2>2. PICK w : w = Cell("BEGIN", nextId, c)
    OBVIOUS
  <2>3. CASE fwd' = Append(fwd, w)
    <3>1. /\ Len(fwd) \in Nat /\ Len(fwd') = Len(fwd) + 1
          /\ \A p \in 1 .. Len(fwd') :
                fwd'[p] = IF p = Len(fwd) + 1 THEN w ELSE fwd[p]
      BY <2>3 DEF TypeInv, Contents
    <3>2. w.cmd = "BEGIN"
      BY <2>2 DEF Cell
    <3>3. QED
      BY <1>3, <3>1, <3>2
  <2>4. QED
    BY <1>1, <2>1, <2>2, <2>3 DEF Open, Put
<1>5. /\ written' = written /\ task' = task /\ sent' = sent
      /\ task[c] = "none" /\ written[c] = <<>> /\ sent[c] = 0
  BY <1>1 DEF Open, exit, LifeInv, Life, TypeInv, Owners
<1>6. /\ EndsLast(fwd', i) /\ ~HasEnd(fwd', i)
      /\ \A p \in 1 .. Len(fwd') : ~IsData(fwd'[p], i)
  BY <1>4 DEF EndsLast, HasEnd, IsData
<1>7. QED
  BY <1>2, <1>5, <1>6 DEF Up

\* Steps that leave the stream's state at the exit as it is.
Kept(c) ==
    /\ written'[c] = written[c] /\ queue'[c] = queue[c] /\ task'[c] = task[c]
    /\ sent'[c] = sent[c] /\ sid'[c] = sid[c]
    /\ streams'[sid[c]] = c <=> streams[sid[c]] = c
    /\ broken => broken'
    /\ cpc[c] = "done" => cpc'[c] = "done"

LEMMA UpKept ==
    ASSUME TypeInv, NEW c \in Conn, Up(c), Kept(c), fwd' = fwd
    PROVE  Up(c)'
<1>1. Handled(c)' = Handled(c)
  BY DEF Kept, Handled
<1>2. Unhandled(c) => Unhandled(c)'
  BY <1>1 DEF Unhandled, Kept
<1>3. QED
  BY <1>1, <1>2 DEF Up, Kept

LEMMA HandledType ==
    ASSUME TypeInv, NEW c \in Conn
    PROVE  /\ Handled(c) \in Nat /\ sent[c] \in Nat
           /\ Len(written[c]) \in Nat /\ Len(queue[c]) \in Nat
  BY LenProperties DEF TypeInv, Scalars, Contents, Handled

\* A cell that is not DATA of this stream is written.
LEMMA UpIgnores ==
    ASSUME TypeInv, NEW c \in Conn, Up(c), Kept(c), broken' = broken,
           NEW S, fwd \in Seq(S), NEW w \in S, fwd' = Append(fwd, w),
           ~IsData(w, sid[c]),
           w.cmd = "END" /\ w.id = sid[c] => ~broken /\ cpc'[c] = "done"
    PROVE  Up(c)'
<1>1. Handled(c)' = Handled(c) /\ Handled(c) \in Nat
  BY HandledType DEF Kept, Handled
<1>2. PICK i : i = sid[c]
  OBVIOUS
<1>3. /\ EndsLast(fwd', i)
      /\ HasEnd(fwd', i) => HasEnd(fwd, i) \/ (w.cmd = "END" /\ w.id = i)
  BY <1>2, EndsAppend DEF Up
<1>4. ASSUME Unhandled(c) PROVE Unhandled(c)'
  <2>1. PICK z \in Nat :
           /\ Handled(c) <= z /\ z <= sent[c]
           /\ Window(fwd, i, c, Handled(c), z)
           /\ ~broken \/ HasEnd(fwd, i) => z = sent[c]
    BY <1>2, <1>4 DEF Unhandled
  <2>2. Window(fwd', i, c, Handled(c), z)
    BY <1>1, <1>2, <2>1, WindowIgnores
  <2>3. ~broken' \/ HasEnd(fwd', i) => z = sent'[c]
    BY <1>2, <1>3, <2>1 DEF Kept
  <2>4. QED
    BY <1>1, <1>2, <2>1, <2>2, <2>3 DEF Unhandled, Kept
<1>5. (\A p \in 1 .. Len(fwd) : ~IsData(fwd[p], i)) =>
         \A p \in 1 .. Len(fwd') : ~IsData(fwd'[p], i)
  <2>1. /\ Len(fwd) \in Nat /\ Len(fwd') = Len(fwd) + 1
        /\ \A p \in 1 .. Len(fwd') :
              fwd'[p] = IF p = Len(fwd) + 1 THEN w ELSE fwd[p]
    BY AppendAt
  <2>2. QED
    BY <1>2, <2>1
<1>6. QED
  BY <1>1, <1>2, <1>3, <1>4, <1>5 DEF Up, Kept

\* The exit takes a cell that is neither DATA nor END of this stream.
LEMMA UpSkips ==
    ASSUME TypeInv, NEW c \in Conn, Up(c), Kept(c),
           fwd # <<>>, fwd' = Tail(fwd), ~IsData(Head(fwd), sid[c])
    PROVE  Up(c)'
<1>1. Handled(c)' = Handled(c) /\ Handled(c) \in Nat
  BY HandledType DEF Kept, Handled
<1>2. PICK i : i = sid[c]
  OBVIOUS
<1>3. fwd \in Seq(FwdCell)
  BY DEF TypeInv, Contents
<1>4. EndsLast(fwd', i) /\ (HasEnd(fwd', i) => HasEnd(fwd, i))
  BY <1>2, <1>3, EndsTail DEF Up
<1>5. ASSUME Unhandled(c) PROVE Unhandled(c)'
  <2>1. PICK z \in Nat :
           /\ Handled(c) <= z /\ z <= sent[c]
           /\ Window(fwd, i, c, Handled(c), z)
           /\ ~broken \/ HasEnd(fwd, i) => z = sent[c]
    BY <1>2, <1>5 DEF Unhandled
  <2>2. Window(fwd', i, c, Handled(c), z)
    BY <1>1, <1>2, <1>3, <2>1, WindowSkips
  <2>3. ~broken' \/ HasEnd(fwd', i) => z = sent'[c]
    BY <1>2, <1>4, <2>1 DEF Kept
  <2>4. QED
    BY <1>1, <1>2, <2>1, <2>2, <2>3 DEF Unhandled, Kept
<1>6. (\A p \in 1 .. Len(fwd) : ~IsData(fwd[p], i)) =>
         \A p \in 1 .. Len(fwd') : ~IsData(fwd'[p], i)
  <2>1. /\ Len(fwd) \in Nat \ {0} /\ Len(fwd') = Len(fwd) - 1
        /\ \A p \in 1 .. Len(fwd') : fwd'[p] = fwd[p + 1]
    BY <1>3, TailAt
  <2>2. \A p \in 1 .. Len(fwd') : p + 1 \in 1 .. Len(fwd)
    BY <2>1
  <2>3. QED
    BY <2>1, <2>2
<1>7. QED
  BY <1>1, <1>2, <1>4, <1>5, <1>6 DEF Up, Kept

LEMMA UpSends ==
    ASSUME TypeInv, LifeInv, NEW c \in Conn, Up(c), SendData(c)
    PROVE  Up(c)'
<1>1. /\ sent[c] \in Nat /\ sent'[c] = sent[c] + 1 /\ cpc[c] = "streaming"
      /\ UNCHANGED <<sid, written, queue, task, streams, broken>>
  BY DEF SendData, exit, TypeInv, Scalars
<1>2. task[c] # "none"
  BY <1>1 DEF LifeInv, Life
<1>3. ~HasEnd(fwd, sid[c]) /\ task[c] # "drained"
  BY <1>1 DEF Up
<1>4. Handled(c)' = Handled(c) /\ Handled(c) \in Nat
  BY <1>1, HandledType DEF Handled
<1>5. PICK i : i = sid[c]
  OBVIOUS
<1>6. PICK w \in FwdCell' : w = Cell("DATA", i, <<c, sent[c] + 1>>)
  BY <1>5, DataCell
<1>7. /\ w.cmd = "DATA" /\ w.id = i /\ w.data = <<c, sent[c] + 1>>
      /\ fwd' = IF broken THEN fwd ELSE Append(fwd, w)
  BY <1>5, <1>6 DEF SendData, Send, Put, Cell
<1>8. fwd \in Seq(FwdCell')
  <2>1. Next
    BY DEF Next
  <2>2. QED
    BY <2>1, GrowsNext, CellsGrow, SeqGrows DEF TypeInv, Contents
<1>9. EndsLast(fwd', i) /\ ~HasEnd(fwd', i)
  <2>1. PICK S : S = FwdCell'
    OBVIOUS
  <2>2. CASE broken
    BY <1>3, <1>5, <1>7, <2>2 DEF Up
  <2>3. CASE ~broken
    <3>1. /\ EndsLast(Append(fwd, w), i)
          /\ HasEnd(Append(fwd, w), i) =>
                HasEnd(fwd, i) \/ (w.cmd = "END" /\ w.id = i)
      BY <1>3, <1>5, <1>8, <2>1, EndsAppend DEF Up
    <3>2. QED
      BY <1>3, <1>5, <1>7, <2>3, <3>1
  <2>4. QED
    BY <2>2, <2>3
<1>10. ASSUME task[c] = "run" PROVE Unhandled(c)'
  <2>1. PICK z \in Nat :
           /\ Handled(c) <= z /\ z <= sent[c]
           /\ Window(fwd, i, c, Handled(c), z)
           /\ ~broken \/ HasEnd(fwd, i) => z = sent[c]
    BY <1>5, <1>10 DEF Up, Unhandled
  <2>2. CASE broken
    BY <1>1, <1>4, <1>5, <1>7, <1>9, <2>1, <2>2 DEF Unhandled
  <2>3. CASE ~broken
    <3>1. PICK S : S = FwdCell'
      OBVIOUS
    <3>2. Window(Append(fwd, w), i, c, Handled(c), z + 1)
      <4>1. IsData(w, i) /\ w.data = <<c, z + 1>>
        BY <1>7, <2>1, <2>3 DEF IsData
      <4>2. fwd \in Seq(S) /\ w \in S
        BY <1>8, <3>1
      <4>3. QED
        BY <1>4, <2>1, <4>1, <4>2, WindowAdds
    <3>3. z = sent[c] /\ fwd' = Append(fwd, w)
      BY <1>7, <2>1, <2>3
    <3>4. /\ z + 1 \in Nat /\ Handled(c)' <= z + 1 /\ z + 1 <= sent'[c]
          /\ Window(fwd', i, c, Handled(c)', z + 1)
          /\ z + 1 = sent'[c]
      BY <1>1, <1>4, <2>1, <3>2, <3>3
    <3>5. QED
      BY <1>1, <1>5, <3>4 DEF Unhandled
  <2>4. QED
    BY <2>2, <2>3
<1>11. task[c] = "run" => streams[sid[c]] = c
  BY <1>1 DEF Up
<1>12. Len(written[c]) \in Nat /\ Len(written[c]) <= sent'[c]
  BY <1>1, HandledType DEF Up
<1>13. QED
  BY <1>1, <1>2, <1>3, <1>5, <1>9, <1>10, <1>11, <1>12 DEF Up

LEMMA UpData ==
    ASSUME TypeInv, IdInv, LifeInv, NEW c \in Conn, Up(c), cpc[c] # "new",
           HandleData, Head(fwd).id = sid[c]
    PROVE  Up(c)'
<1>1. PICK w : w = Head(fwd)
  OBVIOUS
<1>2. PICK i \in Id : i = sid[c]
  BY DEF TypeInv, Scalars
<1>3. /\ fwd # <<>> /\ fwd' = Tail(fwd) /\ fwd \in Seq(FwdCell)
      /\ IsData(w, i) /\ w.id = i
      /\ UNCHANGED <<cpc, sid, sent, written, task, streams, broken>>
  BY <1>1, <1>2, TakesHead DEF HandleData, client, TypeInv, Contents, IsData
<1>4. w = fwd[1] /\ 1 \in 1 .. Len(fwd)
  BY <1>1, <1>3, TailAt
<1>5. task[c] # "none"
  BY <1>2, <1>3, <1>4 DEF Up
<1>6. EndsLast(fwd', i) /\ (HasEnd(fwd', i) => HasEnd(fwd, i))
  BY <1>2, <1>3, EndsTail DEF Up
<1>7. /\ Handled(c) \in Nat /\ sent[c] \in Nat
      /\ Len(written[c]) \in Nat /\ Len(queue[c]) \in Nat
      /\ queue \in [Conn -> Seq(Piece)] /\ queue[c] \in Seq(Piece)
  BY HandledType DEF TypeInv, Contents
<1>8. CASE task[c] # "run"
  BY <1>2, <1>3, <1>5, <1>6, <1>8 DEF Up
<1>9. CASE task[c] = "run"
  <2>1. PICK z \in Nat :
           /\ Handled(c) <= z /\ z <= sent[c]
           /\ Window(fwd, i, c, Handled(c), z)
           /\ ~broken \/ HasEnd(fwd, i) => z = sent[c]
    BY <1>2, <1>9 DEF Up, Unhandled
  <2>2. /\ Handled(c) + 1 <= z /\ w.data = <<c, Handled(c) + 1>>
        /\ Window(fwd', i, c, Handled(c) + 1, z)
    BY <1>1, <1>3, <1>7, <2>1, WindowTakes
  <2>3. streams[i] = c
    BY <1>2, <1>7, <1>9, <2>1, <2>2 DEF Up
  <2>4. queue' = [queue EXCEPT ![c] = Append(@, w.data)]
    BY <1>1, <1>3, <1>9, <2>3, Parameters DEF HandleData
  <2>5. w.data \in Piece
    BY <1>1, <1>3, TakesHead DEF HandleData, FwdCell
  <2>6. /\ queue'[c] = Append(queue[c], w.data)
        /\ Len(queue'[c]) = Len(queue[c]) + 1
        /\ \A n \in 1 .. Len(queue'[c]) :
              queue'[c][n] = IF n = Len(queue[c]) + 1 THEN w.data
                             ELSE queue[c][n]
    BY <1>7, <2>4, <2>5, AppendAt
  <2>7. /\ Handled(c)' = Handled(c) + 1 /\ Len(written'[c]) = Len(written[c])
        /\ Handled(c) = Len(written[c]) + Len(queue[c])
    <3>1. Handled(c)' = Len(written'[c]) + Len(queue'[c])
      BY DEF Handled
    <3>2. written'[c] = written[c]
      BY <1>3
    <3>3. Handled(c) = Len(written[c]) + Len(queue[c])
      BY DEF Handled
    <3>4. PICK m \in Nat : m = Len(written[c])
      BY <1>7
    <3>5. PICK n \in Nat : n = Len(queue[c])
      BY <1>7
    <3>6. Handled(c)' = m + (n + 1) /\ Handled(c) = m + n
      BY <2>6, <3>1, <3>2, <3>3, <3>4, <3>5
    <3>7. m + (n + 1) = (m + n) + 1
      OBVIOUS
    <3>8. QED
      BY <3>2, <3>3, <3>6, <3>7
  <2>8. Unhandled(c)'
    BY <1>2, <1>3, <1>6, <2>1, <2>2, <2>7 DEF Unhandled
  <2>9. \A n \in 1 .. Len(queue'[c]) :
           queue'[c][n] = <<c, Len(written'[c]) + n>>
    <3> SUFFICES ASSUME NEW n \in 1 .. Len(queue'[c])
                 PROVE  queue'[c][n] = <<c, Len(written'[c]) + n>>
      OBVIOUS
    <3>1. CASE n = Len(queue[c]) + 1
      <4>1. PICK m \in Nat : m = Len(written[c])
        BY <1>7
      <4>2. PICK k \in Nat : k = Len(queue[c])
        BY <1>7
      <4>3. Handled(c) = m + k /\ n = k + 1 /\ Len(written'[c]) = m
        BY <2>7, <3>1, <4>1, <4>2
      <4>4. (m + k) + 1 = m + (k + 1)
        OBVIOUS
      <4>5. QED
        BY <2>2, <2>6, <3>1, <4>3, <4>4
    <3>2. CASE n # Len(queue[c]) + 1
      <4>1. n \in 1 .. Len(queue[c])
        BY <1>7, <2>6, <3>2
      <4>2. QED
        BY <1>3, <1>9, <2>6, <3>2, <4>1 DEF Up
    <3>3. QED
      BY <3>1, <3>2
  <2>10. QED
    BY <1>2, <1>3, <1>6, <1>9, <2>3, <2>8, <2>9 DEF Up
<1>10. QED
  BY <1>8, <1>9

LEMMA UpEnd ==
    ASSUME TypeInv, NEW c \in Conn, Up(c), cpc[c] # "new",
           HandleEnd, Head(fwd).id = sid[c]
    PROVE  Up(c)'
<1>1. PICK i \in Id : i = sid[c]
  BY DEF TypeInv, Scalars
<1>2. /\ fwd # <<>> /\ fwd' = Tail(fwd) /\ fwd \in Seq(FwdCell)
      /\ Head(fwd).cmd = "END" /\ Head(fwd).id = i
      /\ streams' = [streams EXCEPT ![i] = None]
      /\ UNCHANGED <<cpc, sid, sent, written, queue, task, broken>>
  BY <1>1, TakesHead DEF HandleEnd, client, TypeInv, Contents
<1>3. /\ Len(fwd) \in Nat \ {0} /\ Head(fwd) = fwd[1] /\ 1 \in 1 .. Len(fwd)
      /\ Len(fwd') = Len(fwd) - 1
      /\ \A p \in 1 .. Len(fwd') : fwd'[p] = fwd[p + 1]
  BY <1>2, TailAt
<1>4. HasEnd(fwd, i) /\ cpc[c] = "done"
  BY <1>1, <1>2, <1>3 DEF HasEnd, Up
<1>5. /\ EndsLast(fwd', i)
      /\ \A p \in 1 .. Len(fwd') : ~IsData(fwd'[p], i)
  BY <1>1, <1>2, EndsTail DEF Up
<1>6. \A p \in 1 .. Len(fwd) : ~IsData(fwd[p], i)
  <2> SUFFICES ASSUME NEW p \in 1 .. Len(fwd) PROVE ~IsData(fwd[p], i)
    OBVIOUS
  <2>1. CASE p = 1
    BY <1>2, <1>3, <2>1 DEF IsData
  <2>2. CASE p # 1
    <3>1. p - 1 \in 1 .. Len(fwd') /\ (p - 1) + 1 = p
      BY <1>3, <2>2
    <3>2. fwd'[p - 1] = fwd[p]
      BY <1>3, <3>1
    <3>3. QED
      BY <1>5, <3>1, <3>2
  <2>3. QED
    BY <2>1, <2>2
<1>7. Handled(c) \in Nat /\ sent[c] \in Nat /\ Handled(c)' = Handled(c)
  BY <1>2, HandledType DEF Handled
<1>8. ASSUME task[c] = "run" PROVE Handled(c) = sent[c] /\ Unhandled(c)'
  <2>1. PICK z \in Nat :
           /\ Handled(c) <= z /\ z <= sent[c]
           /\ Window(fwd, i, c, Handled(c), z)
           /\ ~broken \/ HasEnd(fwd, i) => z = sent[c]
    BY <1>1, <1>8 DEF Up, Unhandled
  <2>2. z = Handled(c) /\ z = sent[c]
    BY <1>4, <1>6, <1>7, <2>1, WindowEmpty
  <2>3. Window(fwd', i, c, Handled(c), Handled(c))
    BY <1>5, <1>7, WindowEmpty
  <2>4. QED
    BY <1>1, <1>2, <1>7, <2>2, <2>3 DEF Unhandled
<1>9. QED
  BY <1>1, <1>2, <1>4, <1>5, <1>7, <1>8 DEF Up

LEMMA UpConnects ==
    ASSUME TypeInv, LifeInv, NEW c \in Conn, Up(c), cpc[c] # "new",
           Connected, begin.data = c, task'[c] = "run", task[c] = "none"
    PROVE  Up(c)'
<1>1. PICK i \in Id : i = sid[c] /\ begin.id = i
  BY BeginIs DEF Connected, Owns
<1>2. /\ UNCHANGED <<cpc, sid, sent, written, queue, broken, fwd>>
      /\ streams' = [streams EXCEPT ![i] = c]
  BY <1>1 DEF Connected, client
<1>3. written[c] = <<>> /\ queue[c] = <<>> /\ sent[c] = 0
  BY DEF LifeInv, Life, TypeInv, Scalars
<1>4. Handled(c)' = 0
  BY <1>2, <1>3 DEF Handled
<1>5. Window(fwd, i, c, 0, 0)
  BY <1>1, WindowEmpty DEF Up
<1>6. Unhandled(c)'
  BY <1>1, <1>2, <1>3, <1>4, <1>5 DEF Unhandled
<1>7. streams'[sid'[c]] = c
  BY <1>1, <1>2 DEF TypeInv, Scalars
<1>8. QED
  BY <1>2, <1>3, <1>6, <1>7 DEF Up

LEMMA UpWrites ==
    ASSUME TypeInv, NEW c \in Conn, Up(c), TaskWrites(c), task' = task
    PROVE  Up(c)'
<1>1. /\ queue[c] # <<>> /\ task[c] = "run"
      /\ UNCHANGED <<cpc, sid, sent, fwd, broken, streams>>
  BY DEF TaskWrites, client
<1>2. /\ queue' = [queue EXCEPT ![c] = Tail(@)]
      /\ written' = [written EXCEPT ![c] = Append(@, Head(queue[c]))]
  <2>1. task \in [Conn -> {"none", "run", "drained", "eof", "failed"}]
    BY DEF TypeInv, Scalars
  <2>2. ~Ends(c, "failed")
    BY <1>1, <2>1 DEF Ends
  <2>3. QED
    BY <2>2 DEF TaskWrites
<1>3. /\ written[c] \in Seq(Piece) /\ queue[c] \in Seq(Piece)
      /\ written'[c] = Append(written[c], Head(queue[c]))
      /\ queue'[c] = Tail(queue[c])
  BY <1>2 DEF TypeInv, Contents
<1>4. /\ Len(queue[c]) \in Nat \ {0} /\ Head(queue[c]) = queue[c][1]
      /\ Head(queue[c]) \in Piece
      /\ Len(queue'[c]) = Len(queue[c]) - 1
      /\ \A n \in 1 .. Len(queue'[c]) : queue'[c][n] = queue[c][n + 1]
  BY <1>1, <1>3, TailAt
<1>5. /\ Len(written[c]) \in Nat /\ Len(written'[c]) = Len(written[c]) + 1
      /\ \A n \in 1 .. Len(written'[c]) :
            written'[c][n] = IF n = Len(written[c]) + 1 THEN Head(queue[c])
                             ELSE written[c][n]
  BY <1>3, <1>4, AppendAt
<1>6. /\ Handled(c)' = Handled(c) /\ Handled(c) \in Nat
      /\ Len(written'[c]) <= Handled(c)
  <2>1. /\ Handled(c)' = Len(written'[c]) + Len(queue'[c])
        /\ Handled(c) = Len(written[c]) + Len(queue[c])
    BY DEF Handled
  <2>2. PICK m \in Nat : m = Len(written[c])
    BY <1>5
  <2>3. PICK n \in Nat \ {0} : n = Len(queue[c])
    BY <1>4
  <2>4. Len(written'[c]) = m + 1 /\ Len(queue'[c]) = n - 1
    BY <1>4, <1>5, <2>2, <2>3
  <2>5. Handled(c)' = (m + 1) + (n - 1) /\ Handled(c) = m + n
    BY <2>1, <2>2, <2>3, <2>4
  <2>6. (m + 1) + (n - 1) = m + n /\ m + n \in Nat /\ m + 1 <= m + n
    OBVIOUS
  <2>7. QED
    BY <2>4, <2>5, <2>6
<1>7. Head(queue[c]) = <<c, Len(written[c]) + 1>>
  BY <1>1, <1>4 DEF Up
<1>8. \A n \in 1 .. Len(written'[c]) : written'[c][n] = <<c, n>>
  <2> SUFFICES ASSUME NEW n \in 1 .. Len(written'[c])
               PROVE  written'[c][n] = <<c, n>>
    OBVIOUS
  <2>1. n = Len(written[c]) + 1 \/ n \in 1 .. Len(written[c])
    BY <1>5
  <2>2. QED
    BY <1>5, <1>7, <2>1 DEF Up
<1>9. \A n \in 1 .. Len(queue'[c]) :
         queue'[c][n] = <<c, Len(written'[c]) + n>>
  <2> SUFFICES ASSUME NEW n \in 1 .. Len(queue'[c])
               PROVE  queue'[c][n] = <<c, Len(written'[c]) + n>>
    OBVIOUS
  <2>1. n + 1 \in 1 .. Len(queue[c])
    BY <1>4
  <2>2. queue[c][n + 1] = <<c, Len(written[c]) + (n + 1)>>
    BY <1>1, <2>1 DEF Up
  <2>3. Len(written[c]) + (n + 1) = Len(written'[c]) + n
    <3>1. PICK m \in Nat : m = Len(written[c]) /\ Len(written'[c]) = m + 1
      BY <1>5
    <3>2. n \in Nat
      BY <1>4
    <3>3. m + (n + 1) = (m + 1) + n
      BY <3>2
    <3>4. QED
      BY <3>1, <3>3
  <2>4. QED
    BY <1>4, <2>2, <2>3
<1>10. Unhandled(c) => Unhandled(c)'
  BY <1>1, <1>6 DEF Unhandled
<1>11. Unhandled(c)
  BY <1>1 DEF Up
<1>12. Len(written'[c]) <= sent'[c]
  <2>1. PICK z \in Nat : Handled(c) <= z /\ z <= sent[c]
    BY <1>11 DEF Unhandled
  <2>2. /\ sent[c] \in Nat /\ sent'[c] = sent[c]
        /\ Len(written'[c]) \in Nat /\ Len(written'[c]) <= Handled(c)
    BY <1>1, <1>5, <1>6 DEF TypeInv, Scalars
  <2>3. QED
    BY <1>6, <2>1, <2>2
<1>13. QED
  BY <1>1, <1>6, <1>8, <1>9, <1>10, <1>11, <1>12 DEF Up

\* The task ends, and if it is because the stream was dropped it has written
\* everything.
LEMMA UpStops ==
    ASSUME TypeInv, NEW c \in Conn, Up(c), cpc[c] # "new", task[c] = "run",
           task'[c] \in {"drained", "eof", "failed"},
           task'[c] = "drained" => HangsUp(c), written' = written,
           UNCHANGED <<fwd, client, streams>>
    PROVE  Up(c)'
<1>1. UNCHANGED <<cpc, sid, sent>>
  BY DEF client
<1>2. ASSUME HangsUp(c) PROVE cpc[c] = "done" /\ Len(written[c]) = sent[c]
  <2>1. queue[c] = <<>> /\ streams[sid[c]] # c
    BY <1>2 DEF HangsUp, TypeInv, Scalars
  <2>2. Handled(c) = Len(written[c])
    <3>1. Len(queue[c]) = 0 /\ Len(written[c]) \in Nat
      BY <2>1, HandledType
    <3>2. QED
      BY <3>1 DEF Handled
  <2>3. QED
    BY <2>1, <2>2 DEF Up
<1>3. QED
  BY <1>1, <1>2 DEF Up

LEMMA UpNext ==
    ASSUME TypeInv, TypeInv', IdInv, IdInv', LifeInv, Next, NEW c \in Conn,
           cpc[c] # "new", Up(c)
    PROVE  Up(c)'
<1>1. /\ Grows /\ sid[c] \in Id /\ Owns(c, sid[c]) /\ cpc'[c] # "new"
      /\ sid'[c] = sid[c]
  BY GrowsNext DEF TypeInv, Scalars, Owns, Grows
<1>2. fwd \in Seq(FwdCell')
  BY <1>1, CellsGrow, SeqGrows DEF TypeInv, Contents
<1>3. \A d \in Conn : d # c => ~Owns(d, sid[c])
  BY <1>1, OneOwner
<1>4. CASE Kept(c) /\ fwd' = fwd
  BY <1>4, UpKept
<1>5. ASSUME NEW w \in FwdCell', Kept(c), fwd' = Put(fwd, w), broken' = broken,
             w.id = sid[c] => w.cmd = "END" /\ cpc'[c] = "done"
      PROVE  Up(c)'
  <2>1. CASE broken
    BY <1>4, <1>5, <2>1 DEF Put
  <2>2. CASE ~broken
    <3>1. fwd' = Append(fwd, w) /\ ~IsData(w, sid[c])
      BY <1>5, <2>2 DEF Put, IsData
    <3>2. PICK S : S = FwdCell'
      OBVIOUS
    <3>3. QED
      BY <1>2, <1>5, <2>2, <3>1, <3>2, UpIgnores
  <2>3. QED
    BY <2>1, <2>2
<1>6. ASSUME NEW d \in Conn, Open(d) PROVE Up(c)'
  <2>1. d # c /\ nextId \in Id
    BY <1>6 DEF Open, TypeInv, Scalars
  <2>2. cpc'[d] # "new" /\ sid'[d] = nextId
    BY <1>6 DEF Open, Goto, TypeInv, Scalars
  <2>3. nextId # sid[c]
    BY <1>1, <2>1, <2>2 DEF IdInv, Opened
  <2>4. Kept(c)
    BY <1>1, <1>6, <2>1 DEF Kept, Open, Goto, exit, TypeInv, Scalars
  <2>5. PICK w \in FwdCell' : w = Cell("BEGIN", nextId, d)
    BY <1>6, OpenCell
  <2>6. w.id = nextId
    BY <2>5 DEF Cell
  <2>7. QED
    BY <1>5, <1>6, <2>3, <2>4, <2>5, <2>6 DEF Open
<1>7. ASSUME NEW d \in Conn,
             Answered(d) \/ ChannelClosed(d) \/ Timeout(d) \/ Close(d) \/ Receive(d)
      PROVE  Up(c)'
  <2>1. /\ UNCHANGED <<sid, sent, fwd, broken, streams, task, queue, written>>
        /\ cpc' = cpc \/ \E l : cpc[d] # "done" /\ cpc' = [cpc EXCEPT ![d] = l]
    BY <1>7
       DEF Answered, ChannelClosed, Timeout, Close, Receive, Leave, Listens,
           Goto, exit
  <2>2. Kept(c)
    BY <2>1 DEF Kept, TypeInv, Scalars
  <2>3. QED
    BY <1>4, <2>1, <2>2
<1>8. ASSUME NEW d \in Conn, SendData(d) PROVE Up(c)'
  <2>1. CASE d = c
    BY <1>8, <2>1, UpSends
  <2>2. CASE d # c
    <3>1. Kept(c)
      BY <1>1, <1>8, <2>2 DEF Kept, SendData, Goto, exit, TypeInv, Scalars
    <3>2. PICK w \in FwdCell' : w = Cell("DATA", sid[d], <<d, sent[d] + 1>>)
      BY <1>8, DataCell
    <3>3. w.id = sid[d] /\ cpc[d] # "new" /\ fwd' = Put(fwd, w) /\ broken' = broken
      BY <1>8, <3>2 DEF Cell, SendData, Send
    <3>4. w.id # sid[c]
      BY <1>3, <2>2, <3>3 DEF Owns
    <3>5. QED
      BY <1>5, <3>1, <3>3, <3>4
  <2>3. QED
    BY <2>1, <2>2
<1>9. ASSUME NEW d \in Conn, Cleanup(d) PROVE Up(c)'
  <2>1. /\ cpc[d] = "leaving" /\ cpc' = [cpc EXCEPT ![d] = "done"]
        /\ UNCHANGED <<sid, sent, broken, streams, task, queue, written>>
    BY <1>9 DEF Cleanup, Goto, exit
  <2>2. Kept(c)
    BY <2>1 DEF Kept, TypeInv, Scalars
  <2>3. PICK w \in FwdCell' : w = Cell("END", sid[d], None)
    BY <1>9, EndCell
  <2>4. w.id = sid[d] /\ w.cmd = "END" /\ fwd' = Put(fwd, w)
    BY <1>9, <2>3 DEF Cell, Cleanup, EndsAlways, Send
  <2>5. w.id = sid[c] => cpc'[c] = "done"
    BY <1>3, <2>1, <2>4 DEF Owns, TypeInv, Scalars
  <2>6. QED
    BY <1>5, <2>1, <2>2, <2>4, <2>5
<1>10. ASSUME NEW d \in Conn,
              TaskWrites(d) \/ TaskDrained(d) \/ TaskReads(d) \/ TaskEof(d)
       PROVE  Up(c)'
  <2>1. /\ task[d] = "run" /\ UNCHANGED <<client, fwd, broken, streams>>
        /\ \/ /\ queue' = [queue EXCEPT ![d] = Tail(@)] /\ TaskWrites(d)
              /\ written' = [written EXCEPT ![d] = Append(@, Head(queue[d]))]
              /\ task' = task
           \/ UNCHANGED <<written, task, queue>>
           \/ \E l \in {"drained", "eof", "failed"} :
                 /\ Ends(d, l) /\ written' = written
                 /\ l = "drained" => HangsUp(d)
    BY <1>10 DEF TaskWrites, TaskDrained, TaskReads, TaskEof
  <2>2. CASE d # c
    <3>1. UNCHANGED <<cpc, sid, sent, streams, broken, fwd>>
      BY <2>1 DEF client
    <3>2. /\ written'[c] = written[c] /\ queue'[c] = queue[c]
          /\ task'[c] = task[c]
      BY <2>1, <2>2 DEF Ends, TypeInv, Scalars, Contents
    <3>3. QED
      BY <1>4, <3>1, <3>2 DEF Kept
  <2>3. CASE d = c
    <3>1. CASE UNCHANGED <<written, task, queue>>
      BY <1>4, <2>1, <3>1 DEF Kept, client
    <3>2. CASE TaskWrites(d) /\ task' = task
      BY <2>3, <3>2, UpWrites
    <3>3. ASSUME NEW l \in {"drained", "eof", "failed"}, Ends(d, l),
                 written' = written, l = "drained" => HangsUp(d)
          PROVE  Up(c)'
      <4>1. task'[c] = l
        BY <2>3, <3>3 DEF Ends, TypeInv, Scalars
      <4>2. QED
        BY <2>1, <2>3, <3>3, <4>1, UpStops
    <3>4. QED
      BY <2>1, <3>1, <3>2, <3>3
  <2>4. QED
    BY <2>2, <2>3
<1>11. CASE Deliver \/ ReaderEnds \/ Break \/ Refused \/ LoopEnds
  <2>1. /\ UNCHANGED <<cpc, sid, sent, fwd, streams, task, queue, written>>
        /\ broken => broken'
    BY <1>11 DEF Deliver, ReaderEnds, Break, Refused, LoopEnds, client, exit
  <2>2. QED
    BY <1>4, <2>1 DEF Kept
<1>12. CASE HandleBegin
  <2>1. /\ UNCHANGED <<cpc, sid, sent, streams, task, queue, written, broken>>
        /\ fwd # <<>> /\ fwd' = Tail(fwd) /\ ~IsData(Head(fwd), sid[c])
    BY <1>12, TakesHead DEF HandleBegin, client, IsData
  <2>2. QED
    BY <2>1, UpSkips DEF Kept
<1>13. CASE Connected
  <2>1. /\ begin.id \in Id /\ begin.data \in Conn /\ Owns(begin.data, begin.id)
        /\ UNCHANGED <<cpc, sid, sent, fwd, queue, written, broken>>
    BY <1>13, BeginIs DEF Connected, client
  <2>2. CASE UNCHANGED <<streams, task>>
    BY <1>4, <2>1, <2>2 DEF Kept
  <2>3. CASE /\ streams' = [streams EXCEPT ![begin.id] = begin.data]
             /\ task' = [task EXCEPT ![begin.data] = "run"]
    <3>1. CASE begin.data = c
      <4>1. Connecting(c) /\ task'[c] = "run"
        BY <1>13, <2>3, <3>1 DEF Connected, Connecting, TypeInv, Scalars
      <4>2. task[c] = "none"
        BY <4>1 DEF LifeInv, Life
      <4>3. QED
        BY <1>13, <3>1, <4>1, <4>2, UpConnects
    <3>2. CASE begin.data # c
      <4>1. begin.id # sid[c]
        BY <1>3, <2>1, <3>2
      <4>2. task'[c] = task[c] /\ streams'[sid[c]] = streams[sid[c]]
        BY <1>1, <2>1, <2>3, <3>2, <4>1 DEF TypeInv, Scalars
      <4>3. QED
        BY <1>4, <2>1, <4>2 DEF Kept
    <3>3. QED
      BY <3>1, <3>2
  <2>4. QED
    BY <1>13, <2>2, <2>3 DEF Connected
<1>14. CASE HandleData
  <2>1. CASE Head(fwd).id = sid[c]
    BY <1>14, <2>1, UpData
  <2>2. CASE Head(fwd).id # sid[c]
    <3>1. /\ Head(fwd).id \in Id /\ fwd # <<>> /\ fwd' = Tail(fwd)
          /\ UNCHANGED <<cpc, sid, sent, streams, task, written, broken>>
      BY <1>14, TakesHead DEF HandleData, client
    <3>2. streams[Head(fwd).id] # c
      BY <2>2, <3>1 DEF TypeInv, Owners, Owns
    <3>3. queue'[c] = queue[c]
      BY <1>14, <3>2 DEF HandleData, TypeInv, Contents
    <3>4. QED
      BY <2>2, <3>1, <3>3, UpSkips DEF Kept, IsData
  <2>3. QED
    BY <2>1, <2>2
<1>15. CASE HandleEnd
  <2>1. CASE Head(fwd).id = sid[c]
    BY <1>15, <2>1, UpEnd
  <2>2. CASE Head(fwd).id # sid[c]
    <3>1. /\ Head(fwd).id \in Id /\ fwd # <<>> /\ fwd' = Tail(fwd)
          /\ UNCHANGED <<cpc, sid, sent, queue, task, written, broken>>
          /\ streams' = [streams EXCEPT ![Head(fwd).id] = None]
      BY <1>15, TakesHead DEF HandleEnd, client
    <3>2. streams'[sid[c]] = streams[sid[c]]
      BY <1>1, <2>2, <3>1 DEF TypeInv, Scalars
    <3>3. QED
      BY <2>2, <3>1, <3>2, UpSkips DEF Kept, IsData
  <2>3. QED
    BY <2>1, <2>2
<1>16. QED
  BY <1>6, <1>7, <1>8, <1>9, <1>10, <1>11, <1>12, <1>13, <1>14, <1>15, NextIs
     DEF Actions, ExitStep

LEMMA UpInvNext ==
    ASSUME TypeInv, TypeInv', IdInv, IdInv', LifeInv, UpInv, Next PROVE UpInv'
<1> SUFFICES ASSUME NEW c \in Conn, cpc'[c] # "new" PROVE Up(c)'
  BY DEF UpInv
<1>1. CASE cpc[c] = "new"
  BY <1>1, UpOpens
<1>2. CASE cpc[c] # "new"
  BY <1>2, UpNext DEF UpInv
<1>3. QED
  BY <1>1, <1>2

LEMMA PiecesAt ==
    ASSUME NEW n \in [Conn -> Nat], NEW c \in Conn
    PROVE  /\ Pieces(n)[c] \in Seq({c} \X Nat) /\ Len(Pieces(n)[c]) = n[c]
           /\ \A k \in 1 .. n[c] : Pieces(n)[c][k] = <<c, k>>
<1>1. Pieces(n)[c] = [i \in 1 .. n[c] |-> <<c, i>>]
  BY DEF Pieces
<1>2. n[c] \in Nat /\ \A i \in 1 .. n[c] : <<c, i>> \in {c} \X Nat
  OBVIOUS
<1>3. QED
  BY <1>1, <1>2

\* One more piece.
LEMMA PiecesGrow ==
    ASSUME NEW n \in [Conn -> Nat], NEW c \in Conn
    PROVE  Pieces([n EXCEPT ![c] = @ + 1]) =
              [Pieces(n) EXCEPT ![c] = Append(@, <<c, n[c] + 1>>)]
<1> DEFINE m == [n EXCEPT ![c] = @ + 1]
           s == Pieces(n)[c]
           t == Append(s, <<c, n[c] + 1>>)
<1>1. m \in [Conn -> Nat] /\ m[c] = n[c] + 1 /\ n[c] \in Nat
  OBVIOUS
<1>2. \A d \in Conn \ {c} : m[d] = n[d]
  OBVIOUS
<1>3. /\ t \in Seq({c} \X Nat) /\ Len(t) = n[c] + 1
      /\ \A k \in 1 .. n[c] + 1 : t[k] = <<c, k>>
  <2>1. /\ s \in Seq({c} \X Nat) /\ Len(s) = n[c]
        /\ \A k \in 1 .. n[c] : s[k] = <<c, k>>
    BY PiecesAt
  <2>2. PICK S : S = {c} \X Nat
    OBVIOUS
  <2>3. PICK w \in S : w = <<c, n[c] + 1>>
    BY <1>1, <2>2
  <2> HIDE DEF s
  <2>4. /\ Append(s, w) \in Seq(S) /\ Len(Append(s, w)) = Len(s) + 1
        /\ \A k \in 1 .. Len(Append(s, w)) :
              Append(s, w)[k] = IF k = Len(s) + 1 THEN w ELSE s[k]
    BY <2>1, <2>2, AppendAt
  <2>5. \A k \in 1 .. n[c] + 1 : k = n[c] + 1 \/ k \in 1 .. n[c]
    BY <1>1
  <2>6. QED
    BY <2>1, <2>2, <2>3, <2>4, <2>5
<1>4. /\ Pieces(m)[c] \in Seq({c} \X Nat) /\ Len(Pieces(m)[c]) = n[c] + 1
      /\ \A k \in 1 .. n[c] + 1 : Pieces(m)[c][k] = <<c, k>>
  <2> HIDE DEF m
  <2>1. QED
    BY <1>1, PiecesAt
<1> HIDE DEF t
<1>5. Pieces(m)[c] = t
  <2>1. PICK S : S = {c} \X Nat
    OBVIOUS
  <2>2. PICK u \in Seq(S) : u = Pieces(m)[c]
    BY <1>4, <2>1
  <2>3. Len(u) = Len(t) /\ \A k \in 1 .. Len(u) : u[k] = t[k]
    BY <1>3, <1>4, <2>2
  <2>4. t \in Seq(S)
    BY <1>3, <2>1
  <2>5. u = t
    BY <2>3, <2>4, SeqEqual
  <2>6. QED
    BY <2>2, <2>5
<1> HIDE DEF m
<1>6. \A d \in Conn \ {c} : Pieces(m)[d] = Pieces(n)[d]
  BY <1>2 DEF Pieces
<1>7. Pieces(m) = [Pieces(n) EXCEPT ![c] = t]
  BY <1>5, <1>6 DEF Pieces
<1>8. QED
  BY <1>7 DEF m, t, s

\* What came out is all that went in.
LEMMA PiecesAll ==
    ASSUME NEW n \in [Conn -> Nat], NEW c \in Conn, NEW S, NEW s \in Seq(S),
           Len(s) = n[c], \A k \in 1 .. Len(s) : s[k] = <<c, k>>
    PROVE  s = Pieces(n)[c]
<1>1. /\ Pieces(n)[c] \in Seq({c} \X Nat) /\ Len(Pieces(n)[c]) = n[c]
      /\ \A k \in 1 .. n[c] : Pieces(n)[c][k] = <<c, k>>
  BY PiecesAt
<1>2. PICK T : T = S \cup ({c} \X Nat)
  OBVIOUS
<1>3. PICK t \in Seq(T) : t = Pieces(n)[c]
  BY <1>1, <1>2, SeqGrows
<1>4. s \in Seq(T)
  BY <1>2, SeqGrows
<1>5. Len(s) = Len(t) /\ \A k \in 1 .. Len(s) : s[k] = t[k]
  BY <1>1, <1>3
<1>6. s = t
  BY <1>4, <1>5, SeqEqual
<1>7. QED
  BY <1>3, <1>6

UpState ==
    [c \in Conn |-> CASE task[c] \in {"none", "run"} -> "open"
                      [] task[c] = "drained" -> "finished"
                      [] OTHER -> "aborted"]

LEMMA UploadStep ==
    ASSUME TypeInv, LifeInv, UpInv, Next
    PROVE  Upload!Next \/ UNCHANGED <<Pieces(sent), written, UpState>>
<1>1. /\ sent \in [Conn -> Nat] /\ written \in [Conn -> Seq(Piece)]
      /\ task \in [Conn -> {"none", "run", "drained", "eof", "failed"}]
  BY DEF TypeInv, Scalars, Contents
<1>2. CASE UNCHANGED <<sent, written, task>>
  BY <1>2 DEF UpState, Pieces
<1>3. ASSUME NEW c \in Conn, SendData(c) PROVE Upload!Next
  <2>1. /\ sent' = [sent EXCEPT ![c] = @ + 1] /\ UNCHANGED <<written, task>>
        /\ cpc[c] = "streaming" /\ sent[c] < MaxUp[c]
    BY <1>3 DEF SendData, exit
  <2>2. task[c] # "drained"
    BY <2>1 DEF UpInv, Up
  <2>3. UpState[c] # "finished" /\ UpState' = UpState
    BY <2>1, <2>2 DEF UpState
  <2>4. PICK p \in Piece : p = <<c, sent[c] + 1>>
    <3>1. sent[c] \in Nat /\ MaxUp[c] \in Nat
      BY <1>1, StreamsAssumption
    <3>2. sent[c] + 1 \in Nat \ {0} /\ sent[c] + 1 <= MaxUp[c]
      BY <2>1, <3>1
    <3>3. QED
      BY <3>2, Parameters
  <2>5. Pieces(sent)' = [Pieces(sent) EXCEPT ![c] = Append(@, p)]
    <3>1. Pieces(sent)' = Pieces(sent')
      BY DEF Pieces
    <3>2. QED
      BY <1>1, <2>1, <2>4, <3>1, PiecesGrow
  <2>6. Upload!Put(c, p)
    BY <2>1, <2>3, <2>5 DEF Upload!Put, UpState
  <2>7. QED
    BY <2>6 DEF Upload!Next
<1>4. ASSUME NEW c \in Conn, TaskWrites(c), written' # written
      PROVE  Upload!Next
  <2>1. /\ task[c] = "run" /\ queue[c] # <<>> /\ UNCHANGED <<sent, task>>
        /\ written' = [written EXCEPT ![c] = Append(@, Head(queue[c]))]
    BY <1>4 DEF TaskWrites, client
  <2>2. Up(c)
    BY <2>1 DEF UpInv, TypeInv, Owners
  <2>3. PICK m \in Nat : m = Len(written[c])
    BY <1>1
  <2>4. Head(queue[c]) = <<c, m + 1>> /\ m + 1 <= sent[c] /\ sent[c] \in Nat
    <3>1. /\ Len(queue[c]) \in Nat \ {0} /\ Head(queue[c]) = queue[c][1]
      BY <2>1, TailAt DEF TypeInv, Contents
    <3>2. PICK k \in Nat \ {0} : k = Len(queue[c])
      BY <3>1
    <3>3. 1 \in 1 .. Len(queue[c])
      BY <3>2
    <3>4. Head(queue[c]) = <<c, m + 1>>
      BY <2>1, <2>2, <2>3, <3>1, <3>3 DEF Up
    <3>5. Handled(c) = m + k /\ Handled(c) <= sent[c] /\ sent[c] \in Nat
      <4>1. PICK z \in Nat : Handled(c) <= z /\ z <= sent[c]
        BY <2>1, <2>2 DEF Up, Unhandled
      <4>2. Handled(c) = m + k /\ sent[c] \in Nat
        BY <1>1, <2>3, <3>2 DEF Handled
      <4>3. QED
        BY <4>1, <4>2
    <3>6. QED
      BY <3>4, <3>5
  <2>5. Len(Pieces(sent)[c]) = sent[c] /\ Pieces(sent)[c][m + 1] = <<c, m + 1>>
    <3>1. m + 1 \in 1 .. sent[c]
      BY <2>4
    <3>2. QED
      BY <1>1, <3>1, PiecesAt
  <2>6. Pieces(sent)' = Pieces(sent) /\ UpState' = UpState /\ UpState[c] = "open"
    BY <2>1 DEF Pieces, UpState
  <2>7. Len(written[c]) < Len(Pieces(sent)[c])
    BY <2>3, <2>4, <2>5
  <2>8. written' =
          [written EXCEPT ![c] = Append(@, Pieces(sent)[c][Len(@) + 1])]
    BY <2>1, <2>3, <2>4, <2>5
  <2>9. Upload!Take(c)
    BY <2>6, <2>7, <2>8 DEF Upload!Take, UpState
  <2>10. QED
    BY <2>9 DEF Upload!Next
<1>5. ASSUME NEW c \in Conn, task[c] = "run", UNCHANGED <<sent, written>>,
             NEW l \in {"drained", "eof", "failed"},
             task' = [task EXCEPT ![c] = l], l = "drained" => HangsUp(c)
      PROVE  Upload!Next
  <2>1. Pieces(sent)' = Pieces(sent) /\ UpState[c] = "open"
    BY <1>5 DEF Pieces, UpState
  <2>2. UpState' = [UpState EXCEPT ![c] =
                      IF l = "drained" THEN "finished" ELSE "aborted"]
    BY <1>1, <1>5 DEF UpState
  <2>3. CASE l = "drained"
    <3>1. Up(c) /\ queue[c] = <<>> /\ streams[sid[c]] # c
      BY <1>5, <2>3 DEF HangsUp, UpInv, TypeInv, Scalars, Owners
    <3>2. Len(written[c]) = sent[c]
      <4>1. Handled(c) = sent[c] /\ Len(queue[c]) = 0
        BY <1>5, <3>1 DEF Up
      <4>2. PICK m \in Nat : m = Len(written[c])
        BY <1>1
      <4>3. Handled(c) = m + 0
        BY <4>1, <4>2 DEF Handled
      <4>4. QED
        BY <4>1, <4>2, <4>3
    <3>3. written[c] = Pieces(sent)[c]
      BY <1>1, <3>1, <3>2, PiecesAll DEF Up
    <3>4. Upload!Finish(c)
      BY <1>5, <2>1, <2>2, <2>3, <3>3 DEF Upload!Finish, UpState
    <3>5. QED
      BY <3>4 DEF Upload!Next
  <2>4. CASE l # "drained"
    <3>1. Upload!Abort(c)
      BY <1>5, <2>1, <2>2, <2>4 DEF Upload!Abort, UpState
    <3>2. QED
      BY <3>1 DEF Upload!Next
  <2>5. QED
    BY <2>3, <2>4
<1>6. ASSUME NEW c \in Conn,
             TaskWrites(c) \/ TaskDrained(c) \/ TaskReads(c) \/ TaskEof(c)
      PROVE  Upload!Next \/ UNCHANGED <<Pieces(sent), written, UpState>>
  <2>1. /\ task[c] = "run" /\ UNCHANGED sent
        /\ \/ TaskWrites(c) /\ task' = task /\ written' # written
           \/ UNCHANGED <<written, task>>
           \/ \E l \in {"drained", "eof", "failed"} :
                 /\ task' = [task EXCEPT ![c] = l] /\ written' = written
                 /\ l = "drained" => HangsUp(c)
    BY <1>6 DEF TaskWrites, TaskDrained, TaskReads, TaskEof, Ends, client
  <2>2. QED
    BY <1>2, <1>4, <1>5, <2>1
<1>7. CASE Connected
  <2>1. /\ UNCHANGED <<sent, written>>
        /\ task' = task \/ task' = [task EXCEPT ![begin.data] = "run"]
    BY <1>7 DEF Connected, client
  <2>2. begin.data \in Conn /\ task[begin.data] = "none"
    BY <1>7, BeginIs DEF Connected, LifeInv, Life, Connecting
  <2>3. UpState' = UpState
    BY <1>1, <2>1, <2>2 DEF UpState
  <2>4. QED
    BY <2>1, <2>3 DEF Pieces
<1>8. CASE \/ \E c \in Conn : \/ Open(c) \/ Answered(c) \/ ChannelClosed(c)
                              \/ Timeout(c) \/ Close(c) \/ Receive(c) \/ Cleanup(c)
           \/ Deliver \/ ReaderEnds \/ Break \/ HandleBegin \/ Refused
           \/ HandleData \/ HandleEnd \/ LoopEnds
  BY <1>2, <1>8
     DEF Open, Answered, ChannelClosed, Timeout, Close, Leave, Receive,
         Cleanup, Deliver, ReaderEnds, Break, HandleBegin, Refused,
         HandleData, HandleEnd, LoopEnds, client, exit
<1>9. QED
  BY <1>3, <1>6, <1>7, <1>8, NextIs DEF Actions, ExitStep

-----------------------------------------------------------------------------
(* From the destination to the SOCKS client.                               *)

\* The exit reads nothing more for c: its task has ended, or there is none
\* and no BEGIN is left that could start one.
Fixed(c) ==
    /\ task[c] # "run"
    /\ task[c] = "none" =>
          ~Connecting(c) /\ \A p \in 1 .. Len(fwd) : ~IsBegin(fwd[p], c)

\* What has been read and not passed on is in the connection's channel up to
\* piece m, and in the circuit up to piece z.
ComingTo(c, m, z) ==
    /\ Len(got[c]) <= m /\ m <= z /\ z <= read[c]
    /\ Window(rx[c], sid[c], c, Len(got[c]), m)
    /\ Window(bwd, sid[c], c, m, z)
    /\ EndsLast(rx[c], sid[c]) /\ EndsLast(bwd, sid[c])
    /\ HasEnd(rx[c], sid[c]) => m = read[c] /\ Fixed(c)
    /\ HasEnd(bwd, sid[c]) => z = read[c] /\ Fixed(c)
    /\ ~broken => z = read[c]

Down(c) ==
    /\ \A n \in 1 .. Len(got[c]) : got[c][n] = <<c, n>>
    /\ Len(got[c]) <= read[c]
    /\ Listens(c) => \E m, z \in Nat : ComingTo(c, m, z)
    /\ heardEnd[c] => Fixed(c) /\ Len(got[c]) = read[c]

DownInv == \A c \in Conn : cpc[c] # "new" => Down(c)

LEMMA DownInit == Init => DownInv
  BY DEF Init, DownInv

LEMMA FixedNext ==
    ASSUME TypeInv, TypeInv', LifeInv, Next, NEW c \in Conn, cpc[c] # "new",
           Fixed(c)
    PROVE  Fixed(c)'
<1>1. task'[c] = task[c]
  <2>1. Connecting(c) => task[c] = "none"
    BY DEF LifeInv, Life
  <2>2. QED
    BY <2>1, TaskMoves DEF Fixed, Connecting
<1>2. CASE task[c] # "none"
  BY <1>1, <1>2 DEF Fixed
<1>3. ASSUME task[c] = "none"
      PROVE  ~Connecting(c)' /\ \A p \in 1 .. Len(fwd') : ~IsBegin(fwd'[p], c)
  <2>1. fwd \in Seq(FwdCell)
    BY DEF TypeInv, Contents
  <2>2. ~Connecting(c) /\ \A p \in 1 .. Len(fwd) : ~IsBegin(fwd[p], c)
    BY <1>3 DEF Fixed
  <2>3. CASE fwd' = fwd /\ begin' \in {begin, None}
    BY <2>2, <2>3 DEF Connecting
  <2>4. CASE fwd # <<>> /\ fwd' = Tail(fwd) /\ begin' \in {begin, Head(fwd)}
    <3>1. /\ Len(fwd) \in Nat \ {0} /\ Head(fwd) = fwd[1]
          /\ Len(fwd') = Len(fwd) - 1
          /\ \A p \in 1 .. Len(fwd') : fwd'[p] = fwd[p + 1]
      BY <2>1, <2>4, TailAt
    <3>2. \A p \in 1 .. Len(fwd') : p + 1 \in 1 .. Len(fwd)
      BY <3>1
    <3>3. 1 \in 1 .. Len(fwd)
      BY <3>1
    <3>4. begin' = Head(fwd) => ~Connecting(c)'
      BY <2>2, <3>1, <3>3 DEF Connecting, IsBegin, TypeInv, Owners
    <3>5. QED
      BY <2>2, <2>4, <3>1, <3>2, <3>4 DEF Connecting
  <2>5. ASSUME NEW w \in FwdCell', fwd' = Append(fwd, w), ~IsBegin(w, c),
               begin' = begin
        PROVE  ~Connecting(c)' /\ \A p \in 1 .. Len(fwd') : ~IsBegin(fwd'[p], c)
    <3>1. /\ Len(fwd) \in Nat /\ Len(fwd') = Len(fwd) + 1
          /\ \A p \in 1 .. Len(fwd') :
                fwd'[p] = IF p = Len(fwd) + 1 THEN w ELSE fwd[p]
      BY <2>1, <2>5
    <3>2. QED
      BY <2>2, <2>5, <3>1 DEF Connecting
  <2>6. QED
    BY <2>3, <2>4, <2>5, BeginMoves
<1>4. QED
  BY <1>1, <1>2, <1>3 DEF Fixed

\* Steps that leave what c has got, and what it listens to, as it is.
Stays(c) ==
    /\ got'[c] = got[c] /\ read'[c] = read[c] /\ sid'[c] = sid[c]
    /\ heardEnd'[c] = heardEnd[c]
    /\ Listens(c)' => Listens(c) /\ rx'[c] = rx[c]
    /\ broken => broken'
    /\ Fixed(c) => Fixed(c)'

LEMMA DownKept ==
    ASSUME NEW c \in Conn, Down(c), Stays(c), bwd' = bwd PROVE Down(c)'
<1>1. ASSUME Listens(c)' PROVE \E m, z \in Nat : ComingTo(c, m, z)'
  <2>1. PICK m, z \in Nat : ComingTo(c, m, z)
    BY <1>1 DEF Down, Stays
  <2>2. ComingTo(c, m, z)'
    BY <1>1, <2>1 DEF ComingTo, Stays
  <2>3. QED
    BY <2>2
<1>2. QED
  BY <1>1 DEF Down, Stays

LEMMA GotType ==
    ASSUME TypeInv, NEW c \in Conn
    PROVE  Len(got[c]) \in Nat /\ read[c] \in Nat
  BY LenProperties DEF TypeInv, Scalars, Contents

\* The exit answers with a cell that is not DATA of this stream.
LEMMA DownPuts ==
    ASSUME TypeInv, NEW c \in Conn, Down(c), Stays(c), NEW w,
           bwd' = Put(bwd, w), ~IsData(w, sid[c]),
           w.cmd = "END" /\ w.id = sid[c] /\ Listens(c) => Fixed(c)'
    PROVE  Down(c)'
<1>1. CASE broken
  BY <1>1, DownKept DEF Put
<1>2. CASE ~broken
  <2>1. bwd' = Append(bwd, w)
    BY <1>2 DEF Put
  <2>2. PICK S : S = BwdCell \cup {w}
    OBVIOUS
  <2>3. bwd \in Seq(S) /\ w \in S
    BY <2>2, SeqGrows DEF TypeInv, Contents
  <2>4. PICK i : i = sid[c]
    OBVIOUS
  <2>5. ASSUME Listens(c)' PROVE \E m, z \in Nat : ComingTo(c, m, z)'
    <3>1. PICK m, z \in Nat : ComingTo(c, m, z)
      BY <2>5 DEF Down, Stays
    <3>2. Window(bwd', i, c, m, z)
      BY <2>1, <2>3, <2>4, <3>1, WindowIgnores DEF ComingTo
    <3>3. /\ EndsLast(bwd', i)
          /\ HasEnd(bwd', i) => HasEnd(bwd, i) \/ (w.cmd = "END" /\ w.id = i)
      BY <2>1, <2>3, <2>4, <3>1, EndsAppend DEF ComingTo
    <3>4. HasEnd(bwd', i) => z = read[c] /\ Fixed(c)'
      BY <1>2, <2>4, <2>5, <3>1, <3>3 DEF ComingTo, Stays
    <3>5. ComingTo(c, m, z)'
      BY <1>2, <2>4, <2>5, <3>1, <3>2, <3>3, <3>4 DEF ComingTo, Stays
    <3>6. QED
      BY <3>5
  <2>6. QED
    BY <2>5 DEF Down, Stays
<1>3. QED
  BY <1>1, <1>2

LEMMA DownReads ==
    ASSUME TypeInv, NEW c \in Conn, Down(c), TaskReads(c) PROVE Down(c)'
<1>1. /\ task[c] = "run" /\ read'[c] = read[c] + 1
      /\ UNCHANGED <<cpc, sid, got, rx, heardEnd, broken>>
  BY DEF TaskReads, client, TypeInv, Scalars
<1>2. ~Fixed(c) /\ ~heardEnd[c]
  BY <1>1 DEF Fixed, Down
<1>3. Len(got[c]) \in Nat /\ read[c] \in Nat /\ Len(got[c]) <= read[c] + 1
  BY GotType DEF Down
<1>4. PICK i : i = sid[c]
  OBVIOUS
<1>5. PICK w : w = Cell("DATA", i, <<c, read[c] + 1>>)
  OBVIOUS
<1>6. bwd' = Put(bwd, w)
  BY <1>4, <1>5 DEF TaskReads, Reply
<1>7. ASSUME Listens(c) PROVE \E m, z \in Nat : ComingTo(c, m, z)'
  <2>1. PICK m, z \in Nat : ComingTo(c, m, z)
    BY <1>7 DEF Down
  <2>2. ~HasEnd(rx[c], i) /\ ~HasEnd(bwd, i)
    BY <1>2, <1>4, <2>1 DEF ComingTo
  <2>3. CASE broken
    <3>1. bwd' = bwd /\ z <= read[c] + 1
      BY <1>3, <1>6, <2>1, <2>3 DEF Put, ComingTo
    <3>2. ComingTo(c, m, z)'
      BY <1>1, <1>4, <2>1, <2>2, <2>3, <3>1 DEF ComingTo
    <3>3. QED
      BY <3>2
  <2>4. CASE ~broken
    <3>1. bwd' = Append(bwd, w) /\ z = read[c]
      BY <1>6, <2>1, <2>4 DEF Put, ComingTo
    <3>2. PICK S : S = BwdCell \cup {w}
      OBVIOUS
    <3>3. bwd \in Seq(S) /\ w \in S
      BY <3>2, SeqGrows DEF TypeInv, Contents
    <3>4. IsData(w, i) /\ w.data = <<c, z + 1>> /\ w.cmd # "END"
      BY <1>5, <3>1 DEF Cell, IsData
    <3>5. Window(bwd', i, c, m, z + 1)
      BY <1>4, <2>1, <3>1, <3>3, <3>4, WindowAdds DEF ComingTo
    <3>6. EndsLast(bwd', i) /\ ~HasEnd(bwd', i)
      BY <1>4, <2>1, <2>2, <3>1, <3>3, <3>4, EndsAppend DEF ComingTo
    <3>7. m <= z + 1 /\ z + 1 \in Nat /\ z + 1 = read'[c]
      BY <1>1, <2>1, <3>1 DEF ComingTo
    <3>8. ComingTo(c, m, z + 1)'
      BY <1>1, <1>4, <2>1, <2>2, <3>5, <3>6, <3>7 DEF ComingTo
    <3>9. QED
      BY <3>7, <3>8
  <2>5. QED
    BY <2>3, <2>4
<1>8. QED
  BY <1>1, <1>2, <1>3, <1>7 DEF Down, Listens

\* The reader hands a cell of this stream to its connection.
LEMMA DownDelivers ==
    ASSUME TypeInv, LifeInv, NEW c \in Conn, cpc[c] # "new", Down(c), Deliver,
           Head(bwd).id = sid[c]
    PROVE  Down(c)'
<1>1. PICK i \in Id : i = sid[c]
  BY DEF TypeInv, Scalars
<1>2. PICK w \in Word : w = Head(bwd)
  BY DeliverIs DEF BwdCell
<1>3. /\ bwd # <<>> /\ bwd' = Tail(bwd) /\ w.id = i
      /\ UNCHANGED <<cpc, sid, got, read, heardEnd, broken, task, begin, fwd>>
  BY <1>1, <1>2 DEF Deliver, exit
<1>4. Listens(c)' = Listens(c) /\ Fixed(c)' = Fixed(c)
  BY <1>3 DEF Listens, Fixed, Connecting
<1>5. ASSUME Listens(c) PROVE \E m, z \in Nat : ComingTo(c, m, z)'
  <2>1. PICK m, z \in Nat : ComingTo(c, m, z)
    BY <1>5 DEF Down
  <2>2. senders[i] = c
    BY <1>1, <1>5 DEF LifeInv, Life, Deliver
  <2>3. rx'[c] = Append(rx[c], w)
    BY <1>2, <1>3, <1>5, <2>2 DEF Deliver, Owner
  <2>4. bwd \in Seq(BwdCell) /\ rx[c] \in Seq(Word)
    BY DEF TypeInv, Contents
  <2>5. Len(got[c]) \in Nat /\ read[c] \in Nat
    BY GotType
  <2>6. /\ EndsLast(bwd', i) /\ (HasEnd(bwd', i) => HasEnd(bwd, i))
        /\ w.cmd = "END" => \A p \in 1 .. Len(bwd') : ~IsData(bwd'[p], i)
    BY <1>1, <1>2, <1>3, <2>1, <2>4, EndsTail DEF ComingTo
  <2>7. CASE IsData(w, i)
    <3>1. /\ m + 1 <= z /\ w.data = <<c, m + 1>>
          /\ Window(bwd', i, c, m + 1, z)
      BY <1>1, <1>2, <1>3, <2>1, <2>4, <2>7, WindowTakes DEF ComingTo
    <3>2. Window(rx'[c], i, c, Len(got[c]), m + 1)
      BY <1>1, <2>1, <2>3, <2>4, <2>5, <2>7, <3>1, WindowAdds DEF ComingTo
    <3>3. ~HasEnd(rx[c], i) /\ w.cmd # "END"
      BY <1>1, <2>1, <2>5, <2>7, <3>1 DEF ComingTo, IsData
    <3>4. EndsLast(rx'[c], i) /\ ~HasEnd(rx'[c], i)
      BY <1>1, <2>1, <2>3, <2>4, <3>3, EndsAppend DEF ComingTo
    <3>5. m + 1 \in Nat /\ Len(got[c]) <= m + 1
      BY <2>1, <2>5 DEF ComingTo
    <3>6. ComingTo(c, m + 1, z)'
      BY <1>1, <1>3, <1>4, <2>1, <2>6, <3>1, <3>2, <3>4, <3>5 DEF ComingTo
    <3>7. QED
      BY <3>5, <3>6
  <2>8. CASE ~IsData(w, i)
    <3>1. Window(bwd', i, c, m, z)
      BY <1>1, <1>2, <1>3, <2>1, <2>4, <2>8, WindowSkips DEF ComingTo
    <3>2. Window(rx'[c], i, c, Len(got[c]), m)
      BY <1>1, <2>1, <2>3, <2>4, <2>5, <2>8, WindowIgnores DEF ComingTo
    <3>3. /\ EndsLast(rx'[c], i)
          /\ HasEnd(rx'[c], i) => HasEnd(rx[c], i) \/ w.cmd = "END"
      BY <1>1, <2>1, <2>3, <2>4, <2>8, EndsAppend DEF ComingTo
    <3>4. ASSUME w.cmd = "END" PROVE m = read[c] /\ Fixed(c)
      <4>1. 1 \in 1 .. Len(bwd) /\ bwd[1] = w
        BY <1>2, <1>3, <2>4, TailAt
      <4>2. z = read[c] /\ Fixed(c)
        BY <1>1, <1>3, <2>1, <3>4, <4>1 DEF ComingTo, HasEnd
      <4>3. \A p \in 1 .. Len(bwd') : ~IsData(bwd'[p], i)
        BY <2>6, <3>4
      <4>4. z = m
        BY <2>1, <3>1, <4>3, WindowEmpty DEF ComingTo
      <4>5. QED
        BY <4>2, <4>4
    <3>5. ComingTo(c, m, z)'
      BY <1>1, <1>3, <1>4, <2>1, <2>6, <3>1, <3>2, <3>3, <3>4 DEF ComingTo
    <3>6. QED
      BY <3>5
  <2>9. QED
    BY <2>7, <2>8
<1>6. QED
  BY <1>3, <1>4, <1>5 DEF Down

\* The connection takes the next cell from its channel.
LEMMA HeadOfRx ==
    ASSUME TypeInv, NEW c \in Conn, rx[c] # <<>>
    PROVE  /\ Head(rx[c]).id = sid[c] /\ rx[c] \in Seq(RxCell(c))
           /\ Head(rx[c]) = rx[c][1] /\ 1 \in 1 .. Len(rx[c])
           /\ Head(rx[c]).cmd = "DATA" => Head(rx[c]).data \in Piece
<1>1. rx[c] \in Seq(RxCell(c))
  BY DEF TypeInv, Contents
<1>2. Head(rx[c]) \in RxCell(c) /\ Head(rx[c]) = rx[c][1] /\ 1 \in 1 .. Len(rx[c])
  BY <1>1, TailAt
<1>3. QED
  BY <1>1, <1>2 DEF RxCell, Owns, BwdCell

LEMMA DownSkips ==
    ASSUME TypeInv, NEW c \in Conn, Down(c), Listens(c), rx[c] # <<>>,
           Head(rx[c]).cmd # "DATA", rx'[c] = Tail(rx[c]),
           UNCHANGED <<sid, got, heardEnd, bwd, broken, exit, fwd>>
    PROVE  Down(c)'
<1>1. Fixed(c)' = Fixed(c) /\ UNCHANGED read
  BY DEF Fixed, Connecting, exit
<1>2. PICK m, z \in Nat : ComingTo(c, m, z)
  BY DEF Down
<1>3. PICK i : i = sid[c]
  OBVIOUS
<1>4. PICK S : S = RxCell(c)
  OBVIOUS
<1>5. rx[c] \in Seq(S) /\ Len(got[c]) \in Nat
  BY <1>4, HeadOfRx, GotType
<1>6. Window(rx'[c], i, c, Len(got[c]), m)
  BY <1>2, <1>3, <1>5, WindowSkips DEF ComingTo, IsData
<1>7. EndsLast(rx'[c], i) /\ (HasEnd(rx'[c], i) => HasEnd(rx[c], i))
  BY <1>2, <1>3, <1>5, EndsTail DEF ComingTo
<1>8. ComingTo(c, m, z)'
  BY <1>1, <1>2, <1>3, <1>6, <1>7 DEF ComingTo
<1>9. QED
  BY <1>1, <1>8 DEF Down

LEMMA DownGets ==
    ASSUME TypeInv, NEW c \in Conn, Down(c), Listens(c), rx[c] # <<>>,
           Head(rx[c]).cmd = "DATA", rx'[c] = Tail(rx[c]),
           got'[c] = Append(got[c], Head(rx[c]).data), ~heardEnd[c],
           UNCHANGED <<sid, heardEnd, bwd, broken, exit, fwd>>
    PROVE  /\ Down(c)'
           /\ Head(rx[c]).data = <<c, Len(got[c]) + 1>>
           /\ Len(got[c]) + 1 <= read[c]
<1>1. Fixed(c)' = Fixed(c) /\ UNCHANGED read
  BY DEF Fixed, Connecting, exit
<1>2. PICK m, z \in Nat : ComingTo(c, m, z)
  BY DEF Down
<1>3. PICK i : i = sid[c]
  OBVIOUS
<1>4. PICK S : S = RxCell(c)
  OBVIOUS
<1>5. /\ rx[c] \in Seq(S) /\ Len(got[c]) \in Nat /\ read[c] \in Nat
      /\ IsData(Head(rx[c]), i) /\ Head(rx[c]).data \in Piece
  BY <1>3, <1>4, HeadOfRx, GotType DEF IsData
<1>6. PICK w \in Piece : w = Head(rx[c]).data
  BY <1>5
<1>7. PICK n \in Nat : n = Len(got[c])
  BY <1>5
<1>8. /\ Window(rx[c], i, c, n, m) /\ n <= m /\ m <= z /\ z <= read[c]
      /\ EndsLast(rx[c], i)
  BY <1>2, <1>3, <1>7 DEF ComingTo
<1>9. n + 1 <= m /\ w = <<c, n + 1>> /\ Window(rx'[c], i, c, n + 1, m)
  <2>1. m \in Nat
    BY <1>2
  <2>2. /\ n + 1 <= m /\ Head(rx[c]).data = <<c, n + 1>>
        /\ Window(Tail(rx[c]), i, c, n + 1, m)
    BY <1>5, <1>8, <2>1, WindowTakes
  <2>3. QED
    BY <1>6, <2>2
<1>10. /\ got'[c] = Append(got[c], w) /\ Len(got'[c]) = n + 1
       /\ \A k \in 1 .. n + 1 : got'[c][k] = IF k = n + 1 THEN w ELSE got[c][k]
  <2>1. got[c] \in Seq(Piece)
    BY DEF TypeInv, Contents
  <2>2. QED
    BY <1>6, <1>7, <2>1, AppendAt
<1>11. \A k \in 1 .. Len(got'[c]) : got'[c][k] = <<c, k>>
  <2>1. \A k \in 1 .. n + 1 : k = n + 1 \/ k \in 1 .. n
    BY <1>7
  <2>2. \A k \in 1 .. n : got[c][k] = <<c, k>>
    BY <1>7 DEF Down
  <2>3. QED
    BY <1>9, <1>10, <2>1, <2>2
<1>12. EndsLast(rx'[c], i) /\ (HasEnd(rx'[c], i) => HasEnd(rx[c], i))
  BY <1>5, <1>8, EndsTail
<1>13. n + 1 \in Nat /\ n + 1 <= read[c]
  BY <1>5, <1>7, <1>8, <1>9
<1>14. ComingTo(c, m, z)'
  BY <1>1, <1>2, <1>3, <1>9, <1>10, <1>12 DEF ComingTo
<1>15. Down(c)'
  BY <1>1, <1>10, <1>11, <1>13, <1>14 DEF Down
<1>16. QED
  BY <1>6, <1>7, <1>9, <1>13, <1>15

\* When a connection sees END it has got all that was read.
LEMMA EndIsLast ==
    ASSUME TypeInv, NEW c \in Conn, Down(c), Listens(c), rx[c] # <<>>,
           Head(rx[c]).cmd = "END"
    PROVE  Fixed(c) /\ Len(got[c]) = read[c]
<1>1. PICK m, z \in Nat : ComingTo(c, m, z)
  BY DEF Down
<1>2. PICK i : i = sid[c]
  OBVIOUS
<1>3. PICK S : S = RxCell(c)
  OBVIOUS
<1>4. /\ rx[c] \in Seq(S) /\ Len(got[c]) \in Nat /\ Head(rx[c]).id = i
      /\ rx[c][1] = Head(rx[c]) /\ 1 \in 1 .. Len(rx[c])
  BY <1>2, <1>3, HeadOfRx, GotType
<1>5. m = read[c] /\ Fixed(c)
  BY <1>1, <1>2, <1>4 DEF ComingTo, HasEnd
<1>6. Window(Tail(rx[c]), i, c, Len(got[c]), m)
  BY <1>1, <1>2, <1>4, WindowSkips DEF ComingTo, IsData
<1>7. \A p \in 1 .. Len(Tail(rx[c])) : ~IsData(Tail(rx[c])[p], i)
  BY <1>1, <1>2, <1>4, EndsTail DEF ComingTo
<1>8. m = Len(got[c])
  BY <1>1, <1>4, <1>6, <1>7, WindowEmpty DEF ComingTo
<1>9. QED
  BY <1>5, <1>8

LEMMA DownOpens ==
    ASSUME TypeInv, TypeInv', IdInv, IdInv', LifeInv, Next, NEW c \in Conn,
           cpc[c] = "new", cpc'[c] # "new"
    PROVE  Down(c)'
<1>1. Open(c)
  BY OpensIs
<1>2. PICK i : i = sid'[c]
  OBVIOUS
<1>3. UNCHANGED <<got, read, heardEnd, rx, bwd>>
  BY <1>1 DEF Open, exit
<1>4. got[c] = <<>> /\ read[c] = 0 /\ ~heardEnd[c]
  BY DEF LifeInv, Life, TypeInv, Owners
<1>5. \A p \in 1 .. Len(bwd) : bwd[p].id # i
  BY <1>2, IdIsNew
<1>6. Len(rx[c]) = 0
  <2>1. rx[c] \in Seq(RxCell(c)) /\ RxCell(c) = {}
    BY DEF TypeInv, Contents, RxCell, Owns
  <2>2. rx[c] = <<>>
    <3>1. SUFFICES ASSUME rx[c] # <<>> PROVE FALSE
      OBVIOUS
    <3>2. Head(rx[c]) \in RxCell(c)
      BY <2>1, <3>1, TailAt
    <3>3. QED
      BY <2>1, <3>2
  <2>3. QED
    BY <2>2
<1>7. Window(rx[c], i, c, 0, 0) /\ Window(bwd, i, c, 0, 0)
  BY <1>5, <1>6, WindowEmpty DEF IsData
<1>8. /\ EndsLast(rx[c], i) /\ EndsLast(bwd, i)
      /\ ~HasEnd(rx[c], i) /\ ~HasEnd(bwd, i)
  BY <1>5, <1>6 DEF EndsLast, HasEnd
<1>9. Len(got[c]) = 0 /\ 0 \in Nat
  BY <1>4
<1>10. ComingTo(c, 0, 0)'
  BY <1>2, <1>3, <1>4, <1>7, <1>8, <1>9 DEF ComingTo
<1>11. \E m, z \in Nat : ComingTo(c, m, z)'
  BY <1>9, <1>10
<1>12. /\ Len(got'[c]) = 0 /\ read'[c] = 0 /\ ~heardEnd'[c]
       /\ \A n \in 1 .. Len(got'[c]) : got'[c][n] = <<c, n>>
  BY <1>3, <1>4, <1>9
<1>13. QED
  BY <1>11, <1>12 DEF Down

\* The reader takes a cell of another stream.
LEMMA DownPasses ==
    ASSUME TypeInv, NEW c \in Conn, Down(c), Stays(c), bwd # <<>>,
           bwd' = Tail(bwd), Head(bwd).id # sid[c]
    PROVE  Down(c)'
<1>1. PICK i : i = sid[c]
  OBVIOUS
<1>2. bwd \in Seq(BwdCell)
  BY DEF TypeInv, Contents
<1>3. ASSUME Listens(c)' PROVE \E m, z \in Nat : ComingTo(c, m, z)'
  <2>1. PICK m, z \in Nat : ComingTo(c, m, z)
    BY <1>3 DEF Down, Stays
  <2>2. Window(bwd', i, c, m, z)
    BY <1>1, <1>2, <2>1, WindowSkips DEF ComingTo, IsData
  <2>3. EndsLast(bwd', i) /\ (HasEnd(bwd', i) => HasEnd(bwd, i))
    BY <1>1, <1>2, <2>1, EndsTail DEF ComingTo
  <2>4. ComingTo(c, m, z)'
    BY <1>1, <1>3, <2>1, <2>2, <2>3 DEF ComingTo, Stays
  <2>5. QED
    BY <2>4
<1>4. QED
  BY <1>3 DEF Down, Stays

LEMMA DownNext ==
    ASSUME TypeInv, TypeInv', IdInv, LifeInv, UpInv, Next, NEW c \in Conn,
           cpc[c] # "new", Down(c)
    PROVE  Down(c)'
<1>1. /\ sid[c] \in Id /\ Owns(c, sid[c]) /\ Up(c)
      /\ Fixed(c) => Fixed(c)'
  BY FixedNext DEF TypeInv, Scalars, Owns, UpInv
<1>2. \A d \in Conn : d # c => ~Owns(d, sid[c])
  BY <1>1, OneOwner
<1>3. CASE Stays(c) /\ bwd' = bwd
  BY <1>3, DownKept
<1>4. ASSUME UNCHANGED <<got, read, sid, heardEnd, bwd>>, broken => broken',
             Listens(c)' => Listens(c) /\ rx'[c] = rx[c]
      PROVE  Down(c)'
  BY <1>1, <1>3, <1>4 DEF Stays
<1>5. ASSUME NEW d \in Conn, NEW l, cpc' = [cpc EXCEPT ![d] = l],
             l \notin {"waiting", "streaming"} \/ (d # c),
             \A e \in Conn : e # d => rx'[e] = rx[e],
             UNCHANGED <<got, read, sid, heardEnd, bwd, broken>>
      PROVE  Down(c)'
  <2>1. Listens(c)' => Listens(c) /\ rx'[c] = rx[c]
    BY <1>5 DEF Listens, TypeInv, Scalars
  <2>2. QED
    BY <1>4, <1>5, <2>1
<1>6. ASSUME NEW d \in Conn, Open(d) PROVE Down(c)'
  <2>1. d # c
    BY <1>6 DEF Open
  <2>2. /\ UNCHANGED <<got, read, heardEnd, bwd, broken, rx>>
        /\ sid'[c] = sid[c] /\ cpc'[c] = cpc[c]
    BY <1>6, <2>1 DEF Open, Goto, exit, TypeInv, Scalars
  <2>3. QED
    BY <1>1, <1>3, <2>2 DEF Stays, Listens
<1>7. ASSUME NEW d \in Conn, ChannelClosed(d) \/ Timeout(d) \/ Close(d)
      PROVE  Down(c)'
  <2>1. /\ cpc' = [cpc EXCEPT ![d] = "leaving"]
        /\ rx' = [rx EXCEPT ![d] = <<>>]
        /\ UNCHANGED <<got, read, sid, heardEnd, bwd, broken>>
    BY <1>7 DEF ChannelClosed, Timeout, Close, Leave, Goto, Dropped, exit
  <2>2. \A e \in Conn : e # d => rx'[e] = rx[e]
    BY <2>1 DEF TypeInv, Contents
  <2>3. QED
    BY <1>5, <2>1, <2>2
<1>8. ASSUME NEW d \in Conn, Answered(d) PROVE Down(c)'
  <2>1. /\ UNCHANGED <<got, sid, heardEnd, bwd, broken, exit, fwd>>
        /\ rx[d] # <<>> /\ cpc[d] = "waiting"
        /\ \/ \E l \in {"gone", "leaving"} :
                 /\ cpc' = [cpc EXCEPT ![d] = l]
                 /\ rx' = [rx EXCEPT ![d] = <<>>]
           \/ /\ Head(rx[d]).cmd = "CONNECTED" /\ rx' = [rx EXCEPT ![d] = Tail(@)]
              /\ cpc' = [cpc EXCEPT ![d] = "streaming"]
    BY <1>8 DEF Answered, Goto, Received, Dropped
  <2>2. UNCHANGED read
    BY <2>1 DEF exit
  <2>3. \A e \in Conn : e # d => rx'[e] = rx[e]
    BY <2>1 DEF TypeInv, Contents
  <2>4. CASE d # c
    BY <1>5, <2>1, <2>2, <2>3, <2>4
  <2>5. CASE \E l \in {"gone", "leaving"} : cpc' = [cpc EXCEPT ![d] = l]
    BY <1>5, <2>1, <2>2, <2>3, <2>5
  <2>6. CASE /\ d = c /\ Head(rx[c]).cmd = "CONNECTED"
             /\ rx' = [rx EXCEPT ![c] = Tail(@)]
    <3>1. Listens(c) /\ rx'[c] = Tail(rx[c]) /\ Head(rx[c]).cmd # "DATA"
      BY <2>1, <2>6 DEF Listens, TypeInv, Contents
    <3>2. QED
      BY <2>1, <2>6, <3>1, DownSkips
  <2>7. QED
    BY <2>1, <2>4, <2>5, <2>6
<1>9. ASSUME NEW d \in Conn, SendData(d) PROVE Down(c)'
  <2>1. /\ UNCHANGED <<got, read, sid, heardEnd, bwd, broken>>
        /\ \/ UNCHANGED <<cpc, rx>>
           \/ /\ cpc' = [cpc EXCEPT ![d] = "leaving"]
              /\ rx' = [rx EXCEPT ![d] = <<>>]
    BY <1>9 DEF SendData, Goto, Dropped, exit
  <2>2. CASE UNCHANGED <<cpc, rx>>
    BY <1>4, <2>1, <2>2 DEF Listens
  <2>3. CASE /\ cpc' = [cpc EXCEPT ![d] = "leaving"]
             /\ rx' = [rx EXCEPT ![d] = <<>>]
    <3>1. \A e \in Conn : e # d => rx'[e] = rx[e]
      BY <2>3 DEF TypeInv, Contents
    <3>2. QED
      BY <1>5, <2>1, <2>3, <3>1
  <2>4. QED
    BY <2>1, <2>2, <2>3
<1>10. ASSUME NEW d \in Conn, Receive(d) PROVE Down(c)'
  <2>1. /\ cpc[d] = "streaming" /\ rx[d] # <<>>
        /\ UNCHANGED <<sid, bwd, broken, exit, fwd, read>>
        /\ \/ /\ Head(rx[d]).cmd = "DATA" /\ UNCHANGED <<cpc, heardEnd>>
              /\ got' = [got EXCEPT ![d] = Append(@, Head(rx[d]).data)]
              /\ rx' = [rx EXCEPT ![d] = Tail(@)]
           \/ /\ Head(rx[d]).cmd = "END"
              /\ cpc' = [cpc EXCEPT ![d] = "leaving"]
              /\ heardEnd' = [heardEnd EXCEPT ![d] = TRUE]
              /\ rx' = [rx EXCEPT ![d] = <<>>] /\ got' = got
           \/ /\ Head(rx[d]).cmd # "DATA" /\ rx' = [rx EXCEPT ![d] = Tail(@)]
              /\ UNCHANGED <<got, cpc, heardEnd>>
    BY <1>10 DEF Receive, Goto, Received, Dropped, exit
  <2>2. CASE d # c
    <3>1. /\ got'[c] = got[c] /\ cpc'[c] = cpc[c] /\ rx'[c] = rx[c]
          /\ heardEnd'[c] = heardEnd[c]
      BY <2>1, <2>2 DEF TypeInv, Scalars, Contents
    <3>2. QED
      BY <1>1, <1>3, <2>1, <3>1 DEF Stays, Listens
  <2>3. CASE d = c
    <3>1. Listens(c) /\ ~heardEnd[c]
      BY <2>1, <2>3 DEF Listens, LifeInv, Life
    <3>2. CASE /\ Head(rx[c]).cmd = "DATA" /\ UNCHANGED <<cpc, heardEnd>>
               /\ got' = [got EXCEPT ![c] = Append(@, Head(rx[c]).data)]
               /\ rx' = [rx EXCEPT ![c] = Tail(@)]
      <4>1. /\ rx'[c] = Tail(rx[c])
            /\ got'[c] = Append(got[c], Head(rx[c]).data)
        BY <3>2 DEF TypeInv, Contents
      <4>2. QED
        BY <2>1, <2>3, <3>1, <3>2, <4>1, DownGets
    <3>3. CASE /\ Head(rx[c]).cmd = "END"
               /\ cpc' = [cpc EXCEPT ![c] = "leaving"] /\ got' = got
      <4>1. Fixed(c) /\ Len(got[c]) = read[c]
        BY <2>1, <2>3, <3>1, <3>3, EndIsLast
      <4>2. ~Listens(c)'
        BY <3>3 DEF Listens, TypeInv, Scalars
      <4>3. QED
        BY <1>1, <2>1, <3>3, <4>1, <4>2 DEF Down
    <3>4. CASE /\ Head(rx[c]).cmd # "DATA" /\ rx' = [rx EXCEPT ![c] = Tail(@)]
               /\ UNCHANGED <<got, cpc, heardEnd>>
      <4>1. rx'[c] = Tail(rx[c])
        BY <3>4 DEF TypeInv, Contents
      <4>2. QED
        BY <2>1, <2>3, <3>1, <3>4, <4>1, DownSkips
    <3>5. QED
      BY <2>1, <2>3, <3>2, <3>3, <3>4
  <2>4. QED
    BY <2>2, <2>3
<1>11. ASSUME NEW d \in Conn, Cleanup(d) PROVE Down(c)'
  BY <1>5, <1>11 DEF Cleanup, Goto, exit
<1>12. ASSUME UNCHANGED <<client, broken>>,
              NEW w, bwd' = Put(bwd, w), UNCHANGED read, ~IsData(w, sid[c]),
              w.cmd = "END" /\ w.id = sid[c] /\ Listens(c) => Fixed(c)'
       PROVE  Down(c)'
  <2>1. Stays(c)
    BY <1>1, <1>12 DEF Stays, Listens, client
  <2>2. QED
    BY <1>12, <2>1, DownPuts
<1>13. ASSUME NEW d \in Conn, TaskWrites(d) \/ TaskDrained(d) PROVE Down(c)'
  <2>1. UNCHANGED <<client, bwd, broken, read>>
    BY <1>13 DEF TaskWrites, TaskDrained
  <2>2. QED
    BY <1>4, <2>1 DEF client, Listens
<1>14. ASSUME NEW d \in Conn, TaskReads(d) PROVE Down(c)'
  <2>1. CASE d = c
    BY <1>14, <2>1, DownReads
  <2>2. CASE d # c
    <3>1. /\ UNCHANGED <<client, broken>> /\ read'[c] = read[c]
          /\ cpc[d] # "new"
      BY <1>14, <2>2 DEF TaskReads, TypeInv, Scalars, Owners
    <3>2. PICK w : w = Cell("DATA", sid[d], <<d, read[d] + 1>>)
      OBVIOUS
    <3>3. bwd' = Put(bwd, w) /\ w.id = sid[d] /\ w.cmd = "DATA"
      BY <1>14, <3>2 DEF TaskReads, Reply, Cell
    <3>4. w.id # sid[c]
      BY <1>2, <2>2, <3>1, <3>3 DEF Owns
    <3>5. Stays(c)
      BY <1>1, <3>1 DEF Stays, Listens, client
    <3>6. QED
      BY <3>3, <3>4, <3>5, DownPuts DEF IsData
  <2>3. QED
    BY <2>1, <2>2
<1>15. ASSUME NEW d \in Conn, TaskEof(d) PROVE Down(c)'
  <2>1. /\ UNCHANGED <<client, broken, read>> /\ cpc[d] # "new"
        /\ task' = [task EXCEPT ![d] = "eof"]
    BY <1>15 DEF TaskEof, Ends, TypeInv, Scalars, Owners
  <2>2. PICK w : w = Cell("END", sid[d], None)
    OBVIOUS
  <2>3. bwd' = Put(bwd, w) /\ w.id = sid[d] /\ w.cmd = "END"
    BY <1>15, <2>2 DEF TaskEof, EndOf, Cell
  <2>4. w.id = sid[c] => d = c
    BY <1>2, <2>1, <2>3 DEF Owns
  <2>5. d = c => Fixed(c)'
    BY <2>1 DEF Fixed, TypeInv, Scalars
  <2>6. QED
    BY <1>12, <2>1, <2>3, <2>4, <2>5 DEF IsData
<1>16. CASE Deliver
  <2>1. CASE Head(bwd).id = sid[c]
    BY <1>16, <2>1, DownDelivers
  <2>2. CASE Head(bwd).id # sid[c]
    <3>1. rx'[c] = rx[c]
      BY <1>16, <2>2, DeliverIs DEF Deliver, Owner, Owns
    <3>2. /\ UNCHANGED <<got, read, sid, heardEnd, cpc, broken>>
          /\ bwd # <<>> /\ bwd' = Tail(bwd)
      BY <1>16 DEF Deliver, exit
    <3>3. Stays(c)
      BY <1>1, <3>1, <3>2 DEF Stays, Listens
    <3>4. QED
      BY <2>2, <3>2, <3>3, DownPasses
  <2>3. QED
    BY <2>1, <2>2
<1>17. CASE ReaderEnds \/ Break \/ HandleBegin \/ LoopEnds
  <2>1. /\ UNCHANGED <<got, read, sid, heardEnd, bwd, cpc, rx>>
        /\ broken => broken'
    BY <1>17 DEF ReaderEnds, Break, HandleBegin, LoopEnds, client, exit
  <2>2. QED
    BY <1>4, <2>1 DEF Listens
<1>18. CASE Connected
  <2>1. PICK w : w = Cell("CONNECTED", begin.id, None)
    OBVIOUS
  <2>2. /\ UNCHANGED <<client, broken, read>>
        /\ bwd' = Put(bwd, w) /\ w.cmd = "CONNECTED"
    BY <1>18, <2>1 DEF Connected, Reply, Cell
  <2>3. QED
    BY <1>12, <2>2 DEF IsData
<1>19. CASE Refused
  <2>1. PICK w : w = Cell("END", begin.id, None)
    OBVIOUS
  <2>2. /\ UNCHANGED <<client, broken, read, task, fwd>> /\ begin' = None
        /\ bwd' = Put(bwd, w) /\ w.cmd = "END" /\ w.id = begin.id
        /\ begin # None
    BY <1>19, <2>1 DEF Refused, Refusal, Cell
  <2>3. ASSUME w.id = sid[c] PROVE Fixed(c)'
    <3>1. Connecting(c)
      BY <1>2, <2>2, <2>3, BeginIs DEF Connecting
    <3>2. /\ task[c] = "none"
          /\ \A p \in 1 .. Len(fwd) : ~IsBegin(fwd[p], c)
      BY <3>1 DEF LifeInv, Life
    <3>3. QED
      BY <2>2, <3>2 DEF Fixed, Connecting
  <2>4. QED
    BY <1>12, <2>2, <2>3 DEF IsData
<1>20. CASE HandleData
  <2>1. /\ UNCHANGED <<client, broken, read>> /\ Takes("DATA")
        /\ \/ bwd' = bwd
           \/ /\ bwd' = Put(bwd, Cell("END", Head(fwd).id, None))
              /\ ~(/\ streams[Head(fwd).id] # None
                   /\ task[streams[Head(fwd).id]] = "run")
    BY <1>20 DEF HandleData, Reply
  <2>2. CASE bwd' = bwd
    BY <1>4, <2>1, <2>2 DEF client, Listens
  <2>3. CASE bwd' # bwd
    <3>1. PICK w : w = Cell("END", Head(fwd).id, None)
      OBVIOUS
    <3>2. bwd' = Put(bwd, w) /\ w.cmd = "END" /\ w.id = Head(fwd).id
      BY <2>1, <2>3, <3>1 DEF Cell
    <3>3. ASSUME w.id = sid[c], Listens(c) PROVE Fixed(c)
      <4>1. IsData(fwd[1], sid[c]) /\ 1 \in 1 .. Len(fwd)
        BY <2>1, <3>2, <3>3, TakesHead, TailAt DEF IsData, TypeInv, Contents
      <4>2. task[c] # "none"
        BY <1>1, <4>1 DEF Up
      <4>3. task[c] # "run"
        <5>1. cpc[c] # "done" /\ c # None
          BY <3>3, Parameters DEF Listens
        <5>2. task[c] = "run" => streams[sid[c]] = c
          BY <1>1, <5>1 DEF Up
        <5>3. QED
          BY <2>1, <2>3, <3>2, <3>3, <5>1, <5>2
      <4>4. QED
        BY <4>2, <4>3 DEF Fixed
    <3>4. QED
      BY <1>1, <1>12, <2>1, <3>2, <3>3 DEF IsData
  <2>4. QED
    BY <2>2, <2>3
<1>21. CASE HandleEnd
  <2>1. PICK w : w = Cell("END", Head(fwd).id, None)
    OBVIOUS
  <2>2. /\ UNCHANGED <<client, broken, read>> /\ Takes("END")
        /\ bwd' = Put(bwd, w) /\ w.cmd = "END" /\ w.id = Head(fwd).id
    BY <1>21, <2>1 DEF HandleEnd, Reply, Cell
  <2>3. w.id = sid[c] => ~Listens(c)
    <3>1. fwd[1] = Head(fwd) /\ 1 \in 1 .. Len(fwd) /\ Head(fwd).cmd = "END"
      BY <2>2, TakesHead, TailAt DEF TypeInv, Contents
    <3>2. w.id = sid[c] => cpc[c] = "done"
      BY <1>1, <2>2, <3>1 DEF Up, HasEnd
    <3>3. QED
      BY <3>2 DEF Listens
  <2>4. QED
    BY <1>12, <2>2, <2>3 DEF IsData
<1>22. QED
  BY <1>6, <1>7, <1>8, <1>9, <1>10, <1>11, <1>13, <1>14, <1>15, <1>16, <1>17,
     <1>18, <1>19, <1>20, <1>21, NextIs DEF Actions, ExitStep

LEMMA DownInvNext ==
    ASSUME TypeInv, TypeInv', IdInv, IdInv', LifeInv, UpInv, DownInv, Next
    PROVE  DownInv'
<1> SUFFICES ASSUME NEW c \in Conn, cpc'[c] # "new" PROVE Down(c)'
  BY DEF DownInv
<1>1. CASE cpc[c] = "new"
  BY <1>1, DownOpens
<1>2. CASE cpc[c] # "new"
  BY <1>2, DownNext DEF DownInv
<1>3. QED
  BY <1>1, <1>2

DownState ==
    [c \in Conn |-> CASE cpc[c] = "new" \/ Listens(c) -> "open"
                      [] heardEnd[c] -> "finished"
                      [] OTHER -> "aborted"]

LEMMA DownloadStep ==
    ASSUME TypeInv, LifeInv, DownInv, Next
    PROVE  Download!Next \/ UNCHANGED <<Pieces(read), got, DownState>>
<1>1. /\ read \in [Conn -> Nat] /\ got \in [Conn -> Seq(Piece)]
      /\ heardEnd \in [Conn -> BOOLEAN]
      /\ cpc \in [Conn -> {"new", "waiting", "streaming", "leaving", "done",
                           "gone"}]
  BY DEF TypeInv, Scalars, Contents
<1>2. CASE UNCHANGED <<read, got, cpc, heardEnd>>
  BY <1>2 DEF DownState, Pieces, Listens
<1>3. ASSUME NEW c \in Conn, UNCHANGED <<read, got, heardEnd>>, ~heardEnd[c],
             NEW l \in {"waiting", "streaming", "leaving", "gone"},
             cpc' = [cpc EXCEPT ![c] = l], cpc[c] = "new" \/ Listens(c)
      PROVE  Download!Next \/ UNCHANGED <<Pieces(read), got, DownState>>
  <2>1. Pieces(read)' = Pieces(read) /\ DownState[c] = "open"
    BY <1>3 DEF Pieces, DownState
  <2>2. CASE l \in {"waiting", "streaming"}
    <3>1. DownState' = DownState
      BY <1>1, <1>3, <2>2 DEF DownState, Listens
    <3>2. QED
      BY <1>3, <2>1, <3>1
  <2>3. CASE l \in {"leaving", "gone"}
    <3>1. DownState' = [DownState EXCEPT ![c] = "aborted"]
      <4>1. cpc'[c] = l /\ \A d \in Conn \ {c} : cpc'[d] = cpc[d]
        BY <1>1, <1>3
      <4>2. DownState'[c] = "aborted"
        BY <1>3, <2>3, <4>1 DEF DownState, Listens
      <4>3. \A d \in Conn \ {c} : DownState'[d] = DownState[d]
        BY <1>3, <4>1 DEF DownState, Listens
      <4>4. QED
        BY <4>2, <4>3 DEF DownState
    <3>2. Download!Abort(c)
      BY <1>3, <2>1, <3>1 DEF Download!Abort, DownState
    <3>3. QED
      BY <3>2 DEF Download!Next
  <2>4. QED
    BY <2>2, <2>3
<1>4. ASSUME NEW c \in Conn,
             \/ Open(c) \/ Answered(c) \/ ChannelClosed(c) \/ Timeout(c)
             \/ Close(c) \/ SendData(c)
      PROVE  Download!Next \/ UNCHANGED <<Pieces(read), got, DownState>>
  <2>1. /\ UNCHANGED <<read, got, heardEnd>>
        /\ cpc[c] = "new" \/ Listens(c)
        /\ \/ cpc' = cpc
           \/ \E l \in {"waiting", "streaming", "leaving", "gone"} :
                 cpc' = [cpc EXCEPT ![c] = l]
    BY <1>4
       DEF Open, Answered, ChannelClosed, Timeout, Close, SendData, Leave,
           Listens, Goto, exit
  <2>2. ~heardEnd[c]
    BY <2>1 DEF LifeInv, Life, Listens
  <2>3. CASE cpc' = cpc
    BY <1>2, <2>1, <2>3
  <2>4. CASE \E l \in {"waiting", "streaming", "leaving", "gone"} :
                cpc' = [cpc EXCEPT ![c] = l]
    BY <1>3, <2>1, <2>2, <2>4
  <2>5. QED
    BY <2>1, <2>3, <2>4
<1>5. ASSUME NEW c \in Conn, Cleanup(c)
      PROVE  UNCHANGED <<Pieces(read), got, DownState>>
  <2>1. /\ UNCHANGED <<read, got, heardEnd>> /\ cpc[c] = "leaving"
        /\ cpc' = [cpc EXCEPT ![c] = "done"]
    BY <1>5 DEF Cleanup, Goto, exit
  <2>2. QED
    BY <1>1, <2>1 DEF DownState, Pieces, Listens
<1>6. ASSUME NEW c \in Conn, Receive(c)
      PROVE  Download!Next \/ UNCHANGED <<Pieces(read), got, DownState>>
  <2>1. /\ cpc[c] = "streaming" /\ rx[c] # <<>>
        /\ UNCHANGED <<sid, bwd, broken, exit, fwd, read>>
        /\ \/ /\ Head(rx[c]).cmd = "DATA" /\ UNCHANGED <<cpc, heardEnd>>
              /\ got' = [got EXCEPT ![c] = Append(@, Head(rx[c]).data)]
              /\ rx' = [rx EXCEPT ![c] = Tail(@)]
           \/ /\ Head(rx[c]).cmd = "END"
              /\ cpc' = [cpc EXCEPT ![c] = "leaving"]
              /\ heardEnd' = [heardEnd EXCEPT ![c] = TRUE] /\ got' = got
           \/ UNCHANGED <<got, cpc, heardEnd>>
    BY <1>6 DEF Receive, Goto, Received, Dropped, exit
  <2>2. /\ Listens(c) /\ ~heardEnd[c] /\ Down(c) /\ DownState[c] = "open"
        /\ Pieces(read)' = Pieces(read)
    BY <2>1 DEF Listens, LifeInv, Life, DownInv, DownState, Pieces
  <2>3. CASE /\ Head(rx[c]).cmd = "DATA" /\ UNCHANGED <<cpc, heardEnd>>
             /\ got' = [got EXCEPT ![c] = Append(@, Head(rx[c]).data)]
             /\ rx' = [rx EXCEPT ![c] = Tail(@)]
    <3>1. /\ rx'[c] = Tail(rx[c])
          /\ got'[c] = Append(got[c], Head(rx[c]).data)
      BY <2>3 DEF TypeInv, Contents
    <3>2. PICK n \in Nat : n = Len(got[c])
      BY <1>1
    <3>3. Head(rx[c]).data = <<c, n + 1>> /\ n + 1 <= read[c]
      BY <2>1, <2>2, <2>3, <3>1, <3>2, DownGets
    <3>4. n + 1 \in 1 .. read[c] /\ n < read[c]
      BY <1>1, <3>3
    <3>5. Len(Pieces(read)[c]) = read[c] /\ Pieces(read)[c][n + 1] = <<c, n + 1>>
      BY <1>1, <3>4, PiecesAt
    <3>6. got' = [got EXCEPT ![c] = Append(@, Pieces(read)[c][Len(@) + 1])]
      BY <2>3, <3>2, <3>3, <3>5
    <3>7. Len(got[c]) < Len(Pieces(read)[c])
      BY <3>2, <3>4, <3>5
    <3>8. DownState' = DownState
      BY <2>3 DEF DownState, Listens
    <3>9. Download!Take(c)
      BY <2>2, <3>6, <3>7, <3>8 DEF Download!Take, DownState
    <3>10. QED
      BY <3>9 DEF Download!Next
  <2>4. CASE /\ Head(rx[c]).cmd = "END"
             /\ cpc' = [cpc EXCEPT ![c] = "leaving"]
             /\ heardEnd' = [heardEnd EXCEPT ![c] = TRUE] /\ got' = got
    <3>1. Len(got[c]) = read[c]
      BY <2>1, <2>2, <2>4, EndIsLast
    <3>2. got[c] = Pieces(read)[c]
      BY <1>1, <2>2, <3>1, PiecesAll DEF Down
    <3>3. DownState' = [DownState EXCEPT ![c] = "finished"]
      <4>1. /\ cpc'[c] = "leaving" /\ heardEnd'[c] = TRUE
            /\ \A d \in Conn \ {c} :
                  cpc'[d] = cpc[d] /\ heardEnd'[d] = heardEnd[d]
        BY <1>1, <2>4
      <4>2. DownState'[c] = "finished"
        BY <4>1 DEF DownState, Listens
      <4>3. \A d \in Conn \ {c} : DownState'[d] = DownState[d]
        BY <4>1 DEF DownState, Listens
      <4>4. QED
        BY <4>2, <4>3 DEF DownState
    <3>4. Download!Finish(c)
      BY <2>2, <2>4, <3>2, <3>3 DEF Download!Finish, DownState
    <3>5. QED
      BY <3>4 DEF Download!Next
  <2>5. QED
    BY <1>2, <2>1, <2>3, <2>4
<1>7. ASSUME NEW c \in Conn, TaskReads(c) PROVE Download!Next
  <2>1. /\ task[c] = "run" /\ read[c] < MaxDown[c]
        /\ read' = [read EXCEPT ![c] = @ + 1]
        /\ UNCHANGED <<cpc, got, heardEnd>>
    BY <1>7 DEF TaskReads, client
  <2>2. DownState[c] # "finished" /\ DownState' = DownState
    <3>1. cpc[c] # "new" /\ ~heardEnd[c]
      BY <2>1 DEF TypeInv, Owners, DownInv, Down, Fixed
    <3>2. QED
      BY <2>1, <3>1 DEF DownState, Listens
  <2>3. PICK p \in Piece : p = <<c, read[c] + 1>>
    <3>1. read[c] \in Nat /\ MaxDown[c] \in Nat
      BY <1>1, StreamsAssumption
    <3>2. read[c] + 1 \in Nat \ {0} /\ read[c] + 1 <= MaxDown[c]
      BY <2>1, <3>1
    <3>3. QED
      BY <3>2, Parameters
  <2>4. Pieces(read)' = [Pieces(read) EXCEPT ![c] = Append(@, p)]
    <3>1. Pieces(read)' = Pieces(read')
      BY DEF Pieces
    <3>2. QED
      BY <1>1, <2>1, <2>3, <3>1, PiecesGrow
  <2>5. Download!Put(c, p)
    BY <2>1, <2>2, <2>4 DEF Download!Put, DownState
  <2>6. QED
    BY <2>5 DEF Download!Next
<1>8. CASE \/ \E c \in Conn : TaskWrites(c) \/ TaskDrained(c) \/ TaskEof(c)
           \/ Deliver \/ ReaderEnds \/ Break \/ ExitStep
  BY <1>2, <1>8
     DEF TaskWrites, TaskDrained, TaskEof, Deliver, ReaderEnds, Break, ExitStep,
         HandleBegin, Connected, Refused, HandleData, HandleEnd, LoopEnds,
         client, exit
<1>9. QED
  BY <1>4, <1>5, <1>6, <1>7, <1>8, NextIs DEF Actions

-----------------------------------------------------------------------------
(* The inductive invariant, and what it is for.                            *)

StreamInv == TypeInv /\ IdInv /\ LifeInv /\ UpInv /\ DownInv

LEMMA StreamInvHolds == ASSUME Enough PROVE Spec => []StreamInv
<1>1. Init => StreamInv
  BY TypeInit, IdsInit, LifeInit, UpInit, DownInit DEF StreamInv
<1>2. StreamInv /\ [Next]_vars => StreamInv'
  <2> SUFFICES ASSUME StreamInv, [Next]_vars PROVE StreamInv'
    OBVIOUS
  <2>1. TypeInv' /\ IdInv'
    BY TypeNext, IdsNext DEF StreamInv
  <2>2. CASE Next
    BY <2>1, <2>2, LifeNext, UpInvNext, DownInvNext DEF StreamInv
  <2>3. CASE UNCHANGED vars
    <3>1. LifeInv' = LifeInv /\ UpInv' = UpInv /\ DownInv' = DownInv
      BY <2>3
         DEF vars, client, exit, LifeInv, Life, UpInv, Up, Unhandled, Handled,
             DownInv, Down, ComingTo, Fixed, Connecting, Owns, Listens
    <3>2. QED
      BY <2>1, <3>1 DEF StreamInv
  <2>4. QED
    BY <2>2, <2>3
<1>3. QED
  BY <1>1, <1>2, PTL DEF Spec

\* The bytes of every SOCKS client reach its destination in order, each once,
\* however the streams interleave; and a task that ends because its stream
\* was dropped (spawn_stream_tasks in exit.rs) has written all of them.
THEOREM UploadHolds == ASSUME Enough PROVE Spec => UploadIsByteStream
<1>1. Init => Upload!Init
  <2> SUFFICES ASSUME Init PROVE Upload!Init
    OBVIOUS
  <2>1. Pieces(sent) = [c \in Conn |-> <<>>]
    BY DEF Init, Pieces
  <2>2. QED
    BY <2>1 DEF Init, Upload!Init
<1>2. StreamInv /\ [Next]_vars
        => [Upload!Next]_<<Pieces(sent), written, UpState>>
  <2> SUFFICES ASSUME StreamInv, [Next]_vars
               PROVE  [Upload!Next]_<<Pieces(sent), written, UpState>>
    OBVIOUS
  <2>1. CASE Next
    BY <2>1, UploadStep DEF StreamInv
  <2>2. CASE UNCHANGED vars
    BY <2>2 DEF vars, client, exit, Pieces, UpState
  <2>3. QED
    BY <2>1, <2>2
<1>3. QED
  BY <1>1, <1>2, StreamInvHolds, PTL
     DEF Spec, UploadIsByteStream, Upload!Spec, UpState

\* Each SOCKS client gets what its destination sent, in order, each piece once
\* and nothing of another stream's; and one that sees its stream's END
\* (handle_stream in stream.rs) has got all that the exit had read.
THEOREM DownloadHolds == ASSUME Enough PROVE Spec => DownloadIsByteStream
<1>1. Init => Download!Init
  <2> SUFFICES ASSUME Init PROVE Download!Init
    OBVIOUS
  <2>1. Pieces(read) = [c \in Conn |-> <<>>]
    BY DEF Init, Pieces
  <2>2. QED
    BY <2>1 DEF Init, Download!Init
<1>2. StreamInv /\ [Next]_vars
        => [Download!Next]_<<Pieces(read), got, DownState>>
  <2> SUFFICES ASSUME StreamInv, [Next]_vars
               PROVE  [Download!Next]_<<Pieces(read), got, DownState>>
    OBVIOUS
  <2>1. CASE Next
    BY <2>1, DownloadStep DEF StreamInv
  <2>2. CASE UNCHANGED vars
    BY <2>2 DEF vars, client, exit, Pieces, DownState, Listens
  <2>3. QED
    BY <2>1, <2>2
<1>3. QED
  BY <1>1, <1>2, StreamInvHolds, PTL
     DEF Spec, DownloadIsByteStream, Download!Spec, DownState

-----------------------------------------------------------------------------
(* Where no step of Progress is left: nobody waits for what cannot come.   *)

HasBegin(c) == \E p \in 1 .. Len(fwd) : IsBegin(fwd[p], c)

HasId(s, i) == \E p \in 1 .. Len(s) : s[p].id = i

\* The exit holds nothing for c, and nothing comes that it would do it for.
Forgotten(c) ==
    (\A i \in Id : streams[i] # c) /\ ~Connecting(c) /\ ~HasBegin(c)

\* END follows BEGIN.
Ordered(c) ==
    \A p, q \in 1 .. Len(fwd) :
        IsBegin(fwd[p], c) /\ fwd[q].cmd = "END" /\ fwd[q].id = sid[c] => p < q

\* What a connection waits for is on its way, while the circuit stands.
EndIsUnderWay(c) ==
    cpc[c] = "done" /\ ~broken => HasEnd(fwd, sid[c]) \/ Forgotten(c)

EofIsUnderWay(c) ==
    task[c] = "eof" /\ Listens(c) /\ reader /\ ~broken =>
        HasEnd(bwd, sid[c]) \/ HasEnd(rx[c], sid[c])

AnswerIsUnderWay(c) ==
    cpc[c] = "waiting" /\ reader /\ ~broken =>
        HasBegin(c) \/ Connecting(c) \/ HasId(bwd, sid[c]) \/ rx[c] # <<>>

\* A stream registered after the reader's end hears nothing.
Unheard(c) ==
    ~reader /\ (\E i \in Id : senders[i] = c) =>
        cpc[c] # "streaming" /\ rx[c] = <<>>

RestOf(c) ==
    /\ Ordered(c)
    /\ EndIsUnderWay(c)
    /\ EofIsUnderWay(c)
    /\ AnswerIsUnderWay(c)
    /\ Unheard(c)

RestInv == (loop \/ broken) /\ \A c \in Conn : RestOf(c)

LEMMA RestInit == Init => RestInv
<1> SUFFICES ASSUME Init, NEW c \in Conn PROVE (loop \/ broken) /\ RestOf(c)
  BY DEF RestInv, Init
<1>1. Len(fwd) = 0 /\ begin = None /\ cpc[c] = "new"
  BY DEF Init
<1>2. \A i \in Id : senders[i] # c
  BY Parameters DEF Init
<1>3. QED
  BY <1>1, <1>2
     DEF Init, RestOf, Ordered, EndIsUnderWay, EofIsUnderWay, AnswerIsUnderWay,
         Unheard, Listens

\* What a step does to the circuit.
LEMMA CircuitMoves ==
    ASSUME TypeInv, Next
    PROVE  /\ reader' = reader \/ ReaderEnds
           /\ broken' = broken \/ (~broken /\ broken' = TRUE)
           /\ loop' = loop \/ (broken /\ broken' = broken)
<1>1. reader' = reader \/ ReaderEnds
  BY NextIs
     DEF Actions, ExitStep, Open, Answered, ChannelClosed, Timeout, Close,
         Leave, SendData, Receive, Cleanup, TaskWrites, TaskDrained,
         TaskReads, TaskEof, Deliver, Break, Connected, Refused,
         HandleBegin, HandleData, HandleEnd, LoopEnds, client
<1>2. broken' = broken \/ (~broken /\ broken' = TRUE)
  BY NextIs
     DEF Actions, ExitStep, Open, Answered, ChannelClosed, Timeout, Close,
         Leave, SendData, Receive, Cleanup, TaskWrites, TaskDrained,
         TaskReads, TaskEof, Deliver, ReaderEnds, Break, Connected, Refused,
         HandleBegin, HandleData, HandleEnd, LoopEnds
<1>3. loop' = loop \/ (broken /\ broken' = broken)
  BY NextIs
     DEF Actions, ExitStep, Open, Answered, ChannelClosed, Timeout, Close,
         Leave, SendData, Receive, Cleanup, TaskWrites, TaskDrained,
         TaskReads, TaskEof, Deliver, ReaderEnds, Break, Connected, Refused,
         HandleBegin, HandleData, HandleEnd, LoopEnds, exit
<1>4. QED
  BY <1>1, <1>2, <1>3

\* What a step does to the cells on their way to the exit.
LEMMA FwdTakes ==
    ASSUME TypeInv, Next
    PROVE  \/ fwd' = fwd
           \/ \E w \in FwdCell' : fwd' = Append(fwd, w)
           \/ HandleBegin \/ HandleData \/ HandleEnd
<1>1. ASSUME NEW c \in Conn, Open(c) \/ SendData(c) \/ Cleanup(c)
      PROVE  fwd' = fwd \/ \E w \in FwdCell' : fwd' = Append(fwd, w)
  BY <1>1, OpenCell, DataCell, EndCell DEF Open, SendData, Cleanup, Send, Put
<1>2. CASE fwd' = fwd \/ HandleBegin \/ HandleData \/ HandleEnd
  BY <1>2
<1>3. QED
  BY <1>1, <1>2, NextIs
     DEF Actions, ExitStep, Answered, ChannelClosed, Timeout, Close,
         Leave, Receive, TaskWrites, TaskDrained, TaskReads, TaskEof, Deliver,
         ReaderEnds, Break, Connected, Refused, LoopEnds

\* What a step does to the cells on their way back.
LEMMA BwdTakes ==
    ASSUME TypeInv, Next
    PROVE  \/ bwd' = bwd
           \/ \E w \in BwdCell' : bwd' = Append(bwd, w)
           \/ Deliver
<1>1. \/ Deliver \/ bwd' = bwd
      \/ \E w : bwd' = Append(bwd, w)
  <2>1. ASSUME NEW c \in Conn, Actions(c)
        PROVE  bwd' = bwd \/ \E w : bwd' = Append(bwd, w)
    BY <2>1
       DEF Actions, Open, Answered, ChannelClosed, Timeout, Close, Leave,
           SendData, Receive, Cleanup, TaskWrites, TaskDrained, TaskReads,
           TaskEof, EndOf, Reply, Put
  <2>2. CASE ReaderEnds \/ Break \/ ExitStep
    BY <2>2
       DEF ReaderEnds, Break, ExitStep, HandleBegin, Connected, Refused,
           Refusal, HandleData, HandleEnd, LoopEnds, Reply, Put
  <2>3. QED
    BY <2>1, <2>2, NextIs
<1>2. \A w : bwd' = Append(bwd, w) => ~(bwd # <<>> /\ bwd' = Tail(bwd))
  <2>1. bwd \in Seq(BwdCell)
    BY DEF TypeInv, Contents
  <2>2. Len(bwd) \in Nat /\ (bwd # <<>> => Len(Tail(bwd)) = Len(bwd) - 1)
    BY <2>1, TailAt, LenProperties
  <2>3. \A w : Len(Append(bwd, w)) = Len(bwd) + 1
    BY <2>1
  <2>4. QED
    BY <2>2, <2>3
<1>3. QED
  BY <1>1, <1>2, BwdMoves

\* What a step does to the task of a connection, and to its channel.
Listening(c) ==
    /\ Listens(c) /\ cpc'[c] = "streaming" /\ rx[c] # <<>>
    /\ Head(rx[c]).cmd # "END" /\ rx'[c] = Tail(rx[c])

Given(c) ==
    /\ Deliver /\ cpc'[c] = cpc[c]
    /\ rx'[c] = IF c = senders[Head(bwd).id] /\ Listens(c)
                THEN Append(rx[c], Head(bwd)) ELSE rx[c]

ClientMove(c) ==
    \/ Open(c) \/ Cleanup(c) \/ Listening(c) \/ Given(c)
    \/ cpc'[c] = cpc[c] /\ rx'[c] = rx[c]
    \/ Listens(c) /\ cpc'[c] \in {"leaving", "gone"}

LEMMA ClientMoves == ASSUME TypeInv, Next, NEW c \in Conn PROVE ClientMove(c)
<1>0. /\ cpc \in [Conn -> {"new", "waiting", "streaming", "leaving", "done", "gone"}]
      /\ rx \in [Conn -> Seq(Word)]
  BY DEF TypeInv, Scalars, Contents
<1>1. ASSUME NEW d \in Conn, d # c,
             \/ Open(d) \/ Answered(d) \/ ChannelClosed(d) \/ Timeout(d)
             \/ Close(d) \/ SendData(d) \/ Receive(d) \/ Cleanup(d)
      PROVE  cpc'[c] = cpc[c] /\ rx'[c] = rx[c]
  BY <1>0, <1>1
     DEF Open, Answered, ChannelClosed, Timeout, Close, Leave, SendData,
         Receive, Cleanup, Goto, Received, Dropped
<1>2. CASE Answered(c)
  BY <1>0, <1>2 DEF Answered, Goto, Received, Dropped, Listens, Listening, ClientMove
<1>3. CASE ChannelClosed(c) \/ Timeout(c) \/ Close(c)
  BY <1>0, <1>3
     DEF ChannelClosed, Timeout, Close, Leave, Goto, Dropped, Listens, ClientMove
<1>4. CASE SendData(c)
  BY <1>0, <1>4 DEF SendData, Goto, Dropped, Listens, ClientMove
<1>5. CASE Receive(c)
  <2>1. CASE Head(rx[c]).cmd = "END"
    BY <1>0, <1>5, <2>1 DEF Receive, Goto, Listens, ClientMove
  <2>2. CASE Head(rx[c]).cmd # "END"
    <3>1. cpc' = cpc /\ Received(c)
      BY <1>5, <2>2 DEF Receive
    <3>2. QED
      BY <1>0, <1>5, <2>2, <3>1 DEF Receive, Received, Listens, Listening, ClientMove
  <2>3. QED
    BY <2>1, <2>2
<1>6. CASE Deliver
  BY <1>6 DEF Deliver, Owner, Given, ClientMove
<1>7. CASE Open(c) \/ Cleanup(c)
  BY <1>7 DEF ClientMove
<1>8. CASE UNCHANGED <<cpc, rx>>
  BY <1>8 DEF ClientMove
<1>9. QED
  BY <1>1, <1>2, <1>3, <1>4, <1>5, <1>6, <1>7, <1>8, NextIs
     DEF Actions, ExitStep, TaskWrites, TaskDrained, TaskReads, TaskEof,
         ReaderEnds, Break, Connected, Refused, HandleBegin, HandleData,
         HandleEnd, LoopEnds, client, ClientMove

\* What a step does to the registrations of c, at the client and at the exit.
LEMMA EntriesMove ==
    ASSUME TypeInv, Next, NEW c \in Conn, NEW i \in Id
    PROVE  /\ senders'[i] = c => senders[i] = c \/ Open(c)
           /\ ReaderEnds => senders'[i] # c
           /\ streams'[i] = c => streams[i] = c \/ Connecting(c)
<1>0. /\ senders \in [Id -> Conn \cup {None}] /\ nextId \in Id
      /\ streams \in [Id -> Conn \cup {None}] /\ c # None
  BY Parameters DEF TypeInv, Scalars
<1>1. senders'[i] = c => senders[i] = c \/ Open(c)
  <2>1. ASSUME NEW d \in Conn, Open(d), d # c
        PROVE  senders'[i] = c => senders[i] = c
    BY <1>0, <2>1 DEF Open
  <2>2. ASSUME NEW d \in Conn, Cleanup(d)
        PROVE  senders'[i] = c => senders[i] = c
    BY <1>0, <2>2 DEF Cleanup
  <2>3. CASE ReaderEnds
    BY <1>0, <2>3 DEF ReaderEnds
  <2>4. QED
    BY <2>1, <2>2, <2>3, NextIs
       DEF Actions, ExitStep, Answered, ChannelClosed, Timeout, Close, Leave,
           SendData, Receive, TaskWrites, TaskDrained, TaskReads, TaskEof,
           Deliver, Break, Connected, Refused, HandleBegin, HandleData,
           HandleEnd, LoopEnds, client
<1>2. ReaderEnds => senders'[i] # c
  BY <1>0 DEF ReaderEnds
<1>3. streams'[i] = c => streams[i] = c \/ Connecting(c)
  <2>1. CASE Connected
    BY <1>0, <2>1, BeginIs DEF Connected, Connecting
  <2>2. CASE HandleEnd
    <3>1. Head(fwd).id \in Id
      BY <2>2, TakesHead DEF HandleEnd
    <3>2. QED
      BY <1>0, <2>2, <3>1 DEF HandleEnd
  <2>3. QED
    BY <2>1, <2>2, NextIs
       DEF Actions, ExitStep, Open, Answered, ChannelClosed, Timeout, Close,
           Leave, SendData, Receive, Cleanup, TaskWrites, TaskDrained,
           TaskReads, TaskEof, Deliver, ReaderEnds, Break, Refused,
           HandleBegin, HandleData, LoopEnds, exit
<1>4. QED
  BY <1>1, <1>2, <1>3

LEMMA BeginStays ==
    ASSUME TypeInv, Next
    PROVE  begin' = begin \/ HandleBegin \/ Connected \/ Refused
  BY NextIs
     DEF Actions, ExitStep, Open, Answered, ChannelClosed, Timeout, Close,
         Leave, SendData, Receive, Cleanup, TaskWrites, TaskDrained,
         TaskReads, TaskEof, Deliver, ReaderEnds, Break,
         HandleData, HandleEnd, LoopEnds, exit

LEMMA OrderedNext ==
    ASSUME TypeInv, TypeInv', IdInv', Next, NEW c \in Conn, Ordered(c)
    PROVE  Ordered(c)'
<1> SUFFICES ASSUME NEW p \in 1 .. Len(fwd'), NEW q \in 1 .. Len(fwd'),
                    IsBegin(fwd'[p], c), fwd'[q].cmd = "END",
                    fwd'[q].id = sid'[c]
             PROVE  p < q
  BY DEF Ordered, IsBegin
<1>0. fwd \in Seq(FwdCell) /\ fwd' \in Seq(FwdCell') /\ Len(fwd) \in Nat
  BY DEF TypeInv, Contents
<1>1. p # q
  BY DEF IsBegin
<1>2. cpc'[c] # "new"
  <2>1. fwd'[p] \in FwdCell'
    BY <1>0, ElementOfSeq
  <2>2. QED
    BY <2>1 DEF FwdCell, IsBegin, Owns
<1>3. \A n \in 1 .. Len(fwd) : IsBegin(fwd[n], c) => cpc[c] # "new"
  <2>1. \A n \in 1 .. Len(fwd) : fwd[n] \in FwdCell
    BY <1>0, ElementOfSeq
  <2>2. QED
    BY <2>1 DEF FwdCell, IsBegin, Owns
<1>4. cpc[c] # "new" => sid'[c] = sid[c]
  BY GrowsNext DEF Grows
<1>5. CASE fwd' = fwd
  BY <1>3, <1>4, <1>5 DEF Ordered
<1>6. CASE fwd # <<>> /\ fwd' = Tail(fwd)
  <2>1. /\ p + 1 \in 1 .. Len(fwd) /\ q + 1 \in 1 .. Len(fwd)
        /\ fwd'[p] = fwd[p + 1] /\ fwd'[q] = fwd[q + 1]
    BY <1>0, <1>6, TailAt
  <2>2. p + 1 < q + 1
    BY <1>3, <1>4, <2>1 DEF Ordered
  <2>3. QED
    BY <2>2
<1>7. ASSUME NEW w \in FwdCell', fwd' = Append(fwd, w),
             cpc[c] = "new" \/ ~IsBegin(w, c)
      PROVE  p < q
  <2>1. /\ Len(fwd') = Len(fwd) + 1
        /\ \A n \in 1 .. Len(fwd') : fwd'[n] = IF n = Len(fwd) + 1 THEN w ELSE fwd[n]
    BY <1>0, <1>7
  <2>2. CASE q = Len(fwd) + 1
    BY <1>1, <2>1, <2>2
  <2>3. CASE q # Len(fwd) + 1
    <3>1. q \in 1 .. Len(fwd) /\ fwd'[q] = fwd[q]
      BY <1>0, <2>1, <2>3
    <3>2. cpc[c] # "new"
      BY <1>2, <3>1, IdIsNew
    <3>3. p # Len(fwd) + 1
      BY <1>7, <2>1, <3>2
    <3>4. p \in 1 .. Len(fwd) /\ fwd'[p] = fwd[p]
      BY <1>0, <2>1, <3>3
    <3>5. QED
      BY <1>4, <3>1, <3>2, <3>4 DEF Ordered
  <2>4. QED
    BY <2>2, <2>3
<1>8. QED
  BY <1>5, <1>6, <1>7, BeginMoves

LEMMA EndStays ==
    ASSUME NEW S, NEW s \in Seq(S), NEW i
    PROVE  /\ \A w : HasEnd(s, i) => HasEnd(Append(s, w), i)
           /\ \A w : w.cmd = "END" /\ w.id = i => HasEnd(Append(s, w), i)
           /\ s # <<>> /\ HasEnd(s, i) =>
                HasEnd(Tail(s), i) \/ (Head(s).cmd = "END" /\ Head(s).id = i)
<1>1. ASSUME NEW w
      PROVE  /\ Len(Append(s, w)) = Len(s) + 1 /\ Append(s, w)[Len(s) + 1] = w
             /\ \A p \in 1 .. Len(s) : Append(s, w)[p] = s[p]
             /\ Len(s) \in Nat
  OBVIOUS
<1>2. \A w : HasEnd(s, i) => HasEnd(Append(s, w), i)
  BY <1>1 DEF HasEnd
<1>3. ASSUME NEW w, w.cmd = "END", w.id = i PROVE HasEnd(Append(s, w), i)
  <2>1. Len(s) + 1 \in 1 .. Len(Append(s, w))
    BY <1>1
  <2>2. QED
    BY <1>1, <1>3, <2>1 DEF HasEnd
<1>4. ASSUME s # <<>>, NEW p \in 1 .. Len(s), s[p].cmd = "END", s[p].id = i
      PROVE  HasEnd(Tail(s), i) \/ (Head(s).cmd = "END" /\ Head(s).id = i)
  <2>1. /\ Len(s) \in Nat /\ Head(s) = s[1] /\ Len(Tail(s)) = Len(s) - 1
        /\ \A n \in 1 .. Len(Tail(s)) : Tail(s)[n] = s[n + 1]
    BY <1>4, TailAt
  <2>2. CASE p = 1
    BY <1>4, <2>1, <2>2
  <2>3. CASE p # 1
    <3>1. p - 1 \in 1 .. Len(Tail(s)) /\ (p - 1) + 1 = p
      BY <2>1, <2>3
    <3>2. Tail(s)[p - 1] = s[p]
      BY <2>1, <3>1
    <3>3. QED
      BY <1>4, <3>1, <3>2 DEF HasEnd
  <2>4. QED
    BY <2>2, <2>3
<1>5. QED
  BY <1>2, <1>3, <1>4 DEF HasEnd

LEMMA BeginsStay ==
    ASSUME TypeInv, NEW c \in Conn
    PROVE  /\ \A w : fwd' = Append(fwd, w) /\ HasBegin(c) => HasBegin(c)'
           /\ \A w : fwd' = Append(fwd, w) /\ IsBegin(w, c) => HasBegin(c)'
           /\ \A w : fwd' = Append(fwd, w) /\ HasBegin(c)' => HasBegin(c) \/ IsBegin(w, c)
           /\ fwd # <<>> /\ fwd' = Tail(fwd) /\ HasBegin(c)' => HasBegin(c)
           /\ fwd # <<>> /\ fwd' = Tail(fwd) /\ HasBegin(c) =>
                HasBegin(c)' \/ IsBegin(Head(fwd), c)
<1>0. fwd \in Seq(FwdCell) /\ Len(fwd) \in Nat
  BY DEF TypeInv, Contents
<1>1. ASSUME NEW w, fwd' = Append(fwd, w)
      PROVE  /\ HasBegin(c) => HasBegin(c)'
             /\ IsBegin(w, c) => HasBegin(c)'
             /\ HasBegin(c)' => HasBegin(c) \/ IsBegin(w, c)
  <2>1. /\ Len(fwd') = Len(fwd) + 1 /\ fwd'[Len(fwd) + 1] = w
        /\ \A n \in 1 .. Len(fwd) : fwd'[n] = fwd[n]
    BY <1>0, <1>1
  <2>2. \A n \in 1 .. Len(fwd') : n = Len(fwd) + 1 \/ n \in 1 .. Len(fwd)
    BY <1>0, <2>1
  <2>3. Len(fwd) + 1 \in 1 .. Len(fwd') /\ \A n \in 1 .. Len(fwd) : n \in 1 .. Len(fwd')
    BY <1>0, <2>1
  <2>4. QED
    BY <2>1, <2>2, <2>3 DEF HasBegin, IsBegin
<1>2. ASSUME fwd # <<>>, fwd' = Tail(fwd)
      PROVE  /\ HasBegin(c)' => HasBegin(c)
             /\ HasBegin(c) => HasBegin(c)' \/ IsBegin(Head(fwd), c)
  <2>1. /\ Head(fwd) = fwd[1] /\ Len(fwd') = Len(fwd) - 1
        /\ \A n \in 1 .. Len(fwd') : fwd'[n] = fwd[n + 1]
    BY <1>0, <1>2, TailAt
  <2>2. \A n \in 1 .. Len(fwd') : n + 1 \in 1 .. Len(fwd)
    BY <1>0, <2>1
  <2>3. HasBegin(c)' => HasBegin(c)
    BY <2>1, <2>2 DEF HasBegin, IsBegin
  <2>4. ASSUME NEW n \in 1 .. Len(fwd), IsBegin(fwd[n], c), n # 1
        PROVE  HasBegin(c)'
    <3>1. n - 1 \in 1 .. Len(fwd') /\ (n - 1) + 1 = n
      BY <1>0, <2>1, <2>4
    <3>2. fwd'[n - 1] = fwd[n]
      BY <2>1, <3>1
    <3>3. QED
      BY <2>4, <3>1, <3>2 DEF HasBegin, IsBegin
  <2>5. QED
    BY <2>1, <2>3, <2>4 DEF HasBegin
<1>3. QED
  BY <1>1, <1>2

LEMMA ForgottenNext ==
    ASSUME TypeInv, Next, NEW c \in Conn, cpc[c] # "new", Forgotten(c)
    PROVE  Forgotten(c)'
<1>1. \A i \in Id : streams'[i] # c
  BY EntriesMove DEF Forgotten
<1>2. ~HasBegin(c)'
  <2>1. CASE fwd' = fwd
    BY <2>1 DEF Forgotten, HasBegin, IsBegin
  <2>2. QED
    BY <2>1, BeginMoves, BeginsStay DEF Forgotten
<1>3. ~Connecting(c)'
  <2>1. CASE HandleBegin
    <3>1. /\ begin' = Head(fwd) /\ Head(fwd).cmd = "BEGIN"
          /\ fwd # <<>> /\ fwd \in Seq(FwdCell)
      BY <2>1, TakesHead DEF HandleBegin, TypeInv, Contents
    <3>2. 1 \in 1 .. Len(fwd) /\ Head(fwd) = fwd[1]
      BY <3>1, TailAt
    <3>3. QED
      BY <3>1, <3>2 DEF Forgotten, HasBegin, IsBegin, Connecting
  <2>2. QED
    BY <2>1, BeginStays DEF Forgotten, Connecting, Connected, Refused
<1>4. QED
  BY <1>1, <1>2, <1>3 DEF Forgotten

\* The END of c is taken up: nothing of c is left behind.
LEMMA EndForgets ==
    ASSUME TypeInv, NEW c \in Conn, cpc[c] # "new", Ordered(c), HandleEnd,
           Head(fwd).id = sid[c]
    PROVE  Forgotten(c)'
<1>0. /\ Head(fwd).id \in Id /\ Head(fwd).cmd = "END" /\ begin = None
      /\ fwd # <<>> /\ fwd' = Tail(fwd) /\ fwd \in Seq(FwdCell)
      /\ streams \in [Id -> Conn \cup {None}] /\ c # None
  BY TakesHead, Parameters DEF HandleEnd, TypeInv, Scalars, Contents
<1>1. \A i \in Id : streams'[i] # c
  <2>1. \A i \in Id : streams[i] = c => i = sid[c]
    BY DEF TypeInv, Owners, Owns
  <2>2. streams' = [streams EXCEPT ![Head(fwd).id] = None]
    BY DEF HandleEnd
  <2>3. QED
    BY <1>0, <2>1, <2>2
<1>2. ~Connecting(c)'
  BY <1>0 DEF HandleEnd, Connecting
<1>3. ~HasBegin(c)'
  <2>1. /\ Len(fwd) \in Nat \ {0} /\ Head(fwd) = fwd[1]
        /\ Len(fwd') = Len(fwd) - 1
        /\ \A n \in 1 .. Len(fwd') : fwd'[n] = fwd[n + 1]
    BY <1>0, TailAt
  <2>2. ASSUME NEW n \in 1 .. Len(fwd'), IsBegin(fwd'[n], c) PROVE FALSE
    <3>1. n + 1 \in 1 .. Len(fwd) /\ IsBegin(fwd[n + 1], c) /\ 1 \in 1 .. Len(fwd)
      BY <2>1, <2>2
    <3>2. n + 1 < 1
      BY <1>0, <2>1, <3>1 DEF Ordered
    <3>3. QED
      BY <3>2
  <2>3. QED
    BY <2>2 DEF HasBegin, IsBegin
<1>4. QED
  BY <1>1, <1>2, <1>3 DEF Forgotten

LEMMA EndNext ==
    ASSUME TypeInv, Next, NEW c \in Conn, Ordered(c), EndIsUnderWay(c)
    PROVE  EndIsUnderWay(c)'
<1> SUFFICES ASSUME cpc'[c] = "done", ~broken', ~Forgotten(c)'
             PROVE  HasEnd(fwd', sid'[c])
  BY DEF EndIsUnderWay, HasEnd, Forgotten, HasBegin, IsBegin, Connecting
<1>0. fwd \in Seq(FwdCell) /\ ~broken /\ (cpc[c] # "new" => sid'[c] = sid[c])
  <2>1. ~broken
    BY CircuitMoves
  <2>2. QED
    BY <2>1, GrowsNext DEF TypeInv, Contents, Grows
<1>1. CASE Cleanup(c)
  <2>1. PICK w : w = Cell("END", sid[c], None)
    OBVIOUS
  <2>2. w.cmd = "END" /\ w.id = sid[c] /\ fwd' = Append(fwd, w) /\ sid' = sid
    BY <1>0, <1>1, <2>1 DEF Cleanup, EndsAlways, Send, Put, Cell
  <2>3. QED
    BY <1>0, <2>2, EndStays
<1>2. CASE ~Cleanup(c)
  <2>1. cpc[c] = "done"
    <3>1. Open(c) => cpc'[c] # "done"
      BY DEF Open, Goto, TypeInv, Scalars
    <3>2. QED
      BY <1>2, <3>1, ClientMoves DEF ClientMove, Listening, Given
  <2>2. HasEnd(fwd, sid[c]) /\ sid'[c] = sid[c]
    BY <1>0, <2>1, ForgottenNext DEF EndIsUnderWay
  <2>3. CASE HandleEnd
    <3>1. fwd' = Tail(fwd) /\ fwd # <<>> /\ Head(fwd).id # sid[c]
      BY <2>1, <2>3, EndForgets, TakesHead DEF HandleEnd
    <3>2. QED
      BY <1>0, <2>2, <3>1, EndStays
  <2>4. CASE HandleBegin \/ HandleData
    <3>1. fwd' = Tail(fwd) /\ fwd # <<>> /\ Head(fwd).cmd # "END"
      BY <2>4, TakesHead DEF HandleBegin, HandleData
    <3>2. QED
      BY <1>0, <2>2, <3>1, EndStays
  <2>5. CASE fwd' = fwd
    BY <2>2, <2>5
  <2>6. ASSUME NEW w, fwd' = Append(fwd, w) PROVE HasEnd(fwd', sid'[c])
    BY <1>0, <2>2, <2>6, EndStays
  <2>7. QED
    BY <2>3, <2>4, <2>5, <2>6, FwdTakes
<1>3. QED
  BY <1>1, <1>2

LEMMA UnheardNext ==
    ASSUME TypeInv, Next, NEW c \in Conn, Unheard(c)
    PROVE  Unheard(c)'
<1> SUFFICES ASSUME ~reader', NEW i \in Id, senders'[i] = c
             PROVE  cpc'[c] # "streaming" /\ rx'[c] = <<>>
  BY DEF Unheard
<1>1. ~ReaderEnds /\ reader' = reader /\ (senders[i] = c \/ Open(c))
  BY EntriesMove, CircuitMoves
<1>2. CASE Open(c)
  <2>1. rx[c] = <<>>
    <3>1. \A w \in RxCell(c) : FALSE
      BY <1>2 DEF RxCell, Owns, Open
    <3>2. rx[c] \in Seq(RxCell(c))
      BY DEF TypeInv, Contents
    <3>3. QED
      BY <3>1, <3>2, TailAt
  <2>2. QED
    BY <1>2, <2>1 DEF Open, Goto, TypeInv, Scalars
<1>3. CASE ~Open(c)
  <2>1. cpc[c] # "streaming" /\ rx[c] = <<>> /\ ~Deliver /\ ~reader
    BY <1>1, <1>3 DEF Unheard, Deliver
  <2>2. CASE Cleanup(c)
    BY <2>1, <2>2 DEF Cleanup, Goto, TypeInv, Scalars
  <2>3. CASE Listens(c) /\ cpc'[c] \in {"leaving", "gone"}
    <3>1. rx'[c] = <<>>
      BY <2>1, RxMoves DEF TypeInv, Contents
    <3>2. QED
      BY <2>3, <3>1
  <2>4. QED
    BY <1>3, <2>1, <2>2, <2>3, ClientMoves DEF ClientMove, Listening, Given
<1>4. QED
  BY <1>2, <1>3

LEMMA EofIs ==
    ASSUME TypeInv, Next, NEW c \in Conn, task'[c] = "eof"
    PROVE  task[c] = "eof" \/ TaskEof(c)
<1>0. task \in [Conn -> {"none", "run", "drained", "eof", "failed"}]
  BY DEF TypeInv, Scalars
<1>1. ASSUME NEW d \in Conn,
             TaskWrites(d) \/ TaskDrained(d) \/ TaskReads(d)
             \/ (TaskEof(d) /\ d # c)
      PROVE  task[c] = "eof"
  BY <1>0, <1>1 DEF TaskWrites, TaskDrained, TaskReads, TaskEof, Ends
<1>2. CASE Connected
  BY <1>0, <1>2, BeginIs DEF Connected
<1>3. CASE task' = task
  BY <1>3
<1>4. QED
  BY <1>1, <1>2, <1>3, NextIs
     DEF Actions, ExitStep, Open, Answered, ChannelClosed, Timeout, Close,
         Leave, SendData, Receive, Cleanup, Deliver, ReaderEnds, Break,
         Refused, HandleBegin, HandleData, HandleEnd, LoopEnds, exit

LEMMA EofNext ==
    ASSUME TypeInv, LifeInv, Next, NEW c \in Conn, EofIsUnderWay(c)
    PROVE  EofIsUnderWay(c)'
<1> SUFFICES ASSUME task'[c] = "eof", Listens(c)', reader', ~broken'
             PROVE  HasEnd(bwd', sid'[c]) \/ HasEnd(rx'[c], sid'[c])
  BY DEF EofIsUnderWay, HasEnd
<1>0. /\ bwd \in Seq(BwdCell) /\ rx[c] \in Seq(Word)
      /\ cpc \in [Conn -> {"new", "waiting", "streaming", "leaving", "done", "gone"}]
  BY DEF TypeInv, Scalars, Contents
<1>1. reader /\ ~broken
  <2>1. ~ReaderEnds
    BY DEF ReaderEnds
  <2>2. reader
    BY <2>1, CircuitMoves
  <2>3. ~broken
    BY CircuitMoves
  <2>4. QED
    BY <2>2, <2>3
<1>2. cpc[c] # "new" /\ sid'[c] = sid[c]
  <2>1. cpc[c] # "new"
    BY EofIs DEF TaskEof, TypeInv, Owners
  <2>2. QED
    BY <2>1, GrowsNext DEF Grows
<1>3. Listens(c)
  <2>1. ~Open(c)
    BY <1>2 DEF Open
  <2>2. Cleanup(c) => cpc'[c] = "done"
    BY <1>0 DEF Cleanup, Goto
  <2>3. QED
    BY <2>1, <2>2, ClientMoves DEF ClientMove, Listening, Given, Listens
<1>4. senders[sid[c]] = c
  BY <1>1, <1>3 DEF LifeInv, Life
<1>5. CASE TaskEof(c)
  <2>1. PICK w : w = Cell("END", sid[c], None)
    OBVIOUS
  <2>2. w.cmd = "END" /\ w.id = sid[c] /\ bwd' = Append(bwd, w)
    BY <1>1, <1>5, <2>1 DEF TaskEof, EndOf, Put, Cell
  <2>3. QED
    BY <1>0, <1>2, <2>2, EndStays
<1>6. CASE task[c] = "eof"
  <2>1. HasEnd(bwd, sid[c]) \/ HasEnd(rx[c], sid[c])
    BY <1>1, <1>3, <1>6 DEF EofIsUnderWay
  <2>2. CASE HasEnd(bwd, sid[c])
    <3>1. CASE Deliver
      <4>1. bwd # <<>> /\ bwd' = Tail(bwd)
        BY <3>1 DEF Deliver
      <4>2. \/ HasEnd(bwd', sid[c])
            \/ Head(bwd).cmd = "END" /\ Head(bwd).id = sid[c]
        BY <1>0, <2>2, <4>1, EndStays
      <4>3. CASE Head(bwd).cmd = "END" /\ Head(bwd).id = sid[c]
        <5>1. rx'[c] = Append(rx[c], Head(bwd))
          BY <1>3, <1>4, <3>1, <4>3 DEF Deliver, Owner
        <5>2. QED
          BY <1>0, <1>2, <4>3, <5>1, EndStays
      <4>4. QED
        BY <1>2, <4>2, <4>3
    <3>2. CASE bwd' = bwd
      BY <1>2, <2>2, <3>2
    <3>3. ASSUME NEW w, bwd' = Append(bwd, w) PROVE HasEnd(bwd', sid'[c])
      BY <1>0, <1>2, <2>2, <3>3, EndStays
    <3>4. QED
      BY <3>1, <3>2, <3>3, BwdTakes
  <2>3. CASE HasEnd(rx[c], sid[c])
    <3>1. CASE Listening(c)
      BY <1>0, <1>2, <2>3, <3>1, EndStays DEF Listening
    <3>2. CASE rx'[c] = rx[c]
      BY <1>2, <2>3, <3>2
    <3>3. ASSUME NEW w, rx'[c] = Append(rx[c], w) PROVE HasEnd(rx'[c], sid'[c])
      BY <1>0, <1>2, <2>3, <3>3, EndStays
    <3>4. ~Open(c) /\ ~Cleanup(c) /\ cpc'[c] \notin {"leaving", "gone"}
      BY <1>2, <1>3 DEF Open, Cleanup, Listens
    <3>5. QED
      BY <3>1, <3>2, <3>3, <3>4, ClientMoves DEF ClientMove, Given
  <2>4. QED
    BY <2>1, <2>2, <2>3
<1>7. QED
  BY <1>5, <1>6, EofIs

LEMMA IdStays ==
    ASSUME NEW S, NEW s \in Seq(S), NEW i
    PROVE  /\ \A w : HasId(s, i) => HasId(Append(s, w), i)
           /\ \A w : w.id = i => HasId(Append(s, w), i)
           /\ s # <<>> /\ HasId(s, i) => HasId(Tail(s), i) \/ Head(s).id = i
<1>1. ASSUME NEW w
      PROVE  /\ Len(Append(s, w)) = Len(s) + 1 /\ Append(s, w)[Len(s) + 1] = w
             /\ \A p \in 1 .. Len(s) : Append(s, w)[p] = s[p]
             /\ Len(s) \in Nat
  OBVIOUS
<1>2. \A w : HasId(s, i) => HasId(Append(s, w), i)
  BY <1>1 DEF HasId
<1>3. ASSUME NEW w, w.id = i PROVE HasId(Append(s, w), i)
  <2>1. Len(s) + 1 \in 1 .. Len(Append(s, w))
    BY <1>1
  <2>2. QED
    BY <1>1, <1>3, <2>1 DEF HasId
<1>4. ASSUME s # <<>>, NEW p \in 1 .. Len(s), s[p].id = i
      PROVE  HasId(Tail(s), i) \/ Head(s).id = i
  <2>1. /\ Len(s) \in Nat /\ Head(s) = s[1] /\ Len(Tail(s)) = Len(s) - 1
        /\ \A n \in 1 .. Len(Tail(s)) : Tail(s)[n] = s[n + 1]
    BY <1>4, TailAt
  <2>2. CASE p = 1
    BY <1>4, <2>1, <2>2
  <2>3. CASE p # 1
    <3>1. p - 1 \in 1 .. Len(Tail(s)) /\ (p - 1) + 1 = p
      BY <2>1, <2>3
    <3>2. Tail(s)[p - 1] = s[p]
      BY <2>1, <3>1
    <3>3. QED
      BY <1>4, <3>1, <3>2 DEF HasId
  <2>4. QED
    BY <2>2, <2>3
<1>5. QED
  BY <1>2, <1>3, <1>4 DEF HasId

LEMMA AnswerNext ==
    ASSUME TypeInv, LifeInv, Next, NEW c \in Conn, AnswerIsUnderWay(c)
    PROVE  AnswerIsUnderWay(c)'
<1> SUFFICES ASSUME cpc'[c] = "waiting", reader', ~broken'
             PROVE  \/ HasBegin(c)' \/ Connecting(c)'
                    \/ HasId(bwd', sid'[c]) \/ rx'[c] # <<>>
  BY DEF AnswerIsUnderWay, HasId
<1>0. /\ bwd \in Seq(BwdCell) /\ rx[c] \in Seq(Word) /\ fwd \in Seq(FwdCell)
      /\ cpc \in [Conn -> {"new", "waiting", "streaming", "leaving", "done", "gone"}]
  BY DEF TypeInv, Scalars, Contents
<1>1. reader /\ ~broken
  <2>1. ~ReaderEnds
    BY DEF ReaderEnds
  <2>2. reader
    BY <2>1, CircuitMoves
  <2>3. ~broken
    BY CircuitMoves
  <2>4. QED
    BY <2>2, <2>3
<1>2. CASE Open(c)
  <2>1. PICK w : w = Cell("BEGIN", nextId, c)
    OBVIOUS
  <2>2. IsBegin(w, c) /\ fwd' = Append(fwd, w)
    BY <1>1, <1>2, <2>1 DEF Open, Put, Cell, IsBegin
  <2>3. QED
    BY <2>2, BeginsStay
<1>3. CASE ~Open(c)
  <2>1. Cleanup(c) => cpc'[c] = "done"
    BY <1>0 DEF Cleanup, Goto
  <2>2. cpc[c] = "waiting" /\ (rx'[c] = rx[c] \/ Given(c))
    BY <1>3, <2>1, ClientMoves DEF ClientMove, Listening, Given
  <2>3. /\ sid'[c] = sid[c] /\ Listens(c) /\ senders[sid[c]] = c
        /\ cpc[c] # "new"
    BY <1>1, <2>2, GrowsNext DEF Grows, Listens, LifeInv, Life
  <2>4. CASE HasBegin(c)
    <3>1. CASE fwd' = fwd
      BY <2>4, <3>1 DEF HasBegin, IsBegin
    <3>2. ASSUME NEW w, fwd' = Append(fwd, w) PROVE HasBegin(c)'
      BY <2>4, <3>2, BeginsStay
    <3>3. CASE HandleBegin
      <4>1. /\ fwd # <<>> /\ fwd' = Tail(fwd) /\ begin' = Head(fwd)
            /\ Head(fwd) \in FwdCell /\ Head(fwd).cmd = "BEGIN"
        BY <3>3, TakesHead DEF HandleBegin
      <4>2. HasBegin(c)' \/ IsBegin(Head(fwd), c)
        BY <2>4, <4>1, BeginsStay
      <4>3. Head(fwd) # None
        BY <4>1, StreamsAssumption DEF FwdCell, Word
      <4>4. QED
        BY <4>1, <4>2, <4>3 DEF Connecting, IsBegin
    <3>4. CASE HandleData \/ HandleEnd
      <4>1. fwd # <<>> /\ fwd' = Tail(fwd) /\ Head(fwd).cmd \in {"DATA", "END"}
        BY <3>4, TakesHead DEF HandleData, HandleEnd
      <4>2. ~IsBegin(Head(fwd), c)
        BY <4>1 DEF IsBegin
      <4>3. QED
        BY <2>4, <4>1, <4>2, BeginsStay
    <3>5. QED
      BY <3>1, <3>2, <3>3, <3>4, FwdTakes
  <2>5. CASE Connecting(c)
    <3>1. begin # None /\ begin.data = c /\ begin.id = sid[c]
      BY <2>5, BeginIs DEF Connecting, Owns
    <3>2. CASE Connected \/ Refused
      <4>1. PICK w : /\ bwd' = Append(bwd, w)
                     /\ w \in {Cell("CONNECTED", begin.id, None),
                               Cell("END", begin.id, None)}
        BY <1>1, <3>2 DEF Connected, Refused, Refusal, Reply, Put
      <4>2. w.id = sid[c]
        BY <3>1, <4>1 DEF Cell
      <4>3. QED
        BY <1>0, <2>3, <4>1, <4>2, IdStays
    <3>3. ~HandleBegin
      BY <3>1 DEF HandleBegin, Takes
    <3>4. QED
      BY <2>5, <3>2, <3>3, BeginStays DEF Connecting
  <2>6. CASE HasId(bwd, sid[c])
    <3>1. CASE Deliver
      <4>1. bwd # <<>> /\ bwd' = Tail(bwd)
        BY <3>1 DEF Deliver
      <4>2. HasId(bwd', sid[c]) \/ Head(bwd).id = sid[c]
        BY <1>0, <2>6, <4>1, IdStays
      <4>3. CASE Head(bwd).id = sid[c]
        <5>1. rx'[c] = Append(rx[c], Head(bwd))
          BY <2>3, <3>1, <4>3 DEF Deliver, Owner
        <5>2. Len(rx'[c]) = Len(rx[c]) + 1 /\ Len(rx[c]) \in Nat
          BY <1>0, <5>1
        <5>3. QED
          BY <5>2
      <4>4. QED
        BY <2>3, <4>2, <4>3
    <3>2. CASE bwd' = bwd
      BY <2>3, <2>6, <3>2
    <3>3. ASSUME NEW w, bwd' = Append(bwd, w) PROVE HasId(bwd', sid'[c])
      BY <1>0, <2>3, <2>6, <3>3, IdStays
    <3>4. QED
      BY <3>1, <3>2, <3>3, BwdTakes
  <2>7. CASE rx[c] # <<>>
    <3>1. ASSUME NEW w PROVE Append(rx[c], w) # <<>>
      <4>1. Len(Append(rx[c], w)) = Len(rx[c]) + 1 /\ Len(rx[c]) \in Nat
        BY <1>0
      <4>2. QED
        BY <4>1
    <3>2. QED
      BY <2>2, <2>7, <3>1 DEF Given
  <2>8. QED
    BY <1>1, <2>2, <2>4, <2>5, <2>6, <2>7 DEF AnswerIsUnderWay
<1>4. QED
  BY <1>2, <1>3

LEMMA RestNext ==
    ASSUME TypeInv, TypeInv', IdInv', LifeInv, Next, RestInv PROVE RestInv'
<1>1. (loop \/ broken)'
  <2>1. loop = TRUE \/ broken = TRUE
    BY DEF RestInv, TypeInv, Scalars
  <2>2. QED
    BY <2>1, CircuitMoves
<1>2. ASSUME NEW c \in Conn PROVE RestOf(c)'
  <2>1. /\ Ordered(c) /\ EndIsUnderWay(c) /\ EofIsUnderWay(c)
        /\ AnswerIsUnderWay(c) /\ Unheard(c)
    BY DEF RestInv, RestOf
  <2>2. Ordered(c)' /\ EndIsUnderWay(c)'
    BY <2>1, OrderedNext, EndNext
  <2>3. EofIsUnderWay(c)' /\ AnswerIsUnderWay(c)' /\ Unheard(c)'
    BY <2>1, EofNext, AnswerNext, UnheardNext
  <2>4. QED
    BY <2>2, <2>3 DEF RestOf
<1>3. QED
  BY <1>1, <1>2 DEF RestInv

LEMMA RestStep == StreamInv /\ StreamInv' /\ RestInv /\ [Next]_vars => RestInv'
<1> SUFFICES ASSUME StreamInv, StreamInv', RestInv, [Next]_vars PROVE RestInv'
  OBVIOUS
<1>1. CASE Next
  BY <1>1, RestNext DEF StreamInv
<1>2. CASE UNCHANGED vars
  BY <1>2
     DEF vars, client, exit, RestInv, RestOf, Ordered, EndIsUnderWay,
         EofIsUnderWay, AnswerIsUnderWay, Unheard, Forgotten, HasBegin, HasId,
         HasEnd, IsBegin, Connecting, Listens
<1>3. QED
  BY <1>1, <1>2

\* No step of Progress can be taken: what follows are its guards.
AtRest ==
    /\ begin = None
    /\ loop => ~broken /\ fwd = <<>>
    /\ reader => ~broken /\ bwd = <<>>
    /\ \A c \in Conn :
          /\ cpc[c] # "leaving"
          /\ Listens(c) => rx[c] = <<>> /\ senders[sid[c]] = c
          /\ task[c] = "run" => queue[c] = <<>> /\ \E i \in Id : streams[i] = c

\* The states that ExitForgets, CloseIsReported and BeginIsAnswered return to.
Forgets ==
    \A c \in Conn :
        cpc[c] = "done" /\ ~broken =>
            task[c] # "run" /\ \A i \in Id : streams[i] # c

Closed == \A c \in Conn : task[c] = "eof" => cpc[c] # "streaming"

Begun == reader => \A c \in Conn : cpc[c] # "waiting"

LEMMA SettledRests ==
    ASSUME StreamInv, RestInv, AtRest PROVE Forgets /\ Closed /\ Begun
<1>0. Len(<<>>) = 0
  OBVIOUS
<1>1. ASSUME NEW c \in Conn, cpc[c] = "done", ~broken
      PROVE  task[c] # "run" /\ \A i \in Id : streams[i] # c
  <2>1. fwd = <<>>
    BY <1>1 DEF RestInv, AtRest
  <2>2. ~HasEnd(fwd, sid[c])
    BY <1>0, <2>1 DEF HasEnd
  <2>3. Forgotten(c)
    BY <1>1, <2>2 DEF RestInv, RestOf, EndIsUnderWay
  <2>4. QED
    BY <2>3 DEF Forgotten, AtRest
<1>2. ASSUME NEW c \in Conn, task[c] = "eof", cpc[c] = "streaming" PROVE FALSE
  <2>1. /\ Listens(c) /\ senders[sid[c]] = c /\ rx[c] = <<>> /\ sid[c] \in Id
    BY <1>2 DEF Listens, AtRest, StreamInv, TypeInv, Scalars
  <2>2. reader
    BY <1>2, <2>1 DEF RestInv, RestOf, Unheard
  <2>3. ~broken /\ bwd = <<>>
    BY <2>2 DEF AtRest
  <2>4. ~HasEnd(bwd, sid[c]) /\ ~HasEnd(rx[c], sid[c])
    BY <1>0, <2>1, <2>3 DEF HasEnd
  <2>5. QED
    BY <1>2, <2>1, <2>2, <2>3, <2>4 DEF RestInv, RestOf, EofIsUnderWay
<1>3. ASSUME reader, NEW c \in Conn, cpc[c] = "waiting" PROVE FALSE
  <2>1. Listens(c) /\ rx[c] = <<>> /\ ~broken /\ bwd = <<>> /\ begin = None
    BY <1>3 DEF Listens, AtRest
  <2>2. fwd = <<>>
    BY <2>1 DEF RestInv, AtRest
  <2>3. ~HasBegin(c) /\ ~HasId(bwd, sid[c]) /\ ~Connecting(c)
    BY <1>0, <2>1, <2>2 DEF HasBegin, HasId, Connecting
  <2>4. QED
    BY <1>3, <2>1, <2>3 DEF RestInv, RestOf, AnswerIsUnderWay
<1>4. QED
  BY <1>1, <1>2, <1>3 DEF Forgets, Closed, Begun

\* Where no task can take a step, unless a client, a destination, a timer or a
\* failure does something new: the exit holds nothing for a connection that has
\* finished (handle_end in exit.rs), a destination that closed has been reported
\* to its client (spawn_stream_tasks), and no connection waits for an answer to
\* its BEGIN (handle_begin) while its circuit stands.
THEOREM StreamsSettleAtRest ==
    ASSUME Enough
    PROVE  Spec => [](AtRest => Forgets /\ Closed /\ Begun)
<1> DEFINE Settled == AtRest => Forgets /\ Closed /\ Begun
<1>1. Init => RestInv
  BY RestInit
<1>2. StreamInv /\ StreamInv' /\ RestInv /\ [Next]_vars => RestInv'
  BY RestStep
<1>3. StreamInv /\ RestInv => Settled
  BY SettledRests
<1>4. Spec => []StreamInv
  BY StreamInvHolds
<1> HIDE DEF Settled
<1>5. Spec => []Settled
  BY <1>1, <1>2, <1>3, <1>4, PTL DEF Spec
<1>6. QED
  BY <1>5 DEF Settled

=============================================================================
