---------------------------- MODULE OnionPathProofs ---------------------------
(***************************************************************************)
(* What holds of the data path for a circuit of any length, any set of     *)
(* cells and any bounds.  TypeInv types the state.  BackwardInv says that  *)
(* every cell towards the client carries a history the exit really had:    *)
(* that alone keeps the client's streams in the exit's order, whatever is  *)
(* overtaken.  ForwardInv says where every cipher, log and digest towards  *)
(* the exit stands; it is needed because the digest at the exit depends on *)
(* the layers that all the other hops have peeled.                         *)
(* OrderInv says the same of the way back, for as long as no cell has      *)
(* overtaken a reply at the exit.  ReadersInv relates every log to its     *)
(* reader, whatever has broken: from it follows that nothing is missing    *)
(* when nobody can take a step.                                            *)
(***************************************************************************)
EXTENDS OnionPath, SequenceTheorems, WellFoundedInduction, TLAPS

-----------------------------------------------------------------------------
(* Cells, links and positions.                                             *)

\* One hop's cipher changes that hop's layer of a cell and nothing else.
LEMMA CryptProperties ==
    ASSUME NEW w \in WireCell, NEW h \in Hop, NEW p \in Nat
    PROVE  /\ Crypt(w, h, p) \in WireCell
           /\ Crypt(w, h, p).cell = w.cell
           /\ Crypt(w, h, p).tag = w.tag
           /\ \A j \in Hop : Crypt(w, h, p).layers[j] =
                IF j = h /\ Bytes[w.cell] # 0 THEN Toggle(w.layers[h], p)
                ELSE w.layers[j]
  BY DEF Crypt, Toggle, WireCell

\* All hops' ciphers change every layer, and neither cell nor tag.
LEMMA OnionCryptProperties ==
    ASSUME NEW w \in WireCell, NEW pos \in [Hop -> Nat]
    PROVE  /\ OnionCrypt(w, pos) \in WireCell
           /\ OnionCrypt(w, pos).cell = w.cell
           /\ OnionCrypt(w, pos).tag = w.tag
           /\ \A j \in Hop : OnionCrypt(w, pos).layers[j] =
                IF Bytes[w.cell] # 0 THEN Toggle(w.layers[j], pos[j])
                ELSE w.layers[j]
  BY DEF OnionCrypt, Toggle, WireCell

\* A new cell carries no layer.
LEMMA WireProperties ==
    ASSUME NEW c \in Cell \cup {DESTROY}, NEW tag \in Seq(Cell)
    PROVE  /\ Wire(c, tag) \in WireCell
           /\ Wire(c, tag).cell = c
           /\ Wire(c, tag).tag = tag
           /\ \A j \in Hop : Wire(c, tag).layers[j] = {}
  BY DEF Wire, WireCell

\* Ciphers that have moved on still stand at natural positions.
LEMMA AdvanceType ==
    ASSUME NEW w \in WireCell, NEW pos \in [Hop -> Nat]
    PROVE  Advance(pos, w) \in [Hop -> Nat]
  BY CellAssumption DEF Advance, WireCell

\* A write towards the exit appends to one link that is up.
LEMMA WriteForwardProperties ==
    ASSUME fwd \in [Hop -> Seq(WireCell)], NEW h \in Hop,
           NEW w \in WireCell, WriteForward(h, w)
    PROVE  /\ fwd' \in [Hop -> Seq(WireCell)]
           /\ \A g \in Hop : g # h => fwd'[g] = fwd[g]
           /\ fwd'[h] = IF up[h] THEN Append(fwd[h], w) ELSE fwd[h]
  BY AppendProperties DEF WriteForward

\* A write towards the client appends to one link that is up and not shut.
LEMMA WriteBackwardProperties ==
    ASSUME bwd \in [Hop -> Seq(WireCell)], NEW h \in Hop,
           NEW w \in WireCell, WriteBackward(h, w)
    PROVE  /\ bwd' \in [Hop -> Seq(WireCell)]
           /\ \A g \in Hop : g # h => bwd'[g] = bwd[g]
           /\ bwd'[h] = IF up[h] /\ ~shut[h] THEN Append(bwd[h], w)
                        ELSE bwd[h]
  BY AppendProperties DEF WriteBackward

\* No DESTROY travels towards the exit: the client never sends one.
LEMMA WriteForwardCells ==
    ASSUME fwd \in [Hop -> Seq(WireCell)], NEW h \in Hop,
           \A g \in Hop : \A i \in 1 .. Len(fwd[g]) : fwd[g][i].cell \in Cell,
           NEW w \in WireCell, w.cell \in Cell, WriteForward(h, w)
    PROVE  \A g \in Hop : \A i \in 1 .. Len(fwd'[g]) : fwd'[g][i].cell \in Cell
  <1> SUFFICES ASSUME NEW g \in Hop, NEW i \in 1 .. Len(fwd'[g])
               PROVE  fwd'[g][i].cell \in Cell
    OBVIOUS
  <1>1. CASE g # h \/ ~up[h]
    BY <1>1, WriteForwardProperties
  <1>2. CASE g = h /\ up[h]
    <2>1. fwd[h] \in Seq(WireCell) /\ fwd'[h] = Append(fwd[h], w)
      BY <1>2, WriteForwardProperties
    <2>2. i \in 1 .. Len(fwd[h]) \/ i = Len(fwd[h]) + 1
      BY <1>2, <2>1
    <2>3. fwd'[h][i] = IF i = Len(fwd[h]) + 1 THEN w ELSE fwd[h][i]
      BY <2>1, <2>2, AppendProperties
    <2>4. QED
      BY <1>2, <2>2, <2>3
  <1>3. QED
    BY <1>1, <1>2

\* Hashing a decrypted cell extends the history by the cell or by garbage.
LEMMA HashedProperties ==
    ASSUME NEW w \in WireCell, w.cell \in Cell,
           NEW hist \in Seq(Cell \cup {Garbled})
    PROVE  /\ Hashed(hist, w) \in Seq(Cell \cup {Garbled})
           /\ Plaintext(w) \in {w.cell, Garbled}
  BY AppendProperties DEF Hashed, Plaintext

\* A cipher or a read counter that moves on keeps its type.
LEMMA BumpType ==
    ASSUME NEW f \in [Hop -> Nat], NEW h \in Hop, NEW n \in Nat
    PROVE  [f EXCEPT ![h] = @ + n] \in [Hop -> Nat]
  OBVIOUS

\* The exit and the entry are hops.
LEMMA ExitIsHop == Exit \in Hop /\ 0 \in Hop
  BY HopsAssumption DEF Exit, Hop

-----------------------------------------------------------------------------
(* Types.                                                                  *)

TypeInv ==
    /\ TypeOK
    /\ Len(foff) = Len(fsent) + 1
    /\ \A h \in Hop : \A i \in 1 .. Len(fwd[h]) : fwd[h][i].cell \in Cell
    /\ xpc = "write" => reply \in WireCell

\* The next cell of a readable link is in its log, and is not a DESTROY.
LEMMA NextForwardCell ==
    ASSUME TypeInv, NEW h \in Hop, ForwardReadable(h)
    PROVE  /\ frd[h] \in Nat
           /\ frd[h] + 1 \in 1 .. Len(fwd[h])
           /\ fwd[h] \in Seq(WireCell)
           /\ fwd[h][frd[h] + 1] \in WireCell
           /\ fwd[h][frd[h] + 1].cell \in Cell
           /\ Bytes[fwd[h][frd[h] + 1].cell] \in Nat
           /\ rfpos[h] \in Nat
  <1>1. /\ frd[h] \in Nat /\ fwd[h] \in Seq(WireCell) /\ rfpos[h] \in Nat
        /\ frd[h] < Len(fwd[h])
    BY DEF TypeInv, TypeOK, ForwardReadable
  <1>2. frd[h] + 1 \in 1 .. Len(fwd[h])
    BY <1>1
  <1>3. /\ fwd[h][frd[h] + 1] \in WireCell
        /\ fwd[h][frd[h] + 1].cell \in Cell
    BY <1>1, <1>2, ElementOfSeq DEF TypeInv
  <1>4. QED
    BY <1>1, <1>2, <1>3, CellAssumption

\* The next cell of a link towards the client is in its log.
LEMMA NextBackwardCell ==
    ASSUME TypeInv, NEW h \in Hop, BackwardReadable(h)
    PROVE  /\ brd[h] \in Nat
           /\ brd[h] + 1 \in 1 .. Len(bwd[h])
           /\ bwd[h] \in Seq(WireCell)
           /\ bwd[h][brd[h] + 1] \in WireCell
           /\ bwd[h][brd[h] + 1].cell \in Cell \cup {DESTROY}
           /\ Bytes[bwd[h][brd[h] + 1].cell] \in Nat
  <1>1. /\ brd[h] \in Nat /\ bwd[h] \in Seq(WireCell)
        /\ brd[h] < Len(bwd[h])
    BY DEF TypeInv, TypeOK, BackwardReadable
  <1>2. brd[h] + 1 \in 1 .. Len(bwd[h])
    BY <1>1
  <1>3. bwd[h][brd[h] + 1] \in WireCell
    BY <1>1, <1>2, ElementOfSeq
  <1>4. bwd[h][brd[h] + 1].cell \in Cell \cup {DESTROY}
    BY <1>3 DEF WireCell
  <1>5. QED
    BY <1>1, <1>2, <1>3, <1>4, CellAssumption

\* What the exit seals is a wire cell whatever the state of its cipher.
LEMMA ExitSealProperties ==
    ASSUME TypeInv, NEW c \in Cell, ExitAdvance(c)
    PROVE  /\ ExitSeal(c) \in WireCell
           /\ ExitSeal(c).cell = c
           /\ ExitSeal(c).tag = Append(bsent, c)
           /\ bsent' = Append(bsent, c)
           /\ bsent' \in Seq(Cell)
           /\ rbpos' \in [Hop -> Nat]
  <1>1. bsent \in Seq(Cell) /\ rbpos \in [Hop -> Nat]
    BY DEF TypeInv, TypeOK
  <1>2. Append(bsent, c) \in Seq(Cell)
    BY <1>1, AppendProperties
  <1>3. /\ Wire(c, Append(bsent, c)) \in WireCell
        /\ Wire(c, Append(bsent, c)).cell = c
        /\ Wire(c, Append(bsent, c)).tag = Append(bsent, c)
    BY <1>2, WireProperties
  <1>4. rbpos[Exit] \in Nat /\ Bytes[c] \in Nat
    BY <1>1, ExitIsHop, CellAssumption
  <1>5. /\ ExitSeal(c) \in WireCell /\ ExitSeal(c).cell = c
        /\ ExitSeal(c).tag = Append(bsent, c)
    BY <1>3, <1>4, ExitIsHop, CryptProperties DEF ExitSeal
  <1>6. [rbpos EXCEPT ![Exit] = @ + Bytes[c]] \in [Hop -> Nat]
    BY <1>1, <1>4, ExitIsHop, BumpType
  <1>7. QED
    BY <1>2, <1>5, <1>6 DEF ExitAdvance

\* The end of a nexthop reader keeps the types.
LEMMA EndReaderType ==
    ASSUME TypeInv, NEW h \in Hop, h # 0, EndReader(h)
    PROVE  /\ bwd' \in [Hop -> Seq(WireCell)]
           /\ shut' \in [Hop -> BOOLEAN]
           /\ bread' \in [Hop -> BOOLEAN]
  <1>1. h - 1 \in Hop
    BY HopsAssumption DEF Hop
  <1>2. Destroy \in WireCell
    BY EmptySeq, WireProperties DEF Destroy
  <1>3. bwd' \in [Hop -> Seq(WireCell)]
    BY <1>1, <1>2, WriteBackwardProperties DEF TypeInv, TypeOK, EndReader
  <1>4. QED
    BY <1>3 DEF TypeInv, TypeOK, EndReader

\* Initially every variable has its type.
LEMMA InitTypeInv == Init => TypeInv
  <1> SUFFICES ASSUME Init PROVE TypeInv
    OBVIOUS
  <1>1. /\ cfpos \in [Hop -> Nat] /\ rfpos \in [Hop -> Nat]
        /\ rbpos \in [Hop -> Nat] /\ cbpos \in [Hop -> Nat]
        /\ frd \in [Hop -> Nat] /\ brd \in [Hop -> Nat]
    BY BaseAssumption DEF Init
  <1>2. /\ fsent \in Seq(Cell) /\ facc \in Seq(Cell)
        /\ bsent \in Seq(Cell) /\ cacc \in Seq(Cell)
        /\ xfdig \in Seq(Cell \cup {Garbled}) /\ cbdig \in Seq(Cell \cup {Garbled})
        /\ fwd \in [Hop -> Seq(WireCell)] /\ bwd \in [Hop -> Seq(WireCell)]
    BY EmptySeq DEF Init
  <1>3. foff \in Seq(Nat) /\ Len(foff) = Len(fsent) + 1
    BY DEF Init
  <1>4. /\ up \in [Hop -> BOOLEAN] /\ shut \in [Hop -> BOOLEAN]
        /\ floop \in [Hop -> BOOLEAN] /\ bread \in [Hop -> BOOLEAN]
        /\ tasks \in BOOLEAN /\ overtaken \in BOOLEAN
    BY DEF Init
  <1>5. /\ xpc \in {"read", "handle", "write"} /\ xpc # "write"
        /\ reply \in WireCell \cup {None}
    BY DEF Init
  <1>6. \A h \in Hop : \A i \in 1 .. Len(fwd[h]) : fwd[h][i].cell \in Cell
    BY DEF Init
  <1>7. QED
    BY <1>1, <1>2, <1>3, <1>4, <1>5, <1>6 DEF TypeInv, TypeOK

\* Every step keeps the types.
LEMMA NextTypeInv == TypeInv /\ [Next]_vars => TypeInv'
  <1> SUFFICES ASSUME TypeInv, [Next]_vars PROVE TypeInv'
    OBVIOUS
  <1> USE DEF TypeInv
  <1>1. ASSUME NEW c \in Cell, ClientSend(c) PROVE TypeInv'
    <2> DEFINE w == OnionCrypt(Wire(c, Append(fsent, c)), cfpos)
    <2>1. w \in WireCell /\ w.cell = c
      <3>1. Append(fsent, c) \in Seq(Cell)
        BY AppendProperties DEF TypeOK
      <3>2. /\ Wire(c, Append(fsent, c)) \in WireCell
            /\ Wire(c, Append(fsent, c)).cell = c
        BY <3>1, WireProperties
      <3>3. QED
        BY <3>2, OnionCryptProperties DEF TypeOK
    <2>2. /\ fwd' \in [Hop -> Seq(WireCell)]
          /\ \A h \in Hop : \A i \in 1 .. Len(fwd'[h]) : fwd'[h][i].cell \in Cell
      <3>1. 0 \in Hop /\ WriteForward(0, w)
        BY <1>1, HopsAssumption DEF ClientSend, Hop
      <3> HIDE DEF w
      <3>2. QED
        BY <2>1, <3>1, WriteForwardProperties, WriteForwardCells DEF TypeOK
    <2>3. cfpos' \in [Hop -> Nat]
      BY <1>1, <2>1, AdvanceType DEF ClientSend, TypeOK
    <2>4. /\ foff' \in Seq(Nat)
          /\ Len(foff') = Len(fsent') + 1
      <3>1. foff[Len(foff)] + Bytes[c] \in Nat
        BY CellAssumption DEF TypeOK
      <3>2. /\ foff' = Append(foff, foff[Len(foff)] + Bytes[c])
            /\ fsent' = Append(fsent, c)
        BY <1>1 DEF ClientSend
      <3>3. QED
        BY <3>1, <3>2, AppendProperties DEF TypeOK
    <2>5. fsent' \in Seq(Cell)
      BY <1>1 DEF ClientSend, TypeOK
    <2>6. QED
      BY <1>1, <2>2, <2>3, <2>4, <2>5
         DEF ClientSend, TypeOK, links, handler, backward
  <1>2. ASSUME NEW h \in Hop, RelayForward(h) PROVE TypeInv'
    <2> DEFINE w == fwd[h][frd[h] + 1]
               v == Crypt(w, h, rfpos[h])
    <2>1. /\ w \in WireCell /\ w.cell \in Cell /\ Bytes[w.cell] \in Nat
          /\ rfpos[h] \in Nat
      BY <1>2, NextForwardCell DEF RelayForward
    <2>2. /\ rfpos' = [rfpos EXCEPT ![h] = @ + Bytes[w.cell]]
          /\ frd' = [frd EXCEPT ![h] = @ + 1]
          /\ h + 1 \in Hop /\ WriteForward(h + 1, v)
      BY <1>2, HopsAssumption DEF RelayForward, Hop, Exit
    <2> HIDE DEF w
    <2>3. v \in WireCell /\ v.cell \in Cell
      BY <2>1, CryptProperties
    <2> HIDE DEF v
    <2>4. /\ fwd' \in [Hop -> Seq(WireCell)]
          /\ \A g \in Hop : \A i \in 1 .. Len(fwd'[g]) : fwd'[g][i].cell \in Cell
      BY <2>2, <2>3, WriteForwardProperties, WriteForwardCells DEF TypeOK
    <2>5. rfpos' \in [Hop -> Nat] /\ frd' \in [Hop -> Nat]
      BY <2>1, <2>2, BumpType DEF TypeOK
    <2>6. floop' \in [Hop -> BOOLEAN]
      BY <1>2 DEF RelayForward, TypeOK
    <2>7. QED
      BY <1>2, <2>4, <2>5, <2>6 DEF RelayForward, TypeOK, links, handler, backward
  <1>3. ASSUME ExitReceive PROVE TypeInv'
    <2> DEFINE w == fwd[Exit][frd[Exit] + 1]
               plain == Crypt(w, Exit, rfpos[Exit])
    <2>1. /\ w \in WireCell /\ w.cell \in Cell /\ Bytes[w.cell] \in Nat
          /\ rfpos[Exit] \in Nat
      BY <1>3, ExitIsHop, NextForwardCell DEF ExitReceive
    <2>2. /\ rfpos' = [rfpos EXCEPT ![Exit] = @ + Bytes[w.cell]]
          /\ frd' = [frd EXCEPT ![Exit] = @ + 1]
          /\ xfdig' = Hashed(xfdig, plain)
          /\ facc' = facc \/ facc' = Append(facc, plain.cell)
      BY <1>3 DEF ExitReceive
    <2> HIDE DEF w
    <2>3. plain \in WireCell /\ plain.cell \in Cell
      BY <2>1, ExitIsHop, CryptProperties
    <2> HIDE DEF plain
    <2>4. xfdig' \in Seq(Cell \cup {Garbled}) /\ facc' \in Seq(Cell)
      <3>1. xfdig \in Seq(Cell \cup {Garbled}) /\ facc \in Seq(Cell)
        BY DEF TypeOK
      <3>2. Hashed(xfdig, plain) \in Seq(Cell \cup {Garbled})
        BY <2>3, <3>1, HashedProperties
      <3>3. Append(facc, plain.cell) \in Seq(Cell)
        BY <2>3, <3>1, AppendProperties
      <3>4. QED
        BY <2>2, <3>1, <3>2, <3>3
    <2>5. rfpos' \in [Hop -> Nat] /\ frd' \in [Hop -> Nat]
      BY <2>1, <2>2, ExitIsHop, BumpType DEF TypeOK
    <2>6. floop' \in [Hop -> BOOLEAN] /\ xpc' \in {"read", "handle"}
      BY <1>3 DEF ExitReceive, TypeOK
    <2>7. QED
      BY <1>3, <2>4, <2>5, <2>6 DEF ExitReceive, TypeOK, links, backward
  <1>4. ASSUME NEW h \in Hop, ForwardEof(h) PROVE TypeInv'
    BY <1>4 DEF ForwardEof, TypeOK, links, handler, backward
  <1>5. ASSUME NEW h \in Hop, Break(h) PROVE TypeInv'
    BY <1>5 DEF Break, TypeOK, forward, handler, backward
  <1>6. ASSUME NEW c \in Cell, ExitSend(c) PROVE TypeInv'
    <2>1. /\ bsent' \in Seq(Cell) /\ rbpos' \in [Hop -> Nat]
          /\ bwd' \in [Hop -> Seq(WireCell)]
      BY <1>6, ExitIsHop, ExitSealProperties, WriteBackwardProperties
         DEF ExitSend, TypeOK
    <2>2. overtaken' \in BOOLEAN
      BY <1>6 DEF ExitSend
    <2>3. QED
      BY <1>6, <2>1, <2>2 DEF ExitSend, TypeOK, links, forward, handler
  <1>7. ASSUME NEW c \in Cell, ExitConnected(c) PROVE TypeInv'
    <2>1. /\ bsent' \in Seq(Cell) /\ rbpos' \in [Hop -> Nat]
          /\ bwd' \in [Hop -> Seq(WireCell)]
      BY <1>7, ExitIsHop, ExitSealProperties, WriteBackwardProperties
         DEF ExitConnected, TypeOK
    <2>2. /\ floop' \in [Hop -> BOOLEAN] /\ tasks' \in BOOLEAN
          /\ xpc' = "read"
      BY <1>7 DEF ExitConnected, TypeOK
    <2>3. QED
      BY <1>7, <2>1, <2>2 DEF ExitConnected, TypeOK, links
  <1>8. ASSUME NEW c \in Cell, ExitSealReply(c) PROVE TypeInv'
    <2>1. /\ bsent' \in Seq(Cell) /\ rbpos' \in [Hop -> Nat]
          /\ reply' \in WireCell
      BY <1>8, ExitSealProperties DEF ExitSealReply
    <2>2. QED
      BY <1>8, <2>1 DEF ExitSealReply, TypeOK, links, forward
  <1>9. ASSUME ExitNoReply PROVE TypeInv'
    BY <1>9 DEF ExitNoReply, TypeOK, links, forward, backward
  <1>10. ASSUME ExitWriteReply PROVE TypeInv'
    <2>1. bwd' \in [Hop -> Seq(WireCell)]
      BY <1>10, ExitIsHop, WriteBackwardProperties DEF ExitWriteReply, TypeOK
    <2>2. /\ floop' \in [Hop -> BOOLEAN] /\ xpc' = "read"
          /\ reply' \in WireCell \cup {None}
      BY <1>10 DEF ExitWriteReply, TypeOK
    <2>3. QED
      BY <1>10, <2>1, <2>2 DEF ExitWriteReply, TypeOK, links
  <1>11. ASSUME NEW h \in Hop, RelayBackward(h) PROVE TypeInv'
    <2> DEFINE w == bwd[h][brd[h] + 1]
               v == Crypt(w, h - 1, rbpos[h - 1])
    <2>1. /\ w \in WireCell /\ Bytes[w.cell] \in Nat
          /\ h # 0 /\ h - 1 \in Hop /\ rbpos[h - 1] \in Nat
      <3>1. h # 0 /\ BackwardReadable(h)
        BY <1>11 DEF RelayBackward
      <3>2. h - 1 \in Hop
        BY <3>1, HopsAssumption DEF Hop
      <3>3. rbpos[h - 1] \in Nat
        BY <3>2 DEF TypeOK
      <3>4. QED
        BY <3>1, <3>2, <3>3, NextBackwardCell
    <2>2. /\ brd' = [brd EXCEPT ![h] = @ + 1]
          /\ \/ rbpos' = rbpos
             \/ rbpos' = [rbpos EXCEPT ![h - 1] = @ + Bytes[w.cell]]
          /\ \/ EndReader(h)
             \/ WriteBackward(h - 1, v) /\ UNCHANGED <<shut, bread>>
      BY <1>11 DEF RelayBackward
    <2> HIDE DEF w
    <2>3. v \in WireCell
      BY <2>1, CryptProperties
    <2> HIDE DEF v
    <2>4. /\ bwd' \in [Hop -> Seq(WireCell)]
          /\ shut' \in [Hop -> BOOLEAN] /\ bread' \in [Hop -> BOOLEAN]
      BY <2>1, <2>2, <2>3, EndReaderType, WriteBackwardProperties DEF TypeOK
    <2>5. brd' \in [Hop -> Nat] /\ rbpos' \in [Hop -> Nat]
      <3>1. brd \in [Hop -> Nat] /\ rbpos \in [Hop -> Nat]
        BY DEF TypeOK
      <3>2. [rbpos EXCEPT ![h - 1] = @ + Bytes[w.cell]] \in [Hop -> Nat]
        BY <2>1, <3>1, BumpType
      <3>3. QED
        BY <2>2, <3>1, <3>2, BumpType
    <2>6. QED
      BY <1>11, <2>4, <2>5 DEF RelayBackward, TypeOK, forward, handler
  <1>12. ASSUME NEW h \in Hop, BackwardEof(h) PROVE TypeInv'
    BY <1>12, EndReaderType DEF BackwardEof, TypeOK, forward, handler
  <1>13. ASSUME ClientReceive PROVE TypeInv'
    <2> DEFINE w == bwd[0][brd[0] + 1]
               plain == OnionCrypt(w, cbpos)
    <2>1. /\ w \in WireCell /\ w.cell \in Cell \cup {DESTROY}
      BY <1>13, ExitIsHop, NextBackwardCell DEF ClientReceive
    <2>2. /\ brd' = [brd EXCEPT ![0] = @ + 1]
          /\ bread' = bread \/ bread' = [bread EXCEPT ![0] = FALSE]
          /\ \/ UNCHANGED <<cbpos, cbdig, cacc>>
             \/ /\ ~Teardown(w)
                /\ cbpos' = Advance(cbpos, w)
                /\ cbdig' = Hashed(cbdig, plain)
                /\ cacc' = cacc \/ cacc' = Append(cacc, plain.cell)
      BY <1>13 DEF ClientReceive
    <2> HIDE DEF w
    <2>3. /\ plain \in WireCell /\ plain.cell = w.cell
          /\ Advance(cbpos, w) \in [Hop -> Nat]
      BY <2>1, OnionCryptProperties, AdvanceType DEF TypeOK
    <2> HIDE DEF plain
    <2>4. /\ cbpos' \in [Hop -> Nat] /\ cacc' \in Seq(Cell)
          /\ cbdig' \in Seq(Cell \cup {Garbled})
      <3>1. /\ cbdig \in Seq(Cell \cup {Garbled}) /\ cacc \in Seq(Cell)
            /\ cbpos \in [Hop -> Nat]
        BY DEF TypeOK
      <3>2. ~Teardown(w) => plain.cell \in Cell
        BY <2>1, <2>3 DEF Teardown
      <3>3. ~Teardown(w) => /\ Hashed(cbdig, plain) \in Seq(Cell \cup {Garbled})
                            /\ Append(cacc, plain.cell) \in Seq(Cell)
        BY <2>3, <3>1, <3>2, HashedProperties, AppendProperties
      <3>4. QED
        BY <2>2, <2>3, <3>1, <3>3
    <2>5. brd' \in [Hop -> Nat] /\ bread' \in [Hop -> BOOLEAN]
      BY <2>2, ExitIsHop, BumpType DEF TypeOK
    <2>6. QED
      BY <1>13, <2>4, <2>5 DEF ClientReceive, TypeOK, links, forward, handler
  <1>14. ASSUME ClientEof PROVE TypeInv'
    BY <1>14 DEF ClientEof, TypeOK, links, forward, handler
  <1>15. ASSUME UNCHANGED vars PROVE TypeInv'
    BY <1>15 DEF vars, TypeOK, links, forward, handler, backward
  <1>16. QED
    BY <1>1, <1>2, <1>3, <1>4, <1>5, <1>6, <1>7, <1>8, <1>9, <1>10, <1>11,
       <1>12, <1>13, <1>14, <1>15
       DEF Next, Relays, ExitLoop, ExitSeals, ClientReader

\* Every variable keeps its type and every index is in range: no handler
\* reads past the cells it was sent or hands on anything but a cell.
THEOREM TypeCorrect == Spec => []TypeOK
  <1>1. Spec => []TypeInv
    BY InitTypeInv, NextTypeInv, PTL DEF Spec
  <1>2. QED
    BY <1>1, PTL DEF TypeInv

-----------------------------------------------------------------------------
(* Towards the client.                                                     *)

\* A prefix is a shorter sequence with the same elements.
LEMMA PrefixPointwise ==
    ASSUME NEW S, NEW s \in Seq(S), NEW t \in Seq(S)
    PROVE  IsPrefix(s, t) <=> /\ Len(s) <= Len(t)
                              /\ \A i \in 1 .. Len(s) : s[i] = t[i]
  <1>1. ASSUME Len(s) <= Len(t)
        PROVE  /\ SubSeq(s, 1, Len(s)) \in Seq(S)
               /\ SubSeq(t, 1, Len(s)) \in Seq(S)
               /\ Len(SubSeq(s, 1, Len(s))) = Len(s)
               /\ Len(SubSeq(t, 1, Len(s))) = Len(s)
               /\ \A i \in 1 .. Len(s) : /\ SubSeq(s, 1, Len(s))[i] = s[i]
                                        /\ SubSeq(t, 1, Len(s))[i] = t[i]
    BY <1>1
  <1>2. ASSUME Len(s) <= Len(t), \A i \in 1 .. Len(s) : s[i] = t[i]
        PROVE  SubSeq(s, 1, Len(s)) = SubSeq(t, 1, Len(s))
    BY <1>1, <1>2, SeqEqual
  <1>3. QED
    BY <1>1, <1>2 DEF IsPrefix

\* A prefix stays one as the sequence grows.
LEMMA PrefixAppend ==
    ASSUME NEW S, NEW s \in Seq(S), NEW t \in Seq(S), NEW e \in S
    PROVE  /\ IsPrefix(s, t) => IsPrefix(s, Append(t, e))
           /\ IsPrefix(t, t)
  <1>1. /\ Append(t, e) \in Seq(S)
        /\ Len(Append(t, e)) = Len(t) + 1
        /\ \A i \in 1 .. Len(t) : Append(t, e)[i] = t[i]
    BY AppendProperties
  <1>2. ASSUME IsPrefix(s, t) PROVE IsPrefix(s, Append(t, e))
    <2>1. /\ Len(s) <= Len(t)
          /\ \A i \in 1 .. Len(s) : s[i] = t[i]
      BY <1>2, PrefixPointwise
    <2>2. Len(s) \in Nat /\ Len(t) \in Nat
      OBVIOUS
    <2>3. /\ Len(s) <= Len(Append(t, e))
          /\ \A i \in 1 .. Len(s) : s[i] = Append(t, e)[i]
      BY <1>1, <2>1, <2>2
    <2>4. QED
      BY <1>1, <2>3, PrefixPointwise
  <1>3. IsPrefix(t, t)
    BY PrefixPointwise
  <1>4. QED
    BY <1>2, <1>3

\* The tag of a cell towards the client is the history of some moment at the
\* exit, a prefix of what the exit has hashed by now.
SealedIn(w, hist) == w.cell # DESTROY => IsPrefix(w.tag, hist)

LogsSealedIn(hist) ==
    \A h \in Hop : \A i \in 1 .. Len(bwd[h]) : SealedIn(bwd[h][i], hist)

BackwardInv ==
    /\ LogsSealedIn(bsent)
    /\ xpc = "write" => SealedIn(reply, bsent)
    /\ bread[0] => cbdig = cacc
    /\ IsPrefix(cacc, bsent)

\* A write of a sealed cell leaves only sealed cells on the links.
LEMMA WriteBackwardSealed ==
    ASSUME TypeInv, NEW hist, LogsSealedIn(hist),
           NEW h \in Hop, NEW w \in WireCell, SealedIn(w, hist),
           WriteBackward(h, w)
    PROVE  \A g \in Hop : \A i \in 1 .. Len(bwd'[g]) : SealedIn(bwd'[g][i], hist)
  <1> SUFFICES ASSUME NEW g \in Hop, NEW i \in 1 .. Len(bwd'[g])
               PROVE  SealedIn(bwd'[g][i], hist)
    OBVIOUS
  <1>a. bwd \in [Hop -> Seq(WireCell)]
    BY DEF TypeInv, TypeOK
  <1>1. CASE bwd'[g] = bwd[g]
    BY <1>1 DEF LogsSealedIn
  <1>2. CASE g = h /\ bwd'[h] = Append(bwd[h], w)
    <2>1. bwd[h] \in Seq(WireCell)
      BY <1>a
    <2>2. i \in 1 .. Len(bwd[h]) \/ i = Len(bwd[h]) + 1
      BY <1>2, <2>1
    <2>3. bwd'[h][i] = IF i = Len(bwd[h]) + 1 THEN w ELSE bwd[h][i]
      BY <1>2, <2>1, <2>2, AppendProperties
    <2>4. QED
      BY <1>2, <2>2, <2>3 DEF LogsSealedIn
  <1>3. QED
    BY <1>1, <1>2, <1>a, WriteBackwardProperties

\* A cell sealed in a history is sealed in any later one.
LEMMA SealedGrows ==
    ASSUME TypeInv, NEW w \in WireCell, NEW c \in Cell, SealedIn(w, bsent)
    PROVE  SealedIn(w, Append(bsent, c))
  <1>1. w.tag \in Seq(Cell) /\ bsent \in Seq(Cell)
    BY DEF TypeInv, TypeOK, WireCell
  <1>2. QED
    BY <1>1, PrefixAppend DEF SealedIn

\* The exit seals one more cell: what was sealed stays so.
LEMMA ExitAdvanceSealed ==
    ASSUME TypeInv, BackwardInv, NEW c \in Cell, ExitAdvance(c)
    PROVE  /\ LogsSealedIn(bsent')
           /\ xpc = "write" => SealedIn(reply, bsent')
           /\ IsPrefix(cacc, bsent')
           /\ SealedIn(ExitSeal(c), bsent')
           /\ ExitSeal(c) \in WireCell
           /\ bsent' \in Seq(Cell)
  <1>1. /\ bsent \in Seq(Cell) /\ cacc \in Seq(Cell)
        /\ \A h \in Hop : \A i \in 1 .. Len(bwd[h]) : bwd[h][i] \in WireCell
        /\ xpc = "write" => reply \in WireCell
    BY ElementOfSeq DEF TypeInv, TypeOK
  <1>2. bsent' = Append(bsent, c) /\ bsent' \in Seq(Cell)
    BY ExitSealProperties
  <1>3. LogsSealedIn(bsent')
    BY <1>1, <1>2, SealedGrows DEF BackwardInv, LogsSealedIn
  <1>4. xpc = "write" => SealedIn(reply, bsent')
    BY <1>1, <1>2, SealedGrows DEF BackwardInv
  <1>5. IsPrefix(cacc, bsent')
    BY <1>1, <1>2, PrefixAppend DEF BackwardInv
  <1>6. SealedIn(ExitSeal(c), bsent')
    <2>1. ExitSeal(c).tag = bsent'
      BY <1>2, ExitSealProperties
    <2>2. IsPrefix(bsent', bsent')
      BY <1>2, PrefixAppend
    <2>3. QED
      BY <2>1, <2>2 DEF SealedIn
  <1>7. QED
    BY <1>2, <1>3, <1>4, <1>5, <1>6, ExitSealProperties

\* The DESTROY of a nexthop reader is not taken for a sealed cell.
LEMMA EndReaderSealed ==
    ASSUME TypeInv, BackwardInv, NEW h \in Hop, h # 0, EndReader(h),
           bsent' = bsent
    PROVE  LogsSealedIn(bsent)' /\ bread'[0] = bread[0]
  <1>1. h - 1 \in Hop
    BY HopsAssumption DEF Hop
  <1>2. Destroy \in WireCell /\ SealedIn(Destroy, bsent)
    BY EmptySeq, WireProperties DEF Destroy, SealedIn
  <1>3. LogsSealedIn(bsent)'
    <2>1. bsent \in Seq(Cell) /\ LogsSealedIn(bsent)
      BY DEF TypeInv, TypeOK, BackwardInv
    <2>3. WriteBackward(h - 1, Destroy)
      BY DEF EndReader
    <2>4. \A g \in Hop : \A i \in 1 .. Len(bwd'[g]) : SealedIn(bwd'[g][i], bsent)
      BY <1>1, <1>2, <2>1, <2>3, WriteBackwardSealed DEF LogsSealedIn
    <2>5. QED
      BY <2>4 DEF LogsSealedIn
  <1>4. bread'[0] = bread[0]
    BY ExitIsHop DEF EndReader, TypeInv, TypeOK
  <1>5. QED
    BY <1>3, <1>4

\* Initially nothing is sealed.
LEMMA InitBackwardInv == Init => BackwardInv
  <1> SUFFICES ASSUME Init PROVE BackwardInv
    OBVIOUS
  <1>1. LogsSealedIn(bsent)
    BY DEF Init, LogsSealedIn
  <1>2. IsPrefix(cacc, bsent)
    <2>1. cacc = bsent /\ cacc \in Seq(Cell) /\ bsent \in Seq(Cell)
      BY EmptySeq DEF Init
    <2>2. QED
      BY <2>1, PrefixPointwise
  <1>3. QED
    BY <1>1, <1>2 DEF Init, BackwardInv

\* Every step keeps the invariant of the path towards the client.
LEMMA NextBackwardInv ==
    TypeInv /\ BackwardInv /\ [Next]_vars => BackwardInv'
  <1> SUFFICES ASSUME TypeInv, BackwardInv, [Next]_vars PROVE BackwardInv'
    OBVIOUS
  <1>1. ASSUME NEW c \in Cell, ExitSend(c) PROVE BackwardInv'
    <2>1. ExitAdvance(c) /\ WriteBackward(Exit, ExitSeal(c))
      BY <1>1 DEF ExitSend
    <2>2. \A g \in Hop : \A i \in 1 .. Len(bwd'[g]) :
              SealedIn(bwd'[g][i], bsent')
      BY <2>1, ExitIsHop, ExitAdvanceSealed, WriteBackwardSealed
    <2>3. QED
      BY <1>1, <2>1, <2>2, ExitAdvanceSealed
         DEF BackwardInv, LogsSealedIn, ExitSend, handler
  <1>2. ASSUME NEW c \in Cell, ExitConnected(c) PROVE BackwardInv'
    <2>1. ExitAdvance(c) /\ WriteBackward(Exit, ExitSeal(c))
      BY <1>2 DEF ExitConnected
    <2>2. \A g \in Hop : \A i \in 1 .. Len(bwd'[g]) :
              SealedIn(bwd'[g][i], bsent')
      BY <2>1, ExitIsHop, ExitAdvanceSealed, WriteBackwardSealed
    <2>3. xpc' # "write" /\ UNCHANGED <<bread, cbdig, cacc>>
      BY <1>2 DEF ExitConnected
    <2>4. QED
      BY <2>1, <2>2, <2>3, ExitAdvanceSealed DEF BackwardInv, LogsSealedIn
  <1>3. ASSUME NEW c \in Cell, ExitSealReply(c) PROVE BackwardInv'
    <2>1. /\ ExitAdvance(c) /\ reply' = ExitSeal(c)
          /\ UNCHANGED <<bwd, bread, cbdig, cacc>>
      BY <1>3 DEF ExitSealReply
    <2>2. QED
      BY <2>1, ExitAdvanceSealed DEF BackwardInv, LogsSealedIn
  <1>4. ASSUME ExitWriteReply PROVE BackwardInv'
    <2>1. /\ WriteBackward(Exit, reply) /\ xpc = "write" /\ xpc' = "read"
          /\ UNCHANGED <<bsent, bread, cbdig, cacc>>
      BY <1>4 DEF ExitWriteReply
    <2>2. reply \in WireCell /\ SealedIn(reply, bsent)
      BY <2>1 DEF TypeInv, BackwardInv
    <2>3. \A g \in Hop : \A i \in 1 .. Len(bwd'[g]) :
              SealedIn(bwd'[g][i], bsent)
      BY <2>1, <2>2, ExitIsHop, WriteBackwardSealed DEF BackwardInv
    <2>4. QED
      BY <2>1, <2>3 DEF BackwardInv, LogsSealedIn
  <1>5. ASSUME NEW h \in Hop, RelayBackward(h) PROVE BackwardInv'
    <2> DEFINE w == bwd[h][brd[h] + 1]
               v == Crypt(w, h - 1, rbpos[h - 1])
    <2>1. /\ h # 0 /\ BackwardReadable(h)
          /\ UNCHANGED <<bsent, cbdig, cacc, xpc, reply>>
          /\ \/ EndReader(h)
             \/ WriteBackward(h - 1, v) /\ UNCHANGED bread
      BY <1>5 DEF RelayBackward, handler
    <2>2. CASE EndReader(h)
      BY <2>1, <2>2, EndReaderSealed DEF BackwardInv
    <2>3. CASE WriteBackward(h - 1, v) /\ UNCHANGED bread
      <3>1. w \in WireCell /\ SealedIn(w, bsent)
        BY <2>1, NextBackwardCell DEF BackwardInv, LogsSealedIn
      <3>2. h - 1 \in Hop /\ rbpos[h - 1] \in Nat
        <4>1. h - 1 \in Hop
          BY <2>1, HopsAssumption DEF Hop
        <4>2. QED
          BY <4>1 DEF TypeInv, TypeOK
      <3> HIDE DEF w
      <3>3. v \in WireCell /\ SealedIn(v, bsent)
        BY <3>1, <3>2, CryptProperties DEF SealedIn
      <3> HIDE DEF v
      <3>4. \A g \in Hop : \A i \in 1 .. Len(bwd'[g]) :
                SealedIn(bwd'[g][i], bsent)
        BY <2>3, <3>2, <3>3, WriteBackwardSealed DEF BackwardInv
      <3>5. QED
        BY <2>1, <2>3, <3>4 DEF BackwardInv, LogsSealedIn
    <2>4. QED
      BY <2>1, <2>2, <2>3
  <1>6. ASSUME NEW h \in Hop, BackwardEof(h) PROVE BackwardInv'
    <2>1. /\ h # 0 /\ EndReader(h)
          /\ UNCHANGED <<bsent, cbdig, cacc, xpc, reply>>
      BY <1>6 DEF BackwardEof, handler
    <2>2. QED
      BY <2>1, EndReaderSealed DEF BackwardInv
  <1>7. ASSUME ClientReceive PROVE BackwardInv'
    <2> DEFINE w == bwd[0][brd[0] + 1]
               plain == OnionCrypt(w, cbpos)
    <2>1. /\ BackwardReadable(0) /\ UNCHANGED <<bsent, bwd, xpc, reply>>
          /\ IF Teardown(w)
             THEN ~bread'[0] /\ UNCHANGED <<cbdig, cacc>>
             ELSE /\ cbdig' = Hashed(cbdig, plain)
                  /\ IF Verifies(cbdig, plain)
                     THEN cacc' = Append(cacc, plain.cell)
                     ELSE ~bread'[0] /\ cacc' = cacc
      BY <1>7, ExitIsHop DEF ClientReceive, handler, TypeInv, TypeOK
    <2>2. /\ w \in WireCell /\ SealedIn(w, bsent)
      BY <2>1, ExitIsHop, NextBackwardCell DEF BackwardInv, LogsSealedIn
    <2>3. cbdig = cacc
      BY <2>1 DEF BackwardReadable, BackwardInv
    <2> HIDE DEF w
    <2>4. plain \in WireCell /\ plain.cell = w.cell /\ plain.tag = w.tag
      BY <2>2, OnionCryptProperties DEF TypeInv, TypeOK
    <2> HIDE DEF plain
    <2>5. CASE Teardown(w)
      BY <2>1, <2>5 DEF BackwardInv, LogsSealedIn
    <2>6. CASE ~Teardown(w) /\ ~Verifies(cbdig, plain)
      BY <2>1, <2>6 DEF BackwardInv, LogsSealedIn
    <2>7. CASE ~Teardown(w) /\ Verifies(cbdig, plain)
      <3>1. /\ Append(cacc, Plaintext(plain)) = w.tag
            /\ w.tag \in Seq(Cell) /\ cacc \in Seq(Cell)
            /\ Plaintext(plain) \in {plain.cell, Garbled}
        BY <2>2, <2>3, <2>4, <2>7
           DEF Verifies, Hashed, Plaintext, WireCell, TypeInv, TypeOK
      <3>2. Plaintext(plain) \in Cell
        <4>1. Len(w.tag) = Len(cacc) + 1 /\ w.tag[Len(cacc) + 1] = Plaintext(plain)
          BY <3>1
        <4>2. QED
          BY <3>1, <4>1, ElementOfSeq
      <3>3. Plaintext(plain) = plain.cell
        BY <3>1, <3>2, CellAssumption
      <3>4. cacc' = w.tag /\ cbdig' = w.tag
        BY <2>1, <2>3, <2>7, <3>1, <3>3 DEF Hashed
      <3>5. IsPrefix(w.tag, bsent)
        BY <2>2, <2>7 DEF SealedIn, Teardown
      <3>6. QED
        BY <2>1, <3>4, <3>5 DEF BackwardInv, LogsSealedIn
    <2>8. QED
      BY <2>5, <2>6, <2>7
  <1>8. ASSUME ClientEof PROVE BackwardInv'
    BY <1>8, ExitIsHop
       DEF ClientEof, BackwardInv, LogsSealedIn, handler, TypeInv, TypeOK
  <1>9. ASSUME UNCHANGED <<bsent, bwd, bread, cbdig, cacc, reply>>,
               xpc' = "write" => xpc = "write"
        PROVE  BackwardInv'
    BY <1>9 DEF BackwardInv, LogsSealedIn
  <1>10. ASSUME \/ \E c \in Cell : ClientSend(c)
                \/ \E h \in Hop : RelayForward(h) \/ ForwardEof(h)
                \/ ExitReceive \/ ExitNoReply
                \/ \E h \in Hop : Break(h)
                \/ UNCHANGED vars
         PROVE  BackwardInv'
    <2>1. UNCHANGED <<bsent, bwd, bread, cbdig, cacc, reply>>
      BY <1>10 DEF ClientSend, RelayForward, ForwardEof, ExitReceive,
                   ExitNoReply, Break, vars, handler, backward
    <2>2. xpc' = "write" => xpc = "write"
      BY <1>10 DEF ClientSend, RelayForward, ForwardEof, ExitReceive,
                   ExitNoReply, Break, vars, handler
    <2>3. QED
      BY <1>9, <2>1, <2>2
  <1>11. QED
    BY <1>1, <1>2, <1>3, <1>4, <1>5, <1>6, <1>7, <1>8, <1>10
       DEF Next, Relays, ExitLoop, ExitSeals, ClientReader

\* Whatever order the exit's tasks write in, wherever links break: what the
\* client hands its streams is a prefix of what the exit sealed.
THEOREM BackwardIntegrityHolds == Spec => []BackwardIntegrity
  <1>1. Spec => []TypeInv
    BY InitTypeInv, NextTypeInv, PTL DEF Spec
  <1>2. Spec => []BackwardInv
    BY <1>1, InitBackwardInv, NextBackwardInv, PTL DEF Spec
  <1>3. BackwardInv => BackwardIntegrity
    BY DEF BackwardInv, BackwardIntegrity
  <1>4. QED
    BY <1>2, <1>3, PTL

-----------------------------------------------------------------------------
(* Towards the exit.                                                       *)

\* The offsets are those of the cells in the keystream after the handshake.
Offsets ==
    /\ foff[1] = 0
    /\ \A i \in 1 .. Len(fsent) : foff[i + 1] = foff[i] + Bytes[fsent[i]]

\* The layers that the i-th cell carries on link h.
Layers(h, i) ==
    [j \in Hop |-> IF j >= h /\ Bytes[fsent[i]] > 0 THEN {FBase[j] + foff[i]}
                   ELSE {}]

\* w is the i-th cell the client sent, as link h carries it.
CellOnLink(h, i, w) ==
    /\ w.cell = fsent[i]
    /\ w.layers = Layers(h, i)
    /\ Len(w.tag) = i
    /\ \A k \in 1 .. i : w.tag[k] = fsent[k]

CellsOnLinks ==
    \A h \in Hop :
        /\ Len(fwd[h]) <= Len(fsent)
        /\ \A i \in 1 .. Len(fwd[h]) : CellOnLink(h, i, fwd[h][i])

\* Every cipher stands where the cells that went through it leave it.
Ciphers ==
    /\ \A h \in Hop : cfpos[h] = FBase[h] + foff[Len(fsent) + 1]
    /\ \A h \in Hop : /\ frd[h] <= Len(fwd[h])
                      /\ rfpos[h] = FBase[h] + foff[frd[h] + 1]

\* A link carries all the cells that its writer has handled, until it breaks.
Logs ==
    /\ up[0] => Len(fwd[0]) = Len(fsent)
    /\ \A h \in Hop : h # Exit =>
          /\ Len(fwd[h + 1]) <= frd[h]
          /\ up[h + 1] => Len(fwd[h + 1]) = frd[h]

Accepted ==
    /\ xfdig = facc
    /\ Len(facc) = frd[Exit]
    /\ \A k \in 1 .. Len(facc) : facc[k] = fsent[k]

ForwardInv == Offsets /\ CellsOnLinks /\ Ciphers /\ Logs /\ Accepted

\* Initially all ciphers stand where the handshake left them.
LEMMA InitForwardInv == Init => ForwardInv
  <1> SUFFICES ASSUME Init PROVE ForwardInv
    OBVIOUS
  <1>1. /\ fsent = <<>> /\ foff = <<0>> /\ xfdig = <<>> /\ facc = <<>>
        /\ Len(fsent) = 0 /\ Len(facc) = 0
        /\ foff[1] = 0
        /\ \A h \in Hop : fwd[h] = <<>> /\ frd[h] = 0 /\ Len(fwd[h]) = 0
    BY DEF Init
  <1>2. Offsets
    BY <1>1 DEF Offsets
  <1>3. CellsOnLinks
    BY <1>1 DEF CellsOnLinks
  <1>4. Ciphers
    BY <1>1, BaseAssumption DEF Ciphers, Init
  <1>5. Logs
    <2>1. \A h \in Hop : h # Exit => h + 1 \in Hop
      BY HopsAssumption DEF Hop, Exit
    <2>2. QED
      BY <1>1, <2>1, ExitIsHop DEF Logs
  <1>6. Accepted
    BY <1>1, ExitIsHop DEF Accepted
  <1>7. QED
    BY <1>2, <1>3, <1>4, <1>5, <1>6 DEF ForwardInv

\* What a write leaves on the links: the cells there were, and w at the end
\* of link h when the link is up.
LEMMA WriteForwardLog ==
    ASSUME TypeInv, NEW h \in Hop, NEW w \in WireCell, WriteForward(h, w)
    PROVE  /\ \A g \in Hop : Len(fwd'[g]) =
                  IF g = h /\ up[h] THEN Len(fwd[g]) + 1 ELSE Len(fwd[g])
           /\ \A g \in Hop : \A i \in 1 .. Len(fwd'[g]) :
                \/ i \in 1 .. Len(fwd[g]) /\ fwd'[g][i] = fwd[g][i]
                \/ g = h /\ up[h] /\ i = Len(fwd[h]) + 1 /\ fwd'[g][i] = w
  <1>1. /\ fwd[h] \in Seq(WireCell)
        /\ \A g \in Hop : g # h => fwd'[g] = fwd[g]
        /\ fwd'[h] = IF up[h] THEN Append(fwd[h], w) ELSE fwd[h]
    BY WriteForwardProperties DEF TypeInv, TypeOK
  <1>2. ASSUME up[h]
        PROVE  /\ Len(fwd'[h]) = Len(fwd[h]) + 1
               /\ \A i \in 1 .. Len(fwd[h]) : fwd'[h][i] = fwd[h][i]
               /\ fwd'[h][Len(fwd[h]) + 1] = w
    BY <1>1, <1>2, AppendProperties
  <1>3. Len(fwd[h]) \in Nat
    BY <1>1, LenProperties
  <1>4. \A g \in Hop : Len(fwd'[g]) =
            IF g = h /\ up[h] THEN Len(fwd[g]) + 1 ELSE Len(fwd[g])
    BY <1>1, <1>2
  <1>5. ASSUME NEW g \in Hop, NEW i \in 1 .. Len(fwd'[g])
        PROVE  \/ i \in 1 .. Len(fwd[g]) /\ fwd'[g][i] = fwd[g][i]
               \/ g = h /\ up[h] /\ i = Len(fwd[h]) + 1 /\ fwd'[g][i] = w
    <2>1. CASE g = h /\ up[h]
      <3>1. i \in 1 .. Len(fwd[h]) \/ i = Len(fwd[h]) + 1
        BY <1>2, <1>3, <2>1
      <3>2. QED
        BY <1>2, <2>1, <3>1
    <2>2. CASE fwd'[g] = fwd[g]
      BY <2>2
    <2>3. QED
      BY <1>1, <2>1, <2>2
  <1>6. QED
    BY <1>4, <1>5

\* The length of the client's history and of every log, as numbers.
LEMMA Lengths ==
    ASSUME TypeInv
    PROVE  /\ Len(fsent) \in Nat
           /\ \A h \in Hop : Len(fwd[h]) \in Nat /\ frd[h] \in Nat
           /\ \A i \in 1 .. Len(fsent) : fsent[i] \in Cell /\ Bytes[fsent[i]] \in Nat
           /\ \A i \in 1 .. Len(fsent) + 1 : foff[i] \in Nat
           /\ \A h \in Hop : FBase[h] \in Nat
  <1>1. Len(fsent) \in Nat
    BY LenProperties DEF TypeInv, TypeOK
  <1>2. \A h \in Hop : Len(fwd[h]) \in Nat /\ frd[h] \in Nat
    BY LenProperties DEF TypeInv, TypeOK
  <1>3. \A i \in 1 .. Len(fsent) : fsent[i] \in Cell
    BY ElementOfSeq DEF TypeInv, TypeOK
  <1>4. \A i \in 1 .. Len(fsent) + 1 : foff[i] \in Nat
    BY ElementOfSeq DEF TypeInv, TypeOK
  <1>5. QED
    BY <1>1, <1>2, <1>3, <1>4, CellAssumption, BaseAssumption

\* A cell as the client encrypts it for all hops.
LEMMA ClientSeals ==
    ASSUME TypeInv, ForwardInv, NEW c \in Cell, ClientSend(c),
           NEW w, w = OnionCrypt(Wire(c, Append(fsent, c)), cfpos),
           NEW n, n = Len(fsent) + 1
    PROVE  /\ w \in WireCell
           /\ w.cell = c
           /\ CellOnLink(0, n, w)'
  <1>1. /\ fsent \in Seq(Cell) /\ Append(fsent, c) \in Seq(Cell)
        /\ Len(Append(fsent, c)) = Len(fsent) + 1
        /\ Append(fsent, c)[Len(fsent) + 1] = c
        /\ fsent' = Append(fsent, c)
    BY AppendProperties DEF TypeInv, TypeOK, ClientSend
  <1> DEFINE v == Wire(c, Append(fsent, c))
  <1>2. /\ v \in WireCell /\ v.cell = c /\ v.tag = Append(fsent, c)
        /\ \A j \in Hop : v.layers[j] = {}
    BY <1>1, WireProperties
  <1>3. cfpos \in [Hop -> Nat] /\ w = OnionCrypt(v, cfpos)
    BY DEF TypeInv, TypeOK
  <1> HIDE DEF v
  <1>4. /\ w \in WireCell /\ w.cell = c /\ w.tag = fsent'
        /\ \A j \in Hop : w.layers[j] =
              IF Bytes[c] # 0 THEN Toggle({}, cfpos[j]) ELSE {}
    <2>1. /\ w \in WireCell /\ w.cell = c /\ w.tag = fsent'
      BY <1>1, <1>2, <1>3, OnionCryptProperties
    <2>2. \A j \in Hop : w.layers[j] =
             IF Bytes[v.cell] # 0 THEN Toggle(v.layers[j], cfpos[j])
             ELSE v.layers[j]
      BY <1>2, <1>3, OnionCryptProperties
    <2>3. QED
      BY <1>2, <2>1, <2>2
  <1>5. /\ n \in Nat /\ n = Len(fsent) + 1 /\ Len(fsent') = n
        /\ fsent'[n] = c
    BY <1>1, LenProperties
  <1>6. foff'[n] = foff[n] /\ foff[n] = foff[Len(foff)]
    <2>1. foff[Len(foff)] + Bytes[c] \in Nat /\ foff \in Seq(Nat)
      BY <1>5, Lengths, CellAssumption DEF TypeInv, TypeOK
    <2>2. foff' = Append(foff, foff[Len(foff)] + Bytes[c])
      BY DEF ClientSend
    <2>3. n \in 1 .. Len(foff) /\ n = Len(foff)
      BY <1>1, <1>5, LenProperties DEF TypeInv
    <2>4. QED
      BY <2>1, <2>2, <2>3, AppendProperties
  <1>7. Bytes[c] \in Nat
    BY CellAssumption
  <1>8. ASSUME NEW j \in Hop
        PROVE  w.layers[j] = IF Bytes[c] > 0 THEN {FBase[j] + foff[n]} ELSE {}
    <2>1. cfpos[j] = FBase[j] + foff[n]
      BY <1>5 DEF ForwardInv, Ciphers
    <2>2. Toggle({}, cfpos[j]) = {cfpos[j]}
      BY DEF Toggle
    <2>3. Bytes[c] # 0 <=> Bytes[c] > 0
      BY <1>7
    <2>4. QED
      BY <1>4, <2>1, <2>2, <2>3
  <1>9. w.layers = [j \in Hop |-> IF j >= 0 /\ Bytes[c] > 0
                                 THEN {FBase[j] + foff'[n]} ELSE {}]
    <2>1. w.layers = [j \in Hop |-> w.layers[j]]
      BY <1>4 DEF WireCell
    <2>2. \A j \in Hop : j >= 0
      BY DEF Hop
    <2>3. QED
      BY <1>6, <1>8, <2>1, <2>2
  <1>10. QED
    BY <1>4, <1>5, <1>9 DEF CellOnLink, Layers

\* A relay peels its own layer: the cell is as the next link carries it.
LEMMA RelayPeels ==
    ASSUME TypeInv, ForwardInv, NEW h \in Hop, ForwardReadable(h),
           NEW w, w = fwd[h][frd[h] + 1],
           NEW v, v = Crypt(w, h, rfpos[h]),
           NEW n, n = frd[h] + 1
    PROVE  /\ w \in WireCell /\ v \in WireCell
           /\ n \in 1 .. Len(fsent)
           /\ v.cell = fsent[n]
           /\ Bytes[w.cell] = Bytes[fsent[n]]
           /\ CellOnLink(h + 1, n, v)
  <1>1. /\ w \in WireCell /\ n \in 1 .. Len(fwd[h]) /\ rfpos[h] \in Nat
        /\ CellOnLink(h, n, w)
        /\ Len(fwd[h]) <= Len(fsent)
        /\ rfpos[h] = FBase[h] + foff[n]
    BY NextForwardCell DEF ForwardInv, CellsOnLinks, Ciphers
  <1>2. n \in 1 .. Len(fsent) /\ Bytes[fsent[n]] \in Nat
    BY <1>1, Lengths
  <1>3. /\ v \in WireCell /\ v.cell = w.cell /\ v.tag = w.tag
        /\ \A j \in Hop : v.layers[j] =
              IF j = h /\ Bytes[w.cell] # 0 THEN Toggle(w.layers[h], rfpos[h])
              ELSE w.layers[j]
    BY <1>1, CryptProperties
  <1>4. /\ w.cell = fsent[n]
        /\ \A j \in Hop : w.layers[j] =
              IF j >= h /\ Bytes[fsent[n]] > 0 THEN {FBase[j] + foff[n]} ELSE {}
    BY <1>1 DEF CellOnLink, Layers
  <1>5. ASSUME NEW j \in Hop
        PROVE  v.layers[j] = IF j >= h + 1 /\ Bytes[fsent[n]] > 0
                             THEN {FBase[j] + foff[n]} ELSE {}
    <2>1. CASE Bytes[fsent[n]] = 0
      BY <1>3, <1>4, <2>1
    <2>2. CASE Bytes[fsent[n]] > 0 /\ j = h
      <3>1. w.layers[h] = {rfpos[h]}
        <4>1. h >= h
          BY DEF Hop
        <4>2. w.layers[h] = {FBase[h] + foff[n]}
          BY <1>4, <2>2, <4>1
        <4>3. QED
          BY <1>1, <4>2
      <3>2. v.layers[h] = {}
        BY <1>3, <1>4, <2>2, <3>1 DEF Toggle
      <3>3. QED
        BY <2>2, <3>2 DEF Hop
    <2>3. CASE Bytes[fsent[n]] > 0 /\ j # h
      <3>1. j >= h <=> j >= h + 1
        BY <2>3 DEF Hop
      <3>2. QED
        BY <1>3, <1>4, <2>3, <3>1
    <2>4. QED
      BY <1>2, <2>1, <2>2, <2>3
  <1>6. v.layers = Layers(h + 1, n)
    <2>1. v.layers = [j \in Hop |-> v.layers[j]]
      BY <1>3 DEF WireCell
    <2>2. QED
      BY <1>5, <2>1 DEF Layers
  <1>7. QED
    BY <1>1, <1>2, <1>3, <1>4, <1>6 DEF CellOnLink

\* Circuit::send_message keeps the invariant of the path to the exit.
LEMMA ClientSendForwardInv ==
    ASSUME TypeInv, ForwardInv, NEW c \in Cell, ClientSend(c)
    PROVE  ForwardInv'
  <1>w. PICK w : w = OnionCrypt(Wire(c, Append(fsent, c)), cfpos)
    OBVIOUS
  <1>n. PICK n : n = Len(fsent) + 1
    OBVIOUS
  <1>1. /\ w \in WireCell /\ w.cell = c
        /\ CellOnLink(0, n, w)'
    BY <1>w, <1>n, ClientSeals
  <1>2. /\ WriteForward(0, w) /\ cfpos' = Advance(cfpos, w)
        /\ UNCHANGED <<up, frd, rfpos, xfdig, facc>>
    BY <1>w DEF ClientSend, links
  <1>3. /\ \A g \in Hop : Len(fwd'[g]) =
               IF g = 0 /\ up[0] THEN Len(fwd[g]) + 1 ELSE Len(fwd[g])
        /\ \A g \in Hop : \A i \in 1 .. Len(fwd'[g]) :
             \/ i \in 1 .. Len(fwd[g]) /\ fwd'[g][i] = fwd[g][i]
             \/ g = 0 /\ up[0] /\ i = Len(fwd[0]) + 1 /\ fwd'[g][i] = w
    <2>1. 0 \in Hop
      BY ExitIsHop
    <2>2. QED
      BY <1>1, <1>2, <2>1, WriteForwardLog
  <1>4. /\ n \in Nat /\ Len(fsent') = n /\ Bytes[c] \in Nat
        /\ \A i \in 1 .. Len(fsent) : fsent'[i] = fsent[i]
        /\ fsent'[n] = c
    BY <1>n, Lengths, AppendProperties, CellAssumption
       DEF ClientSend, TypeInv, TypeOK
  <1>5. /\ \A i \in 1 .. n : foff'[i] = foff[i]
        /\ foff'[n + 1] = foff[n] + Bytes[c]
        /\ Len(foff) = n
    <2>1. /\ Len(foff) = n /\ foff \in Seq(Nat)
      BY <1>n DEF TypeInv, TypeOK
    <2>2. /\ foff[n] \in Nat
          /\ foff' = Append(foff, foff[n] + Bytes[c])
      BY <1>n, <1>4, <2>1, Lengths DEF ClientSend
    <2>3. foff[n] + Bytes[c] \in Nat
      BY <1>4, <2>2
    <2>4. QED
      BY <2>1, <2>2, <2>3, AppendProperties
  <1>6. \A h \in Hop : /\ Len(fwd[h]) \in Nat /\ frd[h] \in Nat
                      /\ frd[h] <= Len(fwd[h]) /\ Len(fwd[h]) <= Len(fsent)
    BY Lengths DEF ForwardInv, Ciphers, CellsOnLinks
  <1>a. Len(fsent) \in Nat
    BY Lengths
  <1>7. Offsets'
    <2>1. foff'[1] = 0
      BY <1>n, <1>4, <1>5, <1>a DEF ForwardInv, Offsets
    <2>2. ASSUME NEW i \in 1 .. Len(fsent')
          PROVE  foff'[i + 1] = foff'[i] + Bytes[fsent'[i]]
      <3>1. CASE i \in 1 .. Len(fsent)
        <4>1. i \in 1 .. n /\ i + 1 \in 1 .. n
          BY <1>n, <1>a, <3>1
        <4>2. QED
          BY <1>4, <1>5, <3>1, <4>1 DEF ForwardInv, Offsets
      <3>2. CASE i = n
        <4>1. n \in 1 .. n
          BY <1>n, <1>a
        <4>2. QED
          BY <1>4, <1>5, <3>2, <4>1
      <3>3. QED
        BY <1>n, <1>4, <1>a, <3>1, <3>2
    <2>3. QED
      BY <2>1, <2>2 DEF Offsets
  <1>8. CellsOnLinks'
    <2>1. ASSUME NEW g \in Hop, NEW i \in 1 .. Len(fwd[g]), NEW v,
                 CellOnLink(g, i, v)
          PROVE  CellOnLink(g, i, v)'
      <3>1. i \in 1 .. Len(fsent) /\ i \in 1 .. n
        BY <1>n, <1>6, <1>a
      <3>2. \A k \in 1 .. i : k \in 1 .. Len(fsent)
        BY <1>a, <3>1
      <3>3. Layers(g, i)' = Layers(g, i)
        BY <1>4, <1>5, <3>1 DEF Layers
      <3>4. QED
        BY <1>4, <2>1, <3>1, <3>2, <3>3 DEF CellOnLink
    <2>2. ASSUME NEW g \in Hop, NEW i \in 1 .. Len(fwd'[g]), NEW v,
                 v = fwd'[g][i]
          PROVE  CellOnLink(g, i, v)'
      <3>1. CASE i \in 1 .. Len(fwd[g]) /\ v = fwd[g][i]
        BY <2>1, <3>1 DEF ForwardInv, CellsOnLinks
      <3>2. CASE g = 0 /\ up[0] /\ i = Len(fwd[0]) + 1 /\ v = w
        <4>1. i = n
          BY <1>n, <3>2 DEF ForwardInv, Logs
        <4>2. QED
          BY <1>1, <3>2, <4>1
      <3>3. QED
        BY <1>3, <2>2, <3>1, <3>2
    <2>3. \A g \in Hop : Len(fwd'[g]) <= Len(fsent')
      BY <1>n, <1>3, <1>4, <1>6, <1>a
    <2>4. QED
      BY <2>2, <2>3 DEF CellsOnLinks
  <1>9. Ciphers'
    <2>1. ASSUME NEW h \in Hop
          PROVE  cfpos'[h] = FBase[h] + foff'[n + 1]
      <3>1. cfpos'[h] = cfpos[h] + Bytes[c] /\ cfpos[h] = FBase[h] + foff[n]
        BY <1>n, <1>1, <1>2 DEF Advance, ForwardInv, Ciphers
      <3>2. FBase[h] \in Nat /\ foff[n] \in Nat
        BY <1>n, <1>a, Lengths
      <3>3. QED
        BY <1>4, <1>5, <3>1, <3>2
    <2>2. ASSUME NEW h \in Hop
          PROVE  /\ frd'[h] <= Len(fwd'[h])
                 /\ rfpos'[h] = FBase[h] + foff'[frd'[h] + 1]
      <3>1. frd'[h] = frd[h] /\ rfpos'[h] = rfpos[h]
        BY <1>2
      <3>2. frd[h] + 1 \in 1 .. n
        BY <1>n, <1>6, <1>a
      <3>3. foff'[frd[h] + 1] = foff[frd[h] + 1]
        BY <1>5, <3>2
      <3>4. frd[h] <= Len(fwd'[h])
        BY <1>3, <1>6
      <3>5. QED
        BY <3>1, <3>3, <3>4 DEF ForwardInv, Ciphers
    <2>3. QED
      BY <1>4, <2>1, <2>2 DEF Ciphers
  <1>10. Logs'
    <2>1. up'[0] => Len(fwd'[0]) = Len(fsent')
      BY <1>n, <1>2, <1>3, <1>4, ExitIsHop DEF ForwardInv, Logs
    <2>2. ASSUME NEW h \in Hop, h # Exit
          PROVE  /\ Len(fwd'[h + 1]) <= frd'[h]
                 /\ up'[h + 1] => Len(fwd'[h + 1]) = frd'[h]
      <3>1. h + 1 \in Hop /\ h + 1 # 0
        BY <2>2, HopsAssumption DEF Hop, Exit
      <3>2. Len(fwd'[h + 1]) = Len(fwd[h + 1])
        BY <1>3, <3>1
      <3>3. QED
        BY <1>2, <2>2, <3>2 DEF ForwardInv, Logs
    <2>3. QED
      BY <2>1, <2>2 DEF Logs
  <1>11. Accepted'
    <2>1. Len(facc) <= Len(fsent) /\ Len(facc) = frd[Exit]
      BY <1>6, ExitIsHop DEF ForwardInv, Accepted
    <2>2. \A k \in 1 .. Len(facc) : k \in 1 .. Len(fsent)
      BY <1>6, <1>a, <2>1, ExitIsHop
    <2>3. QED
      BY <1>2, <1>4, <2>2 DEF ForwardInv, Accepted
  <1>12. QED
    BY <1>7, <1>8, <1>9, <1>10, <1>11 DEF ForwardInv

\* A relay's handle_relay keeps the invariant of the path to the exit.
LEMMA RelayForwardForwardInv ==
    ASSUME TypeInv, ForwardInv, NEW h \in Hop, RelayForward(h)
    PROVE  ForwardInv'
  <1>w. PICK w : w = fwd[h][frd[h] + 1]
    OBVIOUS
  <1>v. PICK v : v = Crypt(w, h, rfpos[h])
    OBVIOUS
  <1>n. PICK n : n = frd[h] + 1
    OBVIOUS
  <1>1. /\ w \in WireCell /\ v \in WireCell
        /\ n \in 1 .. Len(fsent)
        /\ Bytes[w.cell] = Bytes[fsent[n]]
        /\ CellOnLink(h + 1, n, v)
    BY <1>w, <1>v, <1>n, RelayPeels DEF RelayForward
  <1>2. /\ h # Exit /\ frd[h] < Len(fwd[h])
        /\ frd' = [frd EXCEPT ![h] = @ + 1]
        /\ rfpos' = [rfpos EXCEPT ![h] = @ + Bytes[w.cell]]
        /\ WriteForward(h + 1, v)
        /\ UNCHANGED <<up, cfpos, fsent, foff, xfdig, facc>>
    BY <1>w, <1>v DEF RelayForward, ForwardReadable, links
  <1>3. h + 1 \in Hop /\ h \in Nat /\ Exit \in Nat
    BY <1>2, HopsAssumption DEF Hop, Exit
  <1>4. /\ \A g \in Hop : Len(fwd'[g]) =
               IF g = h + 1 /\ up[g] THEN Len(fwd[g]) + 1 ELSE Len(fwd[g])
        /\ \A g \in Hop : \A i \in 1 .. Len(fwd'[g]) :
             \/ i \in 1 .. Len(fwd[g]) /\ fwd'[g][i] = fwd[g][i]
             \/ /\ g = h + 1 /\ up[h + 1]
                /\ i = Len(fwd[h + 1]) + 1 /\ fwd'[g][i] = v
    BY <1>1, <1>2, <1>3, WriteForwardLog
  <1>5. /\ \A g \in Hop : /\ Len(fwd[g]) \in Nat /\ frd[g] \in Nat
                          /\ frd[g] <= Len(fwd[g]) /\ Len(fwd[g]) <= Len(fsent)
        /\ Len(fsent) \in Nat
    BY Lengths DEF ForwardInv, Ciphers, CellsOnLinks
  <1>6. \A g \in Hop : frd'[g] = IF g = h THEN n ELSE frd[g]
    BY <1>2, <1>n DEF TypeInv, TypeOK
  <1>7. /\ Len(fwd[h + 1]) <= frd[h]
        /\ up[h + 1] => Len(fwd[h + 1]) = frd[h]
    BY <1>2 DEF ForwardInv, Logs
  <1>8. Offsets'
    BY <1>2 DEF ForwardInv, Offsets
  <1>9. CellsOnLinks'
    <2>1. \A g, i, x : CellOnLink(g, i, x)' <=> CellOnLink(g, i, x)
      BY <1>2 DEF CellOnLink, Layers
    <2>2. ASSUME NEW g \in Hop, NEW i \in 1 .. Len(fwd'[g]), NEW x,
                 x = fwd'[g][i]
          PROVE  CellOnLink(g, i, x)'
      <3>1. CASE i \in 1 .. Len(fwd[g]) /\ x = fwd[g][i]
        BY <2>1, <3>1 DEF ForwardInv, CellsOnLinks
      <3>2. CASE g = h + 1 /\ up[h + 1] /\ i = Len(fwd[h + 1]) + 1 /\ x = v
        BY <1>1, <1>7, <1>n, <2>1, <3>2
      <3>3. QED
        BY <1>4, <2>2, <3>1, <3>2
    <2>3. ASSUME NEW g \in Hop PROVE Len(fwd'[g]) <= Len(fsent')
      <3>1. CASE g = h + 1 /\ up[g]
        <4>1. Len(fwd'[g]) = n
          BY <1>4, <1>7, <1>n, <3>1
        <4>2. QED
          BY <1>1, <1>2, <4>1
      <3>2. CASE ~(g = h + 1 /\ up[g])
        BY <1>2, <1>4, <1>5, <3>2
      <3>3. QED
        BY <3>1, <3>2
    <2>4. QED
      BY <2>2, <2>3 DEF CellsOnLinks
  <1>10. Ciphers'
    <2>1. ASSUME NEW g \in Hop
          PROVE  /\ frd'[g] <= Len(fwd'[g])
                 /\ rfpos'[g] = FBase[g] + foff[frd'[g] + 1]
      <3>1. CASE g = h
        <4>1. frd'[h] = n /\ n <= Len(fwd'[h])
          BY <1>2, <1>4, <1>5, <1>6, <1>n
        <4>2. /\ rfpos'[h] = rfpos[h] + Bytes[fsent[n]]
              /\ rfpos[h] = FBase[h] + foff[n]
          BY <1>1, <1>2, <1>n DEF TypeInv, TypeOK, ForwardInv, Ciphers
        <4>3. foff[n + 1] = foff[n] + Bytes[fsent[n]]
          BY <1>1 DEF ForwardInv, Offsets
        <4>4. /\ foff[n] \in Nat /\ Bytes[fsent[n]] \in Nat /\ FBase[h] \in Nat
          BY <1>1, <1>5, Lengths
        <4>5. QED
          BY <3>1, <4>1, <4>2, <4>3, <4>4
      <3>2. CASE g # h
        <4>1. rfpos'[g] = rfpos[g] /\ frd'[g] = frd[g]
          BY <1>2, <1>6, <3>2 DEF TypeInv, TypeOK
        <4>2. frd[g] <= Len(fwd'[g])
          BY <1>4, <1>5
        <4>3. QED
          BY <4>1, <4>2 DEF ForwardInv, Ciphers
      <3>3. QED
        BY <3>1, <3>2
    <2>2. QED
      BY <1>2, <2>1 DEF ForwardInv, Ciphers
  <1>11. Logs'
    <2>1. ASSUME NEW g \in Hop, g # Exit
          PROVE  /\ Len(fwd'[g + 1]) <= frd'[g]
                 /\ up[g + 1] => Len(fwd'[g + 1]) = frd'[g]
      <3>1. g + 1 \in Hop /\ g \in Nat
        BY <2>1, HopsAssumption DEF Hop, Exit
      <3>2. CASE g = h
        <4>1. Len(fwd'[h + 1]) = IF up[h + 1] THEN Len(fwd[h + 1]) + 1
                                 ELSE Len(fwd[h + 1])
          BY <1>3, <1>4
        <4>2. frd'[h] = frd[h] + 1 /\ frd[h] \in Nat /\ Len(fwd[h + 1]) \in Nat
          BY <1>3, <1>5, <1>6, <1>n
        <4>3. QED
          BY <1>7, <3>2, <4>1, <4>2
      <3>3. CASE g # h
        <4>1. g + 1 # h + 1
          BY <1>3, <3>1, <3>3
        <4>2. Len(fwd'[g + 1]) = Len(fwd[g + 1]) /\ frd'[g] = frd[g]
          BY <1>4, <1>6, <3>1, <3>3, <4>1
        <4>3. QED
          BY <2>1, <4>2 DEF ForwardInv, Logs
      <3>4. QED
        BY <3>2, <3>3
    <2>2. Len(fwd'[0]) = Len(fwd[0])
      BY <1>3, <1>4, ExitIsHop
    <2>3. QED
      BY <1>2, <2>1, <2>2 DEF ForwardInv, Logs
  <1>12. Accepted'
    BY <1>2, <1>6, ExitIsHop DEF ForwardInv, Accepted
  <1>13. QED
    BY <1>8, <1>9, <1>10, <1>11, <1>12 DEF ForwardInv

\* The last layer is off at the exit, and the digest of all the cells up to
\* this one is the tag the client gave it: the exit never sees a mismatch.
LEMMA ExitVerifies ==
    ASSUME TypeInv, ForwardInv, ForwardReadable(Exit),
           NEW v, v = Crypt(fwd[Exit][frd[Exit] + 1], Exit, rfpos[Exit]),
           NEW n, n = frd[Exit] + 1
    PROVE  /\ n \in 1 .. Len(fsent)
           /\ v.cell = fsent[n]
           /\ Plaintext(v) = fsent[n]
           /\ Verifies(xfdig, v)
  <1>w. PICK w : w = fwd[Exit][frd[Exit] + 1]
    OBVIOUS
  <1>1. /\ v \in WireCell /\ n \in 1 .. Len(fsent) /\ v.cell = fsent[n]
        /\ CellOnLink(Exit + 1, n, v)
    BY <1>w, ExitIsHop, RelayPeels
  <1>2. \A j \in Hop : v.layers[j] = {}
    <2>1. v.layers = Layers(Exit + 1, n)
      BY <1>1 DEF CellOnLink
    <2>2. \A j \in Hop : ~(j >= Exit + 1)
      BY HopsAssumption DEF Hop, Exit
    <2>3. QED
      BY <2>1, <2>2 DEF Layers
  <1>3. Plaintext(v) = fsent[n]
    BY <1>1, <1>2 DEF Plaintext
  <1>4. Verifies(xfdig, v)
    <2>1. /\ xfdig = facc /\ Len(facc) = frd[Exit] /\ facc \in Seq(Cell)
          /\ \A k \in 1 .. Len(facc) : facc[k] = fsent[k]
      BY DEF ForwardInv, Accepted, TypeInv, TypeOK
    <2>2. fsent[n] \in Cell /\ frd[Exit] \in Nat
      BY <1>1, Lengths, ExitIsHop
    <2>3. /\ v.tag \in Seq(Cell) /\ Len(v.tag) = n
          /\ \A k \in 1 .. n : v.tag[k] = fsent[k]
      BY <1>1 DEF CellOnLink, WireCell
    <2>4. /\ Append(facc, fsent[n]) \in Seq(Cell)
          /\ Len(Append(facc, fsent[n])) = n
          /\ \A k \in 1 .. Len(facc) : Append(facc, fsent[n])[k] = facc[k]
          /\ Append(facc, fsent[n])[n] = fsent[n]
      BY <2>1, <2>2, AppendProperties
    <2>5. \A k \in 1 .. n : Append(facc, fsent[n])[k] = v.tag[k]
      BY <2>1, <2>2, <2>3, <2>4
    <2>6. Append(facc, fsent[n]) = v.tag
      BY <2>3, <2>4, <2>5, SeqEqual
    <2>7. QED
      BY <1>3, <2>1, <2>6 DEF Verifies, Hashed
  <1>5. QED
    BY <1>1, <1>3, <1>4

\* The exit's verification keeps the invariant, and always succeeds.
LEMMA ExitReceiveForwardInv ==
    ASSUME TypeInv, ForwardInv, ExitReceive
    PROVE  ForwardInv'
  <1>w. PICK w : w = fwd[Exit][frd[Exit] + 1]
    OBVIOUS
  <1>v. PICK v : v = Crypt(w, Exit, rfpos[Exit])
    OBVIOUS
  <1>n. PICK n : n = frd[Exit] + 1
    OBVIOUS
  <1>1. /\ frd[Exit] < Len(fwd[Exit])
        /\ frd' = [frd EXCEPT ![Exit] = @ + 1]
        /\ rfpos' = [rfpos EXCEPT ![Exit] = @ + Bytes[w.cell]]
        /\ xfdig' = Hashed(xfdig, v)
        /\ Verifies(xfdig, v) => facc' = Append(facc, v.cell)
        /\ UNCHANGED <<up, cfpos, fsent, foff, fwd>>
    BY <1>w, <1>v DEF ExitReceive, ForwardReadable, links
  <1>2. /\ n \in 1 .. Len(fsent) /\ v.cell = fsent[n]
        /\ Plaintext(v) = fsent[n] /\ Verifies(xfdig, v)
    BY <1>w, <1>v, <1>n, ExitVerifies DEF ExitReceive
  <1>3. Bytes[w.cell] = Bytes[fsent[n]]
    BY <1>w, <1>v, <1>n, ExitIsHop, RelayPeels DEF ExitReceive
  <1>4. /\ \A g \in Hop : /\ Len(fwd[g]) \in Nat /\ frd[g] \in Nat
                          /\ frd[g] <= Len(fwd[g])
        /\ \A g \in Hop : frd'[g] = IF g = Exit THEN n ELSE frd[g]
    BY <1>1, <1>n, Lengths DEF ForwardInv, Ciphers, TypeInv, TypeOK
  <1>5. Offsets' /\ CellsOnLinks'
    <2>1. \A g, i, x : CellOnLink(g, i, x)' <=> CellOnLink(g, i, x)
      BY <1>1 DEF CellOnLink, Layers
    <2>2. CellsOnLinks'
      BY <1>1, <2>1 DEF ForwardInv, CellsOnLinks
    <2>3. QED
      BY <1>1, <2>2 DEF ForwardInv, Offsets
  <1>6. Ciphers'
    <2>1. ASSUME NEW g \in Hop
          PROVE  /\ frd'[g] <= Len(fwd[g])
                 /\ rfpos'[g] = FBase[g] + foff[frd'[g] + 1]
      <3>1. CASE g = Exit
        <4>1. frd'[Exit] = n /\ n <= Len(fwd[Exit])
          BY <1>1, <1>4, <1>n, ExitIsHop
        <4>2. /\ rfpos'[Exit] = rfpos[Exit] + Bytes[fsent[n]]
              /\ rfpos[Exit] = FBase[Exit] + foff[n]
          BY <1>1, <1>3, <1>n, ExitIsHop DEF TypeInv, TypeOK, ForwardInv, Ciphers
        <4>3. foff[n + 1] = foff[n] + Bytes[fsent[n]]
          BY <1>2 DEF ForwardInv, Offsets
        <4>4. /\ foff[n] \in Nat /\ Bytes[fsent[n]] \in Nat
              /\ FBase[Exit] \in Nat
          BY <1>2, Lengths, ExitIsHop
        <4>5. QED
          BY <3>1, <4>1, <4>2, <4>3, <4>4
      <3>2. CASE g # Exit
        BY <1>1, <1>4, <3>2 DEF ForwardInv, Ciphers, TypeInv, TypeOK
      <3>3. QED
        BY <3>1, <3>2
    <2>2. QED
      BY <1>1, <2>1 DEF ForwardInv, Ciphers
  <1>7. Logs'
    <2>1. \A g \in Hop : g # Exit => frd'[g] = frd[g]
      BY <1>4
    <2>2. QED
      BY <1>1, <2>1 DEF ForwardInv, Logs
  <1>8. Accepted'
    <2>1. /\ facc' = Append(facc, fsent[n]) /\ xfdig' = facc'
          /\ facc \in Seq(Cell) /\ fsent[n] \in Cell
          /\ Len(facc) = frd[Exit] /\ frd[Exit] \in Nat
          /\ \A k \in 1 .. Len(facc) : facc[k] = fsent[k]
      BY <1>1, <1>2, <1>4, ExitIsHop, Lengths
         DEF ForwardInv, Accepted, Hashed, TypeInv, TypeOK
    <2>2. /\ Len(facc') = n
          /\ \A k \in 1 .. Len(facc) : facc'[k] = facc[k]
          /\ facc'[n] = fsent[n]
      BY <1>n, <2>1, AppendProperties
    <2>3. \A k \in 1 .. n : facc'[k] = fsent[k]
      BY <1>n, <2>1, <2>2
    <2>4. QED
      BY <1>1, <1>4, <2>1, <2>2, <2>3, ExitIsHop DEF Accepted
  <1>9. QED
    BY <1>5, <1>6, <1>7, <1>8 DEF ForwardInv

\* Every step keeps the invariant of the path to the exit.
LEMMA NextForwardInv ==
    TypeInv /\ ForwardInv /\ [Next]_vars => ForwardInv'
  <1> SUFFICES ASSUME TypeInv, ForwardInv, [Next]_vars PROVE ForwardInv'
    OBVIOUS
  <1>1. ASSUME UNCHANGED <<cfpos, fsent, foff, fwd, frd, rfpos, xfdig, facc>>,
               \A h \in Hop : up'[h] => up[h]
        PROVE  ForwardInv'
    <2>1. Offsets' /\ CellsOnLinks' /\ Ciphers' /\ Accepted'
      BY <1>1 DEF ForwardInv, Offsets, CellsOnLinks, CellOnLink, Layers,
                  Ciphers, Accepted
    <2>2. \A h \in Hop : h # Exit => h + 1 \in Hop
      BY HopsAssumption DEF Hop, Exit
    <2>3. Logs'
      BY <1>1, <2>2, ExitIsHop DEF ForwardInv, Logs
    <2>4. QED
      BY <2>1, <2>3 DEF ForwardInv
  <1>2. ASSUME NEW h \in Hop, Break(h) PROVE ForwardInv'
    <2>1. \A g \in Hop : up'[g] => up[g]
      BY <1>2 DEF Break, TypeInv, TypeOK
    <2>2. QED
      BY <1>1, <1>2, <2>1 DEF Break, forward
  <1>3. ASSUME \/ \E h \in Hop : \/ ForwardEof(h)
                                \/ RelayBackward(h) \/ BackwardEof(h)
               \/ ExitNoReply \/ ExitWriteReply
               \/ ExitSeals \/ ClientReader \/ UNCHANGED vars
        PROVE  ForwardInv'
    <2>1. UNCHANGED <<up, cfpos, fsent, foff, fwd, frd, rfpos, xfdig, facc>>
      BY <1>3 DEF ForwardEof, RelayBackward, BackwardEof, ExitNoReply,
                  ExitWriteReply, ExitSeals, ExitSend, ExitConnected,
                  ExitSealReply, ClientReader, ClientReceive, ClientEof,
                  vars, links, forward
    <2>2. QED
      BY <1>1, <2>1
  <1>4. QED
    BY <1>2, <1>3, ClientSendForwardInv, RelayForwardForwardInv,
       ExitReceiveForwardInv DEF Next, Relays, ExitLoop

\* The invariant of the path to the exit: ciphers, offsets, logs and digests
\* stay in step at every hop, however the relays interleave and links break.
THEOREM ForwardInvariant == Spec => [](TypeInv /\ ForwardInv)
  <1>1. Spec => []TypeInv
    BY InitTypeInv, NextTypeInv, PTL DEF Spec
  <1>2. Spec => []ForwardInv
    BY <1>1, InitForwardInv, NextForwardInv, PTL DEF Spec
  <1>3. QED
    BY <1>1, <1>2, PTL

\* The exit's digest never mismatches, and what the exit acts on is a prefix
\* of what the client sent, for circuits of any length and any cells.
THEOREM ForwardIntegrityHolds == Spec => []ForwardIntegrity
  <1>1. TypeInv /\ ForwardInv => ForwardIntegrity
    <2> SUFFICES ASSUME TypeInv, ForwardInv PROVE ForwardIntegrity
      OBVIOUS
    <2>1. xfdig = facc /\ facc \in Seq(Cell) /\ fsent \in Seq(Cell)
      BY DEF ForwardInv, Accepted, TypeInv, TypeOK
    <2>2. /\ Len(facc) <= Len(fsent)
          /\ \A k \in 1 .. Len(facc) : facc[k] = fsent[k]
      BY Lengths, ExitIsHop DEF ForwardInv, Accepted, Ciphers, CellsOnLinks
    <2>3. QED
      BY <2>1, <2>2, PrefixPointwise DEF ForwardIntegrity
  <1>2. QED
    BY <1>1, ForwardInvariant, PTL

\* No relay ever handles a cell that lost a layer early or kept one too long.
THEOREM LayeringHolds == Spec => []Layering
  <1>1. ForwardInv => Layering
    <2> SUFFICES ASSUME ForwardInv, NEW h \in Hop, NEW i \in 1 .. Len(fwd[h])
                 PROVE  fwd[h][i].layers = [j \in Hop |->
                          IF j >= h /\ Bytes[fwd[h][i].cell] > 0
                          THEN {FBase[j] + foff[i]} ELSE {}]
      BY DEF Layering
    <2>1. fwd[h][i].cell = fsent[i] /\ fwd[h][i].layers = Layers(h, i)
      BY DEF ForwardInv, CellsOnLinks, CellOnLink
    <2>2. QED
      BY <2>1 DEF Layers
  <1>2. QED
    BY <1>1, ForwardInvariant, PTL

-----------------------------------------------------------------------------
(* Towards the client, in order.  The positions are stated for a sequence  *)
(* off: the offset of each cell of hist in the keystream after the         *)
(* handshake, and at the end that of the next cell.                        *)

OffsetsOf(hist, off) ==
    /\ off \in Seq(Nat)
    /\ Len(off) = Len(hist) + 1
    /\ off[1] = 0
    /\ \A i \in 1 .. Len(hist) : off[i + 1] = off[i] + Bytes[hist[i]]

\* w is the i-th cell of hist as link h carries it, with a layer of each hop
\* from the exit to h.
SealedCell(hist, off, h, i, w) ==
    /\ i \in 1 .. Len(hist)
    /\ w.cell = hist[i]
    /\ w.layers = [j \in Hop |-> IF j >= h /\ Bytes[hist[i]] > 0
                                 THEN {BBase[j] + off[i]} ELSE {}]
    /\ Len(w.tag) = i
    /\ \A k \in 1 .. i : w.tag[k] = hist[k]

\* A link carries the sealed cells in their order, and then only DESTROYs.
InOrder(off) ==
    \A h \in Hop : \A i \in 1 .. Len(bwd[h]) : ~Teardown(bwd[h][i]) =>
        /\ SealedCell(bsent, off, h, i, bwd[h][i])
        /\ \A k \in 1 .. i : ~Teardown(bwd[h][k])

\* How many of the sealed cells were handed to the exit's link: all but a
\* reply that waits.
Written == IF xpc = "write" THEN Len(bsent) - 1 ELSE Len(bsent)

\* While it is up, the exit's link carries them all.
ExitLog(off) ==
    /\ ~shut[Exit]
    /\ xpc = "write" => SealedCell(bsent, off, Exit, Len(bsent), reply)
    /\ up[Exit] => Len(bwd[Exit]) = Written
    /\ \A i \in 1 .. Len(bwd[Exit]) : ~Teardown(bwd[Exit][i])
    /\ rbpos[Exit] = BBase[Exit] + off[Len(bsent) + 1]

\* A relay that still reads link h has written to link h-1 all it took.
RelayLogs ==
    \A h \in Hop \ {0} : bread[h] =>
        /\ ~shut[h - 1]
        /\ Len(bwd[h - 1]) <= brd[h]
        /\ up[h - 1] => Len(bwd[h - 1]) = brd[h]
        /\ \A i \in 1 .. Len(bwd[h - 1]) :
              Teardown(bwd[h - 1][i]) => Teardown(bwd[h][i])

\* A relay's cipher stands where the cells it took leave it.
RelayCiphers(off) ==
    /\ \A h \in Hop : brd[h] <= Len(bwd[h])
    /\ \A h \in Hop \ {0} :
          (\A i \in 1 .. brd[h] : ~Teardown(bwd[h][i]))
              => rbpos[h - 1] = BBase[h - 1] + off[brd[h] + 1]

\* The client has accepted all that it took, until it stops reading.
ClientAccepted(off) ==
    /\ cbdig = cacc
    /\ bread[0] =>
          /\ Len(cacc) = brd[0]
          /\ \A i \in 1 .. brd[0] : cacc[i] = bsent[i] /\ ~Teardown(bwd[0][i])
          /\ \A j \in Hop : cbpos[j] = BBase[j] + off[brd[0] + 1]

OrderInv(off) ==
    /\ OffsetsOf(bsent, off)
    /\ InOrder(off)
    /\ ExitLog(off)
    /\ RelayLogs
    /\ RelayCiphers(off)
    /\ ClientAccepted(off)

\* The exit's history and the logs, as numbers.
LEMMA BackwardLengths ==
    ASSUME TypeInv
    PROVE  /\ bsent \in Seq(Cell) /\ Len(bsent) \in Nat
           /\ \A h \in Hop : Len(bwd[h]) \in Nat /\ brd[h] \in Nat
           /\ \A h \in Hop : \A i \in 1 .. Len(bwd[h]) : bwd[h][i] \in WireCell
           /\ \A h \in Hop : BBase[h] \in Nat
  <1>1. bsent \in Seq(Cell) /\ Len(bsent) \in Nat
    BY LenProperties DEF TypeInv, TypeOK
  <1>2. \A h \in Hop : Len(bwd[h]) \in Nat /\ brd[h] \in Nat
    BY LenProperties DEF TypeInv, TypeOK
  <1>3. \A h \in Hop : \A i \in 1 .. Len(bwd[h]) : bwd[h][i] \in WireCell
    BY ElementOfSeq DEF TypeInv, TypeOK
  <1>4. QED
    BY <1>1, <1>2, <1>3, BaseAssumption

\* Offsets are natural numbers, and so are the lengths of the cells.
LEMMA OffsetType ==
    ASSUME NEW hist \in Seq(Cell), NEW off, OffsetsOf(hist, off)
    PROVE  /\ Len(hist) \in Nat
           /\ \A i \in 1 .. Len(hist) + 1 : off[i] \in Nat
           /\ \A i \in 1 .. Len(hist) : hist[i] \in Cell /\ Bytes[hist[i]] \in Nat
  <1>1. Len(hist) \in Nat /\ \A i \in 1 .. Len(hist) : hist[i] \in Cell
    BY LenProperties, ElementOfSeq
  <1>2. \A i \in 1 .. Len(hist) + 1 : off[i] \in Nat
    BY <1>1, ElementOfSeq DEF OffsetsOf
  <1>3. QED
    BY <1>1, <1>2, CellAssumption

\* One more cell is sealed: it starts where the last one ended, and what was
\* sealed before stands where it stood.
LEMMA SealOffsets ==
    ASSUME NEW hist \in Seq(Cell), NEW off, OffsetsOf(hist, off), NEW c \in Cell
    PROVE  \E off2 :
              /\ OffsetsOf(Append(hist, c), off2)
              /\ \A i \in 1 .. Len(hist) + 1 : off2[i] = off[i]
              /\ off2[Len(hist) + 2] = off[Len(hist) + 1] + Bytes[c]
  <1>1. /\ Len(hist) \in Nat /\ off \in Seq(Nat) /\ Len(off) = Len(hist) + 1
        /\ off[Len(hist) + 1] \in Nat /\ Bytes[c] \in Nat
        /\ Len(hist) + 1 \in 1 .. Len(off)
    BY OffsetType, CellAssumption DEF OffsetsOf
  <1>2. PICK e \in Nat : e = off[Len(hist) + 1] + Bytes[c]
    BY <1>1
  <1>3. /\ Append(off, e) \in Seq(Nat)
        /\ Len(Append(off, e)) = Len(hist) + 2
        /\ \A i \in 1 .. Len(hist) + 1 : Append(off, e)[i] = off[i]
        /\ Append(off, e)[Len(hist) + 2] = e
    BY <1>1, AppendProperties
  <1>4. /\ Len(Append(hist, c)) = Len(hist) + 1
        /\ \A i \in 1 .. Len(hist) : Append(hist, c)[i] = hist[i]
        /\ Append(hist, c)[Len(hist) + 1] = c
    BY AppendProperties
  <1>5. PICK off2 : off2 = Append(off, e)
    OBVIOUS
  <1>6. ASSUME NEW i \in 1 .. Len(hist) + 1
        PROVE  off2[i + 1] = off2[i] + Bytes[Append(hist, c)[i]]
    <2>1. CASE i \in 1 .. Len(hist)
      <3>1. off[i + 1] = off[i] + Bytes[hist[i]]
        BY <2>1 DEF OffsetsOf
      <3>2. i + 1 \in 1 .. Len(hist) + 1
        BY <1>1, <2>1
      <3>3. QED
        BY <1>3, <1>4, <1>5, <2>1, <3>1, <3>2
    <2>2. CASE i = Len(hist) + 1
      BY <1>1, <1>2, <1>3, <1>4, <1>5, <2>2
    <2>3. QED
      BY <1>1, <2>1, <2>2
  <1>7. off2[1] = 0
    <2>1. 1 \in 1 .. Len(hist) + 1
      BY <1>1
    <2>2. QED
      BY <1>3, <1>5, <2>1 DEF OffsetsOf
  <1>8. OffsetsOf(Append(hist, c), off2)
    BY <1>1, <1>3, <1>4, <1>5, <1>6, <1>7 DEF OffsetsOf
  <1>9. QED
    BY <1>2, <1>3, <1>5, <1>8

\* A cell keeps its place in a history that grows.
LEMMA SealedCellGrows ==
    ASSUME NEW hist \in Seq(Cell), NEW c \in Cell, NEW off, NEW off2,
           \A i \in 1 .. Len(hist) : off2[i] = off[i],
           NEW h, NEW i, NEW w, SealedCell(hist, off, h, i, w)
    PROVE  SealedCell(Append(hist, c), off2, h, i, w)
  <1>1. /\ Len(hist) \in Nat
        /\ Len(Append(hist, c)) = Len(hist) + 1
        /\ \A k \in 1 .. Len(hist) : Append(hist, c)[k] = hist[k]
    BY LenProperties, AppendProperties
  <1>2. i \in 1 .. Len(hist)
    BY DEF SealedCell
  <1>3. i \in 1 .. Len(Append(hist, c)) /\ \A k \in 1 .. i : k \in 1 .. Len(hist)
    BY <1>1, <1>2
  <1>4. Append(hist, c)[i] = hist[i] /\ off2[i] = off[i]
    BY <1>1, <1>2
  <1>5. QED
    BY <1>1, <1>3, <1>4 DEF SealedCell

\* What a write leaves on the links: the cells there were, and w at the end
\* of link h when the link is up and not shut.
LEMMA WriteBackwardLog ==
    ASSUME TypeInv, NEW h \in Hop, NEW w \in WireCell, WriteBackward(h, w)
    PROVE  /\ \A g \in Hop : Len(bwd'[g]) =
                  IF g = h /\ up[h] /\ ~shut[h] THEN Len(bwd[g]) + 1
                  ELSE Len(bwd[g])
           /\ \A g \in Hop : \A i \in 1 .. Len(bwd[g]) : bwd'[g][i] = bwd[g][i]
           /\ up[h] /\ ~shut[h] => bwd'[h][Len(bwd[h]) + 1] = w
  <1>1. /\ bwd[h] \in Seq(WireCell)
        /\ \A g \in Hop : g # h => bwd'[g] = bwd[g]
        /\ bwd'[h] = IF up[h] /\ ~shut[h] THEN Append(bwd[h], w) ELSE bwd[h]
    BY WriteBackwardProperties DEF TypeInv, TypeOK
  <1>2. ASSUME up[h], ~shut[h]
        PROVE  /\ Len(bwd'[h]) = Len(bwd[h]) + 1
               /\ \A i \in 1 .. Len(bwd[h]) : bwd'[h][i] = bwd[h][i]
               /\ bwd'[h][Len(bwd[h]) + 1] = w
    BY <1>1, <1>2, AppendProperties
  <1>3. QED
    BY <1>1, <1>2

\* The cells stay in order when the next one is written after them.  The
\* history may have been extended by a cell that was sealed in the same step.
LEMMA WriteInOrder ==
    ASSUME TypeInv, NEW off, NEW off2, InOrder(off),
           NEW h \in Hop, NEW w \in WireCell, WriteBackward(h, w),
           \A g \in Hop : \A i \in 1 .. Len(bwd[g]) :
               SealedCell(bsent, off, g, i, bwd[g][i])
                   => SealedCell(bsent', off2, g, i, bwd[g][i]),
           up[h] /\ ~shut[h] /\ ~Teardown(w) =>
               /\ SealedCell(bsent', off2, h, Len(bwd[h]) + 1, w)
               /\ \A k \in 1 .. Len(bwd[h]) : ~Teardown(bwd[h][k])
    PROVE  InOrder(off2)'
  <1>1. /\ \A g \in Hop : Len(bwd'[g]) =
               IF g = h /\ up[h] /\ ~shut[h] THEN Len(bwd[g]) + 1
               ELSE Len(bwd[g])
        /\ \A g \in Hop : \A i \in 1 .. Len(bwd[g]) : bwd'[g][i] = bwd[g][i]
        /\ up[h] /\ ~shut[h] => bwd'[h][Len(bwd[h]) + 1] = w
    BY WriteBackwardLog
  <1>2. \A g \in Hop : Len(bwd[g]) \in Nat
    BY BackwardLengths
  <1>3. SUFFICES ASSUME NEW g \in Hop, NEW i \in 1 .. Len(bwd'[g]),
                        ~Teardown(bwd'[g][i])
                 PROVE  /\ SealedCell(bsent', off2, g, i, bwd'[g][i])
                        /\ \A k \in 1 .. i : ~Teardown(bwd'[g][k])
    BY DEF InOrder, Teardown
  <1>4. CASE i \in 1 .. Len(bwd[g])
    <2>1. bwd'[g][i] = bwd[g][i]
      BY <1>1, <1>4
    <2>2. /\ SealedCell(bsent, off, g, i, bwd[g][i])
          /\ \A k \in 1 .. i : ~Teardown(bwd[g][k])
      BY <1>3, <1>4, <2>1 DEF InOrder
    <2>3. \A k \in 1 .. i : k \in 1 .. Len(bwd[g]) /\ bwd'[g][k] = bwd[g][k]
      BY <1>1, <1>2, <1>4
    <2>4. QED
      BY <1>4, <2>1, <2>2, <2>3
  <1>5. CASE i \notin 1 .. Len(bwd[g])
    <2>1. g = h /\ up[h] /\ ~shut[h] /\ i = Len(bwd[h]) + 1 /\ bwd'[g][i] = w
      BY <1>1, <1>2, <1>5
    <2>2. /\ SealedCell(bsent', off2, h, i, w)
          /\ \A k \in 1 .. Len(bwd[h]) : ~Teardown(bwd[h][k])
      BY <1>3, <2>1
    <2>3. \A k \in 1 .. i : k \in 1 .. Len(bwd[h]) \/ k = i
      BY <1>2, <2>1
    <2>4. \A k \in 1 .. Len(bwd[h]) : ~Teardown(bwd'[h][k])
      BY <1>1, <2>2
    <2>5. QED
      BY <1>3, <2>1, <2>2, <2>3, <2>4
  <1>6. QED
    BY <1>4, <1>5

\* What was taken from a link without a DESTROY among it was sealed.
LEMMA TakenIsSealed ==
    ASSUME TypeInv, NEW off, InOrder(off), RelayCiphers(off), NEW h \in Hop,
           \A i \in 1 .. brd[h] : ~Teardown(bwd[h][i])
    PROVE  brd[h] \in 0 .. Len(bsent)
  <1>1. brd[h] \in Nat /\ Len(bsent) \in Nat /\ Len(bwd[h]) \in Nat
    BY BackwardLengths
  <1>2. CASE brd[h] = 0
    BY <1>1, <1>2
  <1>3. CASE brd[h] # 0
    <2>1. brd[h] \in 1 .. Len(bwd[h]) /\ brd[h] \in 1 .. brd[h]
      BY <1>1, <1>3 DEF RelayCiphers
    <2>2. SealedCell(bsent, off, h, brd[h], bwd[h][brd[h]])
      BY <2>1 DEF InOrder
    <2>3. QED
      BY <1>1, <2>2 DEF SealedCell
  <1>4. QED
    BY <1>2, <1>3

\* The exit's cipher puts its layer on, and its tag is the history so far.
LEMMA ExitSealsInOrder ==
    ASSUME TypeInv, NEW off, NEW off2, OffsetsOf(bsent, off), ExitLog(off),
           NEW c \in Cell, ExitAdvance(c),
           \A i \in 1 .. Len(bsent) + 1 : off2[i] = off[i],
           off2[Len(bsent) + 2] = off[Len(bsent) + 1] + Bytes[c]
    PROVE  /\ SealedCell(bsent', off2, Exit, Len(bsent'), ExitSeal(c))
           /\ rbpos'[Exit] = BBase[Exit] + off2[Len(bsent') + 1]
           /\ \A j \in Hop : j # Exit => rbpos'[j] = rbpos[j]
           /\ Len(bsent') = Len(bsent) + 1
  <1>1. /\ bsent \in Seq(Cell) /\ Len(bsent) \in Nat
        /\ bsent' = Append(bsent, c)
        /\ rbpos' = [rbpos EXCEPT ![Exit] = @ + Bytes[c]]
        /\ rbpos \in [Hop -> Nat]
    BY BackwardLengths DEF ExitAdvance, TypeInv, TypeOK
  <1>2. /\ bsent' \in Seq(Cell) /\ Len(bsent') = Len(bsent) + 1
        /\ bsent'[Len(bsent) + 1] = c
    BY <1>1, AppendProperties
  <1>3. /\ rbpos[Exit] \in Nat /\ Bytes[c] \in Nat /\ BBase[Exit] \in Nat
        /\ off[Len(bsent) + 1] \in Nat
        /\ off2[Len(bsent) + 1] = off[Len(bsent) + 1]
    <2>1. Len(bsent) + 1 \in 1 .. Len(bsent) + 1
      BY <1>1
    <2>2. off[Len(bsent) + 1] \in Nat
      BY <1>1, <2>1, OffsetType
    <2>3. rbpos[Exit] \in Nat /\ Bytes[c] \in Nat /\ BBase[Exit] \in Nat
      BY <1>1, ExitIsHop, CellAssumption, BaseAssumption
    <2>4. QED
      BY <2>1, <2>2, <2>3
  <1>4. rbpos[Exit] = BBase[Exit] + off2[Len(bsent) + 1]
    BY <1>3 DEF ExitLog
  <1>5. PICK v : v = Wire(c, Append(bsent, c))
    OBVIOUS
  <1>6. PICK w : w = Crypt(v, Exit, rbpos[Exit])
    OBVIOUS
  <1>7. /\ v \in WireCell /\ v.cell = c /\ v.tag = bsent'
        /\ \A j \in Hop : v.layers[j] = {}
    BY <1>1, <1>2, <1>5, WireProperties
  <1>8. /\ w \in WireCell /\ w.cell = c /\ w.tag = bsent'
        /\ \A j \in Hop : w.layers[j] =
              IF j = Exit /\ Bytes[v.cell] # 0 THEN Toggle(v.layers[Exit], rbpos[Exit])
              ELSE v.layers[j]
    <2>1. v \in WireCell /\ Exit \in Hop /\ rbpos[Exit] \in Nat
      BY <1>3, <1>7, ExitIsHop
    <2>2. /\ w \in WireCell /\ w.cell = v.cell /\ w.tag = v.tag
          /\ \A j \in Hop : w.layers[j] =
                IF j = Exit /\ Bytes[v.cell] # 0
                THEN Toggle(v.layers[Exit], rbpos[Exit]) ELSE v.layers[j]
      BY <1>6, <2>1, CryptProperties
    <2>3. QED
      BY <1>7, <2>2
  <1>9. ASSUME NEW j \in Hop
        PROVE  w.layers[j] = IF j >= Exit /\ Bytes[c] > 0
                             THEN {BBase[j] + off2[Len(bsent) + 1]} ELSE {}
    <2>1. j >= Exit <=> j = Exit
      BY HopsAssumption DEF Hop, Exit
    <2>2. Toggle({}, rbpos[Exit]) = {rbpos[Exit]}
      BY DEF Toggle
    <2>3. Bytes[c] # 0 <=> Bytes[c] > 0
      BY <1>3
    <2>4. QED
      BY <1>4, <1>7, <1>8, <2>1, <2>2, <2>3, ExitIsHop
  <1>10. w.layers = [j \in Hop |-> IF j >= Exit /\ Bytes[bsent'[Len(bsent')]] > 0
                                 THEN {BBase[j] + off2[Len(bsent')]} ELSE {}]
    <2>1. w.layers = [j \in Hop |-> w.layers[j]]
      BY <1>8 DEF WireCell
    <2>2. QED
      BY <1>2, <1>9, <2>1
  <1>11. SealedCell(bsent', off2, Exit, Len(bsent'), w)
    <2>1. Len(bsent') \in 1 .. Len(bsent')
      BY <1>1, <1>2
    <2>2. w.cell = bsent'[Len(bsent')]
      BY <1>2, <1>8
    <2>3. QED
      BY <1>8, <1>10, <2>1, <2>2 DEF SealedCell
  <1>12. w = ExitSeal(c)
    BY <1>5, <1>6 DEF ExitSeal
  <1>13. rbpos'[Exit] = BBase[Exit] + off2[Len(bsent') + 1]
    <2>1. rbpos'[Exit] = rbpos[Exit] + Bytes[c]
      BY <1>1, ExitIsHop
    <2>2. off2[Len(bsent') + 1] = off[Len(bsent) + 1] + Bytes[c]
      BY <1>1, <1>2
    <2>3. QED
      BY <1>3, <1>4, <2>1, <2>2
  <1>14. QED
    BY <1>1, <1>2, <1>11, <1>12, <1>13, ExitIsHop

\* What the exit seals and writes leaves the relays and the client in order.
LEMMA ExitKeepsOrder ==
    ASSUME TypeInv, NEW off, NEW off2, OrderInv(off),
           \A i \in 1 .. Len(bsent) + 1 : off2[i] = off[i],
           \A i \in 1 .. Len(bsent) : bsent'[i] = bsent[i],
           NEW w \in WireCell, bwd' = bwd \/ WriteBackward(Exit, w),
           \A j \in Hop : j # Exit => rbpos'[j] = rbpos[j],
           UNCHANGED <<up, shut, brd, bread, cbpos, cbdig, cacc>>
    PROVE  /\ RelayLogs'
           /\ RelayCiphers(off2)'
           /\ ClientAccepted(off2)'
  <1>1. /\ \A g \in Hop : Len(bwd[g]) \in Nat /\ brd[g] \in Nat
        /\ Len(bsent) \in Nat
        /\ \A g \in Hop : brd[g] <= Len(bwd[g])
    BY BackwardLengths DEF OrderInv, RelayCiphers
  <1>2. /\ \A g \in Hop : g # Exit => bwd'[g] = bwd[g]
        /\ \A g \in Hop : Len(bwd[g]) <= Len(bwd'[g])
        /\ \A g \in Hop : \A i \in 1 .. Len(bwd[g]) : bwd'[g][i] = bwd[g][i]
    <2>1. CASE bwd' = bwd
      BY <1>1, <2>1
    <2>2. CASE WriteBackward(Exit, w)
      <3>1. \A g \in Hop : g # Exit => bwd'[g] = bwd[g]
        BY <2>2, ExitIsHop, WriteBackwardProperties DEF TypeInv, TypeOK
      <3>2. /\ \A g \in Hop : Len(bwd'[g]) =
                   IF g = Exit /\ up[Exit] /\ ~shut[Exit] THEN Len(bwd[g]) + 1
                   ELSE Len(bwd[g])
            /\ \A g \in Hop : \A i \in 1 .. Len(bwd[g]) : bwd'[g][i] = bwd[g][i]
        BY <2>2, ExitIsHop, WriteBackwardLog
      <3>3. QED
        BY <1>1, <3>1, <3>2
    <2>3. QED
      BY <2>1, <2>2
  <1>3. \A h \in Hop \ {0} : h - 1 \in Hop /\ h - 1 # Exit
    BY HopsAssumption DEF Hop, Exit
  <1>4. RelayLogs'
    <2> SUFFICES ASSUME NEW h \in Hop \ {0}, bread[h]
                 PROVE  /\ ~shut[h - 1]
                        /\ Len(bwd'[h - 1]) <= brd[h]
                        /\ up[h - 1] => Len(bwd'[h - 1]) = brd[h]
                        /\ \A i \in 1 .. Len(bwd'[h - 1]) :
                              Teardown(bwd'[h - 1][i]) => Teardown(bwd'[h][i])
      BY DEF RelayLogs, Teardown
    <2>1. /\ ~shut[h - 1]
          /\ Len(bwd[h - 1]) <= brd[h]
          /\ up[h - 1] => Len(bwd[h - 1]) = brd[h]
          /\ \A i \in 1 .. Len(bwd[h - 1]) :
                Teardown(bwd[h - 1][i]) => Teardown(bwd[h][i])
      BY DEF OrderInv, RelayLogs
    <2>2. bwd'[h - 1] = bwd[h - 1]
      BY <1>2, <1>3
    <2>3. \A i \in 1 .. Len(bwd[h - 1]) : i \in 1 .. Len(bwd[h])
      BY <1>1, <1>3, <2>1
    <2>4. \A i \in 1 .. Len(bwd[h - 1]) : bwd'[h][i] = bwd[h][i]
      BY <1>2, <2>3
    <2>5. QED
      BY <2>1, <2>2, <2>4
  <1>5. ASSUME NEW h \in Hop
        PROVE  \A i \in 1 .. brd[h] : bwd'[h][i] = bwd[h][i]
    BY <1>1, <1>2
  <1>6. RelayCiphers(off2)'
    <2>1. \A h \in Hop : brd'[h] <= Len(bwd'[h])
      BY <1>1, <1>2
    <2>2. ASSUME NEW h \in Hop \ {0}, \A i \in 1 .. brd'[h] : ~Teardown(bwd'[h][i])
          PROVE  rbpos'[h - 1] = BBase[h - 1] + off2[brd'[h] + 1]
      <3>1. \A i \in 1 .. brd[h] : ~Teardown(bwd[h][i])
        BY <1>5, <2>2
      <3>2. rbpos[h - 1] = BBase[h - 1] + off[brd[h] + 1]
        BY <3>1 DEF OrderInv, RelayCiphers
      <3>3. brd[h] \in 0 .. Len(bsent)
        BY <3>1, TakenIsSealed DEF OrderInv
      <3>4. off2[brd[h] + 1] = off[brd[h] + 1]
        BY <1>1, <3>3
      <3>5. rbpos'[h - 1] = rbpos[h - 1]
        BY <1>3
      <3>6. QED
        BY <3>2, <3>4, <3>5
    <2>3. QED
      BY <2>1, <2>2 DEF RelayCiphers, Teardown
  <1>7. ClientAccepted(off2)'
    <2>1. CASE bread[0]
      <3>1. /\ Len(cacc) = brd[0]
            /\ \A i \in 1 .. brd[0] : cacc[i] = bsent[i] /\ ~Teardown(bwd[0][i])
            /\ \A j \in Hop : cbpos[j] = BBase[j] + off[brd[0] + 1]
        BY <2>1 DEF OrderInv, ClientAccepted
      <3>2. brd[0] \in 0 .. Len(bsent)
        BY <3>1, ExitIsHop, TakenIsSealed DEF OrderInv
      <3>3. off2[brd[0] + 1] = off[brd[0] + 1]
        BY <1>1, <3>2
      <3>4. \A i \in 1 .. brd[0] : bsent'[i] = bsent[i] /\ bwd'[0][i] = bwd[0][i]
        BY <1>1, <1>5, <3>2, ExitIsHop
      <3>5. QED
        BY <3>1, <3>3, <3>4 DEF OrderInv, ClientAccepted, Teardown
    <2>2. CASE ~bread[0]
      BY <2>2 DEF OrderInv, ClientAccepted
    <2>3. QED
      BY <2>1, <2>2
  <1>8. QED
    BY <1>4, <1>6, <1>7

\* The exit seals a cell and writes it in the same step, with none waiting.
LEMMA ExitWritesInOrder ==
    ASSUME TypeInv, NEW off, OrderInv(off), NEW c \in Cell, ExitAdvance(c),
           WriteBackward(Exit, ExitSeal(c)), xpc # "write", xpc' # "write",
           UNCHANGED <<up, shut, brd, bread, cbpos, cbdig, cacc>>
    PROVE  \E off2 : OrderInv(off2)'
  <1>1. bsent' = Append(bsent, c) /\ bsent \in Seq(Cell) /\ ExitSeal(c) \in WireCell
    BY BackwardLengths, ExitSealProperties
  <1>2. PICK off2 : /\ OffsetsOf(bsent', off2)
                    /\ \A i \in 1 .. Len(bsent) + 1 : off2[i] = off[i]
                    /\ off2[Len(bsent) + 2] = off[Len(bsent) + 1] + Bytes[c]
    BY <1>1, SealOffsets DEF OrderInv
  <1>3. PICK w \in WireCell : w = ExitSeal(c)
    BY <1>1
  <1>4. /\ SealedCell(bsent', off2, Exit, Len(bsent'), w)
        /\ rbpos'[Exit] = BBase[Exit] + off2[Len(bsent') + 1]
        /\ \A j \in Hop : j # Exit => rbpos'[j] = rbpos[j]
        /\ Len(bsent') = Len(bsent) + 1
    BY <1>2, <1>3, ExitSealsInOrder DEF OrderInv
  <1>5. /\ ~shut[Exit]
        /\ up[Exit] => Len(bwd[Exit]) = Len(bsent)
        /\ \A i \in 1 .. Len(bwd[Exit]) : ~Teardown(bwd[Exit][i])
    BY DEF OrderInv, ExitLog, Written
  <1>6. \A i \in 1 .. Len(bsent) : off2[i] = off[i] /\ bsent'[i] = bsent[i]
    <2>1. Len(bsent) \in Nat
      BY BackwardLengths
    <2>2. QED
      BY <1>1, <1>2, <2>1, AppendProperties
  <1>7. InOrder(off2)'
    <2>1. \A g \in Hop : \A i \in 1 .. Len(bwd[g]) :
             SealedCell(bsent, off, g, i, bwd[g][i])
                 => SealedCell(bsent', off2, g, i, bwd[g][i])
      BY <1>1, <1>6, SealedCellGrows
    <2>2. up[Exit] /\ ~shut[Exit] /\ ~Teardown(w) =>
             /\ SealedCell(bsent', off2, Exit, Len(bwd[Exit]) + 1, w)
             /\ \A k \in 1 .. Len(bwd[Exit]) : ~Teardown(bwd[Exit][k])
      BY <1>4, <1>5
    <2>3. InOrder(off) /\ WriteBackward(Exit, w)
      BY <1>3 DEF OrderInv
    <2>4. QED
      BY <2>1, <2>2, <2>3, ExitIsHop, WriteInOrder
  <1>8. ExitLog(off2)'
    <2>1. /\ Len(bwd'[Exit]) = IF up[Exit] THEN Len(bwd[Exit]) + 1
                              ELSE Len(bwd[Exit])
          /\ \A i \in 1 .. Len(bwd[Exit]) : bwd'[Exit][i] = bwd[Exit][i]
          /\ up[Exit] => bwd'[Exit][Len(bwd[Exit]) + 1] = w
          /\ Len(bwd[Exit]) \in Nat
      BY <1>3, <1>5, ExitIsHop, WriteBackwardLog, BackwardLengths
    <2>2. ~Teardown(w)
      <3>1. w.cell = c
        BY <1>3, ExitSealProperties
      <3>2. QED
        BY <3>1, CellAssumption DEF Teardown
    <2>3. \A i \in 1 .. Len(bwd'[Exit]) : ~Teardown(bwd'[Exit][i])
      <3>1. \A i \in 1 .. Len(bwd'[Exit]) :
               i \in 1 .. Len(bwd[Exit]) \/ (up[Exit] /\ i = Len(bwd[Exit]) + 1)
        BY <2>1
      <3>2. QED
        BY <1>5, <2>1, <2>2, <3>1
    <2>4. QED
      BY <1>4, <1>5, <2>1, <2>3 DEF ExitLog, Written, Teardown
  <1>9. RelayLogs' /\ RelayCiphers(off2)' /\ ClientAccepted(off2)'
    BY <1>2, <1>3, <1>4, <1>6, ExitKeepsOrder
  <1>10. QED
    BY <1>2, <1>7, <1>8, <1>9 DEF OrderInv

\* The exit seals a reply, which its connection loop will write.
LEMMA ExitSealReplyOrder ==
    ASSUME TypeInv, NEW off, OrderInv(off), NEW c \in Cell, ExitSealReply(c)
    PROVE  \E off2 : OrderInv(off2)'
  <1>1. /\ ExitAdvance(c) /\ bsent' = Append(bsent, c) /\ bsent \in Seq(Cell)
        /\ ExitSeal(c) \in WireCell /\ Len(bsent) \in Nat
    BY BackwardLengths, ExitSealProperties DEF ExitSealReply
  <1>2. PICK off2 : /\ OffsetsOf(bsent', off2)
                    /\ \A i \in 1 .. Len(bsent) + 1 : off2[i] = off[i]
                    /\ off2[Len(bsent) + 2] = off[Len(bsent) + 1] + Bytes[c]
    BY <1>1, SealOffsets DEF OrderInv
  <1>3. /\ SealedCell(bsent', off2, Exit, Len(bsent'), reply')
        /\ rbpos'[Exit] = BBase[Exit] + off2[Len(bsent') + 1]
        /\ \A j \in Hop : j # Exit => rbpos'[j] = rbpos[j]
        /\ Len(bsent') = Len(bsent) + 1
    BY <1>1, <1>2, ExitSealsInOrder DEF OrderInv, ExitSealReply
  <1>4. /\ UNCHANGED <<up, shut, bwd, brd, bread, cbpos, cbdig, cacc>>
        /\ xpc = "handle" /\ xpc' = "write"
    BY DEF ExitSealReply, links
  <1>5. \A i \in 1 .. Len(bsent) : off2[i] = off[i] /\ bsent'[i] = bsent[i]
    BY <1>1, <1>2, AppendProperties
  <1>6. InOrder(off2)'
    BY <1>1, <1>4, <1>5, SealedCellGrows DEF OrderInv, InOrder, Teardown
  <1>7. ExitLog(off2)'
    BY <1>1, <1>3, <1>4 DEF OrderInv, ExitLog, Written, Teardown
  <1>8. RelayLogs' /\ RelayCiphers(off2)' /\ ClientAccepted(off2)'
    BY <1>1, <1>2, <1>3, <1>4, <1>5, ExitKeepsOrder
  <1>9. QED
    BY <1>2, <1>6, <1>7, <1>8 DEF OrderInv

\* The exit's connection loop writes the reply it was handed.
LEMMA ExitWriteReplyOrder ==
    ASSUME TypeInv, NEW off, OrderInv(off), ExitWriteReply
    PROVE  OrderInv(off)'
  <1>1. /\ xpc = "write" /\ xpc' = "read"
        /\ reply \in WireCell /\ WriteBackward(Exit, reply)
        /\ UNCHANGED <<up, shut, bsent, rbpos, brd, bread, cbpos, cbdig, cacc>>
    BY DEF ExitWriteReply, TypeInv, links
  <1>2. PICK w \in WireCell : w = reply
    BY <1>1
  <1>3. /\ ~shut[Exit]
        /\ SealedCell(bsent, off, Exit, Len(bsent), w)
        /\ up[Exit] => Len(bwd[Exit]) = Len(bsent) - 1
        /\ \A i \in 1 .. Len(bwd[Exit]) : ~Teardown(bwd[Exit][i])
        /\ rbpos[Exit] = BBase[Exit] + off[Len(bsent) + 1]
    BY <1>1, <1>2 DEF OrderInv, ExitLog, Written
  <1>4. /\ Len(bsent) \in Nat /\ bsent \in Seq(Cell)
        /\ Len(bwd[Exit]) \in Nat
    BY BackwardLengths, ExitIsHop
  <1>5. InOrder(off)'
    <2>1. up[Exit] /\ ~shut[Exit] /\ ~Teardown(w) =>
             /\ SealedCell(bsent', off, Exit, Len(bwd[Exit]) + 1, w)
             /\ \A k \in 1 .. Len(bwd[Exit]) : ~Teardown(bwd[Exit][k])
      <3>1. up[Exit] => Len(bwd[Exit]) + 1 = Len(bsent)
        BY <1>3, <1>4
      <3>2. QED
        BY <1>1, <1>3, <3>1
    <2>2. InOrder(off) /\ WriteBackward(Exit, w) /\ bsent' = bsent
      BY <1>1, <1>2 DEF OrderInv
    <2>3. QED
      BY <2>1, <2>2, ExitIsHop, WriteInOrder
  <1>6. ExitLog(off)'
    <2>1. /\ Len(bwd'[Exit]) = IF up[Exit] THEN Len(bwd[Exit]) + 1
                              ELSE Len(bwd[Exit])
          /\ \A i \in 1 .. Len(bwd[Exit]) : bwd'[Exit][i] = bwd[Exit][i]
          /\ up[Exit] => bwd'[Exit][Len(bwd[Exit]) + 1] = w
      BY <1>1, <1>2, <1>3, ExitIsHop, WriteBackwardLog
    <2>2. ~Teardown(w)
      <3>1. w.cell = bsent[Len(bsent)] /\ Len(bsent) \in 1 .. Len(bsent)
        BY <1>3 DEF SealedCell
      <3>2. w.cell \in Cell
        BY <1>4, <3>1, ElementOfSeq
      <3>3. QED
        BY <3>2, CellAssumption DEF Teardown
    <2>3. \A i \in 1 .. Len(bwd'[Exit]) : ~Teardown(bwd'[Exit][i])
      <3>1. \A i \in 1 .. Len(bwd'[Exit]) :
               i \in 1 .. Len(bwd[Exit]) \/ (up[Exit] /\ i = Len(bwd[Exit]) + 1)
        BY <1>4, <2>1
      <3>2. QED
        BY <1>3, <2>1, <2>2, <3>1
    <2>4. up[Exit] => Len(bwd'[Exit]) = Len(bsent)
      BY <1>3, <1>4, <2>1
    <2>5. QED
      BY <1>1, <1>3, <2>3, <2>4 DEF ExitLog, Written, Teardown
  <1>7. RelayLogs' /\ RelayCiphers(off)' /\ ClientAccepted(off)'
    BY <1>1, <1>2, ExitKeepsOrder
  <1>8. OffsetsOf(bsent', off)
    BY <1>1 DEF OrderInv
  <1>9. QED
    BY <1>5, <1>6, <1>7, <1>8 DEF OrderInv

\* A relay's step on link h keeps the order when its own log and its own
\* cipher still agree with what it took: the other hops are left alone.
LEMMA RelayKeepsOrder ==
    ASSUME TypeInv, NEW off, OrderInv(off), NEW h \in Hop, h # 0,
           NEW w \in WireCell, WriteBackward(h - 1, w),
           up[h - 1] /\ ~shut[h - 1] /\ ~Teardown(w) =>
               /\ SealedCell(bsent, off, h - 1, Len(bwd[h - 1]) + 1, w)
               /\ \A k \in 1 .. Len(bwd[h - 1]) : ~Teardown(bwd[h - 1][k]),
           bread'[h] =>
               /\ ~shut'[h - 1]
               /\ Len(bwd'[h - 1]) <= brd'[h]
               /\ up[h - 1] => Len(bwd'[h - 1]) = brd'[h]
               /\ \A i \in 1 .. Len(bwd'[h - 1]) :
                     Teardown(bwd'[h - 1][i]) => Teardown(bwd[h][i]),
           brd'[h] <= Len(bwd[h]),
           (\A i \in 1 .. brd'[h] : ~Teardown(bwd[h][i]))
               => rbpos'[h - 1] = BBase[h - 1] + off[brd'[h] + 1],
           \A g \in Hop : g # h => brd'[g] = brd[g] /\ bread'[g] = bread[g],
           \A g \in Hop : g # h - 1 => rbpos'[g] = rbpos[g] /\ shut'[g] = shut[g],
           UNCHANGED <<up, xpc, reply, bsent, cbpos, cbdig, cacc>>
    PROVE  OrderInv(off)'
  <1>1. /\ \A g \in Hop : Len(bwd[g]) \in Nat /\ brd[g] \in Nat
        /\ \A g \in Hop : brd[g] <= Len(bwd[g])
    BY BackwardLengths DEF OrderInv, RelayCiphers
  <1>2. h - 1 \in Hop /\ h - 1 # Exit /\ h - 1 # h
    BY HopsAssumption DEF Hop, Exit
  <1>3. \A g \in Hop \ {0} : /\ g - 1 \in Hop
                             /\ g # h => g - 1 # h - 1
    BY HopsAssumption DEF Hop
  <1>4. /\ \A g \in Hop : g # h - 1 => bwd'[g] = bwd[g]
        /\ \A g \in Hop : Len(bwd[g]) <= Len(bwd'[g])
        /\ \A g \in Hop : \A i \in 1 .. Len(bwd[g]) : bwd'[g][i] = bwd[g][i]
    <2>1. \A g \in Hop : g # h - 1 => bwd'[g] = bwd[g]
      BY <1>2, WriteBackwardProperties DEF TypeInv, TypeOK
    <2>2. /\ \A g \in Hop : Len(bwd'[g]) =
                 IF g = h - 1 /\ up[h - 1] /\ ~shut[h - 1] THEN Len(bwd[g]) + 1
                 ELSE Len(bwd[g])
          /\ \A g \in Hop : \A i \in 1 .. Len(bwd[g]) : bwd'[g][i] = bwd[g][i]
      BY <1>2, WriteBackwardLog
    <2>3. QED
      BY <1>1, <2>1, <2>2
  <1>5. InOrder(off)'
    BY <1>2, WriteInOrder DEF OrderInv
  <1>6. ExitLog(off)'
    BY <1>2, <1>4, ExitIsHop DEF OrderInv, ExitLog, Written, Teardown
  <1>7. RelayLogs'
    <2> SUFFICES ASSUME NEW g \in Hop \ {0}, bread'[g]
                 PROVE  /\ ~shut'[g - 1]
                        /\ Len(bwd'[g - 1]) <= brd'[g]
                        /\ up[g - 1] => Len(bwd'[g - 1]) = brd'[g]
                        /\ \A i \in 1 .. Len(bwd'[g - 1]) :
                              Teardown(bwd'[g - 1][i]) => Teardown(bwd'[g][i])
      BY DEF RelayLogs, Teardown
    <2>1. CASE g = h
      BY <1>2, <1>4, <2>1
    <2>2. CASE g # h
      <3>1. bread[g] /\ g - 1 \in Hop /\ g - 1 # h - 1
        BY <1>3, <2>2
      <3>2. /\ ~shut[g - 1]
            /\ Len(bwd[g - 1]) <= brd[g]
            /\ up[g - 1] => Len(bwd[g - 1]) = brd[g]
            /\ \A i \in 1 .. Len(bwd[g - 1]) :
                  Teardown(bwd[g - 1][i]) => Teardown(bwd[g][i])
        BY <3>1 DEF OrderInv, RelayLogs
      <3>3. bwd'[g - 1] = bwd[g - 1] /\ shut'[g - 1] = shut[g - 1] /\ brd'[g] = brd[g]
        BY <1>4, <2>2, <3>1
      <3>4. \A i \in 1 .. Len(bwd[g - 1]) : i \in 1 .. Len(bwd[g])
        BY <1>1, <3>1, <3>2
      <3>5. \A i \in 1 .. Len(bwd[g - 1]) : bwd'[g][i] = bwd[g][i]
        BY <1>4, <3>4
      <3>6. QED
        BY <3>2, <3>3, <3>5
    <2>3. QED
      BY <2>1, <2>2
  <1>8. RelayCiphers(off)'
    <2>1. \A g \in Hop : brd'[g] <= Len(bwd'[g])
      <3>1. ASSUME NEW g \in Hop PROVE brd'[g] <= Len(bwd'[g])
        <4>1. CASE g = h
          BY <1>2, <1>4, <4>1
        <4>2. CASE g # h
          <5>1. brd'[g] = brd[g] /\ brd[g] <= Len(bwd[g]) /\ Len(bwd[g]) <= Len(bwd'[g])
            BY <1>1, <1>4, <4>2
          <5>2. Len(bwd'[g]) \in Nat
            BY <1>2, WriteBackwardLog, <1>1
          <5>3. QED
            BY <1>1, <5>1, <5>2
        <4>3. QED
          BY <4>1, <4>2
      <3>2. QED
        BY <3>1
    <2>2. ASSUME NEW g \in Hop \ {0}, \A i \in 1 .. brd'[g] : ~Teardown(bwd'[g][i])
          PROVE  rbpos'[g - 1] = BBase[g - 1] + off[brd'[g] + 1]
      <3>1. CASE g = h
        BY <1>2, <1>4, <2>2, <3>1
      <3>2. CASE g # h
        <4>1. brd'[g] = brd[g] /\ rbpos'[g - 1] = rbpos[g - 1]
          BY <1>3, <3>2
        <4>2. \A i \in 1 .. brd[g] : bwd'[g][i] = bwd[g][i]
          BY <1>1, <1>4
        <4>3. \A i \in 1 .. brd[g] : ~Teardown(bwd[g][i])
          BY <2>2, <4>1, <4>2
        <4>4. QED
          BY <4>1, <4>3 DEF OrderInv, RelayCiphers
      <3>3. QED
        BY <3>1, <3>2
    <2>3. QED
      BY <2>1, <2>2 DEF RelayCiphers, Teardown
  <1>9. ClientAccepted(off)'
    <2>1. brd'[0] = brd[0] /\ bread'[0] = bread[0]
      BY ExitIsHop
    <2>2. \A i \in 1 .. brd[0] : bwd'[0][i] = bwd[0][i]
      BY <1>1, <1>4, ExitIsHop
    <2>3. QED
      BY <2>1, <2>2 DEF OrderInv, ClientAccepted, Teardown
  <1>10. QED
    BY <1>5, <1>6, <1>7, <1>8, <1>9 DEF OrderInv

\* A nexthop reader ends: only a DESTROY is written after the cells.
LEMMA EndReaderOrder ==
    ASSUME TypeInv, NEW off, OrderInv(off), NEW h \in Hop, h # 0, EndReader(h),
           brd'[h] <= Len(bwd[h]),
           (\A i \in 1 .. brd'[h] : ~Teardown(bwd[h][i]))
               => rbpos'[h - 1] = BBase[h - 1] + off[brd'[h] + 1],
           \A g \in Hop : g # h => brd'[g] = brd[g],
           \A g \in Hop : g # h - 1 => rbpos'[g] = rbpos[g],
           UNCHANGED <<up, xpc, reply, bsent, cbpos, cbdig, cacc>>
    PROVE  OrderInv(off)'
  <1>1. /\ Destroy \in WireCell /\ Teardown(Destroy)
    BY EmptySeq, WireProperties DEF Destroy, Teardown
  <1>2. PICK w \in WireCell : w = Destroy
    BY <1>1
  <1>3. /\ WriteBackward(h - 1, w) /\ Teardown(w)
        /\ ~bread'[h]
        /\ \A g \in Hop : g # h => bread'[g] = bread[g]
        /\ \A g \in Hop : g # h - 1 => shut'[g] = shut[g]
    BY <1>1, <1>2 DEF EndReader, TypeInv, TypeOK
  <1>4. QED
    BY <1>3, RelayKeepsOrder

\* A relay puts its own layer on: the cell is as the next link carries it.
LEMMA RelayAddsLayer ==
    ASSUME TypeInv, NEW off, OffsetsOf(bsent, off), NEW h \in Hop, h # 0,
           NEW n, NEW w \in WireCell, SealedCell(bsent, off, h, n, w),
           rbpos[h - 1] = BBase[h - 1] + off[n]
    PROVE  SealedCell(bsent, off, h - 1, n, Crypt(w, h - 1, rbpos[h - 1]))
  <1>1. h - 1 \in Hop /\ h \in Nat
    BY HopsAssumption DEF Hop
  <1>2. /\ n \in 1 .. Len(bsent) /\ w.cell = bsent[n]
        /\ Bytes[bsent[n]] \in Nat
        /\ rbpos[h - 1] \in Nat
    <2>1. n \in 1 .. Len(bsent) /\ w.cell = bsent[n]
      BY DEF SealedCell
    <2>2. bsent \in Seq(Cell) /\ rbpos \in [Hop -> Nat]
      BY DEF TypeInv, TypeOK
    <2>3. QED
      BY <1>1, <2>1, <2>2, OffsetType
  <1>3. PICK v : v = Crypt(w, h - 1, rbpos[h - 1])
    OBVIOUS
  <1>4. /\ v \in WireCell /\ v.cell = w.cell /\ v.tag = w.tag
        /\ \A j \in Hop : v.layers[j] =
              IF j = h - 1 /\ Bytes[w.cell] # 0
              THEN Toggle(w.layers[h - 1], rbpos[h - 1]) ELSE w.layers[j]
    BY <1>1, <1>2, <1>3, CryptProperties
  <1>5. \A j \in Hop : w.layers[j] =
           IF j >= h /\ Bytes[bsent[n]] > 0 THEN {BBase[j] + off[n]} ELSE {}
    BY DEF SealedCell
  <1>6. ASSUME NEW j \in Hop
        PROVE  v.layers[j] = IF j >= h - 1 /\ Bytes[bsent[n]] > 0
                             THEN {BBase[j] + off[n]} ELSE {}
    <2>1. CASE Bytes[bsent[n]] = 0
      BY <1>2, <1>4, <1>5, <2>1
    <2>2. CASE Bytes[bsent[n]] > 0 /\ j = h - 1
      <3>1. w.layers[h - 1] = {}
        <4>1. ~(h - 1 >= h)
          BY <1>1
        <4>2. QED
          BY <1>1, <1>5, <4>1
      <3>2. v.layers[h - 1] = {rbpos[h - 1]}
        BY <1>1, <1>2, <1>4, <2>2, <3>1 DEF Toggle
      <3>3. j >= h - 1
        BY <1>1, <2>2
      <3>4. QED
        BY <2>2, <3>2, <3>3
    <2>3. CASE Bytes[bsent[n]] > 0 /\ j # h - 1
      <3>1. j >= h <=> j >= h - 1
        BY <1>1, <2>3 DEF Hop
      <3>2. QED
        BY <1>4, <1>5, <2>3, <3>1
    <2>4. QED
      BY <1>2, <2>1, <2>2, <2>3
  <1>7. v.layers = [j \in Hop |-> IF j >= h - 1 /\ Bytes[bsent[n]] > 0
                                 THEN {BBase[j] + off[n]} ELSE {}]
    <2>1. v.layers = [j \in Hop |-> v.layers[j]]
      BY <1>4 DEF WireCell
    <2>2. QED
      BY <1>6, <2>1
  <1>8. QED
    BY <1>2, <1>3, <1>4, <1>7 DEF SealedCell

\* handle_backward_relay keeps the order.
LEMMA RelayBackwardOrder ==
    ASSUME TypeInv, NEW off, OrderInv(off), NEW h \in Hop, RelayBackward(h)
    PROVE  OrderInv(off)'
  <1>n. PICK n : n = brd[h] + 1
    OBVIOUS
  <1>w. PICK w : w = bwd[h][n]
    OBVIOUS
  <1>v. PICK v : v = Crypt(w, h - 1, rbpos[h - 1])
    OBVIOUS
  <1>1. /\ h # 0 /\ bread[h]
        /\ n \in 1 .. Len(bwd[h]) /\ brd[h] \in Nat
        /\ w \in WireCell /\ Bytes[w.cell] \in Nat
        /\ brd' = [brd EXCEPT ![h] = @ + 1]
        /\ UNCHANGED <<up, xpc, reply, bsent, cbpos, cbdig, cacc>>
    BY <1>n, <1>w, NextBackwardCell
       DEF RelayBackward, BackwardReadable, forward, handler
  <1>2. /\ h - 1 \in Hop /\ h \in Nat
        /\ Len(bwd[h]) \in Nat /\ Len(bwd[h - 1]) \in Nat
        /\ rbpos \in [Hop -> Nat] /\ brd \in [Hop -> Nat]
        /\ bsent \in Seq(Cell) /\ Len(bsent) \in Nat
    <2>1. h - 1 \in Hop /\ h \in Nat
      BY <1>1, HopsAssumption DEF Hop
    <2>2. rbpos \in [Hop -> Nat] /\ brd \in [Hop -> Nat]
      BY DEF TypeInv, TypeOK
    <2>3. QED
      BY <2>1, <2>2, BackwardLengths
  <1>3. /\ brd'[h] = n /\ n \in Nat /\ n <= Len(bwd[h])
        /\ \A g \in Hop : g # h => brd'[g] = brd[g]
    BY <1>n, <1>1, <1>2
  <1>4. ASSUME ~Teardown(w)
        PROVE  /\ SealedCell(bsent, off, h, n, w)
               /\ \A i \in 1 .. n : ~Teardown(bwd[h][i])
               /\ rbpos[h - 1] = BBase[h - 1] + off[n]
               /\ n \in 1 .. Len(bsent) /\ w.cell = bsent[n]
    <2>1. /\ SealedCell(bsent, off, h, n, w)
          /\ \A i \in 1 .. n : ~Teardown(bwd[h][i])
      BY <1>w, <1>1, <1>4 DEF OrderInv, InOrder
    <2>2. \A i \in 1 .. brd[h] : ~Teardown(bwd[h][i])
      BY <1>n, <1>1, <2>1
    <2>3. rbpos[h - 1] = BBase[h - 1] + off[brd[h] + 1]
      BY <1>1, <2>2 DEF OrderInv, RelayCiphers
    <2>4. QED
      BY <1>n, <2>1, <2>3 DEF SealedCell
  <1>5. ASSUME rbpos' = [rbpos EXCEPT ![h - 1] = @ + Bytes[w.cell]]
        PROVE  /\ (\A i \in 1 .. brd'[h] : ~Teardown(bwd[h][i]))
                     => rbpos'[h - 1] = BBase[h - 1] + off[brd'[h] + 1]
               /\ \A g \in Hop : g # h - 1 => rbpos'[g] = rbpos[g]
    <2>1. ASSUME \A i \in 1 .. n : ~Teardown(bwd[h][i])
          PROVE  rbpos'[h - 1] = BBase[h - 1] + off[n + 1]
      <3>1. ~Teardown(w)
        <4>1. n \in 1 .. n
          BY <1>1
        <4>2. QED
          BY <1>w, <2>1, <4>1
      <3>2. off[n + 1] = off[n] + Bytes[w.cell]
        BY <1>4, <3>1 DEF OrderInv, OffsetsOf
      <3>3. off[n] \in Nat /\ BBase[h - 1] \in Nat
        <4>1. n \in 1 .. Len(bsent) + 1
          BY <1>2, <1>4, <3>1
        <4>2. off[n] \in Nat
          BY <1>2, <4>1, OffsetType DEF OrderInv
        <4>3. QED
          BY <1>2, <4>2, BaseAssumption
      <3>4. rbpos'[h - 1] = rbpos[h - 1] + Bytes[w.cell]
        BY <1>2, <1>5
      <3>5. QED
        BY <1>1, <1>4, <3>1, <3>2, <3>3, <3>4
    <2>2. \A g \in Hop : g # h - 1 => rbpos'[g] = rbpos[g]
      BY <1>2, <1>5
    <2>3. QED
      BY <1>3, <2>1, <2>2
  <1>6. CASE h = 1 /\ Teardown(w) /\ EndReader(h) /\ rbpos' = rbpos
    <2>1. ~(\A i \in 1 .. brd'[h] : ~Teardown(bwd[h][i]))
      BY <1>w, <1>1, <1>3, <1>6
    <2>2. \A g \in Hop : g # h - 1 => rbpos'[g] = rbpos[g]
      BY <1>6
    <2>3. QED
      BY <1>1, <1>3, <1>6, <2>1, <2>2, EndReaderOrder
  <1>7. CASE /\ rbpos' = [rbpos EXCEPT ![h - 1] = @ + Bytes[w.cell]]
             /\ EndReader(h)
    BY <1>1, <1>3, <1>5, <1>7, EndReaderOrder
  <1>8. CASE /\ rbpos' = [rbpos EXCEPT ![h - 1] = @ + Bytes[w.cell]]
             /\ WriteBackward(h - 1, v)
             /\ UNCHANGED <<shut, bread>>
    <2>1. v \in WireCell /\ v.cell = w.cell
      <3>1. rbpos[h - 1] \in Nat
        BY <1>2
      <3>2. QED
        BY <1>v, <1>1, <1>2, <3>1, CryptProperties
    <2>2. /\ ~shut[h - 1]
          /\ Len(bwd[h - 1]) <= brd[h]
          /\ up[h - 1] => Len(bwd[h - 1]) = brd[h]
          /\ \A i \in 1 .. Len(bwd[h - 1]) :
                Teardown(bwd[h - 1][i]) => Teardown(bwd[h][i])
      BY <1>1 DEF OrderInv, RelayLogs
    <2>3. ASSUME up[h - 1], ~Teardown(v)
          PROVE  /\ SealedCell(bsent, off, h - 1, Len(bwd[h - 1]) + 1, v)
                 /\ \A k \in 1 .. Len(bwd[h - 1]) : ~Teardown(bwd[h - 1][k])
      <3>1. ~Teardown(w) /\ Len(bwd[h - 1]) + 1 = n
        BY <1>n, <2>1, <2>2, <2>3 DEF Teardown
      <3>2. SealedCell(bsent, off, h - 1, n, v)
        BY <1>v, <1>1, <1>4, <3>1, RelayAddsLayer DEF OrderInv
      <3>3. \A k \in 1 .. Len(bwd[h - 1]) : k \in 1 .. n
        BY <1>1, <1>2, <3>1
      <3>4. QED
        BY <1>4, <2>2, <3>1, <3>2, <3>3
    <2>4. /\ Len(bwd'[h - 1]) = IF up[h - 1] THEN Len(bwd[h - 1]) + 1
                               ELSE Len(bwd[h - 1])
          /\ \A i \in 1 .. Len(bwd[h - 1]) : bwd'[h - 1][i] = bwd[h - 1][i]
          /\ up[h - 1] => bwd'[h - 1][Len(bwd[h - 1]) + 1] = v
      BY <1>2, <1>8, <2>1, <2>2, WriteBackwardLog
    <2>5. /\ Len(bwd'[h - 1]) <= brd'[h]
          /\ up[h - 1] => Len(bwd'[h - 1]) = brd'[h]
      BY <1>n, <1>1, <1>2, <1>3, <2>2, <2>4
    <2>6. ASSUME NEW i \in 1 .. Len(bwd'[h - 1]), Teardown(bwd'[h - 1][i])
          PROVE  Teardown(bwd[h][i])
      <3>1. CASE i \in 1 .. Len(bwd[h - 1])
        BY <2>2, <2>4, <2>6, <3>1
      <3>2. CASE i \notin 1 .. Len(bwd[h - 1])
        <4>1. up[h - 1] /\ i = n /\ bwd'[h - 1][i] = v
          BY <1>n, <1>2, <2>2, <2>4, <3>2
        <4>2. QED
          BY <1>w, <2>1, <2>6, <4>1 DEF Teardown
      <3>3. QED
        BY <3>1, <3>2
    <2>7. ~shut'[h - 1]
      BY <1>8, <2>2
    <2>8. /\ \A g \in Hop : g # h => brd'[g] = brd[g] /\ bread'[g] = bread[g]
          /\ \A g \in Hop : g # h - 1 => rbpos'[g] = rbpos[g] /\ shut'[g] = shut[g]
      BY <1>3, <1>5, <1>8
    <2>9. (\A i \in 1 .. brd'[h] : ~Teardown(bwd[h][i]))
              => rbpos'[h - 1] = BBase[h - 1] + off[brd'[h] + 1]
      BY <1>5, <1>8
    <2>10. WriteBackward(h - 1, v) /\ brd'[h] <= Len(bwd[h])
      BY <1>3, <1>8
    <2>11. QED
      BY <1>1, <2>1, <2>3, <2>5, <2>6, <2>7, <2>8, <2>9, <2>10, RelayKeepsOrder
  <1>9. \/ h = 1 /\ Teardown(w) /\ EndReader(h) /\ rbpos' = rbpos
        \/ /\ rbpos' = [rbpos EXCEPT ![h - 1] = @ + Bytes[w.cell]]
           /\ \/ WriteBackward(h - 1, v) /\ UNCHANGED <<shut, bread>>
              \/ EndReader(h)
    BY <1>n, <1>w, <1>v DEF RelayBackward
  <1>10. QED
    BY <1>6, <1>7, <1>8, <1>9

\* The nexthop reader that sees its link end keeps the order.
LEMMA BackwardEofOrder ==
    ASSUME TypeInv, NEW off, OrderInv(off), NEW h \in Hop, BackwardEof(h)
    PROVE  OrderInv(off)'
  <1>1. /\ h # 0 /\ EndReader(h)
        /\ UNCHANGED <<up, xpc, reply, bsent, rbpos, brd, cbpos, cbdig, cacc>>
    BY DEF BackwardEof, handler
  <1>2. /\ brd[h] <= Len(bwd[h])
        /\ (\A i \in 1 .. brd[h] : ~Teardown(bwd[h][i]))
               => rbpos[h - 1] = BBase[h - 1] + off[brd[h] + 1]
    BY <1>1 DEF OrderInv, RelayCiphers
  <1>3. QED
    BY <1>1, <1>2, EndReaderOrder

\* All layers come off at the client, and the digest of all the cells up to
\* this one is the tag that the exit gave it.
LEMMA ClientVerifies ==
    ASSUME TypeInv, NEW off, OrderInv(off), BackwardReadable(0),
           NEW n, n = brd[0] + 1,
           NEW w, w = bwd[0][n], ~Teardown(w),
           NEW v, v = OnionCrypt(w, cbpos)
    PROVE  /\ n \in 1 .. Len(bsent)
           /\ v.cell = bsent[n]
           /\ w.cell = bsent[n]
           /\ Plaintext(v) = bsent[n]
           /\ Verifies(cbdig, v)
  <1>1. /\ n \in 1 .. Len(bwd[0]) /\ w \in WireCell /\ bread[0]
        /\ bsent \in Seq(Cell) /\ Len(bsent) \in Nat
        /\ brd[0] \in Nat
    BY ExitIsHop, NextBackwardCell, BackwardLengths DEF BackwardReadable
  <1>2. SealedCell(bsent, off, 0, n, w)
    BY <1>1, ExitIsHop DEF OrderInv, InOrder
  <1>3. /\ n \in 1 .. Len(bsent) /\ w.cell = bsent[n]
        /\ Len(w.tag) = n /\ \A k \in 1 .. n : w.tag[k] = bsent[k]
        /\ w.tag \in Seq(Cell)
    BY <1>1, <1>2 DEF SealedCell, WireCell
  <1>4. /\ bsent[n] \in Cell /\ Bytes[bsent[n]] \in Nat
    BY <1>1, <1>3, OffsetType DEF OrderInv
  <1>5. cbpos \in [Hop -> Nat]
    BY DEF TypeInv, TypeOK
  <1>6. /\ v \in WireCell /\ v.cell = w.cell /\ v.tag = w.tag
        /\ \A j \in Hop : v.layers[j] =
              IF Bytes[w.cell] # 0 THEN Toggle(w.layers[j], cbpos[j])
              ELSE w.layers[j]
    BY <1>1, <1>5, OnionCryptProperties
  <1>7. ASSUME NEW j \in Hop PROVE v.layers[j] = {}
    <2>1. w.layers[j] = IF Bytes[bsent[n]] > 0 THEN {BBase[j] + off[n]} ELSE {}
      <3>1. j >= 0
        BY DEF Hop
      <3>2. QED
        BY <1>2, <3>1 DEF SealedCell
    <2>2. cbpos[j] = BBase[j] + off[n]
      BY <1>1 DEF OrderInv, ClientAccepted
    <2>3. CASE Bytes[bsent[n]] = 0
      BY <1>3, <1>6, <2>1, <2>3
    <2>4. CASE Bytes[bsent[n]] > 0
      <3>1. w.layers[j] = {cbpos[j]}
        BY <2>1, <2>2, <2>4
      <3>2. v.layers[j] = Toggle(w.layers[j], cbpos[j])
        BY <1>3, <1>6, <2>4
      <3>3. QED
        BY <3>1, <3>2 DEF Toggle
    <2>5. QED
      BY <1>4, <2>3, <2>4
  <1>8. Plaintext(v) = bsent[n]
    BY <1>3, <1>6, <1>7 DEF Plaintext
  <1>9. Verifies(cbdig, v)
    <2>1. /\ cbdig = cacc /\ Len(cacc) = brd[0] /\ cacc \in Seq(Cell)
          /\ \A k \in 1 .. Len(cacc) : cacc[k] = bsent[k]
      BY <1>1 DEF OrderInv, ClientAccepted, TypeInv, TypeOK
    <2>2. /\ Append(cacc, bsent[n]) \in Seq(Cell)
          /\ Len(Append(cacc, bsent[n])) = n
          /\ \A k \in 1 .. Len(cacc) : Append(cacc, bsent[n])[k] = cacc[k]
          /\ Append(cacc, bsent[n])[n] = bsent[n]
      BY <1>4, <2>1, AppendProperties
    <2>3. \A k \in 1 .. n : Append(cacc, bsent[n])[k] = w.tag[k]
      BY <1>1, <1>3, <2>1, <2>2
    <2>4. Append(cacc, bsent[n]) = w.tag
      BY <1>3, <2>2, <2>3, SeqEqual
    <2>5. QED
      BY <1>6, <1>8, <2>1, <2>4 DEF Verifies, Hashed
  <1>10. QED
    BY <1>3, <1>6, <1>8, <1>9

\* spawn_circuit_reader keeps the order: what it verifies, it accepts.
LEMMA ClientReceiveOrder ==
    ASSUME TypeInv, NEW off, OrderInv(off), ClientReceive
    PROVE  OrderInv(off)'
  <1>n. PICK n : n = brd[0] + 1
    OBVIOUS
  <1>w. PICK w : w = bwd[0][n]
    OBVIOUS
  <1>v. PICK v : v = OnionCrypt(w, cbpos)
    OBVIOUS
  <1>1. /\ BackwardReadable(0) /\ bread[0]
        /\ n \in 1 .. Len(bwd[0]) /\ brd[0] \in Nat
        /\ brd' = [brd EXCEPT ![0] = @ + 1]
        /\ UNCHANGED <<up, shut, xpc, reply, bsent, rbpos, bwd>>
    BY <1>n, ExitIsHop, NextBackwardCell
       DEF ClientReceive, BackwardReadable, links, handler
  <1>2. brd \in [Hop -> Nat] /\ bread \in [Hop -> BOOLEAN]
    BY DEF TypeInv, TypeOK
  <1>3. /\ brd'[0] = n /\ \A g \in Hop : g # 0 => brd'[g] = brd[g]
        /\ n <= Len(bwd[0])
    BY <1>n, <1>1, <1>2, ExitIsHop
  <1>4. \/ Teardown(w) /\ ~bread'[0] /\ UNCHANGED <<cbpos, cbdig, cacc>>
        \/ /\ ~Teardown(w)
           /\ cbpos' = Advance(cbpos, w)
           /\ cbdig' = Hashed(cbdig, v)
           /\ Verifies(cbdig, v) => cacc' = Append(cacc, v.cell) /\ bread' = bread
    BY <1>n, <1>w, <1>v, <1>2, ExitIsHop DEF ClientReceive
  <1>5. \A g \in Hop : g # 0 => bread'[g] = bread[g]
    BY <1>2 DEF ClientReceive
  <1>6. OffsetsOf(bsent', off) /\ InOrder(off)' /\ ExitLog(off)'
    BY <1>1 DEF OrderInv, InOrder, ExitLog, Written, Teardown
  <1>7. RelayLogs'
    BY <1>1, <1>3, <1>5 DEF OrderInv, RelayLogs, Teardown
  <1>8. RelayCiphers(off)'
    BY <1>1, <1>3 DEF OrderInv, RelayCiphers, Teardown
  <1>9. ClientAccepted(off)'
    <2>1. CASE Teardown(w)
      BY <1>4, <2>1 DEF OrderInv, ClientAccepted
    <2>2. CASE ~Teardown(w)
      <3>1. /\ n \in 1 .. Len(bsent) /\ v.cell = bsent[n] /\ w.cell = bsent[n]
            /\ Plaintext(v) = bsent[n] /\ Verifies(cbdig, v)
        BY <1>n, <1>w, <1>v, <1>1, <2>2, ClientVerifies
      <3>2. /\ cbdig = cacc /\ cacc \in Seq(Cell) /\ Len(cacc) = brd[0]
            /\ \A i \in 1 .. brd[0] : cacc[i] = bsent[i] /\ ~Teardown(bwd[0][i])
            /\ \A j \in Hop : cbpos[j] = BBase[j] + off[n]
        BY <1>n, <1>1 DEF OrderInv, ClientAccepted, TypeInv, TypeOK
      <3>3. /\ bsent \in Seq(Cell) /\ bsent[n] \in Cell
            /\ Bytes[bsent[n]] \in Nat /\ Len(bsent) \in Nat
            /\ off[n + 1] = off[n] + Bytes[bsent[n]]
        <4>1. bsent \in Seq(Cell)
          BY BackwardLengths
        <4>2. QED
          BY <3>1, <4>1, OffsetType DEF OrderInv, OffsetsOf
      <3>4. off[n] \in Nat /\ \A j \in Hop : BBase[j] \in Nat
        <4>1. n \in 1 .. Len(bsent) + 1
          BY <3>1, <3>3
        <4>2. QED
          BY <3>3, <4>1, OffsetType, BaseAssumption DEF OrderInv
      <3>5. \A j \in Hop : cbpos'[j] = BBase[j] + off[n + 1]
        <4>1. \A j \in Hop : cbpos'[j] = cbpos[j] + Bytes[bsent[n]]
          BY <1>4, <2>2, <3>1 DEF Advance
        <4>2. QED
          BY <3>2, <3>3, <3>4, <4>1
      <3>6. /\ cacc' = Append(cacc, bsent[n]) /\ cbdig' = cacc'
        BY <1>4, <2>2, <3>1, <3>2 DEF Hashed
      <3>7. /\ Len(cacc') = n /\ cacc'[n] = bsent[n]
            /\ \A i \in 1 .. brd[0] : cacc'[i] = cacc[i]
        BY <1>n, <3>2, <3>3, <3>6, AppendProperties
      <3>8. \A i \in 1 .. n : cacc'[i] = bsent[i] /\ ~Teardown(bwd[0][i])
        <4>1. \A i \in 1 .. n : i \in 1 .. brd[0] \/ i = n
          BY <1>n, <1>1
        <4>2. QED
          BY <1>w, <2>2, <3>2, <3>7, <4>1
      <3>9. QED
        BY <1>1, <1>3, <3>5, <3>6, <3>7, <3>8 DEF ClientAccepted, Teardown
    <2>3. QED
      BY <2>1, <2>2
  <1>10. QED
    BY <1>6, <1>7, <1>8, <1>9 DEF OrderInv

\* Nothing is written while a reply waits, unless it is overtaken.
OrderedInv == ~overtaken => \E off : OrderInv(off)

\* Initially all ciphers stand where the handshake left them.
LEMMA InitOrderedInv == Init => OrderedInv
  <1> SUFFICES ASSUME Init PROVE \E off : OrderInv(off)
    BY DEF OrderedInv
  <1>1. PICK off : off = <<0>>
    OBVIOUS
  <1>2. /\ bsent = <<>> /\ Len(bsent) = 0
        /\ \A h \in Hop : /\ bwd[h] = <<>> /\ Len(bwd[h]) = 0 /\ brd[h] = 0
                          /\ rbpos[h] = BBase[h] /\ cbpos[h] = BBase[h]
                          /\ ~shut[h]
        /\ cacc = <<>> /\ cbdig = <<>> /\ Len(cacc) = 0 /\ xpc = "read"
    BY DEF Init
  <1>3. /\ off \in Seq(Nat) /\ Len(off) = 1 /\ off[1] = 0
    BY <1>1
  <1>4. \A h \in Hop : BBase[h] \in Nat /\ BBase[h] = BBase[h] + off[1]
    BY <1>3, BaseAssumption
  <1>5. \A h \in Hop \ {0} : h - 1 \in Hop
    BY HopsAssumption DEF Hop
  <1>6. OffsetsOf(bsent, off)
    BY <1>2, <1>3 DEF OffsetsOf
  <1>7. InOrder(off) /\ ExitLog(off)
    BY <1>2, <1>4, ExitIsHop DEF InOrder, ExitLog, Written
  <1>8. RelayLogs
    BY <1>2, <1>5 DEF RelayLogs
  <1>9. RelayCiphers(off)
    BY <1>2, <1>4, <1>5 DEF RelayCiphers
  <1>10. ClientAccepted(off)
    BY <1>2, <1>4, ExitIsHop DEF ClientAccepted
  <1>11. QED
    BY <1>6, <1>7, <1>8, <1>9, <1>10 DEF OrderInv

\* Every step keeps the order, or lets a cell overtake the reply.
LEMMA NextOrderedInv ==
    TypeInv /\ OrderedInv /\ [Next]_vars => OrderedInv'
  <1> SUFFICES ASSUME TypeInv, OrderedInv, [Next]_vars, ~overtaken'
               PROVE  \E off : OrderInv(off)'
    BY DEF OrderedInv
  <1>1. ~overtaken
    BY DEF Next, Relays, ExitLoop, ExitSeals, ClientReader, ClientSend,
           RelayForward, ForwardEof, ExitReceive, ExitNoReply, ExitWriteReply,
           ExitSend, ExitConnected, ExitSealReply, RelayBackward, BackwardEof,
           ClientReceive, ClientEof, Break, vars, backward
  <1>2. PICK off : OrderInv(off)
    BY <1>1 DEF OrderedInv
  <1>3. ASSUME NEW c \in Cell, ExitSend(c) PROVE \E off2 : OrderInv(off2)'
    <2>1. /\ ExitAdvance(c) /\ WriteBackward(Exit, ExitSeal(c))
          /\ reply = None /\ xpc' = xpc
          /\ UNCHANGED <<up, shut, brd, bread, cbpos, cbdig, cacc>>
      BY <1>3 DEF ExitSend, links, handler
    <2>2. xpc # "write"
      BY <2>1, NoneAssumption DEF TypeInv
    <2>3. QED
      BY <1>2, <2>1, <2>2, ExitWritesInOrder
  <1>4. ASSUME NEW c \in Cell, ExitConnected(c) PROVE \E off2 : OrderInv(off2)'
    <2>1. /\ ExitAdvance(c) /\ WriteBackward(Exit, ExitSeal(c))
          /\ xpc # "write" /\ xpc' # "write"
          /\ UNCHANGED <<up, shut, brd, bread, cbpos, cbdig, cacc>>
      BY <1>4 DEF ExitConnected, links
    <2>2. QED
      BY <1>2, <2>1, ExitWritesInOrder
  <1>5. ASSUME NEW c \in Cell, ExitSealReply(c) PROVE \E off2 : OrderInv(off2)'
    BY <1>2, <1>5, ExitSealReplyOrder
  <1>6. ASSUME ExitWriteReply PROVE OrderInv(off)'
    BY <1>2, <1>6, ExitWriteReplyOrder
  <1>7. ASSUME NEW h \in Hop, RelayBackward(h) PROVE OrderInv(off)'
    BY <1>2, <1>7, RelayBackwardOrder
  <1>8. ASSUME NEW h \in Hop, BackwardEof(h) PROVE OrderInv(off)'
    BY <1>2, <1>8, BackwardEofOrder
  <1>9. ASSUME ClientReceive PROVE OrderInv(off)'
    BY <1>2, <1>9, ClientReceiveOrder
  <1>10. ASSUME UNCHANGED <<shut, reply, bsent, rbpos, bwd, brd, cbpos, cbdig, cacc>>,
                \A h \in Hop : up'[h] => up[h],
                \A h \in Hop : bread'[h] => bread[h],
                xpc' = "write" <=> xpc = "write"
         PROVE  OrderInv(off)'
    <2>1. OffsetsOf(bsent', off) /\ InOrder(off)'
      BY <1>2, <1>10 DEF OrderInv, InOrder, Teardown
    <2>2. ExitLog(off)'
      BY <1>2, <1>10, ExitIsHop DEF OrderInv, ExitLog, Written, Teardown
    <2>3. \A h \in Hop \ {0} : h - 1 \in Hop
      BY HopsAssumption DEF Hop
    <2>4. RelayLogs' /\ RelayCiphers(off)'
      BY <1>2, <1>10, <2>3 DEF OrderInv, RelayLogs, RelayCiphers, Teardown
    <2>5. ClientAccepted(off)'
      BY <1>2, <1>10, ExitIsHop DEF OrderInv, ClientAccepted, Teardown
    <2>6. QED
      BY <2>1, <2>2, <2>4, <2>5 DEF OrderInv
  <1>11. ASSUME \/ \E c \in Cell : ClientSend(c)
                \/ \E h \in Hop : RelayForward(h) \/ ForwardEof(h)
                \/ ExitReceive \/ ExitNoReply \/ ClientEof
                \/ \E h \in Hop : Break(h)
                \/ UNCHANGED vars
         PROVE  OrderInv(off)'
    <2>1. UNCHANGED <<shut, reply, bsent, rbpos, bwd, brd, cbpos, cbdig, cacc>>
      BY <1>11 DEF ClientSend, RelayForward, ForwardEof, ExitReceive,
                   ExitNoReply, ClientEof, Break, vars, links, handler, backward
    <2>2. xpc' = "write" <=> xpc = "write"
      BY <1>11 DEF ClientSend, RelayForward, ForwardEof, ExitReceive,
                   ExitNoReply, ClientEof, Break, vars, handler
    <2>3. \A h \in Hop : up'[h] => up[h]
      BY <1>11 DEF ClientSend, RelayForward, ForwardEof, ExitReceive,
                   ExitNoReply, ClientEof, Break, vars, links, TypeInv, TypeOK
    <2>4. \A h \in Hop : bread'[h] => bread[h]
      BY <1>11 DEF ClientSend, RelayForward, ForwardEof, ExitReceive,
                   ExitNoReply, ClientEof, Break, vars, backward, TypeInv, TypeOK
    <2>5. QED
      BY <1>10, <2>1, <2>2, <2>3, <2>4
  <1>12. QED
    BY <1>3, <1>4, <1>5, <1>6, <1>7, <1>8, <1>9, <1>11
       DEF Next, Relays, ExitLoop, ExitSeals, ClientReader

\* The client's digest mismatches, and it tears the circuit down, only after
\* a stream task at the exit wrote while a reply sealed before was waiting.
THEOREM MismatchOnlyByOvertakingHolds == Spec => []MismatchOnlyByOvertaking
  <1>1. Spec => []TypeInv
    BY InitTypeInv, NextTypeInv, PTL DEF Spec
  <1>2. Spec => []OrderedInv
    BY <1>1, InitOrderedInv, NextOrderedInv, PTL DEF Spec
  <1>3. OrderedInv => MismatchOnlyByOvertaking
    BY DEF OrderedInv, OrderInv, ClientAccepted, MismatchOnlyByOvertaking
  <1>4. QED
    BY <1>2, <1>3, PTL

-----------------------------------------------------------------------------
(* At rest: the safety core of the liveness properties.                    *)

\* Every reader is in step with the log that it writes, or has ended by
\* shutting it; every loop towards the exit runs until some link breaks.
ReadersInv ==
    /\ \A h \in Hop : brd[h] <= Len(bwd[h])
    /\ \A h \in Hop \ {0} :
          /\ ~bread[h] => shut[h - 1]
          /\ bread[h] /\ up[h - 1] => Len(bwd[h - 1]) = brd[h]
          /\ bread[h] => ~shut[h - 1]
    /\ ~shut[Exit]
    /\ up[Exit] => Len(bwd[Exit]) = Written
    /\ bread[0] => Len(cacc) = brd[0]
    /\ (\E h \in Hop : ~floop[h]) => \E h \in Hop : ~up[h]

\* No relay, no exit loop and no reader can take a step: no cell waits, no
\* reader has the end of its link before it and the exit's loop is reading.
AtRest ==
    /\ xpc = "read"
    /\ \A h \in Hop : ~ForwardReadable(h) /\ ~BackwardReadable(h)
    /\ \A h \in Hop : bread[h] => up[h] /\ ~shut[h]

\* At rest nothing is missing in either direction: either the client has
\* closed the circuit, or all links are up, the exit has acted on all that
\* the client sent and the client's streams were handed all that it sealed.
NothingMissingAtRest ==
    AtRest /\ bread[0] =>
        /\ \A h \in Hop : up[h]
        /\ facc = fsent
        /\ cacc = bsent

\* Initially every log is empty and every loop runs.
LEMMA InitReadersInv == Init => ReadersInv
  <1> SUFFICES ASSUME Init PROVE ReadersInv
    OBVIOUS
  <1>1. \A h \in Hop : /\ Len(bwd[h]) = 0 /\ brd[h] = 0
                      /\ bread[h] /\ floop[h] /\ ~shut[h]
    BY DEF Init
  <1>2. Len(bsent) = 0 /\ Len(cacc) = 0 /\ xpc = "read"
    BY DEF Init
  <1>3. \A h \in Hop \ {0} : h - 1 \in Hop
    BY HopsAssumption DEF Hop
  <1>4. QED
    BY <1>1, <1>2, <1>3, ExitIsHop DEF ReadersInv, Written

\* What the exit writes lengthens its own link only.
LEMMA ExitWritesReadersInv ==
    ASSUME TypeInv, ReadersInv, NEW w \in WireCell, WriteBackward(Exit, w),
           Written' = Written + 1,
           \A h \in Hop : floop'[h] \/ floop'[h] = floop[h] \/ ~up[Exit],
           UNCHANGED <<up, shut, brd, bread, cacc>>
    PROVE  ReadersInv'
  <1>1. /\ \A g \in Hop : Len(bwd'[g]) =
               IF g = Exit /\ up[Exit] /\ ~shut[Exit] THEN Len(bwd[g]) + 1
               ELSE Len(bwd[g])
        /\ \A g \in Hop : Len(bwd[g]) \in Nat /\ brd[g] \in Nat
        /\ Len(bsent) \in Nat
    BY ExitIsHop, WriteBackwardLog, BackwardLengths
  <1>2. \A h \in Hop \ {0} : h - 1 \in Hop /\ h - 1 # Exit
    BY HopsAssumption DEF Hop, Exit
  <1>3. \A h \in Hop : brd[h] <= Len(bwd'[h])
    BY <1>1 DEF ReadersInv
  <1>4. \A h \in Hop \ {0} : Len(bwd'[h - 1]) = Len(bwd[h - 1])
    BY <1>1, <1>2
  <1>5. up[Exit] => Len(bwd'[Exit]) = Written'
    BY <1>1, ExitIsHop DEF ReadersInv
  <1>6. (\E h \in Hop : ~floop'[h]) => \E h \in Hop : ~up[h]
    BY ExitIsHop DEF ReadersInv
  <1>7. QED
    BY <1>3, <1>4, <1>5, <1>6 DEF ReadersInv

\* The end of a nexthop reader shuts the link that it wrote.
LEMMA EndReaderReadersInv ==
    ASSUME TypeInv, ReadersInv, NEW h \in Hop, h # 0, EndReader(h),
           brd'[h] <= Len(bwd[h]),
           \A g \in Hop : g # h => brd'[g] = brd[g],
           UNCHANGED <<up, xpc, bsent, cacc, floop>>
    PROVE  ReadersInv'
  <1>1. /\ h - 1 \in Hop /\ h - 1 # Exit /\ h - 1 # h
        /\ \A g \in Hop \ {0} : g - 1 \in Hop /\ (g # h => g - 1 # h - 1)
    BY HopsAssumption DEF Hop, Exit
  <1>2. PICK w \in WireCell : w = Destroy
    BY EmptySeq, WireProperties DEF Destroy
  <1>3. /\ \A g \in Hop : Len(bwd'[g]) =
               IF g = h - 1 /\ up[h - 1] /\ ~shut[h - 1] THEN Len(bwd[g]) + 1
               ELSE Len(bwd[g])
        /\ \A g \in Hop : Len(bwd[g]) \in Nat /\ brd[g] \in Nat
    BY <1>1, <1>2, WriteBackwardLog, BackwardLengths DEF EndReader
  <1>4. /\ \A g \in Hop : bread'[g] <=> bread[g] /\ g # h
        /\ \A g \in Hop : shut'[g] <=> shut[g] \/ g = h - 1
    BY <1>1 DEF EndReader, TypeInv, TypeOK
  <1>5. ASSUME NEW g \in Hop PROVE brd'[g] <= Len(bwd'[g])
    <2>1. Len(bwd[g]) <= Len(bwd'[g]) /\ Len(bwd'[g]) \in Nat
      BY <1>3
    <2>2. CASE g = h
      BY <1>1, <1>3, <2>2
    <2>3. CASE g # h
      BY <1>3, <2>1, <2>3 DEF ReadersInv
    <2>4. QED
      BY <2>2, <2>3
  <1>6. ASSUME NEW g \in Hop \ {0}
        PROVE  /\ ~bread'[g] => shut'[g - 1]
               /\ bread'[g] /\ up[g - 1] => Len(bwd'[g - 1]) = brd'[g]
               /\ bread'[g] => ~shut'[g - 1]
    <2>1. CASE g = h
      BY <1>1, <1>4, <2>1
    <2>2. CASE g # h
      <3>1. g - 1 \in Hop /\ g - 1 # h - 1
        BY <1>1, <2>2
      <3>2. Len(bwd'[g - 1]) = Len(bwd[g - 1]) /\ brd'[g] = brd[g]
        BY <1>3, <2>2, <3>1
      <3>3. QED
        BY <1>4, <2>2, <3>1, <3>2 DEF ReadersInv
    <2>3. QED
      BY <2>1, <2>2
  <1>7. /\ ~shut'[Exit] /\ Len(bwd'[Exit]) = Len(bwd[Exit])
        /\ bread'[0] = bread[0] /\ brd'[0] = brd[0]
    BY <1>1, <1>3, <1>4, ExitIsHop DEF ReadersInv, EndReader, TypeInv, TypeOK
  <1>8. QED
    BY <1>5, <1>6, <1>7 DEF ReadersInv, Written

\* A relay that passes a cell on stays in step with its log.
LEMMA RelayBackwardReadersInv ==
    ASSUME TypeInv, ReadersInv, NEW h \in Hop, RelayBackward(h)
    PROVE  ReadersInv'
  <1>w. PICK w : w = bwd[h][brd[h] + 1]
    OBVIOUS
  <1>v. PICK v : v = Crypt(w, h - 1, rbpos[h - 1])
    OBVIOUS
  <1>1. /\ h # 0 /\ bread[h]
        /\ brd[h] \in Nat /\ brd[h] + 1 \in 1 .. Len(bwd[h])
        /\ w \in WireCell
        /\ brd' = [brd EXCEPT ![h] = @ + 1]
        /\ UNCHANGED <<up, xpc, bsent, cacc, floop>>
    BY <1>w, NextBackwardCell
       DEF RelayBackward, BackwardReadable, forward, handler
  <1>2. /\ h - 1 \in Hop /\ h - 1 # Exit /\ h - 1 # h
        /\ \A g \in Hop \ {0} : g - 1 \in Hop /\ (g # h => g - 1 # h - 1)
    BY <1>1, HopsAssumption DEF Hop, Exit
  <1>3. /\ brd'[h] = brd[h] + 1 /\ brd'[h] <= Len(bwd[h])
        /\ \A g \in Hop : g # h => brd'[g] = brd[g]
    BY <1>1 DEF TypeInv, TypeOK
  <1>4. CASE EndReader(h)
    BY <1>1, <1>3, <1>4, EndReaderReadersInv
  <1>5. CASE WriteBackward(h - 1, v) /\ UNCHANGED <<shut, bread>>
    <2>1. v \in WireCell
      <3>1. rbpos[h - 1] \in Nat
        BY <1>2 DEF TypeInv, TypeOK
      <3>2. QED
        BY <1>v, <1>1, <1>2, <3>1, CryptProperties
    <2>2. /\ \A g \in Hop : Len(bwd'[g]) =
                 IF g = h - 1 /\ up[h - 1] /\ ~shut[h - 1] THEN Len(bwd[g]) + 1
                 ELSE Len(bwd[g])
          /\ \A g \in Hop : Len(bwd[g]) \in Nat /\ brd[g] \in Nat
      BY <1>2, <1>5, <2>1, WriteBackwardLog, BackwardLengths
    <2>3. ASSUME NEW g \in Hop PROVE brd'[g] <= Len(bwd'[g])
      <3>1. Len(bwd[g]) <= Len(bwd'[g]) /\ Len(bwd'[g]) \in Nat
        BY <2>2
      <3>2. CASE g = h
        BY <1>2, <1>3, <2>2, <3>2
      <3>3. CASE g # h
        BY <1>3, <2>2, <3>1, <3>3 DEF ReadersInv
      <3>4. QED
        BY <3>2, <3>3
    <2>4. ASSUME NEW g \in Hop \ {0}, bread[g], up[g - 1]
          PROVE  Len(bwd'[g - 1]) = brd'[g]
      <3>1. Len(bwd[g - 1]) = brd[g] /\ ~shut[g - 1] /\ g - 1 \in Hop
        BY <1>2, <2>4 DEF ReadersInv
      <3>2. CASE g = h
        BY <1>2, <1>3, <2>2, <2>4, <3>1, <3>2
      <3>3. CASE g # h
        BY <1>2, <1>3, <2>2, <3>1, <3>3
      <3>4. QED
        BY <3>2, <3>3
    <2>5. Len(bwd'[Exit]) = Len(bwd[Exit]) /\ brd'[0] = brd[0]
      BY <1>1, <1>2, <1>3, <2>2, ExitIsHop
    <2>6. QED
      BY <1>1, <1>5, <2>3, <2>4, <2>5 DEF ReadersInv, Written
  <1>6. EndReader(h) \/ (WriteBackward(h - 1, v) /\ UNCHANGED <<shut, bread>>)
    BY <1>w, <1>v DEF RelayBackward
  <1>7. QED
    BY <1>4, <1>5, <1>6

\* Every step keeps the readers in step with the logs.
LEMMA NextReadersInv ==
    TypeInv /\ ForwardInv /\ ReadersInv /\ [Next]_vars => ReadersInv'
  <1> SUFFICES ASSUME TypeInv, ForwardInv, ReadersInv, [Next]_vars
               PROVE  ReadersInv'
    OBVIOUS
  <1>1. ASSUME UNCHANGED <<shut, bsent, bwd>>,
               \A h \in Hop : up'[h] => up[h],
               \A h \in Hop \ {0} : brd'[h] = brd[h] /\ bread'[h] = bread[h],
               brd'[0] <= Len(bwd[0]),
               bread'[0] => Len(cacc') = brd'[0],
               Written' = Written,
               (\E h \in Hop : ~floop'[h])
                   => (\E h \in Hop : ~floop[h]) \/ \E h \in Hop : ~up'[h],
               (\E h \in Hop : ~up[h]) => \E h \in Hop : ~up'[h]
        PROVE  ReadersInv'
    <2>1. \A h \in Hop \ {0} : h - 1 \in Hop
      BY HopsAssumption DEF Hop
    <2>2. (\E h \in Hop : ~floop'[h]) => \E h \in Hop : ~up'[h]
      BY <1>1 DEF ReadersInv
    <2>3. \A h \in Hop : brd'[h] <= Len(bwd[h])
      BY <1>1 DEF ReadersInv
    <2>4. QED
      BY <1>1, <2>1, <2>2, <2>3, ExitIsHop DEF ReadersInv
  <1>2. ASSUME NEW c \in Cell, ExitSend(c) \/ ExitConnected(c) PROVE ReadersInv'
    <2>1. /\ ExitAdvance(c) /\ WriteBackward(Exit, ExitSeal(c))
          /\ UNCHANGED <<up, shut, brd, bread, cacc>>
          /\ xpc' = "write" <=> xpc = "write"
      BY <1>2 DEF ExitSend, ExitConnected, links, handler
    <2>2. /\ ExitSeal(c) \in WireCell
          /\ bsent' = Append(bsent, c) /\ bsent \in Seq(Cell)
      BY <2>1, ExitSealProperties, BackwardLengths
    <2>3. Len(bsent') = Len(bsent) + 1 /\ Len(bsent) \in Nat
      BY <2>2, AppendProperties, LenProperties
    <2>4. Written' = Written + 1
      BY <2>1, <2>3 DEF Written
    <2>5. \A h \in Hop : floop'[h] \/ floop'[h] = floop[h] \/ ~up[Exit]
      BY <1>2 DEF ExitSend, ExitConnected, forward
    <2>6. PICK w \in WireCell : w = ExitSeal(c)
      BY <2>2
    <2>7. WriteBackward(Exit, w)
      BY <2>1, <2>6
    <2>8. QED
      BY <2>1, <2>4, <2>5, <2>7, ExitWritesReadersInv
  <1>3. ASSUME ExitWriteReply PROVE ReadersInv'
    <2>1. /\ xpc = "write" /\ xpc' = "read" /\ bsent' = bsent
          /\ reply \in WireCell /\ WriteBackward(Exit, reply)
          /\ UNCHANGED <<up, shut, brd, bread, cacc>>
      BY <1>3 DEF ExitWriteReply, TypeInv, links
    <2>2. Written' = Written + 1
      BY <2>1, BackwardLengths DEF Written
    <2>3. \A h \in Hop : floop'[h] \/ floop'[h] = floop[h] \/ ~up[Exit]
      BY <1>3 DEF ExitWriteReply
    <2>4. PICK w \in WireCell : w = reply
      BY <2>1
    <2>5. WriteBackward(Exit, w)
      BY <2>1, <2>4
    <2>6. QED
      BY <2>1, <2>2, <2>3, <2>5, ExitWritesReadersInv
  <1>4. ASSUME NEW h \in Hop, BackwardEof(h) PROVE ReadersInv'
    <2>1. /\ h # 0 /\ EndReader(h)
          /\ UNCHANGED <<up, xpc, bsent, brd, cacc, floop>>
      BY <1>4 DEF BackwardEof, forward, handler
    <2>2. QED
      BY <2>1, EndReaderReadersInv DEF ReadersInv
  <1>5. ASSUME ClientReceive PROVE ReadersInv'
    <2>1. /\ brd[0] \in Nat /\ brd[0] + 1 \in 1 .. Len(bwd[0]) /\ bread[0]
          /\ brd' = [brd EXCEPT ![0] = @ + 1]
          /\ UNCHANGED <<up, shut, xpc, bsent, bwd, floop>>
      BY <1>5, ExitIsHop, NextBackwardCell
         DEF ClientReceive, BackwardReadable, links, forward, handler
    <2>2. /\ brd'[0] = brd[0] + 1 /\ brd'[0] <= Len(bwd[0])
          /\ \A h \in Hop \ {0} : brd'[h] = brd[h]
      BY <2>1, ExitIsHop DEF TypeInv, TypeOK
    <2>3. /\ \A h \in Hop \ {0} : bread'[h] = bread[h]
          /\ \/ ~bread'[0]
             \/ \E x : cacc' = Append(cacc, x)
      BY <1>5, ExitIsHop DEF ClientReceive, TypeInv, TypeOK
    <2>4. bread'[0] => Len(cacc') = brd'[0]
      <3>1. ASSUME NEW x, cacc' = Append(cacc, x) PROVE Len(cacc') = Len(cacc) + 1
        <4>1. cacc \in Seq(Cell \cup {x})
          BY DEF TypeInv, TypeOK
        <4>2. QED
          BY <3>1, <4>1, AppendProperties
      <3>2. QED
        BY <2>1, <2>2, <2>3, <3>1 DEF ReadersInv
    <2>5. QED
      BY <1>1, <2>1, <2>2, <2>3, <2>4 DEF Written
  <1>6. ASSUME ClientEof PROVE ReadersInv'
    <2>1. /\ ~bread'[0] /\ \A h \in Hop \ {0} : bread'[h] = bread[h]
          /\ UNCHANGED <<up, shut, xpc, bsent, bwd, brd, floop>>
      BY <1>6, ExitIsHop
         DEF ClientEof, links, forward, handler, TypeInv, TypeOK
    <2>2. QED
      BY <1>1, <2>1, ExitIsHop DEF Written, ReadersInv
  <1>7. ASSUME NEW c \in Cell, ExitSealReply(c) PROVE ReadersInv'
    <2>1. /\ ExitAdvance(c) /\ xpc = "handle" /\ xpc' = "write"
          /\ UNCHANGED <<up, shut, bwd, brd, bread, cacc, floop>>
      BY <1>7 DEF ExitSealReply, links, forward
    <2>2. Len(bsent') = Len(bsent) + 1 /\ Len(bsent) \in Nat
      BY <2>1, BackwardLengths, AppendProperties DEF ExitAdvance
    <2>3. QED
      BY <2>1, <2>2 DEF ReadersInv, Written
  <1>8. ASSUME ExitReceive PROVE ReadersInv'
    <2>1. PICK v : v = Crypt(fwd[Exit][frd[Exit] + 1], Exit, rfpos[Exit])
      OBVIOUS
    <2>2. Verifies(xfdig, v)
      BY <1>8, <2>1, ExitVerifies DEF ExitReceive
    <2>3. /\ floop' = floop /\ xpc = "read" /\ xpc' = "handle"
          /\ UNCHANGED <<up, shut, bsent, bwd, brd, bread, cacc>>
      BY <1>8, <2>1, <2>2 DEF ExitReceive, links, backward
    <2>4. QED
      BY <1>1, <2>3, ExitIsHop DEF Written, ReadersInv
  <1>9. ASSUME NEW h \in Hop, RelayForward(h) \/ ForwardEof(h) PROVE ReadersInv'
    <2>1. UNCHANGED <<up, shut, xpc, bsent, bwd, brd, bread, cacc>>
      BY <1>9 DEF RelayForward, ForwardEof, links, handler, backward
    <2>2. RelayForward(h) => h + 1 \in Hop
      BY HopsAssumption DEF RelayForward, Hop, Exit
    <2>3. (\E g \in Hop : ~floop'[g])
              => (\E g \in Hop : ~floop[g]) \/ \E g \in Hop : ~up[g]
      BY <1>9, <2>2 DEF RelayForward, ForwardEof
    <2>4. QED
      BY <1>1, <2>1, <2>3, ExitIsHop DEF Written, ReadersInv
  <1>10. ASSUME NEW h \in Hop, Break(h) PROVE ReadersInv'
    <2>1. /\ \A g \in Hop : up'[g] => up[g]
          /\ ~up'[h]
          /\ UNCHANGED <<shut, xpc, bsent, bwd, brd, bread, cacc, floop>>
      BY <1>10 DEF Break, forward, handler, backward, TypeInv, TypeOK
    <2>2. QED
      BY <1>1, <2>1, ExitIsHop DEF Written, ReadersInv
  <1>11. ASSUME \/ \E c \in Cell : ClientSend(c)
                \/ ExitNoReply
                \/ UNCHANGED vars
         PROVE  ReadersInv'
    <2>1. /\ UNCHANGED <<up, shut, bsent, bwd, brd, bread, cacc, floop>>
          /\ xpc' = "write" <=> xpc = "write"
      BY <1>11 DEF ClientSend, ExitNoReply, vars, links, forward, handler,
                   backward
    <2>2. QED
      BY <1>1, <2>1, ExitIsHop DEF Written, ReadersInv
  <1>12. QED
    BY <1>2, <1>3, <1>4, <1>5, <1>6, <1>7, <1>8, <1>9, <1>10, <1>11,
       RelayBackwardReadersInv
       DEF Next, Relays, ExitLoop, ExitSeals, ClientReader

\* What holds of the entry, and of the next hop when it holds of a hop, holds
\* of all hops.
LEMMA HopByHop ==
    ASSUME NEW K \in SUBSET Hop, 0 \in K,
           \A h \in Hop : h \in K /\ h # Exit => h + 1 \in K
    PROVE  K = Hop
  <1> SUFFICES ASSUME Hop \ K # {} PROVE FALSE
    OBVIOUS
  <1>1. Hop \ K \subseteq Nat
    BY DEF Hop
  <1>2. PICK h \in Hop \ K :
            \A g \in Hop \ K : ~(<<g, h>> \in OpToRel(<, Nat))
    BY <1>1, NatLessThanWellFounded, WFMin
  <1>3. h \in Nat /\ h # 0 /\ h - 1 \in Hop /\ h - 1 # Exit /\ h - 1 + 1 = h
    BY HopsAssumption DEF Hop, Exit
  <1>4. h - 1 \notin K
    BY <1>3
  <1>5. <<h - 1, h>> \in OpToRel(<, Nat)
    BY <1>3 DEF OpToRel, Hop
  <1>6. QED
    BY <1>2, <1>3, <1>4, <1>5

\* At rest all links of a circuit that the client has not closed are up.
LEMMA UpAtRest ==
    ASSUME TypeInv, ReadersInv, AtRest, bread[0]
    PROVE  \A h \in Hop : bread[h] /\ up[h]
  <1> DEFINE K == {h \in Hop : bread[h] /\ up[h]}
  <1>1. 0 \in K
    BY ExitIsHop DEF AtRest
  <1>2. ASSUME NEW h \in Hop, h \in K, h # Exit PROVE h + 1 \in K
    <2>1. PICK g : g = h + 1
      OBVIOUS
    <2>2. g \in Hop \ {0} /\ g - 1 = h
      BY <1>2, <2>1, HopsAssumption DEF Hop, Exit
    <2>3. ~shut[g - 1]
      BY <1>2, <2>2 DEF AtRest
    <2>4. bread[g]
      BY <2>2, <2>3 DEF ReadersInv
    <2>5. QED
      BY <2>1, <2>2, <2>4 DEF AtRest
  <1>3. K = Hop
    <2>1. K \in SUBSET Hop
      OBVIOUS
    <2> HIDE DEF K
    <2>2. QED
      BY <1>1, <1>2, <2>1, HopByHop
  <1>4. QED
    BY <1>3

\* Where all links are up, every relay has taken all cells of the client.
LEMMA ForwardAtRest ==
    ASSUME TypeInv, ForwardInv, ReadersInv, AtRest, \A h \in Hop : up[h]
    PROVE  facc = fsent
  <1> DEFINE K == {h \in Hop : frd[h] = Len(fsent)}
  <1>1. ASSUME NEW h \in Hop PROVE frd[h] = Len(fwd[h])
    <2>1. floop[h]
      BY DEF ReadersInv
    <2>2. ~(frd[h] < Len(fwd[h]))
      BY <2>1 DEF AtRest, ForwardReadable
    <2>3. frd[h] <= Len(fwd[h]) /\ frd[h] \in Nat /\ Len(fwd[h]) \in Nat
      BY Lengths DEF ForwardInv, Ciphers
    <2>4. QED
      BY <2>2, <2>3
  <1>2. 0 \in K
    BY <1>1, ExitIsHop DEF ForwardInv, Logs
  <1>3. ASSUME NEW h \in Hop, h \in K, h # Exit PROVE h + 1 \in K
    <2>1. h + 1 \in Hop
      BY <1>3, HopsAssumption DEF Hop, Exit
    <2>2. Len(fwd[h + 1]) = frd[h]
      BY <1>3, <2>1 DEF ForwardInv, Logs
    <2>3. QED
      BY <1>1, <1>3, <2>1, <2>2
  <1>4. Exit \in K
    <2>1. K \in SUBSET Hop
      OBVIOUS
    <2> HIDE DEF K
    <2>2. QED
      BY <1>2, <1>3, <2>1, HopByHop, ExitIsHop
  <1>5. /\ Len(facc) = Len(fsent) /\ facc \in Seq(Cell) /\ fsent \in Seq(Cell)
        /\ \A k \in 1 .. Len(facc) : facc[k] = fsent[k]
    BY <1>4 DEF ForwardInv, Accepted, TypeInv, TypeOK
  <1>6. QED
    BY <1>5, SeqEqual

\* Where all readers run, the client has taken all cells of the exit.
LEMMA BackwardAtRest ==
    ASSUME TypeInv, BackwardInv, ReadersInv, AtRest,
           \A h \in Hop : bread[h] /\ up[h]
    PROVE  cacc = bsent
  <1> DEFINE K == {h \in Hop : Len(bwd[h]) = Len(cacc)}
  <1>1. ASSUME NEW h \in Hop PROVE brd[h] = Len(bwd[h])
    <2>1. ~(brd[h] < Len(bwd[h]))
      BY DEF AtRest, BackwardReadable
    <2>2. brd[h] <= Len(bwd[h]) /\ brd[h] \in Nat /\ Len(bwd[h]) \in Nat
      BY BackwardLengths DEF ReadersInv
    <2>3. QED
      BY <2>1, <2>2
  <1>2. 0 \in K
    BY <1>1, ExitIsHop DEF ReadersInv
  <1>3. ASSUME NEW h \in Hop, h \in K, h # Exit PROVE h + 1 \in K
    <2>1. PICK g : g = h + 1
      OBVIOUS
    <2>2. g \in Hop \ {0} /\ g - 1 = h
      BY <1>3, <2>1, HopsAssumption DEF Hop, Exit
    <2>3. Len(bwd[g - 1]) = brd[g]
      BY <2>2 DEF ReadersInv
    <2>4. QED
      BY <1>1, <1>3, <2>1, <2>2, <2>3
  <1>4. Exit \in K
    <2>1. K \in SUBSET Hop
      OBVIOUS
    <2> HIDE DEF K
    <2>2. QED
      BY <1>2, <1>3, <2>1, HopByHop, ExitIsHop
  <1>5. Len(cacc) = Len(bsent)
    BY <1>4, ExitIsHop DEF AtRest, ReadersInv, Written
  <1>6. /\ cacc \in Seq(Cell) /\ bsent \in Seq(Cell)
        /\ \A k \in 1 .. Len(cacc) : cacc[k] = bsent[k]
    <2>1. cacc \in Seq(Cell) /\ bsent \in Seq(Cell) /\ IsPrefix(cacc, bsent)
      BY DEF BackwardInv, TypeInv, TypeOK
    <2>2. QED
      BY <2>1, PrefixPointwise
  <1>7. QED
    BY <1>5, <1>6, SeqEqual

\* Delivery and teardown cannot get stuck: where nobody can take a step, the
\* client has closed the circuit, or all that was sent, in either direction,
\* was handed over at the other end.
THEOREM NothingIsMissingAtRest == Spec => []NothingMissingAtRest
  <1>1. Spec => [](TypeInv /\ ForwardInv)
    BY ForwardInvariant
  <1>2. Spec => []BackwardInv
    BY <1>1, InitBackwardInv, NextBackwardInv, PTL DEF Spec
  <1>3. Spec => []ReadersInv
    BY <1>1, InitReadersInv, NextReadersInv, PTL DEF Spec
  <1>4. TypeInv /\ ForwardInv /\ BackwardInv /\ ReadersInv
            => NothingMissingAtRest
    BY UpAtRest, ForwardAtRest, BackwardAtRest DEF NothingMissingAtRest
  <1>5. QED
    BY <1>1, <1>2, <1>3, <1>4, PTL

-----------------------------------------------------------------------------
(* Refinement.                                                             *)

\* Every step is a step of the abstract channel to the exit, or a stutter.
LEMMA ForwardStep ==
    TypeInv /\ ForwardInv /\ [Next]_vars
        => [ForwardChannel!Next]_<<fsent, facc, floop[Exit]>>
  <1> SUFFICES ASSUME TypeInv, ForwardInv, [Next]_vars
               PROVE  [ForwardChannel!Next]_<<fsent, facc, floop[Exit]>>
    OBVIOUS
  <1> USE DEF ForwardChannel!Next, ForwardChannel!Put, ForwardChannel!Take,
              ForwardChannel!Close
  <1>1. ASSUME NEW c \in Cell, ClientSend(c)
        PROVE  ForwardChannel!Next
    BY <1>1 DEF ClientSend
  <1>2. ASSUME UNCHANGED <<fsent, facc>>,
               floop'[Exit] \in {floop[Exit], FALSE}
        PROVE  [ForwardChannel!Next]_<<fsent, facc, floop[Exit]>>
    <2>1. floop[Exit] \in BOOLEAN
      BY ExitIsHop DEF TypeInv, TypeOK
    <2>2. CASE floop'[Exit] = floop[Exit]
      BY <1>2, <2>2
    <2>3. CASE floop[Exit] = TRUE /\ floop'[Exit] = FALSE
      BY <1>2, <2>3
    <2>4. QED
      BY <1>2, <2>1, <2>2, <2>3
  <1>3. CASE ExitReceive
    <2>v. PICK v : v = Crypt(fwd[Exit][frd[Exit] + 1], Exit, rfpos[Exit])
      OBVIOUS
    <2>1. ForwardReadable(Exit)
      BY <1>3 DEF ExitReceive
    <2>2. Verifies(xfdig, v) /\ v.cell = fsent[frd[Exit] + 1]
          /\ frd[Exit] + 1 \in 1 .. Len(fsent)
      BY <2>v, <2>1, ExitVerifies
    <2>3. /\ facc' = Append(facc, v.cell)
          /\ UNCHANGED <<fsent, floop>>
      BY <1>3, <2>v, <2>2 DEF ExitReceive
    <2>4. Len(facc) = frd[Exit] /\ frd[Exit] \in Nat /\ Len(fsent) \in Nat
      BY Lengths, ExitIsHop DEF ForwardInv, Accepted
    <2>5. ForwardChannel!Take
      <3>1. floop[Exit]
        BY <2>1 DEF ForwardReadable
      <3>2. Len(facc) < Len(fsent)
        BY <2>2, <2>4
      <3>3. facc' = Append(facc, fsent[Len(facc) + 1])
        BY <2>2, <2>3, <2>4
      <3>4. QED
        BY <2>3, <3>1, <3>2, <3>3
    <2>6. QED
      BY <2>5
  <1>4. CASE \/ \E h \in Hop : \/ RelayForward(h) \/ ForwardEof(h)
                              \/ RelayBackward(h) \/ BackwardEof(h)
                              \/ Break(h)
             \/ ExitNoReply \/ ExitWriteReply \/ ExitSeals
             \/ ClientReader \/ UNCHANGED vars
    <2>1. UNCHANGED <<fsent, facc>>
      BY <1>4 DEF RelayForward, ForwardEof, RelayBackward, BackwardEof,
                  Break, ExitNoReply, ExitWriteReply, ExitSeals, ExitSend,
                  ExitConnected, ExitSealReply, ClientReader, ClientReceive,
                  ClientEof, vars, forward
    <2>2. floop' = floop \/ \E h \in Hop : floop' = [floop EXCEPT ![h] = FALSE]
      BY <1>4, ExitIsHop
         DEF RelayForward, ForwardEof, RelayBackward, BackwardEof,
             Break, ExitNoReply, ExitWriteReply, ExitSeals, ExitSend,
             ExitConnected, ExitSealReply, ClientReader, ClientReceive,
             ClientEof, vars, forward
    <2>3. floop'[Exit] \in {floop[Exit], FALSE}
      BY <2>2, ExitIsHop DEF TypeInv, TypeOK
    <2>4. QED
      BY <1>2, <2>1, <2>3
  <1>5. QED
    BY <1>1, <1>3, <1>4 DEF Next, Relays, ExitLoop

\* The detailed path towards the exit implements a channel that keeps the
\* order, loses nothing it has delivered past, and may close.
THEOREM ForwardRefinesChannel == Spec => ForwardIsChannel
  <1>1. Init => ForwardChannel!Init
    BY ExitIsHop DEF Init, ForwardChannel!Init
  <1>2. QED
    BY <1>1, ForwardStep, ForwardInvariant, PTL
       DEF Spec, ForwardIsChannel, ForwardChannel!Spec

\* A cell the client accepts is the next one the exit sealed.
LEMMA ClientTakesNext ==
    ASSUME TypeInv, BackwardInv, ClientReceive, cacc' # cacc
    PROVE  /\ bread[0] /\ bread' = bread
           /\ Len(cacc) < Len(bsent)
           /\ cacc' = Append(cacc, bsent[Len(cacc) + 1])
  <1>w. PICK w : w = bwd[0][brd[0] + 1]
    OBVIOUS
  <1>p. PICK plain : plain = OnionCrypt(w, cbpos)
    OBVIOUS
  <1>1. /\ BackwardReadable(0) /\ bread' = bread /\ ~Teardown(w)
        /\ Verifies(cbdig, plain) /\ cacc' = Append(cacc, plain.cell)
    BY <1>w, <1>p DEF ClientReceive
  <1>2. w \in WireCell /\ SealedIn(w, bsent)
    BY <1>w, <1>1, ExitIsHop, NextBackwardCell DEF BackwardInv, LogsSealedIn
  <1>3. plain \in WireCell /\ plain.cell = w.cell /\ plain.tag = w.tag
    BY <1>p, <1>2, OnionCryptProperties DEF TypeInv, TypeOK
  <1>4. /\ cbdig = cacc /\ cacc \in Seq(Cell) /\ bsent \in Seq(Cell)
        /\ w.tag \in Seq(Cell)
    BY <1>1, <1>2 DEF BackwardReadable, BackwardInv, TypeInv, TypeOK, WireCell
  <1>5. /\ w.tag = Append(cacc, Plaintext(plain))
        /\ Plaintext(plain) \in {plain.cell, Garbled}
    BY <1>1, <1>3, <1>4 DEF Verifies, Hashed, Plaintext
  <1>6. /\ Len(w.tag) = Len(cacc) + 1
        /\ w.tag[Len(cacc) + 1] = Plaintext(plain)
    BY <1>4, <1>5
  <1>7. Plaintext(plain) = plain.cell
    BY <1>4, <1>5, <1>6, ElementOfSeq, CellAssumption
  <1>8. /\ Len(w.tag) <= Len(bsent)
        /\ \A i \in 1 .. Len(w.tag) : w.tag[i] = bsent[i]
    BY <1>1, <1>2, <1>4, PrefixPointwise DEF SealedIn, Teardown
  <1>9. Len(cacc) \in Nat /\ Len(bsent) \in Nat
    BY <1>4, LenProperties
  <1>10. Len(cacc) < Len(bsent) /\ plain.cell = bsent[Len(cacc) + 1]
    BY <1>6, <1>7, <1>8, <1>9
  <1>11. QED
    BY <1>1, <1>10 DEF BackwardReadable

\* Every step is a step of the abstract channel to the client, or a stutter.
LEMMA BackwardStep ==
    TypeInv /\ BackwardInv /\ [Next]_vars
        => [BackwardChannel!Next]_<<bsent, cacc, bread[0]>>
  <1> SUFFICES ASSUME TypeInv, BackwardInv, [Next]_vars
               PROVE  [BackwardChannel!Next]_<<bsent, cacc, bread[0]>>
    OBVIOUS
  <1> USE DEF BackwardChannel!Next, BackwardChannel!Put, BackwardChannel!Take,
              BackwardChannel!Close
  <1>1. ASSUME UNCHANGED <<bsent, cacc>>, bread'[0] \in {bread[0], FALSE}
        PROVE  [BackwardChannel!Next]_<<bsent, cacc, bread[0]>>
    <2>1. bread[0] \in BOOLEAN
      BY ExitIsHop DEF TypeInv, TypeOK
    <2>2. CASE bread'[0] = bread[0]
      BY <1>1, <2>2
    <2>3. CASE bread[0] = TRUE /\ bread'[0] = FALSE
      BY <1>1, <2>3
    <2>4. QED
      BY <1>1, <2>1, <2>2, <2>3
  <1>2. ASSUME NEW c \in Cell,
               ExitSend(c) \/ ExitConnected(c) \/ ExitSealReply(c)
        PROVE  BackwardChannel!Next
    BY <1>2 DEF ExitSend, ExitConnected, ExitSealReply, ExitAdvance
  <1>3. CASE ClientReceive
    <2>1. CASE cacc' = cacc
      <3>1. bsent' = bsent /\ bread'[0] \in {bread[0], FALSE}
        BY <1>3, ExitIsHop DEF ClientReceive, TypeInv, TypeOK
      <3>2. QED
        BY <1>1, <2>1, <3>1
    <2>2. CASE cacc' # cacc
      BY <1>3, <2>2, ClientTakesNext DEF ClientReceive
    <2>3. QED
      BY <2>1, <2>2
  <1>4. CASE \/ \E c \in Cell : ClientSend(c)
             \/ \E h \in Hop : \/ RelayForward(h) \/ ForwardEof(h)
                              \/ RelayBackward(h) \/ BackwardEof(h)
                              \/ Break(h)
             \/ ExitLoop \/ ClientEof \/ UNCHANGED vars
    <2>1. UNCHANGED <<bsent, cacc>>
      BY <1>4 DEF ClientSend, RelayForward, ForwardEof, RelayBackward,
                  BackwardEof, Break, ExitLoop, ExitReceive, ExitNoReply,
                  ExitWriteReply, ClientEof, vars, backward
    <2>2. bread' = bread \/ \E h \in Hop : bread' = [bread EXCEPT ![h] = FALSE]
      BY <1>4, ExitIsHop
         DEF ClientSend, RelayForward, ForwardEof, RelayBackward,
             BackwardEof, Break, ExitLoop, ExitReceive, ExitNoReply,
             ExitWriteReply, ClientEof, EndReader, vars, backward
    <2>3. bread'[0] \in {bread[0], FALSE}
      BY <2>2, ExitIsHop DEF TypeInv, TypeOK
    <2>4. QED
      BY <1>1, <2>1, <2>3
  <1>5. QED
    BY <1>2, <1>3, <1>4 DEF Next, Relays, ExitSeals, ClientReader

\* The detailed path towards the client implements the same channel, although
\* the exit's writers race and the client may close on a cell out of turn.
THEOREM BackwardRefinesChannel == Spec => BackwardIsChannel
  <1>1. Spec => [](TypeInv /\ BackwardInv)
    <2>1. Spec => []TypeInv
      BY InitTypeInv, NextTypeInv, PTL DEF Spec
    <2>2. QED
      BY <2>1, InitBackwardInv, NextBackwardInv, PTL DEF Spec
  <1>2. Init => BackwardChannel!Init
    BY ExitIsHop DEF Init, BackwardChannel!Init
  <1>3. QED
    BY <1>1, <1>2, BackwardStep, PTL
       DEF Spec, BackwardIsChannel, BackwardChannel!Spec
=============================================================================
