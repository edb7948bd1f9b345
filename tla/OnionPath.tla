------------------------------ MODULE OnionPath ------------------------------
(***************************************************************************)
(* The data path of one established circuit: the client (tor-client), the  *)
(* relays (relay-node entry and middle handlers) and the exit handler,     *)
(* joined by N TCP links.  Link h joins hop h to its predecessor, hop 0 is *)
(* the entry, hop N-1 the exit, and the client precedes hop 0.             *)
(*                                                                         *)
(* AES-CTR is modelled by what makes it fragile: a cipher is a position in *)
(* a keystream, applying it to a payload XORs the bytes at that position   *)
(* and moves it on by the payload's length, and applying the same bytes    *)
(* twice cancels.  A cell on the wire therefore carries, per hop, the set  *)
(* of keystream positions that it has been XORed with an odd number of     *)
(* times.  An empty payload is touched by no cipher and moves none.        *)
(*                                                                         *)
(* A running digest is modelled by the history it hashes, and the tag of a *)
(* cell by the history up to and including that cell: SHA-256 truncated to *)
(* 4 bytes is taken to be free of collisions.                              *)
(*                                                                         *)
(* A link is the log of the cells written to it and the number of cells    *)
(* its reader has taken: TCP loses and reorders nothing until it breaks,   *)
(* and after a break the reader may still drain any part of the log.       *)
(***************************************************************************)
EXTENDS Naturals, Sequences, FiniteSets, SequencesExt

CONSTANTS
    N,            \* hops of the circuit
    Cell,         \* plaintext cells: stream, command and payload
    Bytes,        \* payload length of each cell
    DESTROY,      \* the unencrypted teardown cell, of empty payload
    Garbled,      \* what a cipher yields when layers are left on a payload
    None,         \* no response is waiting to be written
    FBase, BBase, \* keystream the handshake left spent, per hop and direction
    MaxForward,   \* bound: cells the client sends
    MaxBackward,  \* bound: cells the exit encrypts
    MaxBreaks     \* bound: links that break

Hop == 0 .. N-1
Exit == N - 1

\* CircuitBuilder::build refuses a path of fewer than three nodes.
ASSUME HopsAssumption == N \in Nat /\ N >= 3
ASSUME CellAssumption ==
    /\ DESTROY \notin Cell
    /\ Garbled \notin Cell
    /\ Bytes \in [Cell \cup {DESTROY} -> Nat]
    /\ Bytes[DESTROY] = 0
\* Each EXTEND is encrypted for the hops that relay it and each EXTENDED by
\* them, so a circuit starts with its ciphers where the handshake left them.
ASSUME BaseAssumption == FBase \in [Hop -> Nat] /\ BBase \in [Hop -> Nat]
ASSUME BoundsAssumption ==
    MaxForward \in Nat /\ MaxBackward \in Nat /\ MaxBreaks \in Nat

VARIABLES
    up,       \* link h is an open connection
    shut,     \* the writer towards the client was shut down on link h
    \* --- towards the exit
    cfpos,    \* client: forward keystream position of each hop's cipher
    fsent,    \* client: history hashed by the forward digest
    foff,     \* history: offset past FBase at which each cell started
    fwd,      \* log of the cells written on link h
    frd,      \* cells hop h has taken from link h
    floop,    \* hop h's connection loop is running
    rfpos,    \* hop h: forward keystream position
    xfdig,    \* exit: history hashed by its forward digest
    facc,     \* history: cells whose digest the exit accepted
    xpc,      \* exit's connection loop: "read", "handle" or "write"
    tasks,    \* exit: a BEGIN succeeded, so a stream task is running
    \* --- towards the client
    bsent,    \* exit: history hashed by the backward digest
    reply,    \* exit: END encrypted under the lock, not yet written
    rbpos,    \* hop h: backward keystream position
    bwd,      \* log of the cells written on link h
    brd,      \* cells taken from link h by hop h-1, or by the client
    bread,    \* the task reading link h towards the client is running
    cbpos,    \* client: backward keystream position of each hop's cipher
    cbdig,    \* client: history hashed by its backward digest
    cacc,     \* history: cells whose digest the client accepted
    overtaken \* history: a stream task wrote while a reply was waiting

links == <<up, shut>>
forward == <<cfpos, fsent, foff, fwd, frd, floop, rfpos, xfdig, facc>>
backward == <<bsent, rbpos, bwd, brd, bread, cbpos, cbdig, cacc, overtaken>>
handler == <<xpc, tasks, reply>>
vars == <<links, forward, handler, backward>>

-----------------------------------------------------------------------------
(* Ciphers, digests and wire cells.                                        *)

\* XOR with the keystream at position p: twice the same position cancels.
Toggle(S, p) == IF p \in S THEN S \ {p} ELSE S \cup {p}

Wire(c, tag) == [cell |-> c, layers |-> [h \in Hop |-> {}], tag |-> tag]
Destroy == Wire(DESTROY, <<>>)

\* Mutant: the cipher starts over for every cell.
CryptFromStart(w, h, p) ==
    IF Bytes[w.cell] = 0 THEN w ELSE [w EXCEPT !.layers[h] = Toggle(@, 0)]

\* One hop's cipher, at position p.
Crypt(w, h, p) ==
    IF Bytes[w.cell] = 0 THEN w
    ELSE [w EXCEPT !.layers[h] = Toggle(@, p)]

\* All hops' ciphers, as the client applies them; XOR makes the order moot.
OnionCrypt(w, pos) ==
    IF Bytes[w.cell] = 0 THEN w
    ELSE [w EXCEPT !.layers = [h \in Hop |-> Toggle(w.layers[h], pos[h])]]

\* Mutant: a cell moves the ciphers even when its payload is empty.
AdvanceWholeCell(pos, w) == [h \in Hop |-> pos[h] + Bytes[w.cell] + 1]

Advance(pos, w) == [h \in Hop |-> pos[h] + Bytes[w.cell]]

Plaintext(w) == IF \A h \in Hop : w.layers[h] = {} THEN w.cell ELSE Garbled

\* RunningDigest::update, which verify calls whatever its verdict will be.
Hashed(hist, w) == Append(hist, Plaintext(w))

\* Mutant: the digest covers the cell alone, not the cells before it.
VerifiesCellAlone(hist, w) == Plaintext(w) = w.tag[Len(w.tag)]

Verifies(hist, w) == Hashed(hist, w) = w.tag

\* Mutant: no cell is a teardown, DESTROY is decrypted like the others.
NeverTeardown(w) == FALSE

Teardown(w) == w.cell = DESTROY

-----------------------------------------------------------------------------
Init ==
    /\ up = [h \in Hop |-> TRUE]
    /\ shut = [h \in Hop |-> FALSE]
    /\ cfpos = FBase
    /\ fsent = <<>>
    /\ foff = <<0>>
    /\ fwd = [h \in Hop |-> <<>>]
    /\ frd = [h \in Hop |-> 0]
    /\ floop = [h \in Hop |-> TRUE]
    /\ rfpos = FBase
    /\ xfdig = <<>>
    /\ facc = <<>>
    /\ xpc = "read"
    /\ tasks = FALSE
    /\ bsent = <<>>
    /\ reply = None
    /\ rbpos = BBase
    /\ bwd = [h \in Hop |-> <<>>]
    /\ brd = [h \in Hop |-> 0]
    /\ bread = [h \in Hop |-> TRUE]
    /\ cbpos = BBase
    /\ cbdig = <<>>
    /\ cacc = <<>>
    /\ overtaken = FALSE

-----------------------------------------------------------------------------
(* Towards the exit.                                                       *)

\* Mutant: a cell without payload is not worth a write.
WriteForwardNonEmpty(h, w) ==
    fwd' = IF up[h] /\ Bytes[w.cell] > 0
           THEN [fwd EXCEPT ![h] = Append(@, w)] ELSE fwd

\* A write on a broken link fails, or vanishes in a socket buffer.
WriteForward(h, w) ==
    fwd' = IF up[h] THEN [fwd EXCEPT ![h] = Append(@, w)] ELSE fwd

\* Mutant: the loop goes on reading after it has ended.
ForwardReadableAlways(h) == frd[h] < Len(fwd[h])

\* Hop h's connection loop can take a cell from its link.
ForwardReadable(h) == floop[h] /\ frd[h] < Len(fwd[h])

\* Circuit::send_message, which runs under the circuit's mutex and never
\* looks at the circuit's state.
ClientSend(c) ==
    LET tag == Append(fsent, c)
        w == OnionCrypt(Wire(c, tag), cfpos)
    IN  /\ Len(fsent) < MaxForward
        /\ fsent' = tag
        /\ foff' = Append(foff, foff[Len(foff)] + Bytes[c])
        /\ cfpos' = Advance(cfpos, w)
        /\ WriteForward(0, w)
        /\ UNCHANGED <<links, frd, floop, rfpos, xfdig, facc, handler,
                       backward>>

\* A relay's connection loop and handle_relay: peel one layer, pass it on.
\* A failed write to the next hop ends the loop.
RelayForward(h) ==
    LET w == fwd[h][frd[h] + 1]
    IN  /\ h # Exit
        /\ ForwardReadable(h)
        /\ frd' = [frd EXCEPT ![h] = @ + 1]
        /\ rfpos' = [rfpos EXCEPT ![h] = @ + Bytes[w.cell]]
        /\ WriteForward(h + 1, Crypt(w, h, rfpos[h]))
        /\ \/ floop' = floop
           \/ ~up[h + 1] /\ floop' = [floop EXCEPT ![h] = FALSE]
        /\ UNCHANGED <<links, cfpos, fsent, foff, xfdig, facc, handler,
                       backward>>

\* The exit decrypts and verifies under the state lock; the digest has
\* moved on even when the verdict is a mismatch, which ends the loop.
ExitReceive ==
    LET w == fwd[Exit][frd[Exit] + 1]
        plain == Crypt(w, Exit, rfpos[Exit])
    IN  /\ ForwardReadable(Exit)
        /\ xpc = "read"
        /\ frd' = [frd EXCEPT ![Exit] = @ + 1]
        /\ rfpos' = [rfpos EXCEPT ![Exit] = @ + Bytes[w.cell]]
        /\ xfdig' = Hashed(xfdig, plain)
        /\ IF Verifies(xfdig, plain)
           THEN /\ facc' = Append(facc, plain.cell)
                /\ xpc' = "handle"
                /\ floop' = floop
           ELSE /\ floop' = [floop EXCEPT ![Exit] = FALSE]
                /\ UNCHANGED <<facc, xpc>>
        /\ UNCHANGED <<links, cfpos, fsent, foff, fwd, tasks, reply, backward>>

\* The connection loop of hop h sees its link end.
ForwardEof(h) ==
    /\ floop[h]
    /\ ~up[h]
    /\ h = Exit => xpc = "read"
    /\ floop' = [floop EXCEPT ![h] = FALSE]
    /\ UNCHANGED <<links, cfpos, fsent, foff, fwd, frd, rfpos, xfdig, facc,
                   handler, backward>>

-----------------------------------------------------------------------------
(* Towards the client.                                                     *)

\* Mutant: a cell without payload is not worth a write.
WriteBackwardNonEmpty(h, w) ==
    bwd' = IF up[h] /\ ~shut[h] /\ Bytes[w.cell] > 0
           THEN [bwd EXCEPT ![h] = Append(@, w)] ELSE bwd

WriteBackward(h, w) ==
    bwd' = IF up[h] /\ ~shut[h] THEN [bwd EXCEPT ![h] = Append(@, w)] ELSE bwd

\* Mutant: the reader goes on reading after it has ended.
BackwardReadableAlways(h) == brd[h] < Len(bwd[h])

\* The task that reads link h towards the client can take a cell from it.
BackwardReadable(h) == bread[h] /\ brd[h] < Len(bwd[h])

\* Digest and cipher at the exit, under the state lock.
ExitSeal(c) == Crypt(Wire(c, Append(bsent, c)), Exit, rbpos[Exit])

ExitAdvance(c) ==
    /\ Len(bsent) < MaxBackward
    /\ bsent' = Append(bsent, c)
    /\ rbpos' = [rbpos EXCEPT ![Exit] = @ + Bytes[c]]

\* A stream task's DATA or END: sealed and written while the state lock is
\* held.
ExitSend(c) ==
    /\ tasks
    /\ ExitAdvance(c)
    /\ WriteBackward(Exit, ExitSeal(c))
    /\ overtaken' = (overtaken \/ reply # None)
    /\ UNCHANGED <<links, forward, handler, brd, bread, cbpos, cbdig, cacc>>

\* handle_begin when the destination that a BEGIN names accepts: CONNECTED,
\* which is empty, is sealed and written under the state lock, then the
\* stream's task starts.  When the write fails the connection loop ends
\* instead.
ExitConnected(c) ==
    /\ xpc = "handle"
    /\ Bytes[facc[Len(facc)]] > 0 /\ Bytes[c] = 0
    /\ ExitAdvance(c)
    /\ WriteBackward(Exit, ExitSeal(c))
    /\ xpc' = "read"
    /\ \/ tasks' = TRUE /\ floop' = floop
       \/ /\ ~up[Exit]
          /\ floop' = [floop EXCEPT ![Exit] = FALSE]
          /\ tasks' = tasks
    /\ UNCHANGED <<links, cfpos, fsent, foff, fwd, frd, rfpos, xfdig, facc,
                   reply, brd, bread, cbpos, cbdig, cacc, overtaken>>

\* handle_begin, handle_data and handle_end: an END response is sealed under
\* the state lock, which is released before the response is returned.
ExitSealReply(c) ==
    /\ xpc = "handle"
    /\ ExitAdvance(c)
    /\ reply' = ExitSeal(c)
    /\ xpc' = "write"
    /\ UNCHANGED <<links, forward, tasks, bwd, brd, bread, cbpos, cbdig, cacc,
                   overtaken>>

\* The handler returned Ok(None).
ExitNoReply ==
    /\ xpc = "handle"
    /\ xpc' = "read"
    /\ UNCHANGED <<links, forward, tasks, reply, backward>>

\* The connection loop writes the response it was handed, under the writer
\* lock only; a failed write ends the loop.
ExitWriteReply ==
    /\ xpc = "write"
    /\ WriteBackward(Exit, reply)
    /\ reply' = None
    /\ xpc' = "read"
    /\ \/ floop' = floop
       \/ ~up[Exit] /\ floop' = [floop EXCEPT ![Exit] = FALSE]
    /\ UNCHANGED <<links, cfpos, fsent, foff, fwd, frd, rfpos, xfdig, facc,
                   tasks, bsent, rbpos, brd, bread, cbpos, cbdig, cacc,
                   overtaken>>

\* Mutant: the reader's loop ends without telling the previous hop.
EndReaderSilently(h) ==
    /\ bread' = [bread EXCEPT ![h] = FALSE]
    /\ UNCHANGED <<bwd, shut>>

\* spawn_nexthop_reader when its loop ends: DESTROY to the previous hop, then
\* shut the writer down.  Hop h-1 reads link h and writes link h-1.
EndReader(h) ==
    /\ WriteBackward(h - 1, Destroy)
    /\ shut' = [shut EXCEPT ![h - 1] = TRUE]
    /\ bread' = [bread EXCEPT ![h] = FALSE]

\* handle_backward_relay by way of the nexthop reader of hop h-1: add one
\* layer and pass the cell on.  The entry takes DESTROY as the end of its
\* loop; a middle passes it on like any other cell and waits for the end of
\* the stream.
RelayBackward(h) ==
    LET w == bwd[h][brd[h] + 1]
    IN  /\ h # 0
        /\ BackwardReadable(h)
        /\ brd' = [brd EXCEPT ![h] = @ + 1]
        /\ IF h = 1 /\ Teardown(w)
           THEN EndReader(h) /\ rbpos' = rbpos
           ELSE /\ rbpos' = [rbpos EXCEPT ![h - 1] = @ + Bytes[w.cell]]
                /\ \/ /\ WriteBackward(h - 1, Crypt(w, h - 1, rbpos[h - 1]))
                      /\ UNCHANGED <<shut, bread>>
                   \/ ~up[h - 1] /\ EndReader(h)
        /\ UNCHANGED <<up, forward, handler, bsent, cbpos, cbdig, cacc,
                       overtaken>>

\* The nexthop reader of hop h-1 sees link h end.
BackwardEof(h) ==
    /\ h # 0
    /\ bread[h]
    /\ ~up[h] \/ (shut[h] /\ brd[h] = Len(bwd[h]))
    /\ EndReader(h)
    /\ UNCHANGED <<up, forward, handler, bsent, rbpos, brd, cbpos, cbdig,
                   cacc, overtaken>>

\* spawn_circuit_reader: DESTROY closes the circuit; any other cell has all
\* layers peeled and its digest verified, and a mismatch closes the circuit.
ClientReceive ==
    LET w == bwd[0][brd[0] + 1]
        plain == OnionCrypt(w, cbpos)
    IN  /\ BackwardReadable(0)
        /\ brd' = [brd EXCEPT ![0] = @ + 1]
        /\ IF Teardown(w)
           THEN /\ bread' = [bread EXCEPT ![0] = FALSE]
                /\ UNCHANGED <<cbpos, cbdig, cacc>>
           ELSE /\ cbpos' = Advance(cbpos, w)
                /\ cbdig' = Hashed(cbdig, plain)
                /\ IF Verifies(cbdig, plain)
                   THEN /\ cacc' = Append(cacc, plain.cell)
                        /\ bread' = bread
                   ELSE /\ bread' = [bread EXCEPT ![0] = FALSE]
                        /\ cacc' = cacc
        /\ UNCHANGED <<links, forward, handler, bsent, rbpos, bwd,
                       overtaken>>

\* The client's reader sees the entry connection end.
ClientEof ==
    /\ bread[0]
    /\ ~up[0] \/ (shut[0] /\ brd[0] = Len(bwd[0]))
    /\ bread' = [bread EXCEPT ![0] = FALSE]
    /\ UNCHANGED <<links, forward, handler, bsent, rbpos, bwd, brd, cbpos,
                   cbdig, cacc, overtaken>>

-----------------------------------------------------------------------------
\* A connection fails, or the process at one end of it dies.
Break(h) ==
    /\ up[h]
    /\ Cardinality({g \in Hop : ~up[g]}) < MaxBreaks
    /\ up' = [up EXCEPT ![h] = FALSE]
    /\ UNCHANGED <<shut, forward, handler, backward>>

Relays ==
    \/ \E h \in Hop : RelayForward(h) \/ ForwardEof(h)
    \/ \E h \in Hop : RelayBackward(h) \/ BackwardEof(h)

ExitLoop == ExitReceive \/ ExitNoReply \/ ExitWriteReply
ExitSeals ==
    \E c \in Cell : ExitSend(c) \/ ExitConnected(c) \/ ExitSealReply(c)
ClientReader == ClientReceive \/ ClientEof

Next ==
    \/ \E c \in Cell : ClientSend(c)
    \/ Relays
    \/ ExitLoop
    \/ ExitSeals
    \/ ClientReader
    \/ \E h \in Hop : Break(h)

Spec == Init /\ [][Next]_vars

\* tokio polls every task that is ready: the loops of the relays, of the exit
\* and of the client's reader run on.  Each of their steps uses up a cell or
\* a task, so it is enough that some of them is taken as long as there are any.
\* No fairness for what is sent, nor for failures.
Progress == Relays \/ ExitLoop \/ ClientReader

FairSpec == Spec /\ WF_vars(Progress)

-----------------------------------------------------------------------------
(* Properties.                                                             *)

WireCell == [cell : Cell \cup {DESTROY}, layers : [Hop -> SUBSET Nat],
             tag : Seq(Cell)]

ASSUME NoneAssumption == None \notin WireCell

TypeOK ==
    /\ up \in [Hop -> BOOLEAN]
    /\ shut \in [Hop -> BOOLEAN]
    /\ cfpos \in [Hop -> Nat]
    /\ fsent \in Seq(Cell)
    /\ foff \in Seq(Nat)
    /\ fwd \in [Hop -> Seq(WireCell)]
    /\ frd \in [Hop -> Nat]
    /\ floop \in [Hop -> BOOLEAN]
    /\ rfpos \in [Hop -> Nat]
    /\ xfdig \in Seq(Cell \cup {Garbled})
    /\ facc \in Seq(Cell)
    /\ xpc \in {"read", "handle", "write"}
    /\ tasks \in BOOLEAN
    /\ bsent \in Seq(Cell)
    /\ reply \in WireCell \cup {None}
    /\ rbpos \in [Hop -> Nat]
    /\ bwd \in [Hop -> Seq(WireCell)]
    /\ brd \in [Hop -> Nat]
    /\ bread \in [Hop -> BOOLEAN]
    /\ cbpos \in [Hop -> Nat]
    /\ cbdig \in Seq(Cell \cup {Garbled})
    /\ cacc \in Seq(Cell)
    /\ overtaken \in BOOLEAN

\* exit.rs verifies every BEGIN, DATA and END against the digest of all cells
\* before it.  Whatever the interleaving of senders, relays and failures, it
\* never finds a mismatch (N ciphers and a digest stay in step with the
\* client's), and what it acts on is what the client sent, in the order in
\* which the senders took the circuit's mutex.
ForwardIntegrity == xfdig = facc /\ IsPrefix(facc, fsent)

\* On link h a cell carries exactly the layers of hops h to N-1, each made
\* with the keystream that hop will use to peel it: no relay ever handles a
\* cell that has lost a layer early or kept one too long.
Layering ==
    \A h \in Hop : \A i \in 1 .. Len(fwd[h]) :
        fwd[h][i].layers = [j \in Hop |->
            IF j >= h /\ Bytes[fwd[h][i].cell] > 0 THEN {FBase[j] + foff[i]}
            ELSE {}]

\* The client hands its streams a prefix of what the exit sealed, in the
\* exit's order, even when two writers at the exit race for the connection:
\* a cell out of its turn is never taken for another.
BackwardIntegrity == IsPrefix(cacc, bsent)

\* A backward mismatch, for which the client tears the circuit down, happens
\* only after a cell has overtaken a response sealed before it at the exit.
MismatchOnlyByOvertaking == cbdig # cacc => overtaken

\* circuit.rs reports a backward mismatch as possible tampering.  No cell is
\* tampered with in this model, so there should be none.
NoBackwardMismatch == cbdig = cacc

\* A circuit that lost any of its links is closed at the client: each nexthop
\* reader turns the end of its link into a DESTROY and an end for the next.
TeardownReachesClient == \A h \in Hop : ~up[h] ~> ~bread[0]

\* A cell the client sent is acted on by the exit unless a link broke.
ForwardDelivery ==
    \A k \in 1 .. MaxForward :
        Len(fsent) >= k ~> (Len(facc) >= k \/ \E h \in Hop : ~up[h])

\* A cell the exit sealed reaches the client's streams unless the client has
\* closed the circuit.
BackwardDelivery ==
    \A k \in 1 .. MaxBackward :
        Len(bsent) >= k ~> (Len(cacc) >= k \/ ~bread[0])

\* Each direction of the circuit is a channel in order that may fail.
ForwardChannel == INSTANCE OnionChannel WITH
    Value <- Cell, sent <- fsent, got <- facc,
    open <- floop[Exit]
BackwardChannel == INSTANCE OnionChannel WITH
    Value <- Cell, sent <- bsent, got <- cacc, open <- bread[0]

ForwardIsChannel == ForwardChannel!Spec
BackwardIsChannel == BackwardChannel!Spec

=============================================================================
