-------------------------------- MODULE Streams --------------------------------
(***************************************************************************)
(* The streams of one established circuit: SOCKS connections at the client *)
(* (stream.rs), the reader that sorts the backward cells by stream id, the *)
(* exit's handler with its table of streams, and one task per destination. *)
(*                                                                         *)
(* The circuit is what OnionPath shows it to be: a channel in order in     *)
(* each direction, which may fail.  Its backward channel has the cells in  *)
(* the order in which the exit seals them; that another order on the wire  *)
(* makes the channel fail is in OnionPath.                                 *)
(*                                                                         *)
(* A connection names its destination too, and the exit's task that reads  *)
(* and writes it.  The i-th piece of a connection's bytes, in either       *)
(* direction, is <<c, i>>.                                                 *)
(***************************************************************************)
EXTENDS Naturals, Sequences

CONSTANTS
    Conn,         \* SOCKS connections, and their destinations
    None,
    MaxStreamId,  \* the last stream id before the counter wraps, 65535
    MaxUp,        \* bound: pieces that each SOCKS client sends
    MaxDown,      \* bound: pieces that each destination sends
    MaxFaults     \* bound: failures of the circuit and of other connections

Id == 1 .. MaxStreamId

ASSUME StreamsAssumption ==
    /\ None \notin Conn \cup [cmd : {"BEGIN"}, id : Id, data : Conn]
    /\ MaxStreamId \in Nat \ {0} /\ MaxUp \in [Conn -> Nat] /\ MaxDown \in [Conn -> Nat]
    /\ MaxFaults \in Nat

Piece == UNION {{c} \X (1 .. MaxUp[c] + MaxDown[c]) : c \in Conn}

VARIABLES
    \* --- the client
    nextId,   \* next_stream_id
    senders,  \* stream_senders: whose channel each stream id has
    cpc,      \* where each connection's task is
    sid,      \* its stream id
    rx,       \* its channel: cells from the reader
    sent,     \* pieces it has sent
    got,      \* history: pieces it has passed to the SOCKS client
    heardEnd, \* history: its stream was ended by an END
    reader,   \* the circuit's reader is running
    \* --- the circuit
    fwd, bwd, \* cells on their way
    broken,   \* a link is broken
    \* --- the exit
    loop,     \* its connection loop is running
    begin,    \* the BEGIN that its handler is connecting for
    streams,  \* the task of each stream in its table
    task,     \* how each task stands
    queue,    \* its dest_rx
    read,     \* pieces it has read from its destination
    written,  \* history: pieces it has written
    faults    \* failures so far

client == <<nextId, senders, cpc, sid, rx, sent, got, heardEnd, reader>>
exit == <<loop, begin, streams, task, queue, read, written>>
vars == <<client, fwd, bwd, broken, exit, faults>>

Init ==
    /\ nextId = 1
    /\ senders = [i \in Id |-> None]
    /\ cpc = [c \in Conn |-> "new"]
    /\ sid = [c \in Conn |-> None]
    /\ rx = [c \in Conn |-> <<>>]
    /\ sent = [c \in Conn |-> 0]
    /\ got = [c \in Conn |-> <<>>]
    /\ heardEnd = [c \in Conn |-> FALSE]
    /\ reader = TRUE
    /\ fwd = <<>>
    /\ bwd = <<>>
    /\ broken = FALSE
    /\ loop = TRUE
    /\ begin = None
    /\ streams = [i \in Id |-> None]
    /\ task = [c \in Conn |-> "none"]
    /\ queue = [c \in Conn |-> <<>>]
    /\ read = [c \in Conn |-> 0]
    /\ written = [c \in Conn |-> <<>>]
    /\ faults = 0

Fault == faults < MaxFaults /\ faults' = faults + 1

\* data is what the payload says: a destination, a piece, or nothing.
Cell(cmd, id, data) == [cmd |-> cmd, id |-> id, data |-> data]

\* What is written to a broken circuit is lost, or the write fails.
Put(chan, w) == IF broken THEN chan ELSE Append(chan, w)

-----------------------------------------------------------------------------
(* A SOCKS connection: handle_stream.  Each of its steps on the circuit    *)
(* takes the circuit's mutex anew.                                         *)

Goto(c, label) == cpc' = [cpc EXCEPT ![c] = label]

Send(c, cmd, data) == fwd' = Put(fwd, Cell(cmd, sid[c], data))

\* Mutant: the counter does not wrap.
IdAfterUnbounded(i) == i + 1

\* allocate_stream_id skips 0.
IdAfter(i) == IF i = MaxStreamId THEN 1 ELSE i + 1

\* The stream is registered and BEGIN sent, in two holds of the circuit's mutex
\* that nothing comes between that matters.  When BEGIN cannot be written the
\* task returns without any cleanup.
Open(c) ==
    /\ cpc[c] = "new"
    /\ sid' = [sid EXCEPT ![c] = nextId]
    /\ nextId' = IdAfter(nextId)
    /\ senders' = [senders EXCEPT ![nextId] = c]
    /\ fwd' = Put(fwd, Cell("BEGIN", nextId, c))
    /\ \/ Goto(c, "waiting")
       \/ broken /\ Goto(c, "gone")
    /\ UNCHANGED <<rx, sent, got, heardEnd, reader, bwd, broken, exit, faults>>

\* A connection that still looks at its channel.
Listens(c) == cpc[c] \in {"waiting", "streaming"}

Received(c) == rx' = [rx EXCEPT ![c] = Tail(@)]
Dropped(c) == rx' = [rx EXCEPT ![c] = <<>>]

\* CONNECTED, or anything else in its place.  It is passed on to the SOCKS
\* client, and if that is gone the task returns without any cleanup.
Answered(c) ==
    /\ cpc[c] = "waiting"
    /\ rx[c] # <<>>
    /\ IF Head(rx[c]).cmd = "CONNECTED"
       THEN \/ Goto(c, "streaming") /\ Received(c) /\ faults' = faults
            \/ Goto(c, "gone") /\ Dropped(c) /\ Fault
       ELSE Goto(c, "leaving") /\ Dropped(c) /\ faults' = faults
    /\ UNCHANGED <<nextId, senders, sid, sent, got, heardEnd, reader, fwd, bwd,
                   broken, exit>>

\* The task does not look at its channel any more.
Leave(c) ==
    /\ Goto(c, "leaving")
    /\ Dropped(c)
    /\ UNCHANGED <<nextId, senders, sid, sent, got, heardEnd, reader, fwd,
                   bwd, broken, exit, faults>>

\* CONNECTED_TIMEOUT
Timeout(c) == cpc[c] = "waiting" /\ Leave(c)

\* The SOCKS client closes, fails, or is idle for too long.
Close(c) == cpc[c] = "streaming" /\ Leave(c)

\* The channel is drained, and has no sender any more.
ChannelClosed(c) ==
    /\ Listens(c)
    /\ rx[c] = <<>>
    /\ senders[sid[c]] # c
    /\ Leave(c)

SendData(c) ==
    /\ cpc[c] = "streaming"
    /\ sent[c] < MaxUp[c]
    /\ sent' = [sent EXCEPT ![c] = @ + 1]
    /\ Send(c, "DATA", <<c, sent[c] + 1>>)
    /\ \/ UNCHANGED <<cpc, rx>>
       \/ broken /\ Goto(c, "leaving") /\ Dropped(c)
    /\ UNCHANGED <<nextId, senders, sid, got, heardEnd, reader, bwd,
                   broken, exit, faults>>

\* DATA for the SOCKS client, or the stream's END.
Receive(c) ==
    LET w == Head(rx[c])
    IN  /\ cpc[c] = "streaming"
        /\ rx[c] # <<>>
        /\ CASE w.cmd = "DATA" ->
                    /\ got' = [got EXCEPT ![c] = Append(@, w.data)]
                    /\ Received(c)
                    /\ UNCHANGED <<cpc, heardEnd>>
             [] w.cmd = "END" ->
                    /\ Goto(c, "leaving")
                    /\ heardEnd' = [heardEnd EXCEPT ![c] = TRUE]
                    /\ Dropped(c)
                    /\ UNCHANGED got
             [] OTHER -> Received(c) /\ UNCHANGED <<got, cpc, heardEnd>>
        /\ UNCHANGED <<nextId, senders, sid, sent, reader, fwd, bwd, broken,
                       exit, faults>>

\* Mutant: END is not answered with END.
EndsUnlessHeard(c) == ~heardEnd[c]

\* cleanup_stream always sends END, whatever the stream's end was.
EndsAlways(c) == TRUE

\* And then unregister_stream, whoever has the id by now.
Cleanup(c) ==
    /\ cpc[c] = "leaving"
    /\ IF EndsAlways(c) THEN Send(c, "END", None) ELSE fwd' = fwd
    /\ senders' = [senders EXCEPT ![sid[c]] = None]
    /\ Goto(c, "done")
    /\ UNCHANGED <<nextId, sid, rx, sent, got, heardEnd, reader, bwd, broken,
                   exit, faults>>

-----------------------------------------------------------------------------
(* The circuit's reader: spawn_circuit_reader.                             *)

\* Mutant: the reader hands a cell to whoever registered last.
OwnerNewest(w) == senders[IF nextId = 1 THEN MaxStreamId ELSE nextId - 1]

Owner(w) == senders[w.id]

\* A cell for an id that nobody has is dropped.
Deliver ==
    LET w == Head(bwd)
    IN  /\ reader
        /\ bwd # <<>>
        /\ bwd' = Tail(bwd)
        /\ rx' = [c \in Conn |->
                    IF c = Owner(w) /\ Listens(c) THEN Append(rx[c], w)
                    ELSE rx[c]]
        /\ UNCHANGED <<nextId, senders, cpc, sid, sent, got, heardEnd, reader,
                       fwd, broken, exit, faults>>

\* DESTROY, the connection's end or a digest mismatch: the channels of all
\* streams are dropped.
ReaderEnds ==
    /\ reader
    /\ \/ broken /\ faults' = faults
       \/ Fault
    /\ reader' = FALSE
    /\ senders' = [i \in Id |-> None]
    /\ UNCHANGED <<nextId, cpc, sid, rx, sent, got, heardEnd, fwd, bwd, broken,
                   exit>>

-----------------------------------------------------------------------------
(* The exit's connection loop and ExitCircuitHandler.                      *)

Reply(w) == bwd' = Put(bwd, w)

\* The loop takes the next cell: the handler is not connecting.
Takes(cmd) ==
    /\ loop
    /\ begin = None
    /\ fwd # <<>>
    /\ Head(fwd).cmd = cmd
    /\ fwd' = Tail(fwd)

\* handle_begin: the loop waits for the destination.
HandleBegin ==
    /\ Takes("BEGIN")
    /\ begin' = Head(fwd)
    /\ UNCHANGED <<client, bwd, broken, loop, streams, task, queue, read,
                   written, faults>>

\* CONNECTED is on its way before the task is spawned that may send DATA.
Connected ==
    /\ begin # None
    /\ begin' = None
    /\ Reply(Cell("CONNECTED", begin.id, None))
    /\ \/ /\ streams' = [streams EXCEPT ![begin.id] = begin.data]
          /\ task' = [task EXCEPT ![begin.data] = "run"]
          /\ loop' = loop
       \/ broken /\ loop' = FALSE /\ UNCHANGED <<streams, task>>
    /\ UNCHANGED <<client, fwd, broken, queue, read, written, faults>>

\* Mutant: a refused connection is only logged.
RefusalLogged == bwd

Refusal == Put(bwd, Cell("END", begin.id, None))

Refused ==
    /\ begin # None
    /\ begin' = None
    /\ bwd' = Refusal
    /\ UNCHANGED <<client, fwd, broken, loop, streams, task, queue, read,
                   written, faults>>

\* handle_data: queued for a task that still runs, otherwise END comes back.
HandleData ==
    LET w == Head(fwd)
        c == streams[w.id]
    IN  /\ Takes("DATA")
        /\ IF c # None /\ task[c] = "run"
           THEN queue' = [queue EXCEPT ![c] = Append(@, w.data)] /\ bwd' = bwd
           ELSE Reply(Cell("END", w.id, None)) /\ queue' = queue
        /\ UNCHANGED <<client, broken, loop, begin, streams, task, read,
                       written, faults>>

\* handle_end: dropping the stream drops the sender of its queue.
HandleEnd ==
    LET w == Head(fwd)
    IN  /\ Takes("END")
        /\ streams' = [streams EXCEPT ![w.id] = None]
        /\ Reply(Cell("END", w.id, None))
        /\ UNCHANGED <<client, broken, loop, begin, task, queue, read, written,
                       faults>>

\* The connection to the previous hop is at its end.
LoopEnds ==
    /\ loop
    /\ begin = None
    /\ broken
    /\ loop' = FALSE
    /\ UNCHANGED <<client, fwd, bwd, broken, begin, streams, task, queue, read,
                   written, faults>>

-----------------------------------------------------------------------------
(* The task of one stream: spawn_stream_tasks.                             *)

\* The task ends, and its queue with it.
Ends(c, label) ==
    /\ task' = [task EXCEPT ![c] = label]
    /\ queue' = [queue EXCEPT ![c] = <<>>]

\* A piece from the queue; when the destination does not take it the task
\* ends without a word.
TaskWrites(c) ==
    /\ task[c] = "run"
    /\ queue[c] # <<>>
    /\ \/ /\ queue' = [queue EXCEPT ![c] = Tail(@)]
          /\ written' = [written EXCEPT ![c] = Append(@, Head(queue[c]))]
          /\ UNCHANGED <<task, faults>>
       \/ Ends(c, "failed") /\ Fault /\ written' = written
    /\ UNCHANGED <<client, fwd, bwd, broken, loop, begin, streams, read>>

\* Mutant: the task stops as soon as the stream is dropped.
HangsUpAtOnce(c) == \A i \in Id : streams[i] # c

\* The queue is drained, and its sender dropped.
HangsUp(c) == queue[c] = <<>> /\ \A i \in Id : streams[i] # c

TaskDrained(c) ==
    /\ task[c] = "run"
    /\ HangsUp(c)
    /\ Ends(c, "drained")
    /\ UNCHANGED <<client, fwd, bwd, broken, loop, begin, streams, read, written,
                   faults>>

\* A piece from the destination.
TaskReads(c) ==
    /\ task[c] = "run"
    /\ read[c] < MaxDown[c]
    /\ read' = [read EXCEPT ![c] = @ + 1]
    /\ Reply(Cell("DATA", sid[c], <<c, read[c] + 1>>))
    /\ \/ UNCHANGED <<task, queue>>
       \/ broken /\ Ends(c, "failed")
    /\ UNCHANGED <<client, fwd, broken, loop, begin, streams, written, faults>>

\* Mutant: nothing is sent when the destination closes.
EndSilent(c) == bwd

EndOf(c) == Put(bwd, Cell("END", sid[c], None))

\* The destination closes, or reading from it fails.
TaskEof(c) ==
    /\ task[c] = "run"
    /\ bwd' = EndOf(c)
    /\ Ends(c, "eof")
    /\ UNCHANGED <<client, fwd, broken, loop, begin, streams, read, written,
                   faults>>

-----------------------------------------------------------------------------
Break ==
    /\ ~broken
    /\ Fault
    /\ broken' = TRUE
    /\ UNCHANGED <<client, fwd, bwd, exit>>

ClientStep(c) ==
    Answered(c) \/ ChannelClosed(c) \/ Receive(c) \/ Cleanup(c)

ExitStep ==
    HandleBegin \/ Connected \/ Refused \/ HandleData \/ HandleEnd \/ LoopEnds

Progress ==
    \/ \E c \in Conn : ClientStep(c) \/ TaskWrites(c) \/ TaskDrained(c)
    \/ Deliver
    \/ broken /\ ReaderEnds
    \/ ExitStep

Next ==
    \/ Progress
    \/ \E c \in Conn : Open(c) \/ SendData(c) \/ Close(c) \/ Timeout(c)
    \/ \E c \in Conn : TaskReads(c) \/ TaskEof(c)
    \/ ReaderEnds
    \/ Break

Spec == Init /\ [][Next]_vars

\* Every ready task runs on, and a destination is connected to or refused in
\* the end.  Each step uses something up, so it is enough that some of them is
\* taken as long as there are any.  Nothing is assumed of what the SOCKS
\* clients and the destinations send, nor of the client's timers.
Fairness == WF_vars(Progress)

FairSpec == Spec /\ Fairness

-----------------------------------------------------------------------------
(* Properties.                                                             *)

IsCell(w) ==
    /\ w.cmd \in {"BEGIN", "CONNECTED", "DATA", "END"}
    /\ w.id \in Id
    /\ w.data \in Conn \cup Piece \cup {None}

Cells(s) == \A i \in DOMAIN s : IsCell(s[i])

TypeOK ==
    /\ nextId \in Id
    /\ senders \in [Id -> Conn \cup {None}]
    /\ cpc \in [Conn -> {"new", "waiting", "streaming", "leaving",
                         "done", "gone"}]
    /\ sid \in [Conn -> Id \cup {None}]
    /\ Cells(fwd) /\ Cells(bwd) /\ \A c \in Conn : Cells(rx[c])
    /\ sent \in [Conn -> Nat]
    /\ \A c \in Conn : got[c] \in Seq(Piece) /\ written[c] \in Seq(Piece)
    /\ heardEnd \in [Conn -> BOOLEAN]
    /\ begin # None => IsCell(begin) /\ begin.data \in Conn
    /\ streams \in [Id -> Conn \cup {None}]
    /\ task \in [Conn -> {"none", "run", "drained", "eof", "failed"}]
    /\ \A c \in Conn : queue[c] \in Seq(Piece)
    /\ read \in [Conn -> Nat]
    /\ {reader, broken, loop} \subseteq BOOLEAN
    /\ faults \in 0 .. MaxFaults

Pieces(n) == [c \in Conn |-> [i \in 1 .. n[c] |-> <<c, i>>]]

\* From the SOCKS client to its destination: a task that ends because its
\* stream was dropped has written all that the client had sent; any other end
\* aborts the connection.
Upload == INSTANCE ByteStreams WITH
    sent <- Pieces(sent), got <- written,
    state <- [c \in Conn |-> CASE task[c] \in {"none", "run"} -> "open"
                               [] task[c] = "drained" -> "finished"
                               [] OTHER -> "aborted"]

\* From the destination to the SOCKS client: a connection that has seen END
\* has got all that the exit had read.
Download == INSTANCE ByteStreams WITH
    sent <- Pieces(read), got <- got,
    state <- [c \in Conn |->
                CASE cpc[c] = "new" \/ Listens(c) -> "open"
                  [] heardEnd[c] -> "finished"
                  [] OTHER -> "aborted"]

UploadIsByteStream == Upload!Spec
DownloadIsByteStream == Download!Spec

\* exit.rs: what a stream holds at the exit, its entry and its task with the
\* connection, is released once the client has finished with it, also when the
\* client gave up before the exit had connected.
ExitForgets ==
    []<>(\A c \in Conn :
            cpc[c] = "done" /\ ~broken =>
                task[c] # "run" /\ \A i \in Id : streams[i] # c)

\* A destination that closes is reported to the SOCKS client that it serves,
\* even when the circuit fails before its END arrives.
CloseIsReported ==
    []<>(\A c \in Conn :
            task[c] = "eof" => cpc[c] # "streaming")

\* The exit serves the cells of all streams one by one, and waits for each
\* destination in between: still every BEGIN is answered while the circuit
\* stands, or the client is told of the circuit's end, without any timer.
BeginIsAnswered ==
    []<>(reader => \A c \in Conn : cpc[c] # "waiting")

=============================================================================
