------------------------------- MODULE RelayLoad -------------------------------
(***************************************************************************)
(* Several established circuits that share relays, over connections that   *)
(* hold only so much: what OnionPath leaves out, and the converse of it.   *)
(* A cell is only the kind of work it makes; who holds which lock while it *)
(* waits for room on a connection is the subject.                          *)
(*                                                                         *)
(* Hop k of a circuit reads the cells of link k and writes to link k+1 in  *)
(* its connection loop, and for link k+1 in the other direction it has a   *)
(* reader.  A relay has one registry for all its circuits: the loop keeps  *)
(* it locked until the cell, or the answer to it, is written; the reader   *)
(* only while it encrypts.                                                 *)
(*                                                                         *)
(* A task that waits for the registry with a cell in its hands has the     *)
(* cell on the link still: a link holds one cell less than Cap says.  The  *)
(* mutex of a connection's writing half is left out, because whoever has   *)
(* it waits for the same room as who waits for it.                         *)
(***************************************************************************)
EXTENDS Naturals, Sequences

CONSTANTS
    Relay,
    Circuit,
    N,         \* hops of a circuit
    Path,      \* Path[c][k]: the relay that is hop k of circuit c
    Cap,       \* cells that a connection holds in each direction
    Script,    \* Script[c]: the cells that the client sends on circuit c
    Down,      \* Down[c]: the cells that the destinations send
    Leaver,    \* circuits whose client may leave
    Beating,   \* bound: relays whose heartbeats are followed
    MaxBeats,  \* bound: heartbeats of all relays
    None       \* nobody: the registry is not locked

\* A cell to pass on to the exit, one that the exit answers (BEGIN, END, or
\* DATA for a stream that has ended), and the keepalive.
Cell == {"data", "ask", "padding"}

Hop == 1 .. N

ASSUME LoadAssumption ==
    /\ N \in Nat \ {0, 1}
    /\ Path \in [Circuit -> [Hop -> Relay]]
    /\ Cap \in Nat \ {0}
    /\ Script \in [Circuit -> Seq(Cell)]
    /\ Down \in [Circuit -> Nat]
    /\ Leaver \subseteq Circuit
    /\ Beating \subseteq Relay
    /\ MaxBeats \in Nat
    /\ None \notin Circuit \X Hop

VARIABLES
    todo,    \* what the client still has to send on each circuit
    client,  \* "sending" has the circuit's mutex
    fwd,     \* fwd[c][k]: cells on link k towards the exit
    bwd,     \* bwd[c][k]: how many cells link k has towards the client
    lock,    \* whose connection loop has each relay's registry locked
    loop,    \* loop[c][k]: "reading", or what the loop does with the registry
    reader,  \* reader[c][k]: the reader of link k+1
    task,    \* the exit's stream tasks: "writing" has the state lock
    down,    \* what the destinations still have to send
    due,     \* the heartbeat waits for the registry
    beats    \* heartbeats that may still become due

ends == <<todo, client>>
links == <<fwd, bwd>>
relays == <<lock, loop, reader>>
sources == <<task, down>>
clock == <<due, beats>>
vars == <<ends, links, relays, sources, clock>>

Init ==
    /\ todo = Script
    /\ client = [c \in Circuit |-> "idle"]
    /\ fwd = [c \in Circuit |-> [k \in Hop |-> <<>>]]
    /\ bwd = [c \in Circuit |-> [k \in Hop |-> 0]]
    /\ lock = [r \in Relay |-> None]
    /\ loop = [c \in Circuit |-> [k \in Hop |-> "reading"]]
    /\ reader = [c \in Circuit |-> [k \in Hop |-> "reading"]]
    /\ task = [c \in Circuit |-> "reading"]
    /\ down = Down
    /\ due = [r \in Relay |-> FALSE]
    /\ beats = MaxBeats

-----------------------------------------------------------------------------
(* Connections.                                                            *)

RoomForward(c, k) == Len(fwd[c][k]) < Cap

\* Mutant: one cell more than there is room for.
RoomBackwardOneMore(c, k) == bwd[c][k] <= Cap

RoomBackward(c, k) == bwd[c][k] < Cap

\* The loop of hop k has the registry.
Busy(c, k) == loop[c][k] \notin {"reading", "ended"}

Free(c, k) == lock[Path[c][k]] = None

Acquire(c, k, work) ==
    /\ Free(c, k)
    /\ lock' = [lock EXCEPT ![Path[c][k]] = <<c, k>>]
    /\ loop' = [loop EXCEPT ![c][k] = work]

Release(c, k) ==
    /\ lock' = [lock EXCEPT ![Path[c][k]] = None]
    /\ loop' = [loop EXCEPT ![c][k] = "reading"]

-----------------------------------------------------------------------------
(* The client: send_message and the keepalive, and the circuit's reader.   *)

\* A SOCKS connection, or the keepalive, gets the circuit's mutex ...
ClientLocks(c) ==
    /\ client[c] = "idle"
    /\ todo[c] # <<>>
    /\ client' = [client EXCEPT ![c] = "sending"]
    /\ UNCHANGED <<todo, links, relays, sources, clock>>

CanSend(c) == client[c] = "sending" /\ RoomForward(c, 1)

\* ... and keeps it until the cell is written.
ClientWrites(c) ==
    /\ CanSend(c)
    /\ fwd' = [fwd EXCEPT ![c][1] = Append(@, Head(todo[c]))]
    /\ todo' = [todo EXCEPT ![c] = Tail(@)]
    /\ client' = [client EXCEPT ![c] = "idle"]
    /\ UNCHANGED <<bwd, relays, sources, clock>>

\* The reader of the circuit needs the mutex for every cell.
ClientReads(c) ==
    /\ client[c] = "idle"
    /\ bwd[c][1] > 0
    /\ bwd' = [bwd EXCEPT ![c][1] = @ - 1]
    /\ UNCHANGED <<ends, fwd, relays, sources, clock>>

\* The client goes without a word to the relays.
ClientLeaves(c) ==
    /\ c \in Leaver
    /\ client[c] # "left"
    /\ client' = [client EXCEPT ![c] = "left"]
    /\ todo' = [todo EXCEPT ![c] = <<>>]
    /\ UNCHANGED <<links, relays, sources, clock>>

-----------------------------------------------------------------------------
(* The connection loops: handle_connection.                                *)

CanTake(c, k) ==
    /\ loop[c][k] = "reading"
    /\ fwd[c][k] # <<>>
    /\ Free(c, k)

Taken(c, k) == fwd' = [fwd EXCEPT ![c][k] = Tail(@)]

LoopLocks(c, k) ==
    /\ CanTake(c, k)
    /\ Head(fwd[c][k]) # "padding"
    /\ Acquire(c, k, Head(fwd[c][k]))
    /\ Taken(c, k)
    /\ UNCHANGED <<ends, bwd, reader, sources, clock>>

\* Mutant: the handler has no case for PADDING, and its error ends the loop.
LoopDropsRejected(c, k) ==
    /\ CanTake(c, k)
    /\ Head(fwd[c][k]) = "padding"
    /\ Taken(c, k)
    /\ loop' = [loop EXCEPT ![c][k] = "ended"]
    /\ UNCHANGED <<ends, bwd, lock, reader, sources, clock>>

\* PADDING needs the registry for a moment, and ends here: Ok(None).
LoopDrops(c, k) ==
    /\ CanTake(c, k)
    /\ Head(fwd[c][k]) = "padding"
    /\ Taken(c, k)
    /\ UNCHANGED <<ends, bwd, relays, sources, clock>>

CanForward(c, k) ==
    /\ k < N
    /\ Busy(c, k)
    /\ RoomForward(c, k + 1)

\* handle_relay writes to the next hop with the registry locked.
LoopForwards(c, k) ==
    /\ CanForward(c, k)
    /\ fwd' = [fwd EXCEPT ![c][k + 1] = Append(@, loop[c][k])]
    /\ Release(c, k)
    /\ UNCHANGED <<ends, bwd, reader, sources, clock>>

\* The handler of the exit needs the circuit's state lock for every cell.
CanHandle(c) == loop[c][N] \in {"data", "ask"} /\ task[c] # "writing"

\* A piece for a destination goes into a queue without a limit.
ExitQueues(c) ==
    /\ CanHandle(c)
    /\ loop[c][N] = "data"
    /\ Release(c, N)
    /\ UNCHANGED <<ends, links, reader, sources, clock>>

ExitAnswers(c) ==
    /\ CanHandle(c)
    /\ loop[c][N] = "ask"
    /\ loop' = [loop EXCEPT ![c][N] = "answering"]
    /\ UNCHANGED <<ends, links, lock, reader, sources, clock>>

CanReply(c) == loop[c][N] = "answering" /\ RoomBackward(c, N)

\* The answer is written with the registry locked.
ExitReplies(c) ==
    /\ CanReply(c)
    /\ bwd' = [bwd EXCEPT ![c][N] = @ + 1]
    /\ Release(c, N)
    /\ UNCHANGED <<ends, fwd, reader, sources, clock>>

\* Mutant: the loop waits for the reader it has spawned.
IsLastJoined(c) == reader[c][1] = "ended"

\* The loop does not wait for the reader it has spawned.
IsLast(c) == TRUE

\* The entry reads the connection's end, or an error that hides what was still
\* on it, and the connection's permit is returned.
LoopEnds(c) ==
    /\ client[c] = "left"
    /\ loop[c][1] = "reading"
    /\ IsLast(c)
    /\ loop' = [loop EXCEPT ![c][1] = "ended"]
    /\ fwd' = [fwd EXCEPT ![c][1] = <<>>]
    /\ UNCHANGED <<ends, bwd, lock, reader, sources, clock>>

-----------------------------------------------------------------------------
(* The readers: spawn_nexthop_reader.                                      *)

\* Mutant: the guard lives until the cell is written, and longer.
LockAfterEncrypting(c, k) == [lock EXCEPT ![Path[c][k]] = <<c, k>>]

\* The guard of the registry is dropped with the block that encrypts.
LockAfterResponse(c, k) == lock

CanEncrypt(c, k) ==
    /\ k < N
    /\ reader[c][k] = "reading"
    /\ bwd[c][k + 1] > 0
    /\ Free(c, k)

\* handle_backward_message
ReaderEncrypts(c, k) ==
    /\ CanEncrypt(c, k)
    /\ bwd' = [bwd EXCEPT ![c][k + 1] = @ - 1]
    /\ reader' = [reader EXCEPT ![c][k] = "writing"]
    /\ lock' = LockAfterResponse(c, k)
    /\ UNCHANGED <<ends, fwd, loop, sources, clock>>

CanPassBack(c, k) == reader[c][k] = "writing" /\ RoomBackward(c, k)

ReaderWrites(c, k) ==
    /\ CanPassBack(c, k)
    /\ bwd' = [bwd EXCEPT ![c][k] = @ + 1]
    /\ reader' = [reader EXCEPT ![c][k] = "reading"]
    /\ UNCHANGED <<ends, fwd, lock, loop, sources, clock>>

\* The entry's reader finds that the client has left.  The writing half of
\* the connection to the next hop stays in the registry with the circuit's
\* handler, so the next hop is not told, and does not find out.
ReaderFails(c) ==
    /\ reader[c][1] = "writing"
    /\ client[c] = "left"
    /\ reader' = [reader EXCEPT ![c][1] = "ended"]
    /\ UNCHANGED <<ends, links, lock, loop, sources, clock>>

-----------------------------------------------------------------------------
(* The stream tasks of the exit, which serialize on the state lock.        *)

TaskReads(c) ==
    /\ task[c] = "reading"
    /\ down[c] > 0
    /\ down' = [down EXCEPT ![c] = @ - 1]
    /\ task' = [task EXCEPT ![c] = "writing"]
    /\ UNCHANGED <<ends, links, relays, clock>>

\* The state lock is kept until the cell is written.
TaskWrites(c) ==
    /\ task[c] = "writing"
    /\ RoomBackward(c, N)
    /\ bwd' = [bwd EXCEPT ![c][N] = @ + 1]
    /\ task' = [task EXCEPT ![c] = "reading"]
    /\ UNCHANGED <<ends, fwd, relays, down, clock>>

-----------------------------------------------------------------------------
(* heartbeat_loop, and the relay's dashboard in the same way.              *)

HeartbeatDue(r) ==
    /\ r \in Beating
    /\ ~due[r] /\ beats > 0
    /\ due' = [due EXCEPT ![r] = TRUE]
    /\ beats' = beats - 1
    /\ UNCHANGED <<ends, links, relays, sources>>

\* build_metrics locks the registry to count its circuits.
HeartbeatSends(r) ==
    /\ due[r]
    /\ lock[r] = None
    /\ due' = [due EXCEPT ![r] = FALSE]
    /\ UNCHANGED <<ends, links, relays, sources, beats>>

-----------------------------------------------------------------------------
Client(c) == ClientLocks(c) \/ ClientWrites(c) \/ ClientReads(c)

Loop(c, k) == LoopLocks(c, k) \/ LoopDrops(c, k) \/ LoopForwards(c, k)

Exit(c) == ExitQueues(c) \/ ExitAnswers(c) \/ ExitReplies(c)

Reader(c, k) == ReaderEncrypts(c, k) \/ ReaderWrites(c, k)

Progress ==
    \/ \E c \in Circuit :
        \/ Client(c) \/ Exit(c) \/ LoopEnds(c) \/ ReaderFails(c)
        \/ TaskReads(c) \/ TaskWrites(c)
        \/ \E k \in Hop : Loop(c, k) \/ Reader(c, k)
    \/ \E r \in Relay : HeartbeatSends(r)

Next ==
    \/ Progress
    \/ \E c \in Circuit : ClientLeaves(c)
    \/ \E r \in Relay : HeartbeatDue(r)

Spec == Init /\ [][Next]_vars

\* Ready tasks run on, and tokio's mutex is a queue.  Each step uses something
\* up, so it is enough that some of them is taken as long as there are any.
\* Nobody has to leave, and no interval has to end.
FairSpec == Spec /\ WF_vars(Progress)

-----------------------------------------------------------------------------
(* Properties.                                                             *)

TypeOK ==
    /\ todo \in [Circuit -> Seq(Cell)]
    /\ client \in [Circuit -> {"idle", "sending", "left"}]
    /\ fwd \in [Circuit -> [Hop -> Seq(Cell)]]
    /\ bwd \in [Circuit -> [Hop -> 0 .. Cap]]
    /\ lock \in [Relay -> (Circuit \X Hop) \cup {None}]
    /\ loop \in [Circuit -> [Hop -> {"reading", "data", "ask", "answering",
                                     "ended"}]]
    /\ reader \in [Circuit -> [Hop -> {"reading", "writing", "ended"}]]
    /\ task \in [Circuit -> {"reading", "writing"}]
    /\ down \in [Circuit -> Nat]
    /\ due \in [Relay -> BOOLEAN]
    /\ beats \in Nat

\* Somebody still has a cell for the exit.
Pending ==
    \E c \in Circuit :
        \/ todo[c] # <<>>
        \/ \E k \in Hop : Busy(c, k) \/ fwd[c][k] # <<>>

\* Somebody can do something about it.
CanProceed ==
    \E c \in Circuit :
        \/ client[c] = "idle" /\ todo[c] # <<>>
        \/ CanSend(c) \/ CanHandle(c) \/ CanReply(c)
        \/ task[c] = "writing" /\ RoomBackward(c, N)
        \/ client[c] = "idle" /\ bwd[c][1] > 0
        \/ \E k \in Hop : \/ CanTake(c, k) \/ CanForward(c, k)
                          \/ CanEncrypt(c, k) \/ CanPassBack(c, k)

\* main.rs: whoever waits for room on a connection keeps the registry of its
\* relay, "to avoid deadlocks on bidirectional I/O" connections have two tasks,
\* and circuits cross the relays in any order that the directory draws: there is
\* always somebody who can go on.
NeverStuck == Pending => CanProceed

\* The loop of hop k keeps its relay's registry until the next link has room.
Blocked(c, k) == k < N /\ Busy(c, k) /\ ~RoomForward(c, k + 1)

\* Relays each of which has its registry locked by a loop that waits for room on
\* the way to another one of them.
Circle ==
    \E L \in SUBSET {r \in Relay : lock[r] # None} :
        /\ L # {}
        /\ \A r \in L : \E c \in Circuit, k \in Hop :
               Blocked(c, k) /\ Path[c][k] = r /\ Path[c][k + 1] \in L

\* main.rs: circuits that cross two middles in opposite order can lock them in a
\* circle.  As long as cells go one way on each circuit nothing else stops them:
\* not the readers, which need the same registries, not the exit's state lock,
\* and not the client's mutex.
StuckOnlyInCircle == Pending /\ ~CanProceed => Circle

\* All that the client and the destinations have to send gets there, unless
\* the client leaves.
Arrived(c) ==
    /\ todo[c] = <<>> /\ down[c] = 0 /\ task[c] = "reading"
    /\ \A k \in Hop : /\ fwd[c][k] = <<>> /\ bwd[c][k] = 0
                      /\ loop[c][k] = "reading" /\ reader[c][k] = "reading"

\* main.rs: a cell is written under the registry's lock, and other circuits'
\* cells wait for it: all of them arrive, unless the registries are locked in a
\* circle.
CellsArrive ==
    <>((\A c \in Circuit : client[c] = "left" \/ Arrived(c)) \/ Circle)

\* main.rs: however often the registry is locked for cells, a relay's heartbeat
\* goes out in the end, unless the registries are locked in a circle.  It says
\* nothing of how late: for the directory, which takes a relay for dead after a
\* while, that is what counts (there is no clock here, and no circuit is built).
HeartbeatsGoOut == []<>((\A r \in Relay : ~due[r]) \/ Circle)

\* main.rs: accept_connections has a limited number of permits.  The entry gets
\* that of a client that has left back, whatever its own reader still waits
\* for, unless the registries are locked in a circle.
PermitIsReturned ==
    []<>(\/ \A c \in Circuit : client[c] = "left" => loop[c][1] = "ended"
         \/ Circle)

=============================================================================
