----------------------------- MODULE CircuitBuild -----------------------------
(***************************************************************************)
(* Circuits under construction: clients that telescope CREATE and EXTEND   *)
(* handshakes hop by hop, over relays that serve several circuits at once. *)
(*                                                                         *)
(* Hop <<b, k>> is the k-th relay of build b, and also names the           *)
(* connection that leads to it.  A relay runs one loop per connection, one *)
(* reader per connection it has opened itself, and keeps the handlers of   *)
(* its circuits in a registry, under one lock, by circuit id.  A handler   *)
(* is named by the hop whose CREATE made it; so is the key that client and *)
(* handler share, for ntor either agrees on a key or fails at the client.  *)
(*                                                                         *)
(* As in OnionPath a cipher is a position in a keystream, and what was     *)
(* XORed an odd number of times is a layer on the payload.  Every          *)
(* handshake payload moves the positions by the same amount, here one.     *)
(***************************************************************************)
EXTENDS Naturals, Sequences, FiniteSets

CONSTANTS
    Build,      \* attempts to build a circuit
    Relay,
    Path,       \* the relays of each build
    CircuitId,  \* its circuit id: its client's next_circuit_id
    None,
    MaxFaults   \* bound: connections that fail, break or hang

ASSUME PathAssumption ==
    \A b \in Build : /\ Path[b] \in Seq(Relay)
                     /\ Len(Path[b]) >= 3
                     /\ \A i, j \in DOMAIN Path[b] :
                           Path[b][i] = Path[b][j] => i = j

Hop == UNION {{<<b, k>> : k \in DOMAIN Path[b]} : b \in Build}
Id == {CircuitId[b] : b \in Build}

ASSUME NoneAssumption == None \notin Hop /\ MaxFaults \in Nat

VARIABLES
    cpc,       \* where each build is
    hops,      \* hops the client shares a key with
    cf, cb,    \* client: forward and backward position of each hop's cipher
    down,      \* cells on each connection towards the exit
    up,        \* cells on each connection towards the client
    loop,      \* where the relay's loop of each connection is
    reader,    \* the relay's reader of the connection to the next hop
    next,      \* the handler of this hop has a next hop
    fpos,      \* forward position of its cipher
    bpos,      \* backward position
    circuits,  \* registry: the handler each relay keeps for a circuit id
    lock,      \* the loop that holds the lock across an EXTEND
    broken,    \* connections that broke
    hung,      \* connections that deliver nothing any more
    faults     \* failures so far

client == <<cpc, hops, cf, cb>>
handler == <<next, fpos, bpos>>
relays == <<loop, reader, handler, circuits, lock>>
failures == <<broken, hung, faults>>
vars == <<client, down, up, relays, failures>>

First(b) == <<b, 1>>
After(l) == <<l[1], l[2] + 1>>
Before(l) == <<l[1], l[2] - 1>>
RelayOf(l) == Path[l[1]][l[2]]

\* Mutant: the id field is narrower than the client's counter.
IdOfNarrow(l) == CHOOSE i \in Id : \A j \in Id : i <= j

IdOf(l) == CircuitId[l[1]]
Handler(l) == circuits[RelayOf(l)][IdOf(l)]

Init ==
    /\ cpc = [b \in Build |-> "idle"]
    /\ hops = [b \in Build |-> 0]
    /\ cf = [l \in Hop |-> 0]
    /\ cb = [l \in Hop |-> 0]
    /\ down = [l \in Hop |-> <<>>]
    /\ up = [l \in Hop |-> <<>>]
    /\ loop = [l \in Hop |-> "none"]
    /\ reader = [l \in Hop |-> "none"]
    /\ next = [l \in Hop |-> FALSE]
    /\ fpos = [l \in Hop |-> 0]
    /\ bpos = [l \in Hop |-> 0]
    /\ circuits = [r \in Relay |-> [i \in Id |-> None]]
    /\ lock = [r \in Relay |-> None]
    /\ broken = {}
    /\ hung = {}
    /\ faults = 0

-----------------------------------------------------------------------------
(* Cells: the command, the hop the handshake is with, and the layers.      *)

Cell(cmd, l, layers) == [cmd |-> cmd, hop |-> l, layers |-> layers]
CREATE(l) == Cell("CREATE", l, {})
DESTROY == Cell("DESTROY", None, {})

Xor(S, T) == (S \ T) \cup (T \ S)

\* XOR with the keystream of hop l, at its position in pos.
Crypt(w, l, pos) == [w EXCEPT !.layers = Xor(@, {<<l, pos[l]>>})]

Bump(pos, L) == [l \in Hop |-> IF l \in L THEN pos[l] + 1 ELSE pos[l]]

\* A relay's end of the connection that it has opened to hop l stays open as
\* long as the handler, the reader, or handle_extend has a half of it.
Held(l) ==
    IF l[2] = 1 THEN cpc[l[1]] # "failed"
    ELSE LET h == Before(l)
         IN  \/ loop[h] = "await"
             \/ reader[h] = "run"
             \/ next[h] /\ Handler(h) = h

\* Mutant: the connection outlives the loop.
AnswersAfterLoop(l) ==
    reader[l] = "run" \/ (reader[l] = "none" /\ loop[l] # "none")

\* The other end: the reader shuts it down when it ends; before there is one,
\* it goes with the loop.
Answers(l) ==
    reader[l] = "run" \/ (reader[l] = "none" /\ loop[l] \notin {"none", "ended"})

\* A cell can be written to the previous hop, and to the next one, which takes
\* cells for as long as it has any task on the connection.
UpOpen(l) == Held(l) /\ l \notin broken /\ Answers(l)
DownOpen(l) ==
    /\ Held(l) /\ l \notin broken
    /\ loop[l] \notin {"none", "ended"} \/ reader[l] = "run"

\* What is written to a connection that is gone is lost.
PutUp(chan, l, w) ==
    IF UpOpen(l) THEN [chan EXCEPT ![l] = Append(@, w)] ELSE chan
PutDown(chan, l, w) ==
    IF DownOpen(l) THEN [chan EXCEPT ![l] = Append(@, w)] ELSE chan

\* Mutant: a cell is looked at and left where it is.
TakenNone(chan, l) == chan

Taken(chan, l) == [chan EXCEPT ![l] = Tail(@)]

Readable(chan, l) == chan[l] # <<>> /\ l \notin hung

\* A break may take along what is on its way.
DownEnds(l) == l \in broken \/ (~Held(l) /\ down[l] = <<>> /\ l \notin hung)
UpEnds(l) == l \in broken \/ (~Answers(l) /\ up[l] = <<>> /\ l \notin hung)

Fault == faults < MaxFaults /\ faults' = faults + 1

\* The timers are longer than anything takes that works.
Late == hung # {}

-----------------------------------------------------------------------------
(* The client: CircuitBuilder::build.                                      *)

Client(b, label) == cpc' = [cpc EXCEPT ![b] = label]

\* The hops whose ciphers the client has.
Keyed(b) == {<<b, j>> : j \in 1 .. hops[b]}

Layers(L, pos) == {<<l, pos[l]>> : l \in L}

\* handshake_create
Start(b) ==
    /\ cpc[b] = "idle"
    /\ \/ /\ Client(b, "waiting")
          /\ loop' = [loop EXCEPT ![First(b)] = "read"]
          /\ down' = [down EXCEPT ![First(b)] = <<CREATE(First(b))>>]
          /\ faults' = faults
       \/ /\ Client(b, "failed")
          /\ Fault
          /\ UNCHANGED <<loop, down>>
    /\ UNCHANGED <<hops, cf, cb, up, reader, handler, circuits, lock, broken,
                   hung>>

\* Positions after EXTENDED has been unwrapped.
Peeled(b) == IF hops[b] = 0 THEN cb ELSE Bump(cb, Keyed(b))

\* ntor succeeds, with the handshake's own hop.
Verifies(b, w) ==
    /\ w.cmd = IF hops[b] = 0 THEN "CREATED" ELSE "EXTENDED"
    /\ w.hop = <<b, hops[b] + 1>>
    /\ Xor(w.layers, Layers(Keyed(b), cb)) = {}

\* The end of handshake_create or handshake_extend, and the beginning of the
\* next one.
ClientKey(b) ==
    LET w == Head(up[First(b)])
        k == hops[b] + 1
    IN  /\ cpc[b] = "waiting"
        /\ Readable(up, First(b))
        /\ up' = Taken(up, First(b))
        /\ IF Verifies(b, w)
           THEN /\ hops' = [hops EXCEPT ![b] = k]
                /\ cb' = Peeled(b)
                /\ IF k = Len(Path[b])
                   THEN Client(b, "ready") /\ UNCHANGED <<cf, down>>
                   ELSE LET keyed == Keyed(b) \cup {<<b, k>>}
                        IN  /\ cf' = Bump(cf, keyed)
                            /\ down' = PutDown(down, First(b),
                                   Cell("EXTEND", <<b, k + 1>>,
                                        Layers(keyed, cf)))
                            /\ cpc' = cpc
           ELSE Client(b, "failed") /\ UNCHANGED <<hops, cf, cb, down>>
        /\ UNCHANGED <<relays, failures>>

ClientFails(b) ==
    /\ cpc[b] = "waiting"
    /\ Client(b, "failed")
    /\ UNCHANGED <<hops, cf, cb, down, up, relays, failures>>

ClientEof(b) == UpEnds(First(b)) /\ ClientFails(b)

\* HANDSHAKE_TIMEOUT
ClientTimeout(b) == Late /\ ClientFails(b)

-----------------------------------------------------------------------------
(* A relay's loop on connection l: handle_connection.                      *)

Loop(l, label) == loop' = [loop EXCEPT ![l] = label]

LockFree(l) == lock[RelayOf(l)] = None

Unlock(l) == lock' = [lock EXCEPT ![RelayOf(l)] = None]

\* The handler is added after CREATED has been written.
CreatedThen == "add"

\* Mutant: CREATE is answered under the registry's lock.
CreateUnderLock(l) == LockFree(l)

\* CREATE is answered without the registry's lock.
CreateMayRun(l) == TRUE

Created(l) ==
    /\ loop[l] = "read"
    /\ Readable(down, l)
    /\ Head(down[l]).cmd = "CREATE"
    /\ CreateMayRun(l)
    /\ down' = Taken(down, l)
    /\ up' = PutUp(up, l, Cell("CREATED", l, {}))
    /\ \/ Loop(l, CreatedThen)
       \/ ~UpOpen(l) /\ Loop(l, "ended")
    /\ UNCHANGED <<client, reader, handler, circuits, lock, failures>>

AddCircuit(l) ==
    /\ loop[l] = "add"
    /\ LockFree(l)
    /\ circuits' = [circuits EXCEPT ![RelayOf(l)][IdOf(l)] = l]
    /\ Loop(l, "read")
    /\ UNCHANGED <<client, down, up, reader, handler, lock, failures>>

\* EXTEND: the handler passes it on if it has a next hop, and otherwise begins
\* handle_extend, which keeps the lock.  An id that is not in the registry, and
\* a payload that is still encrypted, are errors.
Extend(l) ==
    LET g == Handler(l)
        w == Crypt(Head(down[l]), g, fpos)
        passesOn == g # None /\ next[g]
        extends == g # None /\ ~passesOn /\ w.layers = {}
        rest == Taken(down, l)
    IN  /\ loop[l] = "read"
        /\ Readable(down, l)
        /\ Head(down[l]).cmd = "EXTEND"
        /\ LockFree(l)
        /\ fpos' = Bump(fpos, {g})
        /\ down' = IF passesOn THEN PutDown(rest, After(g), w) ELSE rest
        /\ lock' = IF extends THEN [lock EXCEPT ![RelayOf(l)] = l] ELSE lock
        /\ \/ passesOn /\ loop' = loop
           \/ passesOn /\ ~DownOpen(After(g)) /\ Loop(l, "ended")
           \/ extends /\ Loop(l, "connect")
           \/ ~passesOn /\ ~extends /\ Loop(l, "ended")
        /\ UNCHANGED <<client, up, reader, next, bpos, circuits, failures>>

\* A peer that takes the connection and then says nothing keeps the loop in the
\* TLS handshake, which no timer ends.
Stalls(l) == loop[l] = "connect" /\ After(l) \in hung

Connect(l) ==
    /\ loop[l] = "connect"
    /\ ~Stalls(l)
    /\ loop' = [loop EXCEPT ![l] = "await", ![After(l)] = "read"]
    /\ down' = [down EXCEPT ![After(l)] = <<CREATE(After(l))>>]
    /\ UNCHANGED <<client, up, reader, handler, circuits, lock, failures>>

\* An error ends the loop, and with it the lock.
ExtendFails(l) ==
    /\ Loop(l, "ended")
    /\ Unlock(l)
    /\ UNCHANGED <<client, down, up, reader, handler, circuits, broken, hung>>

ConnectFails(l) ==
    /\ loop[l] = "connect"
    /\ ~Stalls(l)
    /\ Fault
    /\ ExtendFails(l)

\* The peer, or the system, ends the connection after all.
StallEnds(l) == Stalls(l) /\ ExtendFails(l) /\ faults' = faults

\* CREATED arrives: EXTENDED is written, and the reader spawned, under the lock.
ExtendDone(l) ==
    /\ loop[l] = "await"
    /\ Readable(up, After(l))
    /\ next' = [next EXCEPT ![l] = TRUE]
    /\ bpos' = Bump(bpos, {l})
    /\ up' = PutUp(Taken(up, After(l)), l,
                    Crypt(Cell("EXTENDED", After(l), {}), l, bpos))
    /\ Unlock(l)
    /\ \/ Loop(l, "read") /\ reader' = [reader EXCEPT ![l] = "run"]
       \/ ~UpOpen(l) /\ Loop(l, "ended") /\ reader' = reader
    /\ UNCHANGED <<client, down, fpos, circuits, failures>>

\* Mutant: no timeout.
GivesUpAtEnd(l) == UpEnds(After(l))

\* The connection ends, or RELAY_HANDSHAKE_TIMEOUT.
GivesUp(l) == UpEnds(After(l)) \/ Late

AwaitFails(l) ==
    /\ loop[l] = "await"
    /\ GivesUp(l)
    /\ ExtendFails(l)
    /\ faults' = faults

LoopEof(l) ==
    /\ loop[l] = "read"
    /\ DownEnds(l)
    /\ Loop(l, "ended")
    /\ UNCHANGED <<client, down, up, reader, handler, circuits, lock, failures>>

-----------------------------------------------------------------------------
(* A relay's reader of the connection to its next hop: spawn_nexthop_reader. *)

EndReader(l, chan) ==
    /\ up' = PutUp(chan, l, DESTROY)
    /\ reader' = [reader EXCEPT ![l] = "ended"]

\* EXTENDED gets another layer, by the handler that has the circuit id; DESTROY
\* has no payload, and is passed on by a middle and ends the entry's reader.
Backward(l) ==
    LET w == Head(up[After(l)])
        g == Handler(l)
        teardown == w.cmd = "DESTROY"
        rest == Taken(up, After(l))
    IN  /\ reader[l] = "run"
        /\ Readable(up, After(l))
        /\ IF teardown /\ l[2] = 1
           THEN EndReader(l, rest) /\ bpos' = bpos
           ELSE /\ LockFree(l)
                /\ bpos' = IF teardown THEN bpos ELSE Bump(bpos, {g})
                /\ \/ /\ up' = PutUp(rest, l,
                                   IF teardown THEN w ELSE Crypt(w, g, bpos))
                      /\ reader' = reader
                   \/ ~UpOpen(l) /\ EndReader(l, rest)
        /\ UNCHANGED <<client, down, loop, next, fpos, circuits, lock,
                       failures>>

ReaderEof(l) ==
    /\ reader[l] = "run"
    /\ UpEnds(After(l))
    /\ EndReader(l, up)
    /\ UNCHANGED <<client, down, loop, handler, circuits, lock, failures>>

-----------------------------------------------------------------------------
(* Connections fail.                                                       *)

\* There is a connection, or one is being made.
Exists(l) == loop[l] # "none" \/ (l[2] > 1 /\ loop[Before(l)] = "connect")

Break(l) ==
    /\ loop[l] # "none" /\ l \notin broken
    /\ Fault
    /\ broken' = broken \cup {l}
    /\ UNCHANGED <<client, down, up, relays, hung>>

Hang(l) ==
    /\ Exists(l) /\ l \notin hung
    /\ Fault
    /\ hung' = hung \cup {l}
    /\ UNCHANGED <<client, down, up, relays, broken>>

ClientStep(b) == ClientKey(b) \/ ClientEof(b)

RelayLoop(l) ==
    \/ Created(l) \/ AddCircuit(l) \/ Extend(l)
    \/ Connect(l) \/ ConnectFails(l) \/ ExtendDone(l) \/ AwaitFails(l)
    \/ LoopEof(l)

RelayReader(l) == Backward(l) \/ ReaderEof(l)

Progress ==
    \/ \E b \in Build : ClientStep(b)
    \/ \E l \in Hop : RelayLoop(l) \/ RelayReader(l)

Next ==
    \/ Progress
    \/ \E b \in Build : Start(b) \/ ClientTimeout(b)
    \/ \E l \in Hop : Break(l) \/ Hang(l) \/ StallEnds(l)

Spec == Init /\ [][Next]_vars

\* Every ready task runs on, a connection is made or refused unless it hangs,
\* and the relays' timers fire.  Every step uses something up, a cell, a task or
\* a fault, so it is enough that some of them is taken as long as there are any.
\* Nothing is assumed of the client's timer, and nothing ends a connection that
\* hangs in its TLS handshake.
Fairness == WF_vars(Progress)

FairSpec == Spec /\ Fairness

-----------------------------------------------------------------------------
(* Properties.                                                             *)

IsCell(w) ==
    /\ w.cmd \in {"CREATE", "CREATED", "EXTEND", "EXTENDED", "DESTROY"}
    /\ w.hop \in Hop \cup {None}
    /\ w.layers \subseteq Hop \X Nat

TypeOK ==
    /\ cpc \in [Build -> {"idle", "waiting", "ready", "failed"}]
    /\ hops \in [Build -> Nat]
    /\ \A pos \in {cf, cb, fpos, bpos} : pos \in [Hop -> Nat]
    /\ \A chan \in {down, up} :
        /\ DOMAIN chan = Hop
        /\ \A l \in Hop : /\ \A i \in DOMAIN chan[l] : IsCell(chan[l][i])
                          /\ Len(chan[l]) <= Len(Path[l[1]])
    /\ loop \in [Hop -> {"none", "read", "add", "connect", "await", "ended"}]
    /\ reader \in [Hop -> {"none", "run", "ended"}]
    /\ next \in [Hop -> BOOLEAN]
    /\ circuits \in [Relay -> [Id -> Hop \cup {None}]]
    /\ lock \in [Relay -> Hop \cup {None}]
    /\ broken \subseteq Hop /\ hung \subseteq Hop
    /\ faults \in 0 .. MaxFaults

\* The relay has the circuit's handler under its id, or is about to add it.
Registered(l) == Handler(l) = l \/ loop[l] = "add"

\* A circuit that the client takes for built is the one that the relays have:
\* each has its handler under the circuit's id, and the ciphers of both ends
\* stand where the handshakes of the hops beyond have left them, which is
\* where OnionPath begins.
BuiltInStep ==
    \A b \in Build : cpc[b] = "ready" =>
        \A l \in Hop : l[1] = b =>
            /\ Registered(l)
            /\ cf[l] = Len(Path[b]) - l[2] /\ fpos[l] = cf[l]
            /\ cb[l] = Len(Path[b]) - l[2] /\ bpos[l] = cb[l]

\* Relays extend circuits to each other, and each keeps its registry locked
\* until the other has answered: they never wait for each other in a circle,
\* so without failures every build completes, without any timer.
BuildsComplete ==
    []<>(faults = 0 => \A b \in Build : cpc[b] \in {"idle", "ready"})

\* The relay's registry is locked by a connection attempt that stalls.
StallsAt(r) == lock[r] # None /\ Stalls(lock[r])

\* handle_extend keeps the registry locked, and with it all circuits of the
\* relay, for a bounded time, except in one place: connecting is not under
\* RELAY_HANDSHAKE_TIMEOUT as the wait for CREATED is.
LocksAreReleased == []<>(\A r \in Relay : lock[r] = None \/ StallsAt(r))

\* What the client of hop l could hear of l is held up at hop j.
HeldUp(l, j) == <<l[1], j>> \in hung \/ StallsAt(Path[l[1]][j])

\* middle.rs: a relay that gives up returns a clean error rather than leave
\* the client to its own timer.  However far down the path, the client hears
\* of it, unless a connection on the way back hangs, or the registry of a relay
\* on the way is locked by one, of whatever circuit, that does.
GivingUpIsReported ==
    []<>(\A l \in Hop :
            loop[l] = "ended" =>
                \/ cpc[l[1]] # "waiting"
                \/ \E j \in 1 .. l[2] : HeldUp(l, j))

\* handler.rs: the registry has all circuits that the relay handles.
RegistryHasAllCircuits ==
    \A b \in Build : cpc[b] = "ready" =>
        \A l \in Hop : l[1] = b => Registered(l)

=============================================================================
