# mini-tor in TLA+

mini-tor is an onion-routing network in Rust: a SOCKS5 client that builds
circuits over relays, the relays, and a directory service. These modules model
its concurrent and distributed core, TLC checks them on small instances, and
TLAPS proves the central theorems for every value of the constants. Paths below
are relative to `src/services/`.

- [The system](#the-system): parts, state, operations, what is hard
- [The modules](#the-modules) and how they correspond to the code
- [The runs](#the-runs): what TLC checks, within which bounds
- [Fairness](#fairness)
- [The proofs](#the-proofs)
- [Findings](#findings)
- [What is not modelled](#what-is-not-modelled) and the [plan](#plan)

## The system

| Part | State | Operations | Talks to |
|---|---|---|---|
| SOCKS connection (`tor-client/.../stream.rs`, `socks_proxy.rs`) | its circuit, stream id, channel of cells | BEGIN, wait for CONNECTED (30 s), copy both ways, END, replace a circuit found closed | pool, circuit |
| Circuit at the client (`circuit.rs`, `crypto_engine.rs`) | one cipher pair and two running digests for all hops, stream table, id counter, state | onion-encrypt and send; a reader that decrypts, verifies and sorts cells by stream | entry relay by TLS |
| Circuit builder (`circuit.rs`, `crypto.rs`) | descriptors, ephemeral secret, keys so far | CREATE, then EXTEND hop by hop (60 s each), ntor with each hop | directory, entry relay |
| Relay process (`relay-node/src/main.rs`) | a key pair and a certificate of its own, one type, permits for connections | draws both, registers, binds, accepts up to `max_concurrent` connections, heartbeats | directory |
| Circuit pool and monitor (`circuit.rs`) | circuits, ages, failure counts, abandoned slots | select, replace, expire, clean up, rebuild | directory, builder |
| Relay connection loop (`relay-node/src/main.rs`) | one task per connection | CREATE without the registry's lock, everything else under it | previous hop |
| Circuit registry (`handler.rs`) | handler per circuit id, one lock per relay | add, look up, dispatch | loops, readers |
| Entry and middle handlers (`entry.rs`, `middle.rs`) | cipher pair, connection to the next hop | handle_extend, relay forward; a reader per next hop relays backward | next hop |
| Exit handler (`exit.rs`) | cipher and digests behind a state lock, stream table | BEGIN, DATA, END; a task per destination | destinations |
| Directory (`discovery/`) | nodes with their last heartbeat | register, unregister, heartbeat, path selection, cleanup task | relays, clients |

How they interact: a client asks the directory for a path, connects to the
entry, and telescopes a circuit through it. On the built circuit every cell
towards the exit is encrypted for all hops and peeled one layer a hop, every
cell towards the client gains one. The running digests make each end check that
it sees all cells of a direction, in order. Streams share a circuit and are
told apart by a 16-bit id. When a connection ends, each relay's reader behind
it passes a DESTROY back and closes its own, so that the client's reader ends,
the circuit becomes Closed, and a connection or the monitor replaces it.

What is hard here, and what the properties are about (`hazards` in
`PROJECT.json` has each at its line):

- *Order.* AES-CTR positions and digests are advanced by every cell of every
  stream, by client, relays and exit, under different locks. One cell twice,
  missing, early or at the wrong hop breaks all later ones.
- *Decisions carried out later.* The pool, each circuit, each relay's registry
  and the exit's crypto state have locks of their own, and what is read under
  one is used under another.
- *Locks held across the network.* `handle_extend` keeps a whole relay's
  registry locked until another relay has answered, the connect and the TLS
  handshake before that without any timeout, and every cell keeps it locked
  until there is room on the connection that it is written to. Clients draw their
  middles in any order, so relays may wait for each other in a circle.
- *Bytes and names that outlive what they name.* Payloads with a random byte
  where a separator is looked for; descriptors of a process that has gone;
  circuit ids that two clients share; keys that must differ on every hop.
- *Failures part of the way.* Broken links, refused and silent peers, builds and
  writes that fail after half of a step's effects, relays that crash and come
  back at the same address with another key.
- *Timers against late answers.* CONNECTED, CREATED and EXTENDED after the one
  who waited has given up; heartbeats against the stale timeout.

## The modules

Each module is a component's own specification; `MC*.tla` gives constants their
values, `*Proofs.tla` has the theorems. `map` in `PROJECT.json` has the source lines of every definition.

### OnionPath: cells on an established circuit

One circuit of `N` hops, both directions. A cipher is a position in a keystream;
a cell carries, per hop, the set of positions it has been XORed with an odd
number of times; a digest is the history it hashes. That is what makes CTR mode
fragile and nothing else of it: two ciphers cancel exactly when their positions
are equal, and an empty payload moves no position. A link is a log and a read
counter, may break, and then loses any suffix.

| Action | Code |
|---|---|
| `ClientSend` | `Circuit::send_message`, under the circuit's mutex |
| `RelayForward`, `ForwardEof` | a relay's `handle_connection` loop with `handle_relay` |
| `ExitReceive` | the first half of `handle_begin/data/end`: decrypt and verify under the state lock |
| `ExitConnected`, `ExitSend` | CONNECTED, and a stream task's DATA or END: sealed and written under the lock |
| `ExitSealReply`, then `ExitWriteReply` | END responses: sealed under the lock, written by the loop after its release |
| `RelayBackward`, `BackwardEof` | `spawn_nexthop_reader` with `handle_backward_relay` |
| `ClientReceive`, `ClientEof` | `spawn_circuit_reader` |
| `Break` | a connection or a process at its end fails |

`OnionChannel` is the abstract specification of one direction: what comes out is
what went in, in order, each once, until the receiving end closes. OnionPath
implements it twice, forward (`ForwardIsChannel`) and backward
(`BackwardIsChannel`).

### CircuitBuild: circuits under construction

Several builds at once over shared relays. A hop `<<b, k>>` also names the
connection that leads to it. The registry lock is `lock` while `handle_extend`
keeps it (`Connect`, `ExtendDone`, `AwaitFails`); shorter holds are one step.
`Created` answers before `AddCircuit` registers the handler, in that order as
in the code. The registry is keyed by the client's circuit id alone, as in
`CircuitRegistry`. Connections are refused, break or hang (`Fault`); both sides'
timers fire only when something hangs.

A hop that hangs before the connection to it is up is another matter: the relay's
timer covers only the wait for CREATED (`entry.rs:153`, `middle.rs:146`), not
`TcpStream::connect` and the TLS handshake before it (`entry.rs:139-151`,
`middle.rs:132-143`). The relay then stays there with its registry locked
(`Stalls`) until the connection breaks, and nothing says that it ever does
(`StallEnds`, without fairness). With it wait all builds that need that registry
(`HeldUp`), and `LocksAreReleased` and `GivingUpIsReported` except those; the
client itself is not held up, its own timer runs. `middle.rs:17-20` means the
relay's 50 s to end before the client's 60 s, so that the client hears why: that is
so for the wait for CREATED only.

`BuiltInStep` ends where OnionPath begins: `FBase` and `BBase` there are what
the handshakes leave.

### Handshake, with Ntor and Cells: keys and bytes

CircuitBuild takes for granted that a hop's two ends come to share a key. Here
that is the subject, and locks, timers and keystream positions are left out.
`Ntor` writes each result as the expression that computed it, with one equation
for X25519, so that two keys are equal exactly if both ends put the same things
into the same transcript. `Cells` is the wire format with one place for each
header field, truncation and random padding included. `Handshake` has relays
that draw a key and a certificate whenever they start, register them and only
then bind (`Register`, `Bind`, `Crash`), the conversions of descriptors that
`Received` goes through twice, and clients that connect only to the certificate
in the descriptor (`Accepts`, which is `FingerprintVerifier`). EXTEND's payload
is put together by `ExtendPayload` and taken apart by `ParseExtend`, a payload
under keystreams being the payload and the set of keys.

| Action | Code |
|---|---|
| `Register`, `Bind`, `Crash` | the start of a relay's `main`, and its end |
| `Query`, `Connect` | `get_random_path`; `build` up to the first half of `handshake_create` |
| `ClientKey`, `ClientFails` | the answer in `handshake_create` or `handshake_extend`, with the next EXTEND; the connection's end |
| `Create` | `handle_create` of any relay |
| `Extend`, `ExtendDone`, `Backward` | `handle_message` with EXTEND and `handle_extend`; its end when CREATED is there; `handle_backward_relay` |

### CircuitPool: the pool, its monitor and the connections

Tasks are program counters (`cpc` of each connection, `mpc` of the monitor), a
step is what happens under one lock. `MonitorExpire`, `MonitorBuild`,
`MonitorSeeDirty`, `MonitorSeeIdle`, `MonitorRemove`, `MonitorSeeFailed`,
`MonitorCheck`, `MonitorReplace` follow the round of `spawn_circuit_monitor`;
`SelectReady` to `Replace` follow `handle_connection` and `handle_stream`. A
build under the pool's mutex is one step that succeeds or fails.

### Streams: connections sharing a circuit

The client's stream table, the reader's sorting of cells, the exit's handler,
its stream table and the task of each destination, between two channels that
are what OnionPath shows a circuit to be (in the exit's sealing order; another
order on the wire shows up as the channel's failure). A connection also names
its destination and the exit's task. `HandleBegin` makes the handler wait until
`Connected` or `Refused`; `TaskWrites`, `TaskReads`, `TaskDrained`, `TaskEof`
are the arms of the task's `select!`; `Cleanup` is `cleanup_stream`, and the
label `gone` is a connection that returned without it.

`ByteStreams` is the abstract specification: per connection an ordered byte
stream that either finishes after all of its bytes or is aborted. Streams
implements it for both directions (`UploadIsByteStream`,
`DownloadIsByteStream`).

### RelayLoad: established circuits that share relays

Where OnionPath asks what becomes of a cell, RelayLoad asks who waits for whom.
A connection holds `Cap` cells a direction, a relay has one registry lock, and a
cell is only the kind of work that it makes: passed on, answered by the exit, or
the keepalive.

| Action | Code |
|---|---|
| `ClientLocks`, `ClientWrites`, `ClientReads` | `send_message` and the keepalive, and the circuit's reader, which share a mutex |
| `LoopLocks`, `LoopForwards`, `LoopDrops` | `handle_connection`: the registry is locked until the cell is written; PADDING goes no further |
| `ExitQueues`, `ExitAnswers`, `ExitReplies` | the exit's handler, for which the circuit's state lock must be free, and its answers |
| `ReaderEncrypts`, `ReaderWrites` | `spawn_nexthop_reader`: the registry only while it encrypts |
| `TaskReads`, `TaskWrites` | the exit's stream tasks, which keep the state lock until the cell is written |
| `HeartbeatDue`, `HeartbeatSends` | `heartbeat_loop`, whose metrics are collected under the registry's lock |
| `ClientLeaves`, `LoopEnds`, `ReaderFails` | a client that goes without a word, and what its entry notices |

A loop that waits for room on the way to the next relay keeps its own relay's
registry locked, and the next relay needs its registry to make room. Two circuits of
four hops may cross two middles in opposite order (`registry.rs` shuffles the
candidates and only the types of the ends are fixed), and then each of the middles
can wait for the other: `Circle` is a set of relays that wait for each other in that
way, and the properties say what it alone can prevent. There is no clock in
RelayLoad and no circuit is built, so `HeartbeatsGoOut` does not say how late a
heartbeat is: the registry is also held while the exit connects to a destination
(`exit.rs:144`, without a timeout) and while a relay extends, and nothing compares
that with the directory's 120 s.

When a client leaves, its entry's loop ends and gives its permit back. That is
all: the handler in the entry's registry still has the writing half of the
connection to the middle (`NextHop`), nothing removes it
(`CircuitRegistry::remove_circuit` is never called), and so the middle and the
exit go on reading connections on which nothing will ever come.

### Directory: registration, heartbeats, cleanup, path selection

Relays with an address, IP, operator and type, a restarted relay being another
process with a new id, perhaps at the old address. Time is explicit: timers
count ticks, and `Tick` waits for whatever is `Latency` late. `PathsOf` is
`get_random_path` as the set of its possible answers; it compares each pick only
with the picks before it, the exit first, and needs enough candidates for the
slots that are left.

### How they compose

The guarantee of one is the assumption of the next. `PathsAreDiverse` gives the
distinct relays that `PathAssumption` of CircuitBuild asks for, `OnlyFreshNodes`
bounds how long a descriptor in Handshake can be stale. `KeysAgree` is what
CircuitBuild leaves out of ntor: a hop that it counts as keyed has the client's
key, and `RefusedOnlyIfStale` is why it has no other failures than connections
and timers. `KeysAreSeparate` lets OnionPath treat each hop's keystreams as its
own, in each direction. `BuiltInStep` gives OnionPath's initial state. OnionPath's
two channels are the channels of Streams. `TeardownReachesClient` is why
CircuitPool may let a broken circuit's reader end. OnionPath has links without a
limit and one circuit: what limits and other circuits change is RelayLoad, whose
`CellsArrive` is OnionPath's delivery under them, as far as no relays wait for each
other in a circle. CircuitPool takes a build for a step that ends.

## The runs

| Run | Instance | Shows |
|---|---|---|
| `onion_path` | 4 hops, 2 cells forward, 3 backward, a full and an empty cell, 1 break | `ForwardIntegrity`, `Layering`, `BackwardIntegrity`, `MismatchOnlyByOvertaking`; both directions implement `OnionChannel`; `TeardownReachesClient`, `ForwardDelivery`, `BackwardDelivery` |
| `onion_path_reorder` | the same with 3 hops | a finding: `NoBackwardMismatch` fails |
| `handshake` | 2 builds over 3 relays, which start 2, 2 and 1 times; zero bytes in the key or padding of one middle and one exit | `KeysAgree`, `KeysAreSeparate`, `RefusedOnlyIfStale` |
| `circuit_build` | 2 builds of 4 hops that pass the middles in opposite order, 1 fault | `BuiltInStep`; `BuildsComplete`, and, but for a relay whose next hop hangs before the connection is up, `LocksAreReleased` and `GivingUpIsReported` |
| `circuit_build_ids` | the same, two clients with the same id, no fault | a finding: `RegistryHasAllCircuits` fails |
| `relay_load` | 2 circuits of 4 hops that pass the middles in opposite order, connections of 1 cell; one sends the keepalive and two cells that are answered and receives 1 besides, the other sends 2; the first client may leave, a middle's heartbeat comes due once | `StuckOnlyInCircle`; `CellsArrive`, `HeartbeatsGoOut`, `PermitIsReturned`, each unless relays wait in a circle, which this run reaches |
| `relay_load_opposed` | the same paths, 2 cells sent on each, none back | a finding: `NeverStuck` fails |
| `relay_load_duplex` | 1 circuit of 3 hops, 6 cells each way | a finding: `CellsArrive` fails |
| `pool` | 2 connections, 2 circuits, 1 failed build, 1 event | `CapacityKept`; `ClosedIsReplaced`, `DirtyIsRetired`, `OpeningSettles` |
| `pool_orphan` | 1 connection | a finding: `OrphansDoNotPinCircuits` fails |
| `streams` | 2 connections, one uploads 2 pieces, the other's destination sends 1, 1 fault | both directions implement `ByteStreams`; `ExitForgets`, `CloseIsReported`, `BeginIsAnswered` |
| `directory` | 5 relays, one at another's address, two of an operator, two on an exempt IP, 1 fault | `OneNodePerAddress`, `OnlyFreshNodes`, `RunningStaysRegistered`, `PathsAreDiverse` |

Each run also checks its module's `TypeOK`, and every property is known to fail
for some plausible slip in the code (`mutants`).

Why these bounds: the interesting cases need two of something that race, one
failure, and a position past the first cell. Two cells of different length on
several hops separate a cipher that is off by a cell, by a hop or by an empty
payload; three backward cells are CONNECTED, a sealed reply and the task that
overtakes it; four hops have two middles, so that a relay with relays on both
sides is behind a relay of its kind and has to pass its DESTROY on; two builds in
opposite order are the smallest circle of locks; two circuits are needed for one
to leave the pool while the other carries it, and for one to hold the lock that
the other's reader waits for. A connection of one cell is the fullest there is:
with two cells each, both of two circuits in opposite order have one on the
connection between the middles and one that waits for room on it, which is what it
takes to close a circle. Heartbeats come due at one relay of it (`Beating`), and one client
is enough to leave (`Leaver`). Two starts of a relay are a descriptor and its successor; the exit
starts once, as it differs from a middle in that matter by nothing but its place.
`MAX_PAYLOAD_SIZE` is 8, so that the longest EXTEND, an address, two
separators, a key of two bytes and a fingerprint, leaves padding to be mistaken
for it. `MaxFaults`, `MaxBreaks`, `MaxEvents` and `MaxFailures` count failures,
and most hazards here need one; the theorems below do not depend on any of the
bounds. Deadlock checking is off because all of these systems may come to rest:
senders stop, builds end, bounds are reached; where coming to rest would be wrong
a property says so (`StuckOnlyInCircle`, `BuildsComplete`, `CellsArrive`).

## Fairness

- OnionPath, CircuitBuild, RelayLoad, Streams: weak fairness of `Progress`, the
  disjunction of what ready tasks do: Tokio polls every task that is ready, and
  a TLS connection that is up delivers. Every such step uses up a cell, a task
  or a fault, so there are finitely many, and weak fairness of the disjunction
  means that all are taken. None for what clients and destinations send, for
  clients that leave, nor for failures; the client's timers are left out of it:
  the properties hold even if no SOCKS client is ever timed out. None either for
  the end of a connect or TLS handshake that hangs: no timer ends it.
- CircuitPool: weak fairness of the monitor and of each task that can run;
  strong fairness of `Replace`, since Tokio's mutex is a FIFO queue: a task
  that waits for the pool gets it although the monitor takes it again and again.
  That a build under the pool's mutex ends is assumed: the client's connect to the
  entry (`circuit.rs:145`) has no timeout of its own.
- Directory and Handshake have none: what they promise is safety. Directory's
  clock waits for what is due, which bounds delays without fairness.

## The proofs

The `*Proofs` modules prove, with the assumptions named in the modules and
nothing else:

| Theorem | States |
|---|---|
| `OnionPathProofs!TypeCorrect` | `Spec => []TypeOK` |
| `ForwardIntegrityHolds` | the exit accepts exactly a prefix of what the client sent and never finds a mismatch |
| `LayeringHolds` | every cell on link h carries exactly the layers of hops h to N-1, at the positions that will peel them |
| `BackwardIntegrityHolds` | the client accepts a prefix of what the exit sealed |
| `MismatchOnlyByOvertakingHolds` | a backward mismatch comes only after a cell overtook a waiting END |
| `NothingIsMissingAtRest` | where nobody can take a step, the client has closed the circuit, or all links are up and all that was sent was handed over, both ways |
| `ForwardRefinesChannel`, `BackwardRefinesChannel` | the circuit implements `OnionChannel` in both directions |
| `DirectoryProofs!TypeCorrect` | `Spec => []TypeOK` |
| `OneNodePerAddressHolds`, `OnlyFreshNodesHolds`, `RunningStaysRegisteredHolds`, `PathsAreDiverseHolds` | the four properties of the `directory` run |
| `CircuitPoolProofs!TypeCorrect` | `Spec => []TypeOK` |
| `CapacityKeptHolds` | `CapacityKept`, for any connections, pool size and bounds |
| `RoundIsThorough` | each closed circuit that a round of the monitor finds in the pool, and each expired one that it finds without streams, has left the pool for good before the round ends |
| `CircuitBuildProofs!TypeCorrect` | `Spec => []TypeOK`, no channel ever holds more cells than the path has hops, under `DistinctIds` |
| `CircuitBuildProofs!BuiltInStepHolds` | `BuiltInStep`, for any builds, paths and failures, if no relay is given one circuit id twice (`DistinctIds`) |
| `CircuitBuildRestProofs!SettledAtRest` | where no task can take a step, a registry is locked only by a relay whose next hop hangs before the connection is up, without failures every build that has begun is complete, and what a relay has given up its client has heard of unless a connection on the way back hangs or a relay on the way is held up by such a lock, under `DistinctIds` |
| `StreamsProofs!TypeCorrect` | `Spec => []TypeOK` |
| `UploadHolds`, `DownloadHolds` | Streams implements `ByteStreams` in both directions, for any connections and pieces, if there are no more connections than stream ids (`Enough`) |
| `StreamsSettleAtRest` | where no task can take a step, the exit holds nothing for a connection that has finished, a destination that closed has been reported, and while the circuit stands no connection waits for the answer to its BEGIN, under `Enough` |
| `RelayLoadProofs!TypeCorrect` | `Spec => []TypeOK` |
| `RegistryIsExclusiveHolds` | a registry is locked for exactly the loop that handles a cell |
| `StuckOnlyInCircleHolds` | `StuckOnlyInCircle`, for any circuits, paths, hops and buffers, if each circuit carries cells one way, keepalives aside (`OneWay`) |
| `CircleIsForever` | relays that wait for each other in a circle do so for ever, whatever the circuits carry and whoever leaves |
| `OrderedNeverStuck` | `NeverStuck` under `OneWay`, if all paths cross the relays in one order |
| `ThreeHopsNeverStuck` | `NeverStuck` under `OneWay` for paths of three hops, the least that the client allows, as the types of the relays are such an order |
| `OneWayIsDoneAtRest` | under `OneWay`, where no task can take a step and there is no circle, every cell has arrived or its client has left, the entries have ended for the clients that left, and no heartbeat waits |
| `HandshakeProofs!TypeCorrect`, `Invariance` | `Spec => []TypeOK`, `Spec => []IInv` |
| `CellsAreReadAsWritten` | `from_bytes(to_bytes(m, random)) = m`, for every message that fits |
| `AcceptedMeansShared` | a tag that the client accepts comes with the key that the relay it meant has |
| `KeysAgreeHolds`, `KeysAreSeparateHolds`, `RefusedOnlyIfStaleHolds` | the three properties of the `handshake` run |

The forward argument. `ForwardIntegrity` and `Layering` are not inductive: whether
a hop peels the layer that is there depends on its position. `ForwardInv` adds
`Offsets` (the n-th cell starts in the keystream where the payloads before it
end), `Ciphers` (each cipher stands at its base plus the offset of the next cell
it handles), `CellsOnLinks` (the n-th cell on link h is the n-th the client
sent, with the layers of the hops that are left and the tag of its history),
`Logs` (a link carries all that its writer has handled, until it breaks) and
`Accepted` (the exit has accepted each cell it took). A broken link's log only
stops growing, so failures preserve it; `ClientSeals`, `RelayPeels` and
`ExitVerifies` are the three facts about ciphers at the heart of it.

The backward argument is another one, because the order on the wire may differ
from the order of sealing there. `BackwardInv` says that every cell on any link
(and the waiting reply) is a DESTROY or carries as its tag a prefix of the
exit's history, and that the client's digest has hashed what it accepted as
long as it reads. Then a cell that the client verifies extends its own accepted
prefix by exactly the exit's next cell, whatever has been reordered.

`MismatchOnlyByOvertaking` needs more: that without overtaking the positions agree as
well. `OrderInv` is `ForwardInv` for the way back, for as long as `overtaken` is false: the
n-th cell on any link is the n-th that the exit sealed, with a layer of each hop from
the exit to that link, until DESTROYs come, after which there is nothing else
(`InOrder`); the exit's link lacks only a reply that waits (`ExitLog`); a relay that
still reads has written all that it took (`RelayLogs`); each cipher stands where the
cells it took leave it, unless a DESTROY was among them (`RelayCiphers`). The offsets
of the cells are not in the state here: the invariant says that some sequence of offsets
fits, and a step that seals a cell extends it (`SealOffsets`).

`NothingMissingAtRest` is what can be proved of delivery and teardown without fairness:
they are never stuck. `ReadersInv` says that a reader which has ended has shut the
link that it wrote and that one which runs has written all it took, overtaken or
not, and that a loop towards the exit ends only when a link is down (which needs
`ExitVerifies`). At rest, with the client still reading, it follows from hop to
hop that the next link is up and its reader runs, and that its log is as long as the
last one. That `AtRest` is implied where the fairness condition is disabled is
read off the guards of `Progress`. The induction over the hops is a least
counterexample (`HopByHop`).

The directory. `OnlyFreshNodes` needs `FreshInv`, `age[n] <= StaleTimeout +
sinceCleanup`: an entry is as old as the timeout and the time since the last
cleanup allow. `RunningStaysRegistered` needs `RunningInv`, which bounds the age
of a running relay's entry by its timer and the heartbeats it has lost.
`PathsAreDiverse` follows from the definition of `Picked`, slot by slot, with
`Clash` symmetric.

The pool. `CapacityKept` is not inductive: a circuit that the monitor has seen
Dirty may be Closed by the time that the monitor removes it (its reader ends in
between), and only the first of the two was counted out. `CapacityInv` counts
`Standing` instead, the circuits that are neither Dirty nor among those that the
monitor is about to remove, and says that every id in use was handed out before
`nextId`. Expiry moves circuits from `Standing` to `toBuild`, a build moves one
back or makes it `lost`, and a replacement takes one out and puts one in.

`RoundIsThorough` is what can be proved of `ClosedIsReplaced` and `DirtyIsRetired`
without fairness; that the monitor goes from round to round is fairness. A circuit is
on one of the monitor's lists, or the one it waits to replace (`Noticed`), until it
is out of the pool (`Remembers`); the lists take up every one that is there
when the monitor looks (`Notices`), and they are empty when it sleeps. Two things could
be wrong: the monitor passes over an abandoned slot, and the connections replace
circuits while it is at work. `RoundInv` says that an abandoned circuit is never in
the pool, because a failed replacement takes it out and its id is not used again
(`StaysOut`), and that between the monitor's two looks, for which it keeps the pool's
mutex, no circuit becomes Dirty.

Circuits under construction. `BuiltInStep` speaks of the end of a build; `Inv` says
where its handshake is at any moment (`Stage`): one cell of it at most is in any
channel of the build, among any number of DESTROY. EXTEND in front of hop j has
the layers of the hops from j on (`Peel`), the hops before j have stepped forward
(`Fwd`), and likewise back (`Bwd`); between the two are the pending connection, CREATE
and its answer; or there is nothing on its way (`Quiet`), for good. That an EXTEND is
passed on by the hops before the last and turns into CREATE at the last one, and
nowhere else, follows from the layers that are left. `Local` is what each hop keeps:
its handler is registered before the client has its key, so an EXTEND always finds
it, and a reader gets no DESTROY from a hop that the client does not know yet,
so the first thing that `handle_extend` reads is the answer to its CREATE. With
`DistinctIds` no build touches what belongs to another (`OnePlace`); what several
of them share is only the lock, which can delay a step and not change it.

`TypeOK` of the same module bounds the channels. Towards the exit there is never a
DESTROY (`RestInv`), so at most the one cell of the handshake (`Inv`). Towards the client
each relay before the last that ends its reader writes one DESTROY of its own and
passes on those it gets, and `DebtInv` counts them: `T[k]` bounds the DESTROYs that may
still pass the k-th hop, those in the channels behind it and one more for each reader that
has not ended (`Owed`). A reader that ends, or passes one on, moves a DESTROY into the
channel before it and out of what was owed behind it. With at most `hops - k` of
them and the handshake's cell, no channel holds more cells than the path has hops.

`SettledAtRest` is what can be proved of `BuildsComplete`, `LocksAreReleased` and
`GivingUpIsReported` without fairness: construction is stuck only where a connect or
TLS handshake hangs. `ChainInv` says
why. What a relay that keeps its registry locked waits for is on its way, or the
connection is gone (`Awaits`), or it hangs before it is up (`Stalls`), so at rest no
lock is held but by such a relay (`LockInv`); without failures
something that somebody can take is there as long as the client waits (`Alive`). For what
is reported: a loop that has ended, and no reader left on its connection, is seen by the
reader in front of it, which ends too, and so on to the client (`GoneBefore`, and a
least counterexample over the hops), unless a hop on the way is `HeldUp`. The hard case is a reader that outlives its
loop, because then nothing is seen. It does only where one of its two connections
broke (`Outlives`): the loop could otherwise have ended because the connection it passes
cells to was given up by a relay that is still there, and `LiveInv` excludes that for
as long as a handshake may still succeed (`Live`), the only time when cells pass.
That `AtRest` is implied where the fairness condition is disabled is read off the
guards of `Progress`, as for the data path.

The streams. Neither refinement is inductive: that the next piece written is the
right one depends on all the places in which the earlier and later ones are.
`StreamInv` has five parts. `TypeInv` is stronger than `TypeOK`: every cell on its
way carries the id of an opened connection and, as DATA, a piece that was put in.
`IdInv` says that ids are handed out one after another, so that no two
connections share one; that is what `Enough` is for. `LifeInv` is the life of a
stream: one BEGIN at most, in the channel or in the handler, and no task as long as
it is there; no CONNECTED and no DATA before there is a task. `UpInv`: what is
written, then the queue, then the stream's DATA in `fwd` (a `Window`) are
consecutive pieces; they reach up to the last one sent unless the circuit broke, and in
any case if the stream's END is behind them, because the client sends nothing after it. A
stream leaves the exit's table only by its own END, so the task that finds its
queue empty then has written everything. `DownInv` is the same through `bwd` and
`rx`, with one thing more to show: when an END is on its way back the exit reads nothing
more for this connection (`Fixed`). Of the four places that send END, a closed
destination and a refused one are plain; END for DATA without a task needs
`UpInv` (a task that runs still has its entry unless the client has left); and
the answer to the client's END goes to a connection that does not listen any more.

`StreamsSettleAtRest` is what can be proved of `ExitForgets`, `CloseIsReported` and
`BeginIsAnswered` without fairness. `RestInv` says of each that what is waited for is
under way as long as the circuit stands: the END of a connection that has cleaned
up is in `fwd`, or the exit has forgotten the stream (`EndIsUnderWay`), which needs that
END never comes before BEGIN (`Ordered`); the END of a destination that closed is in `bwd`
or in the connection's channel; and a connection that waits has its BEGIN in `fwd` or with
the handler, or an answer behind it. The last two rest on the reader and the registration:
a cell with the id of a connection that listens is given to it (`LifeInv`), unless it
registered after the reader's end, and then it never got beyond waiting (`Unheard`).
Such a connection is why `BeginIsAnswered` speaks of circuits whose reader runs.

RelayLoad. `NeverStuck` is false (see the findings); the theorems say what it
takes. With `OneWay`, each circuit sends keepalives and nothing else, or sends pieces
that nothing comes back for. Say that nobody can go on. If no loop is busy no registry
is locked (`RegistryIsExclusive`), and whoever has a cell could go on. If some are,
look at the relays with a locked registry. The loop that has it does not stand at an
exit: there a piece goes into a queue without a limit, and the state lock it needs
is free because nothing comes back on that circuit (`OneWayInv`). So it waits for
room on the next connection, and the relay that reads it is locked too: were its
registry free and its loop not busy, it could take the cell that is in the way
(`FullLinkIsTaken`). Each relay of the set thus waits for one of the set, which is
`Circle` (`StuckInCircle`). `CircleIsForever` is about one step: a loop that waits on the way to
a locked relay still waits after it (`BlockedStays`), since only the loop that has that
registry could make room. If all paths cross the relays in one order (`Ordered`), the
last relay of a circle would wait for a later one (`NoCircleInOrder`); with three hops
the types of the relays are such an order (`TypesAreAnOrder`), and with four, two
middles are crossed in both orders.

Where no task can take a step (`AtRest`, the guards of `Progress` together) and there is no
circle, by the same argument no loop is busy, no cell is on its way to
an exit, and no registry is locked (`NothingForward`): the heartbeats have gone, and
an entry whose client has left has read the connection's end. Towards the client,
take the first link with a cell on it. It is not the client's own. The reader that
it is for neither writes, because the link before it has room, nor has ended,
because only an entry's reader ends and only after its client (`ReadersInv`); so it
could take the cell. There is no such link, and with room on the last one the
exit's task has sent all that its destination had (`NothingBack`).

Handshake. `KeysAgree` and `RefusedOnlyIfStale` rest on `IInv`: a build has at
most one cell under way, on one connection, and that cell is the one its writer
wrote (`CellsAreReadAsWritten`), under exactly the layers of the hops between; its
payload is the client's last key or EXTEND, or the answer that the process at the
end of the circuit gave to it. What the client then verifies is equal to what it
computes, field by field of the transcript, so the tag of an honest relay is never
refused, whatever bytes were drawn. A connection leads only to the process whose
certificate the descriptor names (`Accepts`), and a process has one certificate
and one key. `KeysAreSeparate` needs of `IInv` only that a session key is computed
from the client's ephemeral key, which is drawn for one hop.

Only model-checked: everything that is liveness (fairness and ENABLED are out of
the prover's reach): delivery and teardown in OnionPath, the three properties of
construction, the three of the streams, the three of the pool, and `CellsArrive`,
`HeartbeatsGoOut` and `PermitIsReturned` of RelayLoad. The theorems on rest and on the
monitor's round prove what is safety in them, that the system is never stuck in a
state that the property excludes; for RelayLoad under `OneWay`, where the run also
has a circuit that asks for answers and receives besides (its cells are too few for the
other circle, that of `relay_load_duplex`). What is left to TLC is that the steps go on until
such a state is reached, and all of `OpeningSettles` of the pool.

## Findings

- `onion_path_reorder`: an END response is sealed under the exit's state lock but
  written after its release (`exit.rs:511`), so a stream task can overtake it
  on the wire. The client then finds a digest mismatch, reports "possible
  tampering", and closes the circuit with all its streams. That is the only way
  it can happen (`MismatchOnlyByOvertaking`), and no data goes wrong before
  (`BackwardIntegrity`).
- `relay_load_opposed`: a relay keeps its registry locked until there is room for
  the cell on the way to the next relay (`main.rs:402-409`), and the next relay needs
  its own registry to make room. Paths of four hops and more cross middles in any
  order; two uploads, one over m1 and then m2, the other over m2 and then m1, lock
  both relays for good once the connections between them are full, heartbeats
  and all other circuits included (`CircleIsForever`). For circuits that carry cells
  one way nothing else can stop them (`StuckOnlyInCircleHolds`), and with the
  default of three hops nothing does (`ThreeHopsNeverStuck`).
- `relay_load_duplex`: a relay keeps its registry locked while it writes a cell
  (`main.rs:402-409`, and `main.rs:321` says that the halves of a connection were
  split to avoid just that). With the connections of one circuit full in both
  directions, the middle's loop waits for room towards the exit, the exit's loop
  for the state lock, the stream task that has it for room towards the middle, and
  the middle's reader for the registry. Nothing on that relay moves again, its
  heartbeat included. The circle also closes over two circuits, with one cell
  towards the exit on a circuit that downloads and an upload on the other; and a
  download whose client has left fills its connections for good, after which a
  cell for that circuit that is still under way locks up the exit. Three hops are
  enough here.
- `circuit_build_ids`: relays key their registry by the client's circuit id, and
  every client counts from 1, so the second client's circuit replaces the
  first one's handler (`handler.rs:129`).
- `pool_orphan`: `handle_stream` returns without `cleanup_stream` when BEGIN or
  the SOCKS reply cannot be written (`stream.rs:47`, `104`): the stream stays
  registered and the expired circuit never leaves the pool. In Streams these
  are the connections at `gone`, which `ExitForgets` has to leave out: the exit
  keeps their entry and connection as well.

`replace_circuit` removes the failed circuit before it rebuilds (`circuit.rs:525`),
and the monitor looks for failed circuits in the pool, so one failed rebuild is final;
`config.rs:31` speaks of the attempts to rebuild each slot. CircuitPool has this (`lost`),
no run asks about it.

Three things were met that no document promises otherwise. A next hop that accepts
TCP and then hangs keeps a relay's registry locked, as nothing bounds
`handle_extend`'s TLS handshake (`entry.rs:143`, `middle.rs:137`). Only the entry gets a
connection's permit back when a client leaves (`PermitIsReturned` is about the
entry); the permits of the middle and the exit stay with connections on which
nothing will come, so `max_concurrent` is in the end a number of circuits ever
built. And `ExitPolicy::allows` is called nowhere: the policy travels from the
exit to the client and is not looked at.

## What is not modelled

- Cryptography as computation: X25519, HMAC, SHA-256 and AES are expressions and
  positions. Collisions and forged or replayed cells are excluded.
- The width of the fields of a cell's header, and reads that end within a cell.
- What Streams and CircuitBuild would do under RelayLoad's limits: each module
  has either limits or contents. The order in which tasks wait is never needed,
  only that a lock which is free goes to one of those who wait.
- `max_concurrent` running out: with the permits as above that only needs enough
  circuits, and the refused connection is a `Fault` of CircuitBuild.
- DESTROY from a client, and `close` of a handler: this client never sends one.
- The weights of path selection: a relay of bandwidth 0 is refused by `register`
  (`grpc.rs:70`), so every candidate may be drawn.
- Stream ids that wrap while still in use: Streams has the counter and the wrap,
  its runs have fewer streams than ids.
- The gRPC calls for statistics, health and metrics; event buffers, dashboards,
  wizards, configuration, scripts: they keep no state that the protocol reads.
- `ExitPolicy::allows`, as it has no caller.

## Plan

Done: every module above, and the proofs listed. Left:

1. Streams over connections of finite size, to say which uses of one circuit are
   `OneWay` in RelayLoad's sense, once the registry is released before a write.
2. What each step of `Progress` uses up, as a measure that a theorem says it lowers:
   with the theorems on rest, all of the argument for the liveness properties but
   fairness itself. The measures are sums over hops or connections, for which the
   prover has no induction.
3. RelayLoad with an answer to an upload, which its run has and `OneWay` excludes: how
   many answers the links back must hold for nothing but a circle to stop the relays.
4. A clock in RelayLoad, to compare how long a registry stays locked (connects, EXTEND,
   full connections) with the directory's stale timeout.
