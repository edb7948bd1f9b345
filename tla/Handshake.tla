------------------------------ MODULE Handshake ------------------------------
(***************************************************************************)
(* Keys: relays that draw a key and a certificate each time they start,    *)
(* and register them; clients that read descriptors and go by them for as  *)
(* long as a build takes; CREATE and EXTEND, byte by byte, by which client *)
(* and relay come to share a session key.                                  *)
(*                                                                         *)
(* CircuitBuild assumes of ntor that both ends come to share a key or the  *)
(* client fails, and follows positions, locks and failures; here it is the *)
(* other way round.  A payload under keystreams is written as the payload  *)
(* and the keys, and cannot be read until there are none; positions are    *)
(* left to CircuitBuild, and so is how the end of one connection of a      *)
(* circuit travels to the client.                                          *)
(***************************************************************************)
EXTENDS Ntor, Cells, FiniteSets

CONSTANTS
    Relay,      \* addresses at which relays run
    NodeType,   \* what each of them is configured to be
    Build,      \* attempts to build a circuit
    Path,       \* the addresses of each build
    HasZero,    \* hops where bytes drawn at random happen to be zero
    MaxStarts,  \* bound: processes started at each address
    None

ASSUME RelayAssumption ==
    /\ NodeType \in [Relay -> {"Entry", "Middle", "Exit"}]
    /\ MaxStarts \in [Relay -> Nat]

ASSUME PathAssumption ==
    \A b \in Build :
        /\ Path[b] \in Seq(Relay) /\ Len(Path[b]) >= 3
        /\ \A k \in DOMAIN Path[b] :
              NodeType[Path[b][k]] = CASE k = 1 -> "Entry"
                                       [] k = Len(Path[b]) -> "Exit"
                                       [] OTHER -> "Middle"

Process == UNION {{<<r, n>> : n \in 1 .. MaxStarts[r]} : r \in Relay}
Hop == UNION {{<<b, k>> : k \in DOMAIN Path[b]} : b \in Build}

ASSUME NoneAssumption == None \notin Process

VARIABLES
    started,   \* processes started so far at each address
    binding,   \* the last one has registered, but not bound its listener
    serving,   \* the process that listens, or None
    listed,    \* the descriptor that the directory has for each address
    pc,        \* where each build is
    path,      \* the descriptors that its client has read
    secret,    \* the ephemeral secret of the current handshake
    keys,      \* session keys of the hops so far, at the client
    leads,     \* the process that each hop's connection leads to
    session,   \* session key of the hop's handler
    closed,    \* connections that a relay's loop has ended
    wire       \* the cell on each connection

running == <<started, binding, serving>>
client == <<pc, path, secret, keys>>
vars == <<running, listed, client, leads, session, closed, wire>>

First(b) == <<b, 1>>
After(h) == <<h[1], h[2] + 1>>
Opened(b) == {h \in Hop : h[1] = b /\ leads[h] # None}

\* What is drawn for whom.  Only the bytes of a client's key are looked at one
\* by one, so only there it matters whether one is zero.
Static(p) == [of |-> <<"static", p>>, zero |-> FALSE]
Server(h) == [of |-> <<"server", h>>, zero |-> FALSE]
Ephemeral(h) == [of |-> <<"client", h>>, zero |-> h \in HasZero]

Fingerprint(p) == <<<<"certificate", p>>>>

Address(r) == <<<<"address", r>>>>

Init ==
    /\ started = [r \in Relay |-> 0]
    /\ binding = [r \in Relay |-> FALSE]
    /\ serving = [r \in Relay |-> None]
    /\ listed = [r \in Relay |-> None]
    /\ pc = [b \in Build |-> "idle"]
    /\ path = [b \in Build |-> <<>>]
    /\ secret = [b \in Build |-> None]
    /\ keys = [b \in Build |-> <<>>]
    /\ leads = [h \in Hop |-> None]
    /\ session = [h \in Hop |-> None]
    /\ closed = {}
    /\ wire = [h \in Hop |-> None]

-----------------------------------------------------------------------------
(* Descriptors, and the processes they are of.                             *)

\* An exit names some of the ports and hosts that it will not connect to, and
\* no relay looks at that: it only travels with the descriptor.
ExitPolicy(type) ==
    IF type # "Exit" THEN {}
    ELSE {[ports |-> {25, 465},
           ips |-> {[version |-> "V4", octets |-> <<10, 0, 0, 0>>]}]}

NodeDescriptor(p) ==
    [node_type |-> NodeType[p[1]], address |-> Address(p[1]),
     public_key |-> Public(Static(p)), tls_cert_fingerprint |-> Fingerprint(p),
     exit_policy |-> ExitPolicy(NodeType[p[1]])]

\* Numbers of the messages' enumeration, which has 0 for a type not given.
TypeToProto == [Entry |-> 1, Middle |-> 2, Exit |-> 3]
TypeFromProto == AntiFunction(TypeToProto)

KeyToProto(bytes) == <<bytes>>

\* A submessage may be missing, and the key in it may have any length.
KeyIsValid(key) == key # <<>> /\ Len(key[1]) = KEY_LEN

IpToBytes(ip) == ip.octets
IpIsValid(bytes) == Len(bytes) \in {4, 16}
IpFromBytes(bytes) ==
    [version |-> IF Len(bytes) = 4 THEN "V4" ELSE "V6", octets |-> bytes]

\* One policy or none; a port takes 32 bits in the message.
PolicyToProto(policies) ==
    {[ports |-> policy.ports,
      ips |-> {IpToBytes(ip) : ip \in policy.ips}] : policy \in policies}
PolicyFromProto(policies) ==
    {[ports |-> {port % 65536 : port \in policy.ports},
      ips |-> {IpFromBytes(bytes) : bytes \in policy.ips}] : policy \in policies}

\* To the directory, and from there to a client.
ToProto(d) ==
    [node_type |-> TypeToProto[d.node_type], address |-> d.address,
     public_key |-> KeyToProto(d.public_key),
     tls_cert_fingerprint |-> d.tls_cert_fingerprint,
     exit_policy |-> PolicyToProto(d.exit_policy)]

IsValid(d) ==
    /\ d.node_type \in DOMAIN TypeFromProto
    /\ KeyIsValid(d.public_key)
    /\ \A policy \in d.exit_policy : \A bytes \in policy.ips : IpIsValid(bytes)

FromProto(d) ==
    IF ~IsValid(d) THEN Malformed
    ELSE [node_type |-> TypeFromProto[d.node_type], address |-> d.address,
          public_key |-> d.public_key[1],
          tls_cert_fingerprint |-> d.tls_cert_fingerprint,
          exit_policy |-> PolicyFromProto(d.exit_policy)]

Received(d) == FromProto(ToProto(d))

\* main: the keys are drawn and registered before the listener is bound.
Register(r) ==
    LET p == <<r, started[r] + 1>>
    IN  /\ ~binding[r] /\ started[r] < MaxStarts[r]
        /\ started' = [started EXCEPT ![r] = @ + 1]
        /\ binding' = [binding EXCEPT ![r] = TRUE]
        /\ listed' = [listed EXCEPT ![r] = Received(NodeDescriptor(p))]
        /\ UNCHANGED <<serving, client, leads, session, closed, wire>>

\* The process ends if another one has the address.
Bind(r) ==
    /\ binding[r]
    /\ binding' = [binding EXCEPT ![r] = FALSE]
    /\ serving' = [serving EXCEPT ![r] =
                       IF @ = None THEN <<r, started[r]>> ELSE @]
    /\ UNCHANGED <<started, listed, client, leads, session, closed, wire>>

Crash(r) ==
    /\ serving[r] # None
    /\ serving' = [serving EXCEPT ![r] = None]
    /\ UNCHANGED <<started, binding, listed, client, leads, session, closed,
                   wire>>

\* Mutant: any certificate will do.
AcceptsAny(p, fingerprint) == p # None

\* FingerprintVerifier, on a connection to whoever listens: nothing else of
\* the certificate is looked at.
Accepts(p, fingerprint) == p # None /\ Fingerprint(p) = fingerprint

\* The address, as it is parsed from a descriptor or a payload.
Listener(address) ==
    LET at == {r \in Relay : Address(r) = address}
    IN  IF at = {} THEN None ELSE serving[CHOOSE r \in at : TRUE]

Alive(h) ==
    /\ leads[h] # None /\ h \notin closed
    /\ serving[leads[h][1]] = leads[h]

-----------------------------------------------------------------------------
(* Cells on connections.                                                   *)

\* What the rest of a cell is filled with.
Random(h) == IF h \in HasZero THEN Zero ELSE <<"random">>

Sealed(data, under) == [data |-> data, under |-> under]

Puts(h, command, payload, on) ==
    LET m == Circuit(h[1], command, payload.data)
    IN  /\ Fits(m)
        /\ wire' = [on EXCEPT ![h] = [cell |-> to_bytes(m, Random(h)),
                                      under |-> payload.under]]

Taken(h) == [wire EXCEPT ![h] = None]

Read(h) == from_bytes(wire[h].cell)

\* The payload of the cell on h.
Payload(h) == Sealed(Read(h).data, wire[h].under)

Has(h, command) == wire[h] # None /\ Read(h).command = command

Plain(data) == Sealed(data, {})

Xor(S, T) == (S \ T) \cup (T \ S)

\* XOR with the keystreams of keys: once more, and it is gone.
Crypt(payload, ks) == [payload EXCEPT !.under = Xor(@, ks)]

Forward(ks) == {ks[i].forward : i \in DOMAIN ks}
BackwardKeys(ks) == {ks[i].backward : i \in DOMAIN ks}

-----------------------------------------------------------------------------
(* The client.                                                             *)

\* get_random_path
Query(b) ==
    /\ pc[b] = "idle"
    /\ \A k \in DOMAIN Path[b] : listed[Path[b][k]] # None
    /\ path' = [path EXCEPT ![b] =
                    [k \in DOMAIN Path[b] |-> Received(listed[Path[b][k]])]]
    /\ pc' = [pc EXCEPT ![b] = "connect"]
    /\ UNCHANGED <<running, listed, secret, keys, leads, session, closed, wire>>

\* The connection to the entry, and the first half of handshake_create.
Connect(b) ==
    LET d == path[b][1]
        p == Listener(d.address)
    IN  /\ pc[b] = "connect"
        /\ \/ /\ Accepts(p, d.tls_cert_fingerprint)
              /\ leads' = [leads EXCEPT ![First(b)] = p]
              /\ pc' = [pc EXCEPT ![b] = "waiting"]
              /\ secret' = [secret EXCEPT ![b] = Ephemeral(First(b))]
              /\ Puts(First(b), "Create", Plain(Public(secret'[b])), wire)
           \/ /\ ~Accepts(p, d.tls_cert_fingerprint)
              /\ pc' = [pc EXCEPT ![b] = "failed"]
              /\ UNCHANGED <<secret, leads, wire>>
        /\ UNCHANGED <<running, listed, path, keys, session, closed>>

ExtendPayload(d, X) ==
    Plain(d.address \o <<Zero>> \o X \o <<Zero>> \o d.tls_cert_fingerprint)

\* client_handshake, with the client's secret and the static key of the hop:
\* the session key, if the tag is the one that the client expects.
client_handshake(x, B, payload) ==
    LET ntor == ntor_client(x, B, SubSeq(payload.data, 1, KEY_LEN))
        auth == SubSeq(payload.data, KEY_LEN + 1, 2 * KEY_LEN)
    IN  IF payload.under = {} /\ auth = ntor.auth THEN ntor.session_key
                                                  ELSE Malformed

\* The first half of handshake_extend.
ClientExtends(b, ks) ==
    LET h == <<b, Len(ks) + 1>>
        d == path[b][h[2]]
    IN  /\ secret' = [secret EXCEPT ![b] = Ephemeral(h)]
        /\ Puts(First(b), "Extend",
                Crypt(ExtendPayload(d, Public(secret'[b])), Forward(ks)),
                Taken(First(b)))

\* The second half of a handshake.
ClientFinishes(b, key) ==
    LET ks == Append(keys[b], key)
    IN  IF key # Malformed
        THEN /\ keys' = [keys EXCEPT ![b] = ks]
             /\ \/ Len(ks) < Len(path[b]) /\ ClientExtends(b, ks) /\ pc' = pc
                \/ /\ Len(ks) = Len(path[b])
                   /\ pc' = [pc EXCEPT ![b] = "ready"]
                   /\ wire' = Taken(First(b))
                   /\ secret' = secret
        ELSE /\ pc' = [pc EXCEPT ![b] = "failed"]
             /\ wire' = Taken(First(b))
             /\ UNCHANGED <<secret, keys>>

ClientKey(b) ==
    LET k == Len(keys[b]) + 1
    IN  /\ pc[b] = "waiting"
        /\ Has(First(b), IF k = 1 THEN "Created" ELSE "Extended")
        /\ \E payload \in {Crypt(Payload(First(b)), BackwardKeys(keys[b]))} :
           \E key \in {IF Len(payload.data) < 2 * KEY_LEN THEN Malformed
                        ELSE client_handshake(secret[b], path[b][k].public_key,
                                              payload)} :
              ClientFinishes(b, key)
        /\ UNCHANGED <<running, listed, path, leads, session, closed>>

\* One of the connections has ended, and the client hears of it.
Disconnected(b) == \E h \in Opened(b) : ~Alive(h)

ClientFails(b) ==
    /\ pc[b] = "waiting"
    /\ Disconnected(b)
    /\ pc' = [pc EXCEPT ![b] = "failed"]
    /\ UNCHANGED <<running, listed, path, secret, keys, leads, session, closed,
                   wire>>

-----------------------------------------------------------------------------
(* A relay's handler of hop h.                                             *)

\* An error ends the loop, and the connection with it.
EndsLoop(h) == closed \cup {h}

TooShort(data) == Len(data) < KEY_LEN

\* CircuitContext::activate
Activates(h, key) == session' = [session EXCEPT ![h] = key]

\* KeyPair::ntor_server_handshake, of the process with the handler.
ntor_server_handshake(h, X) == ntor_server(Static(leads[h]), Server(h), X)

Answers(h, X) ==
    \E ntor \in {ntor_server_handshake(h, X)} :
        /\ Activates(h, ntor.session_key)
        /\ Puts(h, "Created", Plain(ntor.public \o ntor.auth), Taken(h))

\* handle_create, which is the same in the handlers of all three types.
Create(h) ==
    /\ Alive(h) /\ Has(h, "Create")
    /\ \E data \in {Read(h).data} :
        IF TooShort(data)
        THEN /\ closed' = EndsLoop(h)
             /\ wire' = Taken(h)
             /\ session' = session
        ELSE /\ Answers(h, SubSeq(data, 1, KEY_LEN))
             /\ closed' = closed
    /\ UNCHANGED <<running, listed, client, leads>>

\* Mutant: the last zero is taken for the one before the fingerprint.
ParseExtendBySplit(data) ==
    LET zeros == {i \in DOMAIN data : data[i] = Zero}
        first == CHOOSE i \in zeros : \A j \in zeros : i <= j
        second == CHOOSE i \in zeros \ {first} :
                      \A j \in zeros \ {first} : i <= j
    IN  IF Cardinality(zeros) < 2 THEN Malformed
        ELSE [address |-> SubSeq(data, 1, first - 1),
              X |-> SubSeq(data, first + 1, second - 1),
              fingerprint |-> SubSeq(data, second + 1, Len(data))]

\* The address ends at the first zero; the key has a fixed length.
ParseExtend(data) ==
    LET zeros == {i \in DOMAIN data : data[i] = Zero}
        start == (CHOOSE i \in zeros : \A j \in zeros : i <= j) + 1
        end == start + KEY_LEN
    IN  IF \/ Len(data) < KEY_LEN + 1 \/ zeros = {} \/ end > Len(data)
           \/ data[end] # Zero
        THEN Malformed
        ELSE [address |-> SubSeq(data, 1, start - 2),
              X |-> SubSeq(data, start, end - 1),
              fingerprint |-> SubSeq(data, end + 1, Len(data))]

\* The cell on h, without the layer of this hop.
Peeled(h) == Crypt(Payload(h), {session[h].forward})

\* handle_extend, with the payload as it is without this hop's layer.  An
\* exit has no such handler.
Connects(h, payload, parsed) ==
    /\ NodeType[leads[h][1]] # "Exit"
    /\ payload.under = {} /\ parsed # Malformed
    /\ Accepts(Listener(parsed.address), parsed.fingerprint)

ExtendTo(h, payload, parsed) ==
    \/ /\ Connects(h, payload, parsed)
       /\ leads' = [leads EXCEPT ![After(h)] = Listener(parsed.address)]
       /\ Puts(After(h), "Create", Plain(parsed.X), Taken(h))
       /\ closed' = closed
    \/ /\ ~Connects(h, payload, parsed)
       /\ closed' = EndsLoop(h)
       /\ wire' = Taken(h)
       /\ leads' = leads

\* handle_message: EXTEND is passed on once there is a next hop.
Extend(h) ==
    /\ Alive(h) /\ Has(h, "Extend")
    /\ \E payload \in {Peeled(h)} :
        \/ /\ leads[After(h)] # None
           /\ Puts(After(h), "Extend", payload, Taken(h))
           /\ UNCHANGED <<leads, closed>>
        \/ /\ leads[After(h)] = None
           /\ \E parsed \in {ParseExtend(payload.data)} :
                 ExtendTo(h, payload, parsed)
    /\ UNCHANGED <<running, listed, client, session>>

\* This hop's layer of a cell that comes back.
Layer(h) == Crypt(Payload(After(h)), {session[h].backward})

\* handle_extend goes on when the next hop has answered.
ExtendDone(h) ==
    /\ Alive(h) /\ After(h) \in Hop /\ Has(After(h), "Created")
    /\ Puts(h, "Extended", Layer(h), Taken(After(h)))
    /\ UNCHANGED <<running, listed, client, leads, session, closed>>

\* handle_backward_relay
Backward(h) ==
    /\ Alive(h) /\ After(h) \in Hop /\ Has(After(h), "Extended")
    /\ Puts(h, Read(After(h)).command, Layer(h), Taken(After(h)))
    /\ UNCHANGED <<running, listed, client, leads, session, closed>>

-----------------------------------------------------------------------------

Next ==
    \/ \E r \in Relay : Register(r) \/ Bind(r) \/ Crash(r)
    \/ \E b \in Build : Query(b) \/ Connect(b) \/ ClientKey(b) \/ ClientFails(b)
    \/ \E h \in Hop : Create(h) \/ Extend(h) \/ ExtendDone(h) \/ Backward(h)

Spec == Init /\ [][Next]_vars

-----------------------------------------------------------------------------
(* Properties.                                                             *)

IsNtorKey(key) ==
    DOMAIN key = {"forward", "backward"}
    /\ Len(key.forward) = 1 /\ Len(key.backward) = 1

\* What is on a connection is always one whole cell.
TypeOK ==
    /\ started \in [Relay -> Nat] /\ binding \in [Relay -> BOOLEAN]
    /\ \A r \in Relay : /\ started[r] <= MaxStarts[r]
                        /\ serving[r] = None \/
                           \E n \in 1 .. started[r] : serving[r] = <<r, n>>
    /\ closed \subseteq Hop
    /\ \A h \in Hop : /\ leads[h] \in Process \cup {None}
                      /\ session[h] = None \/ IsNtorKey(session[h])
                      /\ wire[h] = None \/ Len(wire[h].cell) = CELL_SIZE
    /\ \A b \in Build :
          /\ pc[b] \in {"idle", "connect", "waiting", "ready", "failed"}
          /\ \A k \in DOMAIN keys[b] : IsNtorKey(keys[b][k])

\* A circuit only ever leads to the processes that its client chose, whatever
\* has become of their addresses since, and each of them has the session key
\* that the client has for its hop: what CircuitBuild and OnionPath assume.
KeysAgree ==
    \A h \in Hop :
        LET b == h[1]
            k == h[2]
        IN  /\ leads[h] # None => NodeDescriptor(leads[h]) = path[b][k]
            /\ k \in DOMAIN keys[b] => session[h] = keys[b][k]

\* No two hops of any circuits share a key, and no keystream is used in both
\* directions: AES-CTR would repeat it.
KeysAreSeparate ==
    \A g, h \in {i \in Hop : session[i] # None} :
        /\ session[g].forward # session[h].backward
        /\ g # h => /\ session[g].forward # session[h].forward
                    /\ session[g].backward # session[h].backward

\* The descriptor is of a process that does not listen now.
Stale(b) ==
    \E k \in DOMAIN path[b] :
        LET p == Listener(path[b][k].address)
        IN  p = None \/ NodeDescriptor(p) # path[b][k]

Hurt(b) == pc[b] = "failed" \/ Disconnected(b)

\* A build fails only over a descriptor that is out of date.  Whatever bytes
\* its keys and its padding consist of, no handshake between a client and the
\* relays that it has the descriptors of is refused.
RefusedOnlyIfStale ==
    [][\A b \in Build : ~Hurt(b) /\ Hurt(b)' => Stale(b) \/ Stale(b)']_vars

=============================================================================
