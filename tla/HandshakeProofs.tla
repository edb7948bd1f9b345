--------------------------- MODULE HandshakeProofs ---------------------------
(***************************************************************************)
(* Proofs about Handshake, for any relays, builds, restarts and bytes.     *)
(***************************************************************************)
EXTENDS Handshake, SequenceTheorems, TLAPS

-----------------------------------------------------------------------------
(* Bytes.                                                                  *)

IsBytes(data) == \E S : data \in Seq(S)

LEMMA One ==
    ASSUME NEW S, NEW t \in Seq(S), NEW a, Len(t) = 1, t[1] = a
    PROVE  t = <<a>>
  <1>1. a \in S /\ <<a>> \in Seq(S) /\ Len(<<a>>) = 1 /\ <<a>>[1] = a
    OBVIOUS
  <1>2. QED
    BY <1>1, SeqEqual

LEMMA Pair ==
    ASSUME NEW S, NEW a \in S, NEW b \in S
    PROVE  /\ <<a, b>> \in Seq(S) /\ Len(<<a, b>>) = 2
           /\ <<a, b>>[1] = a /\ <<a, b>>[2] = b
  OBVIOUS

LEMMA PlusOne ==
    ASSUME NEW S, NEW s \in Seq(S), NEW a \in S
    PROVE  LET t == s \o <<a>>
           IN  /\ t \in Seq(S) /\ Len(t) = Len(s) + 1
               /\ \A i \in 1 .. Len(s) : t[i] = s[i]
               /\ t[Len(s) + 1] = a
  <1>1. <<a>> \in Seq(S) /\ Len(<<a>>) = 1 /\ <<a>>[1] = a
    OBVIOUS
  <1>2. QED
    BY <1>1, ConcatProperties

LEMMA PlusTwo ==
    ASSUME NEW S, NEW s \in Seq(S), NEW t \in Seq(S), Len(t) = 2
    PROVE  LET u == s \o t
           IN  /\ u \in Seq(S) /\ Len(u) = Len(s) + 2
               /\ \A i \in 1 .. Len(s) : u[i] = s[i]
               /\ u[Len(s) + 1] = t[1] /\ u[Len(s) + 2] = t[2]
  <1> DEFINE u == s \o t
  <1>1. /\ u \in Seq(S) /\ Len(u) = Len(s) + Len(t)
        /\ \A i \in 1 .. Len(s) + Len(t) :
              u[i] = IF i <= Len(s) THEN s[i] ELSE t[i - Len(s)]
    BY ConcatProperties
  <1> HIDE DEF u
  <1>2. Len(s) \in Nat
    OBVIOUS
  <1>3. /\ \A i \in 1 .. Len(s) : u[i] = s[i]
        /\ u[Len(s) + 1] = t[1] /\ u[Len(s) + 2] = t[2]
    BY <1>1, <1>2
  <1>4. QED
    BY <1>1, <1>3 DEF u

\* One element of a sequence, and two.
LEMMA OneOf ==
    ASSUME NEW S, NEW s \in Seq(S), NEW m \in 1 .. Len(s)
    PROVE  SubSeq(s, m, m) = <<s[m]>>
  <1>1. \A i \in m .. m : s[i] \in S
    BY ElementOfSeq
  <1>2. /\ SubSeq(s, m, m) \in Seq(S) /\ Len(SubSeq(s, m, m)) = 1
        /\ SubSeq(s, m, m)[1] = s[m]
    BY <1>1, SubSeqProperties
  <1>3. QED
    BY <1>2, One

LEMMA TwoOf ==
    ASSUME NEW S, NEW s \in Seq(S), NEW m \in 1 .. Len(s),
           NEW n \in 1 .. Len(s), n = m + 1
    PROVE  SubSeq(s, m, n) = <<s[m], s[n]>>
  <1>1. \A i \in m .. n : s[i] \in S
    BY ElementOfSeq
  <1>2. /\ SubSeq(s, m, n) \in Seq(S) /\ Len(SubSeq(s, m, n)) = 2
        /\ SubSeq(s, m, n)[1] = s[m] /\ SubSeq(s, m, n)[2] = s[n]
    BY <1>1, SubSeqProperties
  <1> DEFINE t == <<s[m], s[n]>>
             u == SubSeq(s, m, n)
  <1>3. /\ t \in Seq(S) /\ Len(t) = 2 /\ t[1] = s[m] /\ t[2] = s[n]
    BY ElementOfSeq
  <1> HIDE DEF t, u
  <1>4. u \in Seq(S) /\ Len(u) = Len(t) /\ u[1] = t[1] /\ u[2] = t[2]
    BY <1>2, <1>3 DEF u
  <1>5. \A i \in 1 .. Len(u) : u[i] = t[i]
    BY <1>3, <1>4
  <1>6. u = t
    BY <1>3, <1>4, <1>5, SeqEqual
  <1>7. QED
    BY <1>6 DEF t, u

LEMMA Halves ==
    ASSUME NEW a, NEW b
    PROVE  SubSeq(<<a, b>>, 1, 1) = <<a>> /\ SubSeq(<<a, b>>, 2, 2) = <<b>>
  <1> DEFINE s == <<a, b>>
  <1>1. /\ s \in Seq({a, b}) /\ 1 \in 1 .. Len(s) /\ 2 \in 1 .. Len(s)
        /\ s[1] = a /\ s[2] = b
    OBVIOUS
  <1>2. SubSeq(s, 1, 1) = <<s[1]>> /\ SubSeq(s, 2, 2) = <<s[2]>>
    BY <1>1, OneOf
  <1>3. QED
    BY <1>1, <1>2

LEMMA KeyHalves ==
    ASSUME NEW seed
    PROVE  expand_key_seed(seed) =
             [forward |-> <<<<"key_expand", seed, 1>>>>,
              backward |-> <<<<"key_expand", seed, 2>>>>]
  BY Halves DEF expand_key_seed, SessionKey, hmac_sha256

\* The two halves of an answer.
LEMMA Pairs ==
    ASSUME NEW a, NEW b, NEW c, NEW d
    PROVE  LET s == <<a, b>> \o <<c, d>>
           IN  /\ s \in Seq({a, b, c, d}) /\ Len(s) = 4
               /\ SubSeq(s, 1, 2) = <<a, b>> /\ SubSeq(s, 3, 4) = <<c, d>>
  <1> DEFINE S == {a, b, c, d}
             s2 == <<a, b>>
             t == <<c, d>>
             s == s2 \o t
  <1>1. /\ s2 \in Seq(S) /\ Len(s2) = 2 /\ s2[1] = a /\ s2[2] = b
        /\ t \in Seq(S) /\ Len(t) = 2 /\ t[1] = c /\ t[2] = d
    OBVIOUS
  <1> HIDE DEF s2, t, S
  <1>2. /\ s \in Seq(S) /\ Len(s) = Len(s2) + 2
        /\ \A i \in 1 .. Len(s2) : s[i] = s2[i]
        /\ s[Len(s2) + 1] = t[1] /\ s[Len(s2) + 2] = t[2]
    BY <1>1, PlusTwo
  <1> HIDE DEF s
  <1>3. Len(s) = 4 /\ s[1] = a /\ s[2] = b /\ s[3] = c /\ s[4] = d
    BY <1>1, <1>2
  <1>4. SubSeq(s, 1, 2) = <<s[1], s[2]>>
    BY <1>2, <1>3, 1 \in 1 .. 4, 2 \in 1 .. 4, 2 = 1 + 1, TwoOf
  <1>5. SubSeq(s, 3, 4) = <<s[3], s[4]>>
    <2> DEFINE m == 3
               n == 4
    <2> Len(s) = 4
      BY <1>3
    <2>1. m \in 1 .. Len(s) /\ n \in 1 .. Len(s) /\ n = m + 1
      OBVIOUS
    <2> HIDE DEF m, n
    <2>2. SubSeq(s, m, n) = <<s[m], s[n]>>
      BY <1>2, <2>1, TwoOf
    <2>3. QED
      BY <2>2 DEF m, n
  <1>6. QED
    BY <1>2, <1>3, <1>4, <1>5 DEF s, s2, t, S

\* An EXTEND payload, byte by byte.
LEMMA Six ==
    ASSUME NEW a, NEW z, NEW c, NEW d, NEW f
    PROVE  LET s == <<a>> \o <<z>> \o <<c, d>> \o <<z>> \o <<f>>
           IN  /\ s \in Seq({a, z, c, d, f}) /\ Len(s) = 6
               /\ s[1] = a /\ s[2] = z /\ s[5] = z
               /\ SubSeq(s, 1, 1) = <<a>>
               /\ SubSeq(s, 3, 4) = <<c, d>>
               /\ SubSeq(s, 6, 6) = <<f>>
  <1> DEFINE S == {a, z, c, d, f}
             s1 == <<a>>
             s2 == s1 \o <<z>>
             t == <<c, d>>
             s4 == s2 \o t
             s5 == s4 \o <<z>>
             s == s5 \o <<f>>
  <1>1. /\ s1 \in Seq(S) /\ Len(s1) = 1 /\ s1[1] = a
        /\ t \in Seq(S) /\ Len(t) = 2 /\ t[1] = c /\ t[2] = d
        /\ z \in S /\ f \in S
    OBVIOUS
  <1> HIDE DEF S, s1, t
  <1>2. /\ s2 \in Seq(S) /\ Len(s2) = Len(s1) + 1
        /\ \A i \in 1 .. Len(s1) : s2[i] = s1[i]
        /\ s2[Len(s1) + 1] = z
    BY <1>1, PlusOne
  <1> HIDE DEF s2
  <1>3. Len(s2) = 2 /\ s2[1] = a /\ s2[2] = z
    BY <1>1, <1>2
  <1>4. /\ s4 \in Seq(S) /\ Len(s4) = Len(s2) + 2
        /\ \A i \in 1 .. Len(s2) : s4[i] = s2[i]
        /\ s4[Len(s2) + 1] = t[1] /\ s4[Len(s2) + 2] = t[2]
    BY <1>1, <1>2, PlusTwo
  <1> HIDE DEF s4
  <1>5. /\ Len(s4) = 4 /\ s4[1] = a /\ s4[2] = z /\ s4[3] = c /\ s4[4] = d
    BY <1>1, <1>3, <1>4
  <1>6. /\ s5 \in Seq(S) /\ Len(s5) = Len(s4) + 1
        /\ \A i \in 1 .. Len(s4) : s5[i] = s4[i]
        /\ s5[Len(s4) + 1] = z
    BY <1>1, <1>4, PlusOne
  <1> HIDE DEF s5
  <1>7. /\ Len(s5) = 5 /\ s5[1] = a /\ s5[2] = z /\ s5[3] = c
        /\ s5[4] = d /\ s5[5] = z
    BY <1>5, <1>6
  <1>8. /\ s \in Seq(S) /\ Len(s) = Len(s5) + 1
        /\ \A i \in 1 .. Len(s5) : s[i] = s5[i]
        /\ s[Len(s5) + 1] = f
    BY <1>1, <1>6, PlusOne
  <1> HIDE DEF s
  <1>9. /\ Len(s) = 6 /\ s[1] = a /\ s[2] = z /\ s[3] = c
        /\ s[4] = d /\ s[5] = z /\ s[6] = f
    BY <1>7, <1>8
  <1>10. SubSeq(s, 1, 1) = <<s[1]>> /\ SubSeq(s, 6, 6) = <<s[6]>>
    BY <1>8, <1>9, OneOf
  <1>11. SubSeq(s, 3, 4) = <<s[3], s[4]>>
    <2> DEFINE m == 3
               n == 4
    <2> Len(s) = 6
      BY <1>9
    <2>1. m \in 1 .. Len(s) /\ n \in 1 .. Len(s) /\ n = m + 1
      OBVIOUS
    <2> HIDE DEF m, n
    <2>2. SubSeq(s, m, n) = <<s[m], s[n]>>
      BY <1>8, <2>1, TwoOf
    <2>3. QED
      BY <2>2 DEF m, n
  <1>12. QED
    BY <1>8, <1>9, <1>10, <1>11 DEF s, s1, s2, s4, s5, t, S

-----------------------------------------------------------------------------
(* Names: what is drawn for one hop is drawn for no other.                 *)

LEMMA Named ==
    /\ \A g, h : Public(Server(g)) = Public(Server(h)) => g = h
    /\ \A g, h : Public(Ephemeral(g)) = Public(Ephemeral(h)) => g = h
    /\ \A p, q : Public(Static(p)) = Public(Static(q)) => p = q
    /\ \A p, q : Fingerprint(p) = Fingerprint(q) => p = q
  BY DEF Public, Server, Ephemeral, Static, Fingerprint

LEMMA SeedNamed ==
    ASSUME NEW i, NEW j, KeySeed(i) = KeySeed(j)
    PROVE  i = j
  BY DEF KeySeed, hmac_sha256

-----------------------------------------------------------------------------
(* Conversions.                                                            *)

LEMMA CommandsAreDistinct ==
    ASSUME NEW command \in DOMAIN to_u8
    PROVE  /\ to_u8[command] \in DOMAIN from_u8
           /\ from_u8[to_u8[command]] = command
  <1>1. \A c, d \in DOMAIN to_u8 : to_u8[c] = to_u8[d] => c = d
    BY DEF to_u8
  <1>2. to_u8[command] \in Range(to_u8)
    BY DEF Range
  <1>3. from_u8 = [t \in Range(to_u8) |->
                     CHOOSE c \in DOMAIN to_u8 : t \in Range(to_u8) => to_u8[c] = t]
    BY DEF from_u8, AntiFunction, Inverse
  <1> HIDE DEF to_u8
  <1>4. QED
    BY <1>1, <1>2, <1>3

\* What a cell is read as, with the keystreams on it.
Carries(w, command, data, under) ==
    /\ w = [cell |-> w.cell, under |-> w.under]
    /\ from_bytes(w.cell).command = command
    /\ from_bytes(w.cell).data = data
    /\ w.under = under

\* A message that fits is read as it was written, whatever the padding is.
THEOREM CellsAreReadAsWritten ==
    ASSUME NEW id, NEW command \in DOMAIN to_u8, NEW D, NEW data \in Seq(D),
           NEW random, Fits(Circuit(id, command, data))
    PROVE  LET bytes == to_bytes(Circuit(id, command, data), random)
           IN  /\ Len(bytes) = CELL_SIZE
               /\ from_bytes(bytes) = [circuit_id |-> id, stream_id |-> 0,
                                      command |-> command, data |-> data,
                                      digest |-> 0]
  <1> DEFINE n == Len(data)
             max == MAX_PAYLOAD_SIZE
             code == to_u8[command]
             U == {CELL_SIZE - 1, id, 0, code, n, random} \cup D
             header == <<CELL_SIZE - 1, id, 0, code, n, 0>>
             rest == [i \in 1 .. max |-> IF i <= n THEN data[i] ELSE random]
             bytes == header \o rest
  <1>1. n \in Nat /\ n <= max /\ max \in Nat
    BY CellAssumption DEF Fits, Circuit, Message
  <1>2. to_bytes(Circuit(id, command, data), random) = bytes
    BY <1>1 DEF to_bytes, Circuit, Message
  <1>3. /\ header \in Seq(U) /\ Len(header) = 6
        /\ header[1] = CELL_SIZE - 1 /\ header[2] = id /\ header[3] = 0
        /\ header[4] = code /\ header[5] = n /\ header[6] = 0
    OBVIOUS
  <1>4. rest \in Seq(U) /\ Len(rest) = max
    <2>1. \A i \in 1 .. max : rest[i] \in U
      BY <1>1, ElementOfSeq
    <2>2. rest \in [1 .. max -> U]
      BY <2>1
    <2>3. QED
      BY <2>2, <1>1
  <1>5. \A i \in 1 .. n : rest[i] = data[i]
    BY <1>1
  <1> HIDE DEF header, rest, U
  <1>6. /\ bytes \in Seq(U) /\ Len(bytes) = 6 + max
        /\ \A i \in 1 .. 6 + max :
              bytes[i] = IF i <= 6 THEN header[i] ELSE rest[i - 6]
    <2>1. /\ bytes \in Seq(U) /\ Len(bytes) = Len(header) + Len(rest)
          /\ \A i \in 1 .. Len(header) + Len(rest) :
                bytes[i] = IF i <= Len(header) THEN header[i]
                                              ELSE rest[i - Len(header)]
      BY <1>3, <1>4, ConcatProperties
    <2>2. QED
      BY <2>1, <1>3, <1>4
  <1> HIDE DEF bytes
  <1>7. /\ bytes[1] = CELL_SIZE - 1 /\ bytes[2] = id /\ bytes[3] = 0
        /\ bytes[4] = code /\ bytes[5] = n /\ bytes[6] = 0
    BY <1>1, <1>3, <1>6
  <1>8. Len(bytes) = CELL_SIZE
    BY <1>6 DEF CELL_SIZE, HEADER_SIZE
  <1>9. code \in DOMAIN from_u8 /\ from_u8[code] = command
    BY CommandsAreDistinct
  <1> HIDE DEF code
  <1>10. SubSeq(bytes, 7, 6 + n) = data
    <2> DEFINE part == SubSeq(bytes, 7, 6 + n)
    <2>1. \A i \in 7 .. 6 + n : bytes[i] \in D
      <3>1. \A i \in 7 .. 6 + n : bytes[i] = rest[i - 6] /\ i - 6 \in 1 .. n
        BY <1>1, <1>6
      <3>2. QED
        BY <3>1, <1>5, ElementOfSeq
    <2>2. /\ part \in Seq(D)
          /\ Len(part) = IF 7 <= 6 + n THEN 6 + n - 7 + 1 ELSE 0
          /\ \A i \in 1 .. 6 + n - 7 + 1 : part[i] = bytes[7 + i - 1]
      BY <1>1, <2>1, SubSeqProperties
    <2> HIDE DEF part
    <2>3. Len(part) = n /\ \A i \in 1 .. n : part[i] = bytes[6 + i]
      BY <1>1, <2>2
    <2>4. \A i \in 1 .. n : part[i] = data[i]
      <3> SUFFICES ASSUME NEW i \in 1 .. n PROVE part[i] = data[i]
        OBVIOUS
      <3>1. /\ 6 + i \in 1 .. 6 + max /\ ~(6 + i <= 6) /\ (6 + i) - 6 = i
        BY <1>1
      <3>2. bytes[6 + i] = rest[i]
        BY <3>1, <1>6
      <3>3. QED
        BY <3>2, <2>3, <1>5
    <2>5. QED
      BY <2>2, <2>3, <2>4, SeqEqual DEF part
  <1>11. from_bytes(bytes) = [circuit_id |-> id, stream_id |-> 0,
                             command |-> command, data |-> data, digest |-> 0]
    <2>1. SubSeq(bytes, HEADER_SIZE + 1, HEADER_SIZE + bytes[5]) = data
      BY <1>7, <1>10 DEF HEADER_SIZE
    <2>2. CELL_SIZE \in Nat
      BY <1>1 DEF CELL_SIZE, HEADER_SIZE
    <2>3. ~(\/ Len(bytes) < CELL_SIZE \/ bytes[1] # CELL_SIZE - 1
            \/ bytes[4] \notin DOMAIN from_u8 \/ bytes[5] > MAX_PAYLOAD_SIZE)
      BY <1>1, <1>7, <1>8, <1>9, <2>2
    <2>4. QED
      BY <1>7, <1>9, <2>1, <2>3 DEF from_bytes
  <1>12. QED
    BY <1>2, <1>8, <1>11

LEMMA PutsCarries ==
    ASSUME NEW on, NEW h \in DOMAIN on, NEW command \in DOMAIN to_u8, NEW D,
           NEW payload, payload.data \in Seq(D), Puts(h, command, payload, on)
    PROVE  /\ wire' = [on EXCEPT ![h] = wire'[h]]
           /\ Carries(wire'[h], command, payload.data, payload.under)
           /\ Len(wire'[h].cell) = CELL_SIZE
  <1> DEFINE m == Circuit(h[1], command, payload.data)
             w == [cell |-> to_bytes(m, Random(h)), under |-> payload.under]
  <1>1. Fits(m) /\ wire' = [on EXCEPT ![h] = w]
    BY DEF Puts
  <1>2. /\ Len(to_bytes(m, Random(h))) = CELL_SIZE
        /\ from_bytes(to_bytes(m, Random(h))) =
             [circuit_id |-> h[1], stream_id |-> 0, command |-> command,
              data |-> payload.data, digest |-> 0]
    BY <1>1, CellsAreReadAsWritten
  <1>3. Carries(w, command, payload.data, payload.under)
    BY <1>2 DEF Carries
  <1>4. Len(w.cell) = CELL_SIZE
    BY <1>2
  <1> HIDE DEF w, m
  <1>5. QED
    BY <1>1, <1>3, <1>4

LEMMA TypesAreDistinct ==
    ASSUME NEW type \in {"Entry", "Middle", "Exit"}
    PROVE  /\ TypeToProto[type] \in DOMAIN TypeFromProto
           /\ TypeFromProto[TypeToProto[type]] = type
  <1>1. /\ \A c, d \in DOMAIN TypeToProto :
              TypeToProto[c] = TypeToProto[d] => c = d
        /\ type \in DOMAIN TypeToProto
    BY DEF TypeToProto
  <1>2. TypeToProto[type] \in Range(TypeToProto)
    BY <1>1 DEF Range
  <1>3. TypeFromProto = [t \in Range(TypeToProto) |->
                           CHOOSE c \in DOMAIN TypeToProto :
                              t \in Range(TypeToProto) => TypeToProto[c] = t]
    BY DEF TypeFromProto, AntiFunction, Inverse
  <1> HIDE DEF TypeToProto
  <1>4. QED
    BY <1>1, <1>2, <1>3

LEMMA PolicyIsKept ==
    ASSUME NEW type
    PROVE  LET policy == ExitPolicy(type)
           IN  /\ PolicyFromProto(PolicyToProto(policy)) = policy
               /\ \A q \in PolicyToProto(policy) :
                     \A bytes \in q.ips : IpIsValid(bytes)
  <1> DEFINE net == <<10, 0, 0, 0>>
             ip == [version |-> "V4", octets |-> net]
             one == [ports |-> {25, 465}, ips |-> {ip}]
             sent == [ports |-> {25, 465}, ips |-> {net}]
  <1>1. IpToBytes(ip) = net /\ IpIsValid(net) /\ IpFromBytes(net) = ip
    BY DEF IpToBytes, IpIsValid, IpFromBytes
  <1>2. CASE type # "Exit"
    BY <1>2 DEF ExitPolicy, PolicyToProto, PolicyFromProto
  <1>3. CASE type = "Exit"
    <2>1. ExitPolicy(type) = {one}
      BY <1>3 DEF ExitPolicy
    <2> HIDE DEF net
    <2>2. PolicyToProto({one}) = {sent}
      <3>1. {IpToBytes(i) : i \in {ip}} = {net}
        BY <1>1
      <3>2. QED
        BY <3>1 DEF PolicyToProto
    <2>3. PolicyFromProto({sent}) = {one}
      <3>1. {port % 65536 : port \in {25, 465}} = {25, 465}
        <4>1. 25 % 65536 = 25 /\ 465 % 65536 = 465
          OBVIOUS
        <4>2. QED
          BY <4>1
      <3>2. {IpFromBytes(bytes) : bytes \in {net}} = {ip}
        BY <1>1
      <3>3. QED
        BY <3>1, <3>2 DEF PolicyFromProto
    <2>4. \A q \in {sent} : \A bytes \in q.ips : IpIsValid(bytes)
      BY <1>1
    <2> HIDE DEF one, sent
    <2>5. QED
      BY <2>1, <2>2, <2>3, <2>4
  <1>4. QED
    BY <1>2, <1>3

\* A descriptor arrives as it was sent.
LEMMA ReceivedAsSent ==
    ASSUME NEW p \in Process
    PROVE  Received(NodeDescriptor(p)) = NodeDescriptor(p)
  <1> DEFINE d == NodeDescriptor(p)
             type == NodeType[p[1]]
             key == Public(Static(p))
             policy == ExitPolicy(type)
             sent == ToProto(d)
  <1>1. type \in {"Entry", "Middle", "Exit"}
    BY RelayAssumption DEF Process
  <1>2. Len(key) = KEY_LEN
    BY DEF Public, KEY_LEN
  <1>3. d = [node_type |-> type, address |-> Address(p[1]), public_key |-> key,
             tls_cert_fingerprint |-> Fingerprint(p), exit_policy |-> policy]
    BY DEF NodeDescriptor
  <1> HIDE DEF type, key, policy, d
  <1>4. sent = [node_type |-> TypeToProto[type], address |-> Address(p[1]),
                public_key |-> <<key>>, tls_cert_fingerprint |-> Fingerprint(p),
                exit_policy |-> PolicyToProto(policy)]
    BY <1>3 DEF ToProto, KeyToProto
  <1> HIDE DEF sent
  <1>5. /\ PolicyFromProto(PolicyToProto(policy)) = policy
        /\ \A q \in PolicyToProto(policy) : \A bytes \in q.ips : IpIsValid(bytes)
    BY PolicyIsKept DEF policy
  <1>6. IsValid(sent)
    BY <1>1, <1>2, <1>4, <1>5, TypesAreDistinct DEF IsValid, KeyIsValid
  <1>7. FromProto(sent) = d
    <2>1. TypeFromProto[TypeToProto[type]] = type
      BY <1>1, TypesAreDistinct
    <2>2. <<key>>[1] = key
      OBVIOUS
    <2>3. QED
      BY <1>3, <1>4, <1>5, <1>6, <2>1, <2>2 DEF FromProto
  <1>8. QED
    BY <1>7 DEF Received, sent, d

-----------------------------------------------------------------------------
(* A handshake between a client and the relay that it means.               *)

\* The key of hop h, and the answer that carries it, for a handler of p.
Shared(p, h) ==
    ntor_server(Static(p), Server(h), Public(Ephemeral(h))).session_key

Tag(p, h) == ntor_server(Static(p), Server(h), Public(Ephemeral(h))).auth

Answer(p, h) == Public(Server(h)) \o Tag(p, h)

LEMMA PublicIsTwo ==
    ASSUME NEW s
    PROVE  \E a, b : Public(s) = <<a, b>>
  BY DEF Public

LEMMA PublicSeq ==
    ASSUME NEW s
    PROVE  /\ IsBytes(Public(s)) /\ Len(Public(s)) = KEY_LEN
           /\ SubSeq(Public(s), 1, KEY_LEN) = Public(s)
  <1>1. PICK a, b : Public(s) = <<a, b>>
    BY PublicIsTwo
  <1> DEFINE t == <<a, b>>
             S == {a, b}
  <1>2. t \in Seq(S) /\ Len(t) = 2 /\ t[1] = a /\ t[2] = b
    OBVIOUS
  <1> HIDE DEF t, S
  <1>3. SubSeq(t, 1, 2) = <<t[1], t[2]>>
    BY <1>2, 1 \in 1 .. 2, 2 \in 1 .. 2, 2 = 1 + 1, TwoOf
  <1>4. KEY_LEN = 2 /\ Public(s) = t
    BY <1>1 DEF KEY_LEN, t
  <1>5. QED
    BY <1>2, <1>3, <1>4 DEF IsBytes, t

LEMMA TagIsTwo ==
    ASSUME NEW p, NEW h
    PROVE  \E a, b : Tag(p, h) = <<a, b>>
  BY DEF Tag, ntor_server, Auth, hmac_sha256

LEMMA AnswerParts ==
    ASSUME NEW p, NEW h
    PROVE  /\ IsBytes(Answer(p, h))
           /\ Len(Answer(p, h)) = 2 * KEY_LEN
           /\ SubSeq(Answer(p, h), 1, KEY_LEN) = Public(Server(h))
           /\ SubSeq(Answer(p, h), KEY_LEN + 1, 2 * KEY_LEN) = Tag(p, h)
  <1>1. PICK a, b : Public(Server(h)) = <<a, b>>
    BY PublicIsTwo
  <1>2. PICK c, d : Tag(p, h) = <<c, d>>
    BY TagIsTwo
  <1>3. Answer(p, h) = <<a, b>> \o <<c, d>>
    BY <1>1, <1>2 DEF Answer
  <1>4. /\ Answer(p, h) \in Seq({a, b, c, d}) /\ Len(Answer(p, h)) = 4
        /\ SubSeq(Answer(p, h), 1, 2) = <<a, b>>
        /\ SubSeq(Answer(p, h), 3, 4) = <<c, d>>
    BY <1>3, Pairs
  <1>5. KEY_LEN = 2 /\ 2 * KEY_LEN = 4 /\ KEY_LEN + 1 = 3
    BY DEF KEY_LEN
  <1>6. QED
    BY <1>1, <1>2, <1>4, <1>5 DEF IsBytes

\* The client and the relay that it means compute the same tag and key.
LEMMA BothCompute ==
    ASSUME NEW p, NEW h
    PROVE  ntor_client(Ephemeral(h), Public(Static(p)), Public(Server(h))) =
             [auth |-> Tag(p, h), session_key |-> Shared(p, h)]
  <1> DEFINE x == Ephemeral(h)
             y == Server(h)
             b == Static(p)
  <1>1. /\ raw_dh_static(x, Public(y)) = raw_dh_static(y, Public(x))
        /\ raw_dh_static(x, Public(b)) = raw_dh_static(b, Public(x))
    BY DEF raw_dh_static
  <1> HIDE DEF x, y, b
  <1>2. /\ ntor_client(x, Public(b), Public(y)).auth =
             ntor_server(b, y, Public(x)).auth
        /\ ntor_client(x, Public(b), Public(y)).session_key =
             ntor_server(b, y, Public(x)).session_key
    BY <1>1 DEF ntor_client, ntor_server
  <1>3. ntor_client(x, Public(b), Public(y)) =
          [auth |-> ntor_client(x, Public(b), Public(y)).auth,
           session_key |-> ntor_client(x, Public(b), Public(y)).session_key]
    BY DEF ntor_client
  <1>4. QED
    BY <1>2, <1>3 DEF x, y, b, Tag, Shared

\* All that a tag is made of can be told from it.
LEMMA TagNamed ==
    ASSUME NEW i, NEW A, NEW Y, NEW X, NEW j, NEW B, NEW Z, NEW W,
           Auth(i, A, Y, X) = Auth(j, B, Z, W)
    PROVE  i = j /\ A = B /\ Y = Z /\ X = W
  <1> DEFINE s == hmac_sha256("verify", i)
             t == hmac_sha256("verify", j)
  <1>1. \A d, e : hmac_sha256("mac", d) = hmac_sha256("mac", e) => d = e
    BY DEF hmac_sha256
  <1>2. s = t => i = j
    BY DEF hmac_sha256
  <1> HIDE DEF s, t
  <1>3. <<s, A, Y, X>> = <<t, B, Z, W>>
    BY <1>1 DEF Auth, s, t
  <1>4. QED
    BY <1>2, <1>3

\* ntor: an answer that the client's tag is on is from the relay that the
\* client means, for the key that the client has sent, and they share a key.
THEOREM AcceptedMeansShared ==
    ASSUME NEW x, NEW q, NEW Y, NEW p, NEW y, NEW X,
           ntor_client(x, Public(Static(q)), Y).auth =
             ntor_server(Static(p), y, X).auth
    PROVE  /\ p = q /\ X = Public(x) /\ Y = Public(y)
           /\ ntor_client(x, Public(Static(q)), Y).session_key =
                ntor_server(Static(p), y, X).session_key
  <1> DEFINE B == Public(Static(q))
             A == Public(Static(p))
             i == build_secret_input(raw_dh_static(x, Y), raw_dh_static(x, B),
                                     B, Public(x), Y)
             j == build_secret_input(raw_dh_static(y, X),
                                     raw_dh_static(Static(p), X),
                                     A, X, Public(y))
  <1>1. /\ ntor_client(x, B, Y).auth = Auth(i, B, Y, Public(x))
        /\ ntor_client(x, B, Y).session_key = expand_key_seed(KeySeed(i))
        /\ ntor_server(Static(p), y, X).auth = Auth(j, A, Public(y), X)
        /\ ntor_server(Static(p), y, X).session_key = expand_key_seed(KeySeed(j))
    BY DEF ntor_client, ntor_server
  <1> HIDE DEF A, B, i, j
  <1>2. i = j /\ B = A /\ Y = Public(y) /\ Public(x) = X
    <2>1. Auth(i, B, Y, Public(x)) = Auth(j, A, Public(y), X)
      BY <1>1 DEF B
    <2>2. QED
      BY <2>1, TagNamed
  <1>3. p = q
    BY <1>2, Named DEF A, B
  <1>4. QED
    BY <1>1, <1>2, <1>3 DEF B

\* Keys of different hops have nothing in common.
LEMMA KeysDiffer ==
    ASSUME NEW p, NEW q, NEW g, NEW h
    PROVE  /\ IsNtorKey(Shared(p, g))
           /\ Shared(p, g).forward # Shared(q, h).backward
           /\ g # h => /\ Shared(p, g).forward # Shared(q, h).forward
                      /\ Shared(p, g).backward # Shared(q, h).backward
  <1> DEFINE seed(r, i) ==
                 KeySeed(build_secret_input(
                     raw_dh_static(Server(i), Public(Ephemeral(i))),
                     raw_dh_static(Static(r), Public(Ephemeral(i))),
                     Public(Static(r)), Public(Ephemeral(i)), Public(Server(i))))
  <1>1. \A r, i : Shared(r, i) = expand_key_seed(seed(r, i))
    BY DEF Shared, ntor_server
  <1>2. \A r, s, i, j : seed(r, i) = seed(s, j) => i = j
    BY SeedNamed, Named DEF build_secret_input
  <1> HIDE DEF seed
  <1>3. \A r, i : Shared(r, i) =
           [forward |-> <<<<"key_expand", seed(r, i), 1>>>>,
            backward |-> <<<<"key_expand", seed(r, i), 2>>>>]
    BY <1>1, KeyHalves
  <1>4. QED
    BY <1>2, <1>3 DEF IsNtorKey

\* What the relay reads in an EXTEND payload is what the client wrote.
LEMMA Parsed ==
    ASSUME NEW p, NEW s
    PROVE  LET d == NodeDescriptor(p)
               data == ExtendPayload(d, Public(s)).data
           IN  /\ IsBytes(data)
               /\ ParseExtend(data) = [address |-> d.address, X |-> Public(s),
                                      fingerprint |-> d.tls_cert_fingerprint]
  <1> DEFINE d == NodeDescriptor(p)
             data == ExtendPayload(d, Public(s)).data
             a == <<"address", p[1]>>
             f == <<"certificate", p>>
             zeros == {i \in DOMAIN data : data[i] = Zero}
  <1>1. PICK u, v : Public(s) = <<u, v>>
    BY PublicIsTwo
  <1>2. d.address = <<a>> /\ d.tls_cert_fingerprint = <<f>>
    BY DEF NodeDescriptor, Address, Fingerprint
  <1>3. data = <<a>> \o <<Zero>> \o <<u, v>> \o <<Zero>> \o <<f>>
    BY <1>1, <1>2 DEF ExtendPayload, Plain, Sealed
  <1>4. a # Zero
    BY DEF Zero
  <1> HIDE DEF a, f, d, data
  <1>5. /\ data \in Seq({a, Zero, u, v, f}) /\ Len(data) = 6
        /\ data[1] = a /\ data[2] = Zero /\ data[5] = Zero
        /\ SubSeq(data, 1, 1) = <<a>> /\ SubSeq(data, 3, 4) = <<u, v>>
        /\ SubSeq(data, 6, 6) = <<f>>
    <2> DEFINE s6 == <<a>> \o <<Zero>> \o <<u, v>> \o <<Zero>> \o <<f>>
    <2>1. /\ s6 \in Seq({a, Zero, u, v, f}) /\ Len(s6) = 6
          /\ s6[1] = a /\ s6[2] = Zero /\ s6[5] = Zero
          /\ SubSeq(s6, 1, 1) = <<a>> /\ SubSeq(s6, 3, 4) = <<u, v>>
          /\ SubSeq(s6, 6, 6) = <<f>>
      BY Six
    <2>2. QED
      BY <1>3, <2>1
  <1>6. DOMAIN data = 1 .. 6
    BY <1>5
  <1>7. 2 \in zeros /\ \A i \in zeros : i \in 1 .. 6 /\ 2 <= i
    BY <1>4, <1>5, <1>6
  <1>8. (CHOOSE i \in zeros : \A j \in zeros : i <= j) = 2
    <2>1. \A i \in zeros : (\A j \in zeros : i <= j) => i = 2
      BY <1>7
    <2> HIDE DEF zeros
    <2>2. QED
      BY <1>7, <2>1
  <1>9. ParseExtend(data) = [address |-> <<a>>, X |-> <<u, v>>,
                             fingerprint |-> <<f>>]
    <2> DEFINE first == CHOOSE i \in zeros : \A j \in zeros : i <= j
               start == first + 1
               end == start + KEY_LEN
    <2> first = 2
      BY <1>8
    <2> HIDE DEF first
    <2>1. start = 3 /\ end = 5 /\ start - 2 = 1 /\ end - 1 = 4 /\ end + 1 = 6
      BY DEF KEY_LEN
    <2>2. zeros # {}
      BY <1>7
    <2>3. ParseExtend(data) =
            IF \/ Len(data) < KEY_LEN + 1 \/ zeros = {} \/ end > Len(data)
               \/ data[end] # Zero
            THEN Malformed
            ELSE [address |-> SubSeq(data, 1, start - 2),
                  X |-> SubSeq(data, start, end - 1),
                  fingerprint |-> SubSeq(data, end + 1, Len(data))]
      BY DEF ParseExtend, first
    <2> HIDE DEF start, end, zeros
    <2>4. ~(\/ Len(data) < KEY_LEN + 1 \/ zeros = {} \/ end > Len(data)
            \/ data[end] # Zero)
      BY <1>5, <2>1, <2>2 DEF KEY_LEN
    <2>5. QED
      BY <1>5, <2>1, <2>3, <2>4
  <1>10. QED
    BY <1>1, <1>2, <1>5, <1>9 DEF d, data, IsBytes

-----------------------------------------------------------------------------
(* The inductive invariant: where the one cell of every build is, and what  *)
(* it carries.                                                             *)

\* The hops of build b, those that its client has the keys of, and the next.
N(b) == Len(Path[b])
Done(b) == Len(keys[b])
Current(b) == <<b, Done(b) + 1>>

RelayInv ==
    /\ DOMAIN serving = Relay /\ DOMAIN listed = Relay
    /\ started \in [Relay -> Nat] /\ binding \in [Relay -> BOOLEAN]
    /\ \A r \in Relay :
          /\ started[r] <= MaxStarts[r]
          /\ binding[r] => started[r] >= 1
          /\ serving[r] # None =>
                \E n \in 1 .. started[r] : serving[r] = <<r, n>>
          /\ listed[r] # None =>
                \E p \in Process : p[1] = r /\ listed[r] = NodeDescriptor(p)

Shape ==
    /\ DOMAIN pc = Build /\ DOMAIN path = Build
    /\ DOMAIN keys = Build /\ DOMAIN secret = Build
    /\ DOMAIN leads = Hop /\ DOMAIN session = Hop /\ DOMAIN wire = Hop
    /\ closed \subseteq Hop

\* What a client goes by, some process at each address has registered.
PathOK(b) ==
    pc[b] # "idle" =>
        /\ Len(path[b]) = N(b) /\ DOMAIN path[b] = 1 .. N(b)
        /\ \A k \in 1 .. N(b) :
              \E p \in Process : p[1] = Path[b][k] /\ path[b][k] = NodeDescriptor(p)

ProgressOK(b) ==
    /\ pc[b] \in {"idle", "connect", "waiting", "ready", "failed"}
    /\ keys[b] \in Seq({Shared(p, h) : p \in Process, h \in Hop})
    /\ Done(b) <= N(b)
    /\ pc[b] \in {"idle", "connect"} =>
          /\ keys[b] = <<>>
          /\ \A k \in 1 .. N(b) : leads[<<b, k>>] = None /\ wire[<<b, k>>] = None
    /\ pc[b] = "waiting" =>
          Done(b) < N(b) /\ secret[b] = Ephemeral(Current(b))

\* Every hop is the one that the client meant, and what it has is made for it.
HopsOK(b) ==
    \A k \in 1 .. N(b) :
        /\ leads[<<b, k>>] # None =>
              /\ leads[<<b, k>>] \in Process
              /\ NodeDescriptor(leads[<<b, k>>]) = path[b][k]
              /\ k <= Done(b) + 1
        /\ session[<<b, k>>] # None =>
              /\ leads[<<b, k>>] # None
              /\ session[<<b, k>>] = Shared(leads[<<b, k>>], <<b, k>>)

KeysOK(b) ==
    \A k \in 1 .. Done(b) :
        /\ leads[<<b, k>>] # None
        /\ session[<<b, k>>] = keys[b][k]
        /\ keys[b][k] = Shared(leads[<<b, k>>], <<b, k>>)

\* The layers that are left at hop j.
ForwardLayers(b, j) == {keys[b][i].forward : i \in j .. Done(b)}
BackwardLayers(b, j) == {keys[b][i].backward : i \in j .. Done(b)}

CreateInFlight(b, j) ==
    /\ j = Done(b) + 1 /\ leads[<<b, j>>] # None
    /\ Carries(wire[<<b, j>>], "Create", Public(Ephemeral(<<b, j>>)), {})

\* What the client has written for its next hop.
Request(b) ==
    ExtendPayload(path[b][Done(b) + 1], Public(Ephemeral(Current(b)))).data

ExtendInFlight(b, j) ==
    /\ j \in 1 .. Done(b) /\ Done(b) < N(b) /\ leads[Current(b)] = None
    /\ Carries(wire[<<b, j>>], "Extend", Request(b), ForwardLayers(b, j))

AnswerInFlight(b, j) ==
    /\ j \in 1 .. Done(b) + 1 /\ Done(b) < N(b) /\ leads[Current(b)] # None
    /\ session[Current(b)] = Shared(leads[Current(b)], Current(b))
    /\ Carries(wire[<<b, j>>],
               IF j = Done(b) + 1 THEN "Created" ELSE "Extended",
               Answer(leads[Current(b)], Current(b)), BackwardLayers(b, j))

WireOK(b) ==
    /\ \A k \in 1 .. N(b) : wire[<<b, k>>] # None =>
          /\ Len(wire[<<b, k>>].cell) = CELL_SIZE
          /\ CreateInFlight(b, k) \/ ExtendInFlight(b, k) \/ AnswerInFlight(b, k)
    /\ \A j, k \in 1 .. N(b) :
          wire[<<b, j>>] # None /\ wire[<<b, k>>] # None => j = k

BuildOK(b) ==
    PathOK(b) /\ ProgressOK(b) /\ HopsOK(b) /\ KeysOK(b) /\ WireOK(b)

IInv == RelayInv /\ Shape /\ \A b \in Build : BuildOK(b)

-----------------------------------------------------------------------------
(* How a step that is about one build changes it.                          *)

LEMMA Hops ==
    /\ \A b \in Build : N(b) \in Nat /\ N(b) >= 3 /\ DOMAIN Path[b] = 1 .. N(b)
    /\ \A b \in Build : \A k \in 1 .. N(b) : <<b, k>> \in Hop
    /\ \A h \in Hop : \E b \in Build : \E k \in 1 .. N(b) : h = <<b, k>>
  <1>1. \A b \in Build : N(b) \in Nat /\ N(b) >= 3 /\ DOMAIN Path[b] = 1 .. N(b)
    BY PathAssumption DEF N
  <1>2. QED
    BY <1>1 DEF Hop

\* A cell stays as good as it is while nothing of its build changes but pc.
LEMMA WireFrame ==
    ASSUME NEW a \in Build, WireOK(a), path'[a] = path[a], keys'[a] = keys[a],
           Done(a) \in Nat,
           \A k \in 1 .. N(a) : /\ leads'[<<a, k>>] = leads[<<a, k>>]
                                /\ session'[<<a, k>>] = session[<<a, k>>]
                                /\ wire'[<<a, k>>] = wire[<<a, k>>]
    PROVE  WireOK(a)'
  <1> N(a) \in Nat /\ Done(a)' = Done(a) /\ Current(a)' = Current(a)
    BY Hops DEF Done, Current
  <1>1. \A k \in 1 .. N(a) : CreateInFlight(a, k) => CreateInFlight(a, k)'
    BY DEF CreateInFlight
  <1>2. Done(a) < N(a) => /\ leads'[Current(a)] = leads[Current(a)]
                          /\ session'[Current(a)] = session[Current(a)]
    BY DEF Current
  <1>3. /\ Request(a)' = Request(a)
        /\ \A k : /\ ForwardLayers(a, k)' = ForwardLayers(a, k)
                  /\ BackwardLayers(a, k)' = BackwardLayers(a, k)
    BY DEF Request, ForwardLayers, BackwardLayers
  <1>4. \A k \in 1 .. N(a) : ExtendInFlight(a, k) => ExtendInFlight(a, k)'
    BY <1>2, <1>3 DEF ExtendInFlight
  <1>5. \A k \in 1 .. N(a) : AnswerInFlight(a, k) => AnswerInFlight(a, k)'
    BY <1>2, <1>3 DEF AnswerInFlight
  <1>6. QED
    BY <1>1, <1>4, <1>5 DEF WireOK

\* The client goes no further, or no more.
Stays(a) ==
    \/ pc'[a] = pc[a]
    \/ pc[a] = "waiting" /\ pc'[a] = "failed"

\* Other builds stay as they are, and this one does but for its pc.
LEMMA Frame ==
    ASSUME NEW a \in Build, BuildOK(a), path'[a] = path[a],
           Stays(a), keys'[a] = keys[a], secret'[a] = secret[a],
           \A k \in 1 .. N(a) : /\ leads'[<<a, k>>] = leads[<<a, k>>]
                                /\ session'[<<a, k>>] = session[<<a, k>>]
                                /\ wire'[<<a, k>>] = wire[<<a, k>>]
    PROVE  BuildOK(a)'
  <1> N(a) \in Nat /\ Done(a)' = Done(a) /\ Current(a)' = Current(a)
    BY Hops DEF Done, Current
  <1>1. PathOK(a)'
    BY DEF BuildOK, PathOK, Stays
  <1>2. ProgressOK(a)'
    <2>1. CASE pc'[a] = pc[a]
      BY <2>1 DEF BuildOK, ProgressOK
    <2>2. CASE pc[a] = "waiting" /\ pc'[a] = "failed"
      BY <2>2 DEF BuildOK, ProgressOK
    <2>3. QED
      BY <2>1, <2>2 DEF Stays
  <1>3. HopsOK(a)'
    BY DEF BuildOK, HopsOK
  <1>4. Done(a) \in Nat /\ Done(a) <= N(a)
    BY DEF BuildOK, ProgressOK, Done
  <1>5. KeysOK(a)'
    BY <1>4 DEF BuildOK, KeysOK
  <1>6. WireOK(a)'
    BY <1>4, WireFrame DEF BuildOK
  <1>7. QED
    BY <1>1, <1>2, <1>3, <1>5, <1>6 DEF BuildOK

\* Connections with no cell of build b, the others' cells as they are.
Clean(on, b) ==
    /\ DOMAIN on = Hop /\ \A i \in 1 .. N(b) : on[<<b, i>>] = None
    /\ \A a \in Build \ {b} : \A i \in 1 .. N(a) : on[<<a, i>>] = wire[<<a, i>>]

\* The one cell of build b is then on its connection k.
Moved(b, k, command, data, under) ==
    /\ DOMAIN wire' = Hop
    /\ Carries(wire'[<<b, k>>], command, data, under)
    /\ Len(wire'[<<b, k>>].cell) = CELL_SIZE
    /\ \A i \in 1 .. N(b) : i # k => wire'[<<b, i>>] = None
    /\ \A a \in Build \ {b} :
          \A i \in 1 .. N(a) : wire'[<<a, i>>] = wire[<<a, i>>]

LEMMA PutsMoves ==
    ASSUME NEW b \in Build, NEW k \in 1 .. N(b), NEW on, Clean(on, b),
           NEW command \in DOMAIN to_u8, NEW payload, IsBytes(payload.data),
           Puts(<<b, k>>, command, payload, on)
    PROVE  Moved(b, k, command, payload.data, payload.under)
  <1>1. <<b, k>> \in Hop
    BY Hops
  <1>0. PICK D : payload.data \in Seq(D)
    BY DEF IsBytes
  <1> DEFINE h == <<b, k>>
  <1>2. h \in DOMAIN on /\ Puts(h, command, payload, on)
    BY <1>1 DEF Clean
  <1> HIDE DEF h
  <1>3. /\ wire' = [on EXCEPT ![h] = wire'[h]]
        /\ Carries(wire'[h], command, payload.data, payload.under)
        /\ Len(wire'[h].cell) = CELL_SIZE
    BY <1>0, <1>2, PutsCarries
  <1>4. DOMAIN wire' = Hop
    BY <1>3 DEF Clean
  <1>5. \A g \in Hop : g # h => wire'[g] = on[g]
    BY <1>3 DEF Clean
  <1>6. \A i \in 1 .. N(b) : i # k => wire'[<<b, i>>] = None
    BY <1>5, Hops DEF h, Clean
  <1>7. \A a \in Build \ {b} :
           \A i \in 1 .. N(a) : wire'[<<a, i>>] = wire[<<a, i>>]
    BY <1>5, Hops DEF h, Clean
  <1>8. QED
    BY <1>3, <1>4, <1>6, <1>7 DEF h, Moved

\* Without the cell that it carries, a circuit carries none.
LEMMA Takes ==
    ASSUME DOMAIN wire = Hop, NEW b \in Build, WireOK(b), NEW k \in 1 .. N(b),
           wire[<<b, k>>] # None
    PROVE  Clean(Taken(<<b, k>>), b)
  BY Hops DEF Taken, WireOK, Clean

\* What the command says of the cell.
LEMMA Which ==
    ASSUME NEW b \in Build, WireOK(b), ProgressOK(b), NEW k \in 1 .. N(b),
           wire[<<b, k>>] # None
    PROVE  /\ Read(<<b, k>>).command = "Create" => CreateInFlight(b, k)
           /\ Read(<<b, k>>).command = "Extend" => ExtendInFlight(b, k)
           /\ Read(<<b, k>>).command = "Created" =>
                 AnswerInFlight(b, k) /\ k = Done(b) + 1
           /\ Read(<<b, k>>).command = "Extended" =>
                 AnswerInFlight(b, k) /\ k # Done(b) + 1
  BY DEF WireOK, Read, Carries, CreateInFlight, ExtendInFlight, AnswerInFlight

LEMMA PayloadOf ==
    ASSUME NEW h, NEW command, NEW data, NEW under,
           Carries(wire[h], command, data, under)
    PROVE  Payload(h) = [data |-> data, under |-> under]
  BY DEF Carries, Payload, Sealed, Read

LEMMA LayersRemoved ==
    ASSUME NEW data, NEW S, NEW T
    PROVE  Crypt([data |-> data, under |-> S], T) =
             [data |-> data, under |-> (S \ T) \cup (T \ S)]
  BY DEF Crypt, Xor

LEMMA NewWireOK ==
    ASSUME NEW b \in Build, NEW k \in 1 .. N(b),
           \A i \in 1 .. N(b) : i # k => wire'[<<b, i>>] = None,
           wire'[<<b, k>>] # None =>
             /\ Len(wire'[<<b, k>>].cell) = CELL_SIZE
             /\ CreateInFlight(b, k)' \/ ExtendInFlight(b, k)'
                \/ AnswerInFlight(b, k)'
    PROVE  WireOK(b)'
  <1>1. N(b)' = N(b)
    BY DEF N
  <1>2. QED
    BY <1>1 DEF WireOK

\* Keys of one client differ, so a layer is removed once and no other with it.
LEMMA OneLayer ==
    ASSUME NEW b \in Build, ProgressOK(b), KeysOK(b), NEW j \in 1 .. Done(b)
    PROVE  /\ LET S == ForwardLayers(b, j)
                  T == {session[<<b, j>>].forward}
              IN  (S \ T) \cup (T \ S) = ForwardLayers(b, j + 1)
           /\ LET S == BackwardLayers(b, j + 1)
                  T == {session[<<b, j>>].backward}
              IN  (S \ T) \cup (T \ S) = BackwardLayers(b, j)
  <1> DEFINE ks == keys[b]
  <1>1. Done(b) \in Nat
    BY DEF ProgressOK, Done
  <1>2. session[<<b, j>>] = ks[j]
    BY DEF KeysOK
  <1>3. \A i, k \in 1 .. Done(b) :
           i # k => ks[i].forward # ks[k].forward /\ ks[i].backward # ks[k].backward
    <2> SUFFICES ASSUME NEW i \in 1 .. Done(b), NEW k \in 1 .. Done(b), i # k
                 PROVE  /\ ks[i].forward # ks[k].forward
                        /\ ks[i].backward # ks[k].backward
      OBVIOUS
    <2>1. /\ ks[i] = Shared(leads[<<b, i>>], <<b, i>>)
          /\ ks[k] = Shared(leads[<<b, k>>], <<b, k>>)
      BY DEF KeysOK
    <2>2. <<b, i>> # <<b, k>>
      OBVIOUS
    <2>3. QED
      BY <2>1, <2>2, KeysDiffer
  <1> HIDE DEF ks
  <1>4. \A i \in j + 1 .. Done(b) : i \in 1 .. Done(b) /\ i # j /\ i \in j .. Done(b)
    BY <1>1
  <1>5. \A i \in j .. Done(b) : i = j \/ i \in j + 1 .. Done(b)
    BY <1>1
  <1>6. j \in j .. Done(b)
    BY <1>1
  <1>7. /\ ForwardLayers(b, j) = {ks[i].forward : i \in j .. Done(b)}
        /\ ForwardLayers(b, j + 1) = {ks[i].forward : i \in j + 1 .. Done(b)}
        /\ BackwardLayers(b, j) = {ks[i].backward : i \in j .. Done(b)}
        /\ BackwardLayers(b, j + 1) = {ks[i].backward : i \in j + 1 .. Done(b)}
    BY DEF ForwardLayers, BackwardLayers, ks
  <1>8. /\ ForwardLayers(b, j) = ForwardLayers(b, j + 1) \cup {ks[j].forward}
        /\ ks[j].forward \notin ForwardLayers(b, j + 1)
    BY <1>3, <1>4, <1>5, <1>6, <1>7
  <1>9. /\ BackwardLayers(b, j) = BackwardLayers(b, j + 1) \cup {ks[j].backward}
        /\ ks[j].backward \notin BackwardLayers(b, j + 1)
    BY <1>3, <1>4, <1>5, <1>6, <1>7
  <1>10. QED
    BY <1>2, <1>8, <1>9

-----------------------------------------------------------------------------
(* The invariant is inductive: the steps of relays' processes.             *)

LEMMA HopUpdated ==
    ASSUME NEW f, DOMAIN f = Hop, NEW b \in Build, NEW k \in 1 .. N(b), NEW v
    PROVE  LET g == [f EXCEPT ![<<b, k>>] = v]
           IN  /\ DOMAIN g = Hop /\ g[<<b, k>>] = v
               /\ \A i \in 1 .. N(b) : i # k => g[<<b, i>>] = f[<<b, i>>]
               /\ \A a \in Build \ {b} :
                     \A i \in 1 .. N(a) : g[<<a, i>>] = f[<<a, i>>]
  <1>1. <<b, k>> \in DOMAIN f
    BY Hops
  <1>2. \A a \in Build : \A i \in 1 .. N(a) : <<a, i>> \in DOMAIN f
    BY Hops
  <1>3. \A a, i : <<a, i>> = <<b, k>> => a = b /\ i = k
    OBVIOUS
  <1>4. QED
    BY <1>1, <1>2, <1>3

\* Nothing has changed of build a.
Keeps(a) ==
    /\ pc'[a] = pc[a] /\ path'[a] = path[a]
    /\ keys'[a] = keys[a] /\ secret'[a] = secret[a]
    /\ \A k \in 1 .. N(a) : /\ leads'[<<a, k>>] = leads[<<a, k>>]
                            /\ session'[<<a, k>>] = session[<<a, k>>]
                            /\ wire'[<<a, k>>] = wire[<<a, k>>]

LEMMA KeptOK ==
    ASSUME NEW a \in Build, BuildOK(a), Keeps(a)
    PROVE  BuildOK(a)'
  <1>1. Stays(a)
    <2>1. pc'[a] = pc[a]
      BY DEF Keeps
    <2>2. QED
      BY <2>1 DEF Stays
  <1>2. QED
    BY <1>1, Frame DEF Keeps

LEMMA RelaysStep ==
    ASSUME IInv, RelayInv', UNCHANGED <<client, leads, session, closed, wire>>
    PROVE  IInv'
  <1>1. Shape'
    BY DEF IInv, Shape, client
  <1>2. \A a \in Build : Keeps(a)
    BY DEF Keeps, client
  <1>3. \A a \in Build : BuildOK(a)'
    BY <1>2, KeptOK DEF IInv
  <1>4. QED
    BY <1>1, <1>3 DEF IInv

LEMMA BuildStep ==
    ASSUME IInv, UNCHANGED <<running, listed>>, Shape', NEW b \in Build,
           BuildOK(b)', \A a \in Build \ {b} : Keeps(a)
    PROVE  IInv'
  <1>1. RelayInv'
    BY DEF IInv, RelayInv, running
  <1>2. \A a \in Build : BuildOK(a)'
    BY KeptOK DEF IInv
  <1>3. QED
    BY <1>1, <1>2 DEF IInv

LEMMA InitOK ==
    ASSUME Init
    PROVE  IInv
  <1>1. RelayInv
    BY RelayAssumption DEF Init, RelayInv
  <1>2. Shape
    BY DEF Init, Shape
  <1>3. ASSUME NEW b \in Build PROVE BuildOK(b)
    <2>1. /\ pc[b] = "idle" /\ keys[b] = <<>> /\ Done(b) = 0
          /\ \A k \in 1 .. N(b) : /\ leads[<<b, k>>] = None
                                  /\ session[<<b, k>>] = None
                                  /\ wire[<<b, k>>] = None
      BY Hops DEF Init, Done
    <2>2. PathOK(b)
      BY <2>1 DEF PathOK
    <2>3. ProgressOK(b)
      BY <2>1, Hops DEF ProgressOK
    <2>4. HopsOK(b)
      BY <2>1 DEF HopsOK
    <2>5. KeysOK(b)
      BY <2>1 DEF KeysOK
    <2>6. WireOK(b)
      BY <2>1 DEF WireOK
    <2>7. QED
      BY <2>2, <2>3, <2>4, <2>5, <2>6 DEF BuildOK
  <1>4. QED
    BY <1>1, <1>2, <1>3 DEF IInv

LEMMA RegisterKeeps ==
    ASSUME IInv, NEW r \in Relay, Register(r)
    PROVE  IInv'
  <1> DEFINE p == <<r, started[r] + 1>>
  <1>1. p \in Process
    <2>1. MaxStarts[r] \in Nat /\ started[r] \in Nat /\ started[r] < MaxStarts[r]
      BY RelayAssumption DEF IInv, RelayInv, Register
    <2>2. started[r] + 1 \in 1 .. MaxStarts[r]
      BY <2>1
    <2>3. QED
      BY <2>2 DEF Process
  <1>2. /\ started' = [started EXCEPT ![r] = @ + 1]
        /\ binding' = [binding EXCEPT ![r] = TRUE]
        /\ listed' = [listed EXCEPT ![r] = NodeDescriptor(p)]
        /\ serving' = serving /\ started[r] < MaxStarts[r]
    BY <1>1, ReceivedAsSent DEF Register
  <1>3. p[1] = r
    OBVIOUS
  <1> HIDE DEF p
  <1>4. RelayInv'
    <2>1. \A q \in Relay : listed'[q] # None =>
             \E o \in Process : o[1] = q /\ listed'[q] = NodeDescriptor(o)
      BY <1>1, <1>2, <1>3 DEF IInv, RelayInv
    <2>2. started' \in [Relay -> Nat] /\ binding' \in [Relay -> BOOLEAN]
      BY <1>2 DEF IInv, RelayInv
    <2>3. \A q \in Relay :
             /\ started'[q] <= MaxStarts[q]
             /\ binding'[q] => started'[q] >= 1
             /\ started[q] <= started'[q]
      <3> SUFFICES ASSUME NEW q \in Relay
                   PROVE  /\ started'[q] <= MaxStarts[q]
                          /\ binding'[q] => started'[q] >= 1
                          /\ started[q] <= started'[q]
        OBVIOUS
      <3>1. /\ MaxStarts[q] \in Nat /\ started[q] \in Nat
            /\ started[q] <= MaxStarts[q]
        BY RelayAssumption DEF IInv, RelayInv
      <3>2. CASE q = r
        <4>1. started'[q] = started[q] + 1
          BY <1>2, <3>2 DEF IInv, RelayInv
        <4>2. started[q] < MaxStarts[q]
          BY <1>2, <3>2
        <4>3. QED
          BY <3>1, <4>1, <4>2
      <3>3. CASE q # r
        <4>1. started'[q] = started[q]
          BY <1>2, <3>3 DEF IInv, RelayInv
        <4>2. started'[q] <= MaxStarts[q] /\ started[q] <= started'[q]
          BY <3>1, <4>1
        <4>3. binding'[q] => started'[q] >= 1
          BY <1>2, <3>3, <4>1 DEF IInv, RelayInv
        <4>4. QED
          BY <4>2, <4>3
      <3>4. QED
        BY <3>2, <3>3
    <2>4. \A q \in Relay : serving'[q] # None =>
             \E n \in 1 .. started'[q] : serving'[q] = <<q, n>>
      BY <1>2, <2>2, <2>3 DEF IInv, RelayInv
    <2>5. QED
      BY <1>2, <2>1, <2>2, <2>3, <2>4 DEF IInv, RelayInv
  <1>5. UNCHANGED <<client, leads, session, closed, wire>>
    BY DEF Register
  <1>6. QED
    BY <1>4, <1>5, RelaysStep

LEMMA BindKeeps ==
    ASSUME IInv, NEW r \in Relay, Bind(r)
    PROVE  IInv'
  <1>1. RelayInv'
    <2>1. \A q \in Relay : serving'[q] # None =>
             \E n \in 1 .. started[q] : serving'[q] = <<q, n>>
      BY DEF IInv, RelayInv, Bind
    <2>2. QED
      BY <2>1 DEF IInv, RelayInv, Bind
  <1>2. UNCHANGED <<client, leads, session, closed, wire>>
    BY DEF Bind
  <1>3. QED
    BY <1>1, <1>2, RelaysStep

LEMMA CrashKeeps ==
    ASSUME IInv, NEW r \in Relay, Crash(r)
    PROVE  IInv'
  <1>1. RelayInv'
    BY DEF IInv, RelayInv, Crash
  <1>2. UNCHANGED <<client, leads, session, closed, wire>>
    BY DEF Crash
  <1>3. QED
    BY <1>1, <1>2, RelaysStep

-----------------------------------------------------------------------------
(* The steps of a client.                                                  *)

\* A build that has done nothing but choose a path, or has failed at once.
LEMMA Unstarted ==
    ASSUME IInv, NEW b \in Build, pc[b] \in {"idle", "connect"},
           pc'[b] \in {"connect", "failed"}, PathOK(b)',
           keys' = keys, leads' = leads, session' = session, wire' = wire
    PROVE  BuildOK(b)'
  <1>1. /\ keys[b] = <<>> /\ Done(b) = 0
        /\ \A k \in 1 .. N(b) : leads[<<b, k>>] = None /\ wire[<<b, k>>] = None
    <2>1. /\ keys[b] = <<>>
          /\ \A k \in 1 .. N(b) : leads[<<b, k>>] = None /\ wire[<<b, k>>] = None
      <3>1. ProgressOK(b)
        BY DEF IInv, BuildOK
      <3>2. keys[b] = <<>>
        BY <3>1 DEF ProgressOK
      <3>3. \A k \in 1 .. N(b) : leads[<<b, k>>] = None /\ wire[<<b, k>>] = None
        BY <3>1 DEF ProgressOK
      <3>4. QED
        BY <3>2, <3>3
    <2>2. QED
      BY <2>1 DEF Done
  <1>2. \A k \in 1 .. N(b) : session[<<b, k>>] = None
    BY <1>1 DEF IInv, BuildOK, HopsOK
  <1>3. Done(b)' = 0 /\ Done(b)' <= N(b)
    BY <1>1, Hops DEF Done
  <1>4. ProgressOK(b)'
    BY <1>1, <1>3 DEF ProgressOK, N
  <1>5. HopsOK(b)'
    BY <1>1, <1>2 DEF HopsOK, N
  <1>6. KeysOK(b)'
    BY <1>3 DEF KeysOK
  <1>7. WireOK(b)'
    BY <1>1 DEF WireOK, N
  <1>8. QED
    BY <1>4, <1>5, <1>6, <1>7 DEF BuildOK

LEMMA QueryKeeps ==
    ASSUME IInv, NEW b \in Build, Query(b)
    PROVE  IInv'
  <1> DEFINE ds == [k \in DOMAIN Path[b] |-> Received(listed[Path[b][k]])]
  <1>1. /\ pc[b] = "idle" /\ path' = [path EXCEPT ![b] = ds]
        /\ pc' = [pc EXCEPT ![b] = "connect"]
        /\ UNCHANGED <<running, listed, secret, keys, leads, session, closed, wire>>
        /\ \A k \in DOMAIN Path[b] : listed[Path[b][k]] # None
    BY DEF Query
  <1>2. /\ N(b) \in Nat /\ DOMAIN Path[b] = 1 .. N(b)
        /\ \A k \in 1 .. N(b) : Path[b][k] \in Relay
    BY Hops, PathAssumption
  <1>3. \A k \in 1 .. N(b) :
           \E p \in Process : p[1] = Path[b][k] /\ ds[k] = NodeDescriptor(p)
    <2> SUFFICES ASSUME NEW k \in 1 .. N(b)
                 PROVE  \E p \in Process :
                           p[1] = Path[b][k] /\ ds[k] = NodeDescriptor(p)
      OBVIOUS
    <2>1. PICK p \in Process :
             p[1] = Path[b][k] /\ listed[Path[b][k]] = NodeDescriptor(p)
      BY <1>1, <1>2 DEF IInv, RelayInv
    <2>2. ds[k] = NodeDescriptor(p)
      BY <1>2, <2>1, ReceivedAsSent
    <2>3. QED
      BY <2>1, <2>2
  <1>4. Len(ds) = N(b) /\ DOMAIN ds = 1 .. N(b)
    <2>1. ds \in [1 .. N(b) -> {ds[k] : k \in 1 .. N(b)}]
      BY <1>2
    <2>2. QED
      BY <1>2, <2>1
  <1> HIDE DEF ds
  <1>5. /\ path'[b] = ds /\ pc'[b] = "connect" /\ DOMAIN path' = Build
        /\ DOMAIN pc' = Build
        /\ \A a \in Build \ {b} : path'[a] = path[a] /\ pc'[a] = pc[a]
    BY <1>1 DEF IInv, Shape
  <1>6. PathOK(b)'
    BY <1>3, <1>4, <1>5 DEF PathOK, N
  <1>7. BuildOK(b)'
    BY <1>1, <1>5, <1>6, Unstarted
  <1>8. Shape'
    BY <1>1, <1>5 DEF IInv, Shape
  <1>9. \A a \in Build \ {b} : Keeps(a)
    BY <1>1, <1>5 DEF Keeps
  <1>10. QED
    BY <1>1, <1>7, <1>8, <1>9, BuildStep

LEMMA ClientFailsKeeps ==
    ASSUME IInv, NEW b \in Build, ClientFails(b)
    PROVE  IInv'
  <1>1. /\ pc[b] = "waiting" /\ pc' = [pc EXCEPT ![b] = "failed"]
        /\ UNCHANGED <<running, listed, path, secret, keys, leads, session,
                       closed, wire>>
    BY DEF ClientFails
  <1>2. /\ pc'[b] = "failed" /\ DOMAIN pc' = Build
        /\ \A a \in Build \ {b} : pc'[a] = pc[a]
    BY <1>1 DEF IInv, Shape
  <1>7. BuildOK(b)'
    <2>1. Stays(b) /\ BuildOK(b)
      BY <1>1, <1>2 DEF IInv, Stays
    <2>2. QED
      BY <1>1, <2>1, Frame
  <1>8. Shape'
    BY <1>1, <1>2 DEF IInv, Shape
  <1>9. \A a \in Build \ {b} : Keeps(a)
    BY <1>1, <1>2 DEF Keeps
  <1>10. QED
    BY <1>1, <1>7, <1>8, <1>9, BuildStep

\* Whoever shows the certificate of a process is that process.
LEMMA AcceptedIs ==
    ASSUME NEW p, NEW q, Accepts(q, NodeDescriptor(p).tls_cert_fingerprint)
    PROVE  q = p
  BY Named DEF Accepts, NodeDescriptor

LEMMA ConnectKeeps ==
    ASSUME IInv, NEW b \in Build, Connect(b)
    PROVE  IInv'
  <1> DEFINE d == path[b][1]
             p == Listener(d.address)
             h == First(b)
  <1>1. /\ pc[b] = "connect" /\ BuildOK(b) /\ N(b) \in Nat /\ N(b) >= 3
        /\ UNCHANGED <<running, listed, path, keys, session, closed>>
    BY Hops DEF Connect, IInv
  <1>2. /\ keys[b] = <<>> /\ Done(b) = 0
        /\ \A k \in 1 .. N(b) : leads[<<b, k>>] = None /\ wire[<<b, k>>] = None
    <2>1. keys[b] = <<>>
      BY <1>1 DEF BuildOK, ProgressOK
    <2>2. \A k \in 1 .. N(b) : leads[<<b, k>>] = None /\ wire[<<b, k>>] = None
      BY <1>1 DEF BuildOK, ProgressOK
    <2>3. QED
      BY <2>1, <2>2 DEF Done
  <1>3. PathOK(b) /\ PathOK(b)'
    BY <1>1 DEF BuildOK, PathOK, N, Connect
  <1>4. CASE ~Accepts(p, d.tls_cert_fingerprint)
    <2>1. pc' = [pc EXCEPT ![b] = "failed"] /\ UNCHANGED <<secret, leads, wire>>
      BY <1>4 DEF Connect
    <2>2. /\ pc'[b] = "failed" /\ DOMAIN pc' = Build
          /\ \A a \in Build \ {b} : pc'[a] = pc[a]
      BY <2>1 DEF IInv, Shape
    <2>3. BuildOK(b)'
      BY <1>1, <1>3, <2>1, <2>2, Unstarted
    <2>4. Shape'
      BY <1>1, <2>1, <2>2 DEF IInv, Shape
    <2>5. \A a \in Build \ {b} : Keeps(a)
      BY <1>1, <2>1, <2>2 DEF Keeps
    <2>6. QED
      BY <1>1, <2>3, <2>4, <2>5, BuildStep
  <1>5. CASE Accepts(p, d.tls_cert_fingerprint)
    <2>1. /\ leads' = [leads EXCEPT ![h] = p]
          /\ pc' = [pc EXCEPT ![b] = "waiting"]
          /\ secret' = [secret EXCEPT ![b] = Ephemeral(h)]
          /\ Puts(h, "Create", Plain(Public(secret'[b])), wire)
      BY <1>5 DEF Connect
    <2>2. /\ pc'[b] = "waiting" /\ DOMAIN pc' = Build
          /\ secret'[b] = Ephemeral(h) /\ DOMAIN secret' = Build
          /\ \A a \in Build \ {b} : pc'[a] = pc[a] /\ secret'[a] = secret[a]
      BY <2>1 DEF IInv, Shape
    <2>3. PICK q \in Process : d = NodeDescriptor(q)
      BY <1>1, <1>3 DEF PathOK
    <2>4. p = q
      BY <1>5, <2>3, AcceptedIs
    <2>5. /\ DOMAIN leads' = Hop /\ leads'[h] = q
          /\ \A i \in 1 .. N(b) : i # 1 => leads'[<<b, i>>] = leads[<<b, i>>]
          /\ \A a \in Build \ {b} :
                \A i \in 1 .. N(a) : leads'[<<a, i>>] = leads[<<a, i>>]
      BY <1>1, <2>1, <2>4, HopUpdated DEF IInv, Shape, First
    <2>6. Moved(b, 1, "Create", Public(Ephemeral(h)), {})
      <3> DEFINE payload == Plain(Public(Ephemeral(h)))
      <3>1. payload.data = Public(Ephemeral(h)) /\ payload.under = {}
        BY DEF Plain, Sealed
      <3>2. IsBytes(Public(Ephemeral(h)))
        BY PublicSeq
      <3>3. Puts(<<b, 1>>, "Create", payload, wire)
        BY <2>1, <2>2 DEF First
      <3>4. "Create" \in DOMAIN to_u8
        BY DEF to_u8
      <3>5. Clean(wire, b) /\ 1 \in 1 .. N(b)
        BY <1>1, <1>2 DEF IInv, Shape, Clean
      <3> HIDE DEF payload, h
      <3>6. Moved(b, 1, "Create", payload.data, payload.under)
        BY <3>1, <3>2, <3>3, <3>4, <3>5, PutsMoves
      <3>7. QED
        BY <3>1, <3>6
    <2>7. q # None
      BY NoneAssumption
    <2>8. \A k \in 1 .. N(b) : session[<<b, k>>] = None
      BY <1>1, <1>2 DEF BuildOK, HopsOK
    <2>9. keys'[b] = <<>> /\ Done(b)' = 0 /\ path'[b] = path[b]
      BY <1>1, <1>2 DEF Done
    <2>10. ProgressOK(b)'
      <3>1. Done(b)' < N(b)' /\ Done(b)' <= N(b)' /\ Current(b)' = h
        BY <1>1, <2>9 DEF N, Current, First
      <3>2. keys'[b] \in Seq({Shared(o, g) : o \in Process, g \in Hop})
        BY <2>9
      <3>3. QED
        BY <2>2, <3>1, <3>2 DEF ProgressOK
    <2>11. HopsOK(b)'
      <3>1. session' = session
        BY <1>1
      <3>2. QED
        BY <1>2, <2>3, <2>5, <2>8, <2>9, <3>1 DEF HopsOK, N, First
    <2>12. KeysOK(b)'
      BY <2>9 DEF KeysOK
    <2>13. WireOK(b)'
      <3>1. CreateInFlight(b, 1)'
        BY <2>5, <2>6, <2>7, <2>9 DEF CreateInFlight, First, Moved
      <3>2. QED
        BY <1>1, <2>6, <3>1, NewWireOK DEF Moved
    <2>14. BuildOK(b)'
      BY <1>3, <2>10, <2>11, <2>12, <2>13 DEF BuildOK
    <2>15. Shape'
      BY <1>1, <2>2, <2>5, <2>6 DEF IInv, Shape, Moved
    <2>16. \A a \in Build \ {b} : Keeps(a)
      BY <1>1, <2>2, <2>5, <2>6 DEF Keeps, Moved
    <2>17. QED
      BY <1>1, <2>14, <2>15, <2>16, BuildStep
  <1>6. QED
    BY <1>4, <1>5

-----------------------------------------------------------------------------
(* The steps of a relay's handlers.                                        *)

LEMMA Known ==
    ASSUME IInv, NEW b \in Build
    PROVE  /\ Shape /\ BuildOK(b) /\ PathOK(b) /\ ProgressOK(b) /\ HopsOK(b)
           /\ KeysOK(b) /\ WireOK(b)
           /\ N(b) \in Nat /\ Done(b) \in Nat /\ Done(b) <= N(b)
  <1>1. Shape /\ BuildOK(b)
    BY DEF IInv
  <1>2. PathOK(b) /\ ProgressOK(b) /\ HopsOK(b) /\ KeysOK(b) /\ WireOK(b)
    BY <1>1 DEF BuildOK
  <1>3. Done(b) \in Nat /\ Done(b) <= N(b)
    BY <1>2 DEF ProgressOK, Done
  <1>4. N(b) \in Nat
    BY Hops
  <1>5. QED
    BY <1>1, <1>2, <1>3, <1>4

\* The build of a cell has begun.
LEMMA Begun ==
    ASSUME IInv, NEW b \in Build, NEW k \in 1 .. N(b), wire[<<b, k>>] # None
    PROVE  pc[b] \notin {"idle", "connect"}
  <1>1. ProgressOK(b)
    BY DEF IInv, BuildOK
  <1>2. QED
    BY <1>1 DEF ProgressOK

LEMMA HopStep ==
    ASSUME IInv, UNCHANGED <<running, listed, client>>, closed' \subseteq Hop,
           NEW b \in Build, pc[b] \notin {"idle", "connect"},
           DOMAIN leads' = Hop, DOMAIN session' = Hop, DOMAIN wire' = Hop,
           HopsOK(b)', KeysOK(b)', WireOK(b)',
           \A a \in Build \ {b} : \A i \in 1 .. N(a) :
              /\ leads'[<<a, i>>] = leads[<<a, i>>]
              /\ session'[<<a, i>>] = session[<<a, i>>]
              /\ wire'[<<a, i>>] = wire[<<a, i>>]
    PROVE  IInv'
  <1>1. BuildOK(b) /\ pc' = pc /\ path' = path /\ keys' = keys /\ secret' = secret
    BY DEF IInv, client
  <1>2. PathOK(b)'
    BY <1>1 DEF BuildOK, PathOK, N
  <1>3. ProgressOK(b)'
    <2>1. ProgressOK(b)
      BY <1>1 DEF BuildOK
    <2>2. /\ Done(b)' = Done(b) /\ N(b)' = N(b) /\ Current(b)' = Current(b)
          /\ pc'[b] = pc[b] /\ keys'[b] = keys[b] /\ secret'[b] = secret[b]
      BY <1>1 DEF Done, N, Current
    <2>3. QED
      BY <2>1, <2>2 DEF ProgressOK
  <1>4. BuildOK(b)'
    BY <1>2, <1>3 DEF BuildOK
  <1>5. Shape'
    BY <1>1 DEF IInv, Shape
  <1>6. \A a \in Build \ {b} : Keeps(a)
    BY <1>1 DEF Keeps
  <1>7. QED
    BY <1>4, <1>5, <1>6, BuildStep

\* The key in a CREATE is the client's, and it is answered.
LEMMA CreateAnswers ==
    ASSUME IInv, NEW b \in Build, NEW k \in 1 .. N(b), Create(<<b, k>>)
    PROVE  /\ wire[<<b, k>>] # None /\ leads[<<b, k>>] # None
           /\ k = Done(b) + 1 /\ Current(b) = <<b, k>>
           /\ Answers(<<b, k>>, Public(Ephemeral(<<b, k>>)))
           /\ closed' = closed /\ UNCHANGED <<running, listed, client, leads>>
  <1> DEFINE h == <<b, k>>
             X == Public(Ephemeral(h))
  <1>1. /\ wire[h] # None /\ Read(h).command = "Create"
        /\ UNCHANGED <<running, listed, client, leads>>
    BY DEF Create, Has
  <1>2. CreateInFlight(b, k)
    BY <1>1, Known, Which
  <1>3. /\ k = Done(b) + 1 /\ leads[h] # None /\ Read(h).data = X
        /\ Current(b) = h
    BY <1>2 DEF CreateInFlight, Carries, Read, Current
  <1>4. Answers(h, X) /\ closed' = closed
    <2>1. ~TooShort(X)
      <3>1. Len(X) = KEY_LEN /\ KEY_LEN = 2
        BY PublicSeq DEF KEY_LEN
      <3>2. QED
        BY <3>1 DEF TooShort
    <2>2. SubSeq(X, 1, KEY_LEN) = X
      BY PublicSeq
    <2> HIDE DEF X, h
    <2>3. Create(h)
      BY DEF h
    <2>4. QED
      BY <1>3, <2>1, <2>2, <2>3 DEF Create
  <1>5. QED
    BY <1>1, <1>3, <1>4

LEMMA CreateKeeps ==
    ASSUME IInv, NEW b \in Build, NEW k \in 1 .. N(b), Create(<<b, k>>)
    PROVE  IInv'
  <1> DEFINE h == <<b, k>>
             X == Public(Ephemeral(h))
             p == leads[h]
  <1>1. wire[h] # None /\ UNCHANGED <<running, listed, client, leads>>
    BY CreateAnswers
  <1>2. /\ BuildOK(b) /\ WireOK(b) /\ ProgressOK(b) /\ Shape /\ N(b) \in Nat
        /\ Done(b) \in Nat
    BY Known
  <1>4. k = Done(b) + 1 /\ p # None /\ Current(b) = h
    BY CreateAnswers
  <1>5. Answers(h, X) /\ closed' = closed
    BY CreateAnswers
  <1>6. /\ session' = [session EXCEPT ![h] = Shared(p, h)]
        /\ Puts(h, "Created", Plain(Answer(p, h)), Taken(h))
    <2>1. /\ ntor_server_handshake(h, X).session_key = Shared(p, h)
          /\ ntor_server_handshake(h, X).auth = Tag(p, h)
          /\ ntor_server_handshake(h, X).public = Public(Server(h))
      BY DEF ntor_server_handshake, Shared, Tag, ntor_server
    <2> HIDE DEF X, h, p
    <2>2. QED
      BY <1>5, <2>1 DEF Answers, Activates, Answer
  <1>7. /\ DOMAIN session' = Hop /\ session'[h] = Shared(p, h)
        /\ \A i \in 1 .. N(b) : i # k => session'[<<b, i>>] = session[<<b, i>>]
        /\ \A a \in Build \ {b} :
              \A i \in 1 .. N(a) : session'[<<a, i>>] = session[<<a, i>>]
    BY <1>2, <1>6, HopUpdated DEF Shape
  <1>8. Moved(b, k, "Created", Answer(p, h), {})
    <2> DEFINE payload == Plain(Answer(p, h))
               on == Taken(h)
    <2>1. payload.data = Answer(p, h) /\ payload.under = {}
      BY DEF Plain, Sealed
    <2>2. IsBytes(Answer(p, h))
      BY AnswerParts
    <2>3. Puts(<<b, k>>, "Created", payload, on)
      BY <1>6
    <2>4. "Created" \in DOMAIN to_u8
      BY DEF to_u8
    <2>5. Clean(on, b)
      BY <1>1, <1>2, Takes DEF Shape
    <2> HIDE DEF payload, h, on
    <2>6. Moved(b, k, "Created", payload.data, payload.under)
      BY <2>1, <2>2, <2>3, <2>4, <2>5, PutsMoves
    <2>7. QED
      BY <2>1, <2>6
  <1>9. /\ leads' = leads /\ keys' = keys /\ path' = path /\ Done(b)' = Done(b)
        /\ Current(b)' = h
    BY <1>1, <1>4 DEF client, Done, Current
  <1>10. HopsOK(b)'
    BY <1>2, <1>4, <1>7, <1>9 DEF BuildOK, HopsOK, N
  <1>11. KeysOK(b)'
    BY <1>2, <1>4, <1>7, <1>9 DEF BuildOK, KeysOK
  <1>12. WireOK(b)'
    <2>1. BackwardLayers(b, k)' = {}
      BY <1>2, <1>4, <1>9 DEF BackwardLayers
    <2>2. AnswerInFlight(b, k)'
      <3>1. /\ k \in 1 .. Done(b)' + 1 /\ Done(b)' < N(b)' /\ k = Done(b)' + 1
            /\ leads'[Current(b)'] = p /\ session'[Current(b)'] = Shared(p, h)
            /\ p # None
        BY <1>2, <1>4, <1>7, <1>9 DEF N
      <3>2. Carries(wire'[<<b, k>>], "Created", Answer(p, h), {})
        BY <1>8 DEF Moved
      <3> HIDE DEF p
      <3>3. QED
        BY <1>9, <2>1, <3>1, <3>2 DEF AnswerInFlight
    <2>3. QED
      BY <1>8, <2>2, NewWireOK DEF Moved
  <1>13. QED
    <2>1. pc[b] \notin {"idle", "connect"}
      BY <1>1, Begun
    <2>2. closed' \subseteq Hop /\ DOMAIN leads' = Hop /\ DOMAIN wire' = Hop
      BY <1>2, <1>5, <1>8, <1>9 DEF Shape, Moved
    <2>3. QED
      BY <1>1, <1>7, <1>8, <1>9, <1>10, <1>11, <1>12, <2>1, <2>2, HopStep
      DEF Moved

\* Once its cell is taken and none is put, a build carries none.
LEMMA TakenOK ==
    ASSUME NEW b \in Build, NEW k \in 1 .. N(b), Clean(Taken(<<b, k>>), b),
           wire' = Taken(<<b, k>>)
    PROVE  /\ WireOK(b)' /\ DOMAIN wire' = Hop
           /\ \A a \in Build \ {b} :
                 \A i \in 1 .. N(a) : wire'[<<a, i>>] = wire[<<a, i>>]
  <1>1. /\ DOMAIN wire' = Hop /\ \A i \in 1 .. N(b) : wire'[<<b, i>>] = None
        /\ \A a \in Build \ {b} :
              \A i \in 1 .. N(a) : wire'[<<a, i>>] = wire[<<a, i>>]
    BY DEF Clean
  <1>2. WireOK(b)'
    BY <1>1, NewWireOK
  <1>3. QED
    BY <1>1, <1>2

\* What the relay that holds an EXTEND makes of it.
LEMMA ExtendIsPeeled ==
    ASSUME IInv, NEW b \in Build, NEW k \in 1 .. N(b), Has(<<b, k>>, "Extend")
    PROVE  /\ k \in 1 .. Done(b) /\ Done(b) < N(b) /\ leads[Current(b)] = None
           /\ Peeled(<<b, k>>) = [data |-> Request(b),
                                  under |-> ForwardLayers(b, k + 1)]
           /\ Clean(Taken(<<b, k>>), b) /\ pc[b] \notin {"idle", "connect"}
  <1> DEFINE h == <<b, k>>
  <1>1. wire[h] # None /\ Read(h).command = "Extend"
    BY DEF Has
  <1>2. ExtendInFlight(b, k)
    BY <1>1, Known, Which
  <1>3. /\ k \in 1 .. Done(b) /\ Done(b) < N(b) /\ leads[Current(b)] = None
        /\ Carries(wire[h], "Extend", Request(b), ForwardLayers(b, k))
    BY <1>2 DEF ExtendInFlight
  <1> DEFINE S == ForwardLayers(b, k)
             T == {session[h].forward}
             data == Request(b)
  <1>4. (S \ T) \cup (T \ S) = ForwardLayers(b, k + 1)
    BY <1>3, Known, OneLayer
  <1>5. Payload(h) = [data |-> data, under |-> S]
    BY <1>3, PayloadOf
  <1> HIDE DEF S, data, T
  <1>6. Crypt(Payload(h), T) = [data |-> data, under |-> (S \ T) \cup (T \ S)]
    BY <1>5, LayersRemoved
  <1>7. Peeled(h) = [data |-> data, under |-> ForwardLayers(b, k + 1)]
    BY <1>4, <1>6 DEF Peeled, T
  <1>8. Clean(Taken(<<b, k>>), b) /\ pc[b] \notin {"idle", "connect"}
    BY <1>1, Known, Takes, Begun DEF Shape
  <1>9. QED
    BY <1>3, <1>7, <1>8 DEF data

\* The payload of a client's EXTEND, and what is read in it.
LEMMA RequestIs ==
    ASSUME NEW b \in Build, PathOK(b), pc[b] # "idle", Done(b) \in Nat,
           Done(b) < N(b), N(b) \in Nat
    PROVE  \E p \in Process :
              /\ NodeDescriptor(p) = path[b][Done(b) + 1]
              /\ IsBytes(Request(b))
              /\ ParseExtend(Request(b)) =
                    [address |-> NodeDescriptor(p).address,
                     X |-> Public(Ephemeral(Current(b))),
                     fingerprint |-> NodeDescriptor(p).tls_cert_fingerprint]
  <1>1. Done(b) + 1 \in 1 .. N(b)
    OBVIOUS
  <1>2. PICK p \in Process : path[b][Done(b) + 1] = NodeDescriptor(p)
    BY <1>1 DEF PathOK
  <1>3. /\ IsBytes(Request(b))
        /\ ParseExtend(Request(b)) =
             [address |-> NodeDescriptor(p).address,
              X |-> Public(Ephemeral(Current(b))),
              fingerprint |-> NodeDescriptor(p).tls_cert_fingerprint]
    BY <1>2, Parsed DEF Request
  <1>4. QED
    BY <1>2, <1>3

LEMMA ExtendKeeps ==
    ASSUME IInv, NEW b \in Build, NEW k \in 1 .. N(b), Extend(<<b, k>>)
    PROVE  IInv'
  <1> DEFINE h == <<b, k>>
             next == <<b, k + 1>>
             payload == [data |-> Request(b), under |-> ForwardLayers(b, k + 1)]
             on == Taken(h)
  <1>1. /\ Shape /\ PathOK(b) /\ HopsOK(b) /\ KeysOK(b) /\ WireOK(b)
        /\ N(b) \in Nat /\ Done(b) \in Nat
    BY Known
  <1>2. /\ k \in 1 .. Done(b) /\ Done(b) < N(b) /\ leads[Current(b)] = None
        /\ Peeled(h) = payload /\ Clean(on, b) /\ pc[b] \notin {"idle", "connect"}
    <2>1. Has(h, "Extend")
      BY DEF Extend
    <2>2. QED
      BY <2>1, ExtendIsPeeled
  <1>3. /\ UNCHANGED <<running, listed, client, session>> /\ After(h) = next
        /\ k + 1 \in 1 .. N(b)
    BY <1>1, <1>2 DEF Extend, After
  <1>4. \/ /\ leads[next] # None
           /\ Puts(next, "Extend", payload, on)
           /\ leads' = leads /\ closed' = closed
        \/ leads[next] = None /\ ExtendTo(h, payload, ParseExtend(payload.data))
    <2> HIDE DEF h, next, payload, on
    <2>1. Extend(h)
      BY DEF h
    <2>2. QED
      BY <1>2, <1>3, <2>1 DEF Extend, on
  <1>5. /\ path' = path /\ keys' = keys /\ Done(b)' = Done(b)
        /\ Current(b)' = Current(b) /\ session' = session /\ DOMAIN session' = Hop
    BY <1>1, <1>3 DEF client, Done, Current, Shape
  <1>6. PICK p \in Process :
           /\ NodeDescriptor(p) = path[b][Done(b) + 1]
           /\ IsBytes(Request(b))
           /\ ParseExtend(Request(b)) =
                 [address |-> NodeDescriptor(p).address,
                  X |-> Public(Ephemeral(Current(b))),
                  fingerprint |-> NodeDescriptor(p).tls_cert_fingerprint]
    BY <1>1, <1>2, RequestIs
  <1>7. /\ payload.data = Request(b) /\ payload.under = ForwardLayers(b, k + 1)
        /\ "Extend" \in DOMAIN to_u8 /\ "Create" \in DOMAIN to_u8
    BY DEF to_u8
  <1> HIDE DEF payload, on
  <1>8. CASE leads[next] # None
    <2>1. Puts(next, "Extend", payload, on) /\ leads' = leads /\ closed' = closed
      BY <1>4, <1>8
    <2>2. k + 1 \in 1 .. Done(b)
      BY <1>1, <1>2, <1>8 DEF Current
    <2>3. Moved(b, k + 1, "Extend", payload.data, payload.under)
      BY <1>2, <1>3, <1>6, <1>7, <2>1, PutsMoves
    <2>4. ExtendInFlight(b, k + 1)'
      <3>1. /\ ForwardLayers(b, k + 1)' = ForwardLayers(b, k + 1)
            /\ Request(b)' = Request(b) /\ N(b)' = N(b)
        BY <1>5 DEF ForwardLayers, Request, N
      <3>2. QED
        BY <1>2, <1>5, <1>7, <2>1, <2>2, <2>3, <3>1 DEF ExtendInFlight, Moved
    <2>5. WireOK(b)'
      BY <1>3, <2>3, <2>4, NewWireOK DEF Moved
    <2>6. HopsOK(b)' /\ KeysOK(b)'
      BY <1>1, <1>5, <2>1 DEF HopsOK, KeysOK, N
    <2>7. closed' \subseteq Hop /\ DOMAIN leads' = Hop /\ DOMAIN wire' = Hop
      BY <1>1, <2>1, <2>3 DEF Shape, Moved
    <2>8. \A a \in Build \ {b} : \A i \in 1 .. N(a) :
             /\ leads'[<<a, i>>] = leads[<<a, i>>]
             /\ session'[<<a, i>>] = session[<<a, i>>]
             /\ wire'[<<a, i>>] = wire[<<a, i>>]
      BY <1>5, <2>1, <2>3 DEF Moved
    <2>9. QED
      BY <1>2, <1>3, <1>5, <2>5, <2>6, <2>7, <2>8, HopStep
  <1>9. CASE leads[next] = None
    <2> DEFINE parsed == ParseExtend(payload.data)
    <2>1. ExtendTo(h, payload, parsed)
      BY <1>4, <1>9
    <2>2. k = Done(b) /\ Current(b) = next
      BY <1>1, <1>2, <1>9 DEF KeysOK, Current
    <2>3. CASE Connects(h, payload, parsed)
      <3>1. /\ leads' = [leads EXCEPT ![next] = Listener(parsed.address)]
            /\ Puts(next, "Create", Plain(parsed.X), on)
            /\ closed' = closed
        BY <1>3, <2>1, <2>3 DEF ExtendTo, on
      <3>2. Listener(parsed.address) = p /\ parsed.X = Public(Ephemeral(next))
        <4>1. /\ parsed.address = NodeDescriptor(p).address
              /\ parsed.fingerprint = NodeDescriptor(p).tls_cert_fingerprint
              /\ parsed.X = Public(Ephemeral(next))
          BY <1>6, <1>7, <2>2
        <4>2. Accepts(Listener(parsed.address), parsed.fingerprint)
          BY <2>3 DEF Connects
        <4>3. QED
          BY <4>1, <4>2, AcceptedIs
      <3>3. /\ DOMAIN leads' = Hop /\ leads'[next] = p
            /\ \A i \in 1 .. N(b) : i # k + 1 => leads'[<<b, i>>] = leads[<<b, i>>]
            /\ \A a \in Build \ {b} :
                  \A i \in 1 .. N(a) : leads'[<<a, i>>] = leads[<<a, i>>]
        BY <1>1, <1>3, <3>1, <3>2, HopUpdated DEF Shape
      <3>4. Moved(b, k + 1, "Create", Public(Ephemeral(next)), {})
        <4> DEFINE plain == Plain(Public(Ephemeral(next)))
        <4>1. plain.data = Public(Ephemeral(next)) /\ plain.under = {}
          BY DEF Plain, Sealed
        <4>2. IsBytes(Public(Ephemeral(next)))
          BY PublicSeq
        <4>3. Puts(<<b, k + 1>>, "Create", plain, on)
          BY <3>1, <3>2
        <4> HIDE DEF plain, next
        <4>4. Moved(b, k + 1, "Create", plain.data, plain.under)
          BY <1>2, <1>3, <1>7, <4>1, <4>2, <4>3, PutsMoves
        <4>5. QED
          BY <4>1, <4>4
      <3>5. p # None
        BY NoneAssumption
      <3>6. CreateInFlight(b, k + 1)'
        BY <1>5, <2>2, <3>3, <3>4, <3>5 DEF CreateInFlight, Moved
      <3>7. WireOK(b)'
        BY <1>3, <3>4, <3>6, NewWireOK DEF Moved
      <3>8. session[next] = None
        BY <1>1, <1>3, <1>9 DEF HopsOK
      <3>9. HopsOK(b)'
        BY <1>1, <1>3, <1>5, <1>6, <2>2, <3>3, <3>8 DEF HopsOK, N
      <3>10. KeysOK(b)'
        BY <1>1, <1>2, <1>5, <2>2, <3>3 DEF KeysOK
      <3>11. /\ closed' \subseteq Hop /\ DOMAIN wire' = Hop
             /\ \A a \in Build \ {b} : \A i \in 1 .. N(a) :
                   /\ leads'[<<a, i>>] = leads[<<a, i>>]
                   /\ session'[<<a, i>>] = session[<<a, i>>]
                   /\ wire'[<<a, i>>] = wire[<<a, i>>]
        BY <1>1, <1>5, <3>1, <3>3, <3>4 DEF Shape, Moved
      <3>12. QED
        BY <1>2, <1>3, <1>5, <3>3, <3>7, <3>9, <3>10, <3>11, HopStep
    <2>4. CASE ~Connects(h, payload, parsed)
      <3>1. closed' = EndsLoop(h) /\ wire' = Taken(h) /\ leads' = leads
        BY <2>1, <2>4 DEF ExtendTo
      <3>2. /\ WireOK(b)' /\ DOMAIN wire' = Hop
            /\ \A a \in Build \ {b} :
                  \A i \in 1 .. N(a) : wire'[<<a, i>>] = wire[<<a, i>>]
        BY <1>2, <3>1, TakenOK DEF on
      <3>3. HopsOK(b)' /\ KeysOK(b)'
        BY <1>1, <1>5, <3>1 DEF HopsOK, KeysOK, N
      <3>4. closed' \subseteq Hop /\ DOMAIN leads' = Hop
        BY <1>1, <3>1, Hops DEF Shape, EndsLoop
      <3>5. QED
        BY <1>2, <1>3, <1>5, <3>1, <3>2, <3>3, <3>4, HopStep
    <2>5. QED
      BY <2>3, <2>4
  <1>10. QED
    BY <1>8, <1>9

\* An answer on its way back gains the layer of the hop that it passes.
LEMMA AnswerMoves ==
    ASSUME IInv, NEW b \in Build, NEW k \in 1 .. N(b), After(<<b, k>>) \in Hop,
           wire[<<b, k + 1>>] # None, AnswerInFlight(b, k + 1),
           Puts(<<b, k>>, "Extended", Layer(<<b, k>>), Taken(After(<<b, k>>))),
           UNCHANGED <<running, listed, client, leads, session, closed>>
    PROVE  IInv'
  <1> DEFINE h == <<b, k>>
             next == <<b, k + 1>>
             data == Answer(leads[Current(b)], Current(b))
             S == BackwardLayers(b, k + 1)
             T == {session[h].backward}
             payload == [data |-> data, under |-> BackwardLayers(b, k)]
             on == Taken(next)
  <1>1. /\ Shape /\ HopsOK(b) /\ KeysOK(b) /\ WireOK(b) /\ ProgressOK(b)
        /\ N(b) \in Nat /\ Done(b) \in Nat
    BY Known
  <1>2. After(h) = next /\ k + 1 \in 1 .. N(b)
    BY <1>1, Hops DEF After
  <1>3. /\ k \in 1 .. Done(b) /\ Done(b) < N(b) /\ leads[Current(b)] # None
        /\ session[Current(b)] = Shared(leads[Current(b)], Current(b))
        /\ \E command : Carries(wire[next], command, data, S)
    BY <1>1 DEF AnswerInFlight
  <1>4. Layer(h) = payload
    <2>1. Payload(next) = [data |-> data, under |-> S]
      BY <1>3, PayloadOf
    <2>2. (S \ T) \cup (T \ S) = BackwardLayers(b, k)
      BY <1>1, <1>3, OneLayer
    <2> HIDE DEF S, T, data, next, h
    <2>3. Crypt(Payload(next), T) = [data |-> data, under |-> (S \ T) \cup (T \ S)]
      BY <2>1, LayersRemoved
    <2>4. QED
      BY <1>2, <2>2, <2>3 DEF Layer, T, h
  <1>5. Moved(b, k, "Extended", data, BackwardLayers(b, k))
    <2>1. payload.data = data /\ payload.under = BackwardLayers(b, k)
      OBVIOUS
    <2>2. IsBytes(data)
      BY AnswerParts
    <2>3. Puts(<<b, k>>, "Extended", payload, on)
      BY <1>2, <1>4
    <2>4. "Extended" \in DOMAIN to_u8
      BY DEF to_u8
    <2>5. Clean(on, b)
      BY <1>1, <1>2, Takes DEF Shape
    <2> HIDE DEF payload, on, data
    <2>6. Moved(b, k, "Extended", payload.data, payload.under)
      BY <2>1, <2>2, <2>3, <2>4, <2>5, PutsMoves
    <2>7. QED
      BY <2>1, <2>6
  <1>6. /\ keys' = keys /\ leads' = leads /\ session' = session /\ path' = path
        /\ Done(b)' = Done(b) /\ Current(b)' = Current(b) /\ closed' = closed
        /\ BackwardLayers(b, k)' = BackwardLayers(b, k)
    BY DEF client, Done, Current, BackwardLayers
  <1>7. AnswerInFlight(b, k)'
    <2>1. /\ k \in 1 .. Done(b)' + 1 /\ Done(b)' < N(b)' /\ k # Done(b)' + 1
          /\ leads'[Current(b)'] = leads[Current(b)]
          /\ session'[Current(b)'] = session[Current(b)]
      BY <1>1, <1>3, <1>6 DEF N
    <2>2. Carries(wire'[<<b, k>>], "Extended", data, BackwardLayers(b, k))
      BY <1>5 DEF Moved
    <2>3. QED
      BY <1>3, <1>6, <2>1, <2>2 DEF AnswerInFlight
  <1>8. WireOK(b)'
    BY <1>5, <1>7, NewWireOK DEF Moved
  <1>9. HopsOK(b)' /\ KeysOK(b)'
    BY <1>1, <1>6 DEF HopsOK, KeysOK, N
  <1>10. pc[b] \notin {"idle", "connect"}
    BY <1>2, Begun
  <1>11. /\ closed' \subseteq Hop /\ DOMAIN leads' = Hop
         /\ DOMAIN session' = Hop /\ DOMAIN wire' = Hop
         /\ \A a \in Build \ {b} : \A i \in 1 .. N(a) :
               /\ leads'[<<a, i>>] = leads[<<a, i>>]
               /\ session'[<<a, i>>] = session[<<a, i>>]
               /\ wire'[<<a, i>>] = wire[<<a, i>>]
    BY <1>1, <1>5, <1>6 DEF Shape, Moved
  <1>12. QED
    BY <1>8, <1>9, <1>10, <1>11, HopStep

LEMMA ExtendDoneKeeps ==
    ASSUME IInv, NEW b \in Build, NEW k \in 1 .. N(b), ExtendDone(<<b, k>>)
    PROVE  IInv'
  <1> DEFINE h == <<b, k>>
  <1>1. /\ After(h) \in Hop /\ Has(After(h), "Created") /\ After(h) = <<b, k + 1>>
        /\ Puts(h, "Extended", Layer(h), Taken(After(h)))
        /\ UNCHANGED <<running, listed, client, leads, session, closed>>
    BY DEF ExtendDone, After
  <1>2. k + 1 \in 1 .. N(b)
    BY <1>1, Hops
  <1>3. /\ wire[<<b, k + 1>>] # None
        /\ Read(<<b, k + 1>>).command = "Created"
    BY <1>1 DEF Has
  <1>4. AnswerInFlight(b, k + 1)
    BY <1>2, <1>3, Known, Which
  <1>5. QED
    BY <1>1, <1>3, <1>4, AnswerMoves

LEMMA BackwardKeeps ==
    ASSUME IInv, NEW b \in Build, NEW k \in 1 .. N(b), Backward(<<b, k>>)
    PROVE  IInv'
  <1> DEFINE h == <<b, k>>
  <1>1. /\ After(h) \in Hop /\ Has(After(h), "Extended") /\ After(h) = <<b, k + 1>>
        /\ Puts(h, Read(After(h)).command, Layer(h), Taken(After(h)))
        /\ UNCHANGED <<running, listed, client, leads, session, closed>>
    BY DEF Backward, After
  <1>2. k + 1 \in 1 .. N(b)
    BY <1>1, Hops
  <1>3. /\ wire[<<b, k + 1>>] # None
        /\ Read(<<b, k + 1>>).command = "Extended"
    BY <1>1 DEF Has
  <1>4. AnswerInFlight(b, k + 1)
    BY <1>2, <1>3, Known, Which
  <1>5. QED
    BY <1>1, <1>3, <1>4, AnswerMoves

-----------------------------------------------------------------------------
(* The client's half of a handshake.                                       *)

\* What a client makes of an answer: the key that the hop has.
LEMMA ClientComputes ==
    ASSUME IInv, NEW b \in Build, ClientKey(b)
    PROVE  \E p \in Process :
              /\ pc[b] = "waiting" /\ wire[First(b)] # None /\ Done(b) < N(b)
              /\ leads[Current(b)] = p
              /\ session[Current(b)] = Shared(p, Current(b))
              /\ ClientFinishes(b, Shared(p, Current(b)))
  <1> DEFINE h == First(b)
             g == Current(b)
             k == Len(keys[b]) + 1
             p == leads[g]
             S == BackwardLayers(b, 1)
             data == Answer(p, g)
             payload == [data |-> data, under |-> {}]
             opened == Crypt(Payload(h), BackwardKeys(keys[b]))
  <1>1. /\ PathOK(b) /\ HopsOK(b) /\ WireOK(b) /\ ProgressOK(b)
        /\ N(b) \in Nat /\ N(b) >= 3 /\ Done(b) \in Nat /\ Done(b) <= N(b)
    BY Known, Hops
  <1>2. /\ pc[b] = "waiting" /\ wire[h] # None
        /\ Read(h).command \in {"Created", "Extended"}
    BY DEF ClientKey, Has
  <1>3. h = <<b, 1>> /\ 1 \in 1 .. N(b) /\ k = Done(b) + 1
    BY <1>1 DEF First, Done
  <1>4. AnswerInFlight(b, 1)
    BY <1>1, <1>2, <1>3, Which
  <1>5. /\ Done(b) < N(b) /\ p # None /\ session[g] = Shared(p, g)
        /\ \E command : Carries(wire[h], command, data, S)
    BY <1>3, <1>4 DEF AnswerInFlight
  <1>6. p \in Process /\ NodeDescriptor(p) = path[b][k] /\ secret[b] = Ephemeral(g)
    BY <1>1, <1>2, <1>3, <1>5 DEF HopsOK, ProgressOK, Current
  <1>7. path[b][k].public_key = Public(Static(p))
    BY <1>6 DEF NodeDescriptor
  <1>8. opened = payload
    <2>1. DOMAIN keys[b] = 1 .. Done(b)
      BY <1>1 DEF ProgressOK, Done
    <2>2. BackwardKeys(keys[b]) = S
      BY <2>1 DEF BackwardKeys, BackwardLayers
    <2>3. Payload(h) = [data |-> data, under |-> S]
      BY <1>5, PayloadOf
    <2> HIDE DEF S, data, h
    <2>4. Crypt(Payload(h), S) = [data |-> data, under |-> (S \ S) \cup (S \ S)]
      BY <2>3, LayersRemoved
    <2>5. QED
      BY <2>2, <2>4
  <1>9. client_handshake(secret[b], path[b][k].public_key, payload) = Shared(p, g)
    <2> DEFINE ntor == ntor_client(Ephemeral(g), Public(Static(p)),
                                   SubSeq(payload.data, 1, KEY_LEN))
               auth == SubSeq(payload.data, KEY_LEN + 1, 2 * KEY_LEN)
    <2>1. /\ payload.data = data /\ payload.under = {}
          /\ SubSeq(data, 1, KEY_LEN) = Public(Server(g))
          /\ SubSeq(data, KEY_LEN + 1, 2 * KEY_LEN) = Tag(p, g)
      BY AnswerParts
    <2>2. ntor = [auth |-> Tag(p, g), session_key |-> Shared(p, g)]
      BY <2>1, BothCompute
    <2>3. auth = Tag(p, g)
      BY <2>1
    <2>4. client_handshake(secret[b], path[b][k].public_key, payload) =
            IF payload.under = {} /\ auth = ntor.auth THEN ntor.session_key
                                                      ELSE Malformed
      BY <1>6, <1>7 DEF client_handshake
    <2> HIDE DEF ntor, auth, payload
    <2>5. QED
      BY <2>1, <2>2, <2>3, <2>4
  <1>10. ClientFinishes(b, Shared(p, g))
    <2>1. ~(Len(payload.data) < 2 * KEY_LEN)
      <3>1. Len(payload.data) = 2 * KEY_LEN
        BY AnswerParts
      <3>2. 2 * KEY_LEN = 4
        BY DEF KEY_LEN
      <3> HIDE DEF payload
      <3>3. Len(payload.data) = 4
        BY <3>1, <3>2
      <3>4. QED
        BY <3>2, <3>3
    <2>2. /\ \E payload_1 \in {opened} :
             \E key \in {IF Len(payload_1.data) < 2 * KEY_LEN THEN Malformed
                          ELSE client_handshake(secret[b], path[b][k].public_key,
                                                payload_1)} :
                ClientFinishes(b, key)
      BY DEF ClientKey
    <2> HIDE DEF opened, payload, k, g, p
    <2>3. QED
      BY <1>8, <1>9, <2>1, <2>2
  <1>11. QED
    BY <1>2, <1>5, <1>6, <1>10

LEMMA ClientKeyKeeps ==
    ASSUME IInv, NEW b \in Build, ClientKey(b)
    PROVE  IInv'
  <1> DEFINE h == First(b)
             g == Current(b)
             n == Done(b)
  <1>1. PICK p \in Process :
           /\ pc[b] = "waiting" /\ wire[h] # None /\ n < N(b)
           /\ leads[g] = p /\ session[g] = Shared(p, g)
           /\ ClientFinishes(b, Shared(p, g))
    BY ClientComputes
  <1> DEFINE key == Shared(p, g)
             ks == Append(keys[b], key)
             K == {Shared(o, i) : o \in Process, i \in Hop}
             on == Taken(h)
  <1>2. /\ Shape /\ PathOK(b) /\ HopsOK(b) /\ KeysOK(b) /\ WireOK(b)
        /\ keys[b] \in Seq(K) /\ secret[b] = Ephemeral(g)
        /\ N(b) \in Nat /\ N(b) >= 3 /\ n \in Nat
    <2>1. /\ Shape /\ PathOK(b) /\ HopsOK(b) /\ KeysOK(b) /\ WireOK(b)
          /\ ProgressOK(b) /\ n \in Nat
      BY Known
    <2>2. keys[b] \in Seq(K)
      BY <2>1 DEF ProgressOK
    <2>3. secret[b] = Ephemeral(g)
      BY <1>1, <2>1 DEF ProgressOK
    <2>4. N(b) \in Nat /\ N(b) >= 3
      BY Hops
    <2>5. QED
      BY <2>1, <2>2, <2>3, <2>4
  <1>3. /\ UNCHANGED <<running, listed, path, leads, session, closed>>
        /\ path' = path /\ leads' = leads /\ session' = session
        /\ closed' = closed /\ h = <<b, 1>> /\ 1 \in 1 .. N(b)
    BY <1>2 DEF ClientKey, First
  <1>4. Clean(on, b)
    BY <1>1, <1>2, <1>3, Takes DEF Shape
  <1>5. g \in Hop /\ g = <<b, n + 1>> /\ n + 1 \in 1 .. N(b)
    BY <1>1, <1>2, Hops DEF Current
  <1>6. /\ ks \in Seq(K) /\ Len(ks) = n + 1 /\ ks[n + 1] = key
        /\ \A i \in 1 .. n : ks[i] = keys[b][i]
    <2>1. key \in K
      BY <1>5
    <2> HIDE DEF K, key
    <2>2. QED
      BY <1>2, <2>1, AppendProperties DEF Done
  <1>7. Len(path[b]) = N(b) /\ path'[b] = path[b]
    BY <1>1, <1>2, <1>3 DEF PathOK
  <1>8. PathOK(b)' \/ pc'[b] = "idle"
    BY <1>1, <1>2, <1>3 DEF PathOK, N
  <1> HIDE DEF on
  <1>9. CASE key = Malformed
    <2>1. /\ pc' = [pc EXCEPT ![b] = "failed"] /\ wire' = Taken(h)
          /\ UNCHANGED <<secret, keys>>
      BY <1>1, <1>9 DEF ClientFinishes
    <2>2. /\ pc'[b] = "failed" /\ DOMAIN pc' = Build
          /\ \A a \in Build \ {b} : pc'[a] = pc[a]
      BY <1>2, <2>1 DEF Shape
    <2>3. /\ WireOK(b)' /\ DOMAIN wire' = Hop
          /\ \A a \in Build \ {b} :
                \A i \in 1 .. N(a) : wire'[<<a, i>>] = wire[<<a, i>>]
      BY <1>3, <1>4, <2>1, TakenOK DEF on
    <2>4. HopsOK(b)' /\ KeysOK(b)'
      BY <1>2, <1>3, <2>1 DEF HopsOK, KeysOK, N, Done
    <2>5. ProgressOK(b)'
      <3>1. /\ keys'[b] = keys[b] /\ Done(b)' = n /\ N(b)' = N(b)
        BY <2>1 DEF N, Done
      <3>2. QED
        BY <1>1, <1>2, <2>2, <3>1 DEF ProgressOK
    <2>6. BuildOK(b)'
      BY <1>8, <2>2, <2>3, <2>4, <2>5 DEF BuildOK
    <2>7. Shape' /\ \A a \in Build \ {b} : Keeps(a)
      BY <1>2, <1>3, <2>1, <2>2, <2>3 DEF Shape, Keeps
    <2>8. QED
      BY <1>3, <2>6, <2>7, BuildStep
  <1>10. CASE key # Malformed
    <2>1. /\ keys' = [keys EXCEPT ![b] = ks]
          /\ \/ Len(ks) < Len(path[b]) /\ ClientExtends(b, ks) /\ pc' = pc
             \/ /\ Len(ks) = Len(path[b])
                /\ pc' = [pc EXCEPT ![b] = "ready"]
                /\ wire' = on /\ secret' = secret
      BY <1>1, <1>10 DEF ClientFinishes, on
    <2> HIDE DEF ks, K
    <2>2. /\ keys'[b] = ks /\ DOMAIN keys' = Build /\ Done(b)' = n + 1
          /\ N(b)' = N(b)
          /\ \A a \in Build \ {b} : keys'[a] = keys[a]
      BY <1>2, <1>6, <2>1 DEF Shape, Done, N
    <2>3. HopsOK(b)'
      <3>1. \A i \in 1 .. N(b) : i <= n + 1 => i <= n + 2
        BY <1>2
      <3>2. QED
        BY <1>2, <1>3, <2>2, <3>1 DEF HopsOK
    <2>4. KeysOK(b)'
      <3> SUFFICES ASSUME NEW i \in 1 .. n + 1
                   PROVE  /\ leads[<<b, i>>] # None
                          /\ session[<<b, i>>] = ks[i]
                          /\ ks[i] = Shared(leads[<<b, i>>], <<b, i>>)
        BY <1>3, <2>2 DEF KeysOK
      <3>1. CASE i = n + 1
        BY <1>1, <1>5, <1>6, <3>1, NoneAssumption
      <3>2. CASE i # n + 1
        <4>1. i \in 1 .. n
          BY <1>2, <3>2
        <4>2. QED
          BY <1>2, <1>6, <4>1 DEF KeysOK
      <3>3. QED
        BY <3>1, <3>2
    <2>5. CASE Len(ks) = Len(path[b])
      <3>1. /\ pc' = [pc EXCEPT ![b] = "ready"] /\ wire' = on
            /\ secret' = secret /\ n + 1 = N(b)
        BY <1>2, <1>6, <1>7, <2>1, <2>5
      <3>2. /\ pc'[b] = "ready" /\ DOMAIN pc' = Build
            /\ \A a \in Build \ {b} : pc'[a] = pc[a]
        BY <1>2, <3>1 DEF Shape
      <3>3. /\ WireOK(b)' /\ DOMAIN wire' = Hop
            /\ \A a \in Build \ {b} :
                  \A i \in 1 .. N(a) : wire'[<<a, i>>] = wire[<<a, i>>]
        BY <1>3, <1>4, <3>1, TakenOK DEF on
      <3>4. ProgressOK(b)'
        <4>1. keys'[b] \in Seq(K) /\ Done(b)' <= N(b)'
          BY <1>2, <1>6, <2>2, <3>1
        <4>2. QED
          BY <3>2, <4>1 DEF ProgressOK, K
      <3>5. BuildOK(b)'
        BY <1>8, <2>3, <2>4, <3>2, <3>3, <3>4 DEF BuildOK
      <3>6. Shape' /\ \A a \in Build \ {b} : Keeps(a)
        BY <1>2, <1>3, <2>2, <3>1, <3>2, <3>3 DEF Shape, Keeps
      <3>7. QED
        BY <1>3, <3>5, <3>6, BuildStep
    <2>6. CASE Len(ks) # Len(path[b])
      <3> DEFINE next == <<b, n + 2>>
                 T == Forward(ks)
                 data == ExtendPayload(path[b][n + 2], Public(Ephemeral(next))).data
                 payload == [data |-> data, under |-> T]
      <3>1. pc' = pc /\ ClientExtends(b, ks) /\ n + 1 < N(b)
        BY <1>2, <1>6, <1>7, <2>1, <2>6
      <3>2. /\ secret' = [secret EXCEPT ![b] = Ephemeral(next)]
            /\ Puts(h, "Extend",
                    Crypt(ExtendPayload(path[b][n + 2], Public(secret'[b])), T),
                    on)
        <4>1. Len(ks) + 1 = n + 2
          BY <1>2, <1>6
        <4> HIDE DEF T, h
        <4>2. QED
          BY <3>1, <4>1 DEF ClientExtends, on, h, T
      <3>3. /\ secret'[b] = Ephemeral(next) /\ DOMAIN secret' = Build
            /\ \A a \in Build \ {b} : secret'[a] = secret[a]
        BY <1>2, <3>2 DEF Shape
      <3>4. ExtendPayload(path[b][n + 2], Public(Ephemeral(next))) =
              [data |-> data, under |-> {}]
        BY DEF ExtendPayload, Plain, Sealed
      <3>5. Crypt([data |-> data, under |-> {}], T) = payload
        <4> HIDE DEF data, T
        <4>1. ({} \ T) \cup (T \ {}) = T
          OBVIOUS
        <4>2. QED
          BY <4>1, LayersRemoved
      <3>6. PICK o \in Process : path[b][n + 2] = NodeDescriptor(o)
        <4>1. n + 2 \in 1 .. N(b)
          BY <1>2, <3>1
        <4>2. QED
          BY <1>1, <1>2, <4>1 DEF PathOK
      <3>7. IsBytes(data)
        BY <3>6, Parsed
      <3>8. Moved(b, 1, "Extend", data, T)
        <4>1. payload.data = data /\ payload.under = T
          OBVIOUS
        <4>2. Puts(<<b, 1>>, "Extend", payload, on)
          BY <1>3, <3>2, <3>3, <3>4, <3>5
        <4>3. "Extend" \in DOMAIN to_u8
          BY DEF to_u8
        <4> HIDE DEF payload, data, T, next
        <4>4. Moved(b, 1, "Extend", payload.data, payload.under)
          BY <1>3, <1>4, <3>7, <4>1, <4>2, <4>3, PutsMoves
        <4>5. QED
          BY <4>1, <4>4
      <3>9. /\ Current(b)' = next /\ leads[next] = None
            /\ Request(b)' = data /\ ForwardLayers(b, 1)' = T
        <4>1. Current(b)' = next /\ Done(b)' + 1 = n + 2
          BY <1>2, <2>2 DEF Current
        <4>2. leads[next] = None
          <5>1. n + 2 \in 1 .. N(b) /\ ~(n + 2 <= n + 1)
            BY <1>2, <3>1
          <5>2. QED
            BY <1>2, <5>1 DEF HopsOK
        <4>3. Request(b)' = data
          BY <1>3, <4>1 DEF Request
        <4>4. ForwardLayers(b, 1)' = T
          <5>1. DOMAIN ks = 1 .. n + 1
            BY <1>2, <1>6
          <5>2. QED
            BY <2>2, <5>1 DEF ForwardLayers, Forward
        <4>5. QED
          BY <4>1, <4>2, <4>3, <4>4
      <3> HIDE DEF next, data, T, payload
      <3>10. ExtendInFlight(b, 1)'
        <4>1. 1 \in 1 .. Done(b)' /\ Done(b)' < N(b)' /\ leads'[Current(b)'] = None
          BY <1>2, <1>3, <2>2, <3>1, <3>9
        <4>2. QED
          BY <3>8, <3>9, <4>1 DEF ExtendInFlight, Moved
      <3>11. WireOK(b)'
        BY <1>3, <3>8, <3>10, NewWireOK DEF Moved
      <3>12. ProgressOK(b)'
        <4>1. /\ keys'[b] \in Seq(K) /\ Done(b)' <= N(b)' /\ Done(b)' < N(b)'
              /\ pc'[b] = "waiting" /\ secret'[b] = Ephemeral(Current(b)')
          BY <1>1, <1>2, <1>6, <2>2, <3>1, <3>3, <3>9
        <4>2. QED
          BY <4>1 DEF ProgressOK, K
      <3>13. BuildOK(b)'
        BY <1>1, <1>8, <2>3, <2>4, <3>1, <3>11, <3>12 DEF BuildOK
      <3>14. Shape' /\ \A a \in Build \ {b} : Keeps(a)
        BY <1>2, <1>3, <2>2, <3>1, <3>3, <3>8 DEF Shape, Keeps, Moved
      <3>15. QED
        BY <1>3, <3>13, <3>14, BuildStep
    <2>7. QED
      BY <2>5, <2>6
  <1>11. QED
    BY <1>9, <1>10

-----------------------------------------------------------------------------
(* Theorems.                                                               *)

LEMMA NextKeeps ==
    ASSUME IInv, [Next]_vars
    PROVE  IInv'
  <1>1. CASE UNCHANGED vars
    <2>1. UNCHANGED <<running, listed, client, leads, session, closed, wire>>
      BY <1>1 DEF vars
    <2>2. RelayInv'
      BY <2>1 DEF IInv, RelayInv, running
    <2>3. QED
      BY <2>1, <2>2, RelaysStep
  <1>2. ASSUME NEW r \in Relay, Register(r) \/ Bind(r) \/ Crash(r)
        PROVE  IInv'
    BY <1>2, RegisterKeeps, BindKeeps, CrashKeeps
  <1>3. ASSUME NEW b \in Build,
               Query(b) \/ Connect(b) \/ ClientKey(b) \/ ClientFails(b)
        PROVE  IInv'
    BY <1>3, QueryKeeps, ConnectKeeps, ClientKeyKeeps, ClientFailsKeeps
  <1>4. ASSUME NEW h \in Hop, Create(h) \/ Extend(h) \/ ExtendDone(h) \/ Backward(h)
        PROVE  IInv'
    <2>1. PICK b \in Build : \E k \in 1 .. N(b) : h = <<b, k>>
      BY Hops
    <2>2. PICK k \in 1 .. N(b) : h = <<b, k>>
      BY <2>1
    <2>3. CASE Create(h)
      BY <2>2, <2>3, CreateKeeps
    <2>4. CASE Extend(h)
      BY <2>2, <2>4, ExtendKeeps
    <2>5. CASE ExtendDone(h)
      BY <2>2, <2>5, ExtendDoneKeeps
    <2>6. CASE Backward(h)
      BY <2>2, <2>6, BackwardKeeps
    <2>7. QED
      BY <1>4, <2>3, <2>4, <2>5, <2>6
  <1>5. QED
    BY <1>1, <1>2, <1>3, <1>4 DEF Next

\* At any time a build has one cell under way at most, and it carries what the
\* client or the hop that it is from has written, with the layers that are left
\* where it is.
THEOREM Invariance == Spec => []IInv
  <1>1. Init => IInv
    BY InitOK
  <1>2. IInv /\ [Next]_vars => IInv'
    BY NextKeeps
  <1>3. QED
    BY <1>1, <1>2, PTL DEF Spec

\* Every cell on a connection is a whole one, every relay's process is one that
\* has been started, and every session key has its two halves.
THEOREM TypeCorrect == Spec => []TypeOK
  <1>1. IInv => TypeOK
    <2> SUFFICES ASSUME IInv PROVE TypeOK
      OBVIOUS
    <2>1. /\ started \in [Relay -> Nat] /\ binding \in [Relay -> BOOLEAN]
          /\ \A r \in Relay : /\ started[r] <= MaxStarts[r]
                              /\ serving[r] = None \/
                                 \E n \in 1 .. started[r] : serving[r] = <<r, n>>
      BY DEF IInv, RelayInv
    <2>2. ASSUME NEW b \in Build
          PROVE  pc[b] \in {"idle", "connect", "waiting", "ready", "failed"}
      <3>1. ProgressOK(b)
        BY Known
      <3>2. QED
        BY <3>1 DEF ProgressOK
    <2>3. ASSUME NEW h \in Hop
          PROVE  /\ leads[h] \in Process \cup {None}
                 /\ session[h] = None \/ IsNtorKey(session[h])
                 /\ wire[h] = None \/ Len(wire[h].cell) = CELL_SIZE
      <3>1. PICK b \in Build : \E k \in 1 .. N(b) : h = <<b, k>>
        BY Hops
      <3>2. PICK k \in 1 .. N(b) : h = <<b, k>>
        BY <3>1
      <3>3. HopsOK(b) /\ WireOK(b)
        BY Known
      <3>4. leads[h] \in Process \cup {None}
        BY <3>2, <3>3 DEF HopsOK
      <3>5. session[h] = None \/ IsNtorKey(session[h])
        BY <3>2, <3>3, KeysDiffer DEF HopsOK
      <3>6. wire[h] = None \/ Len(wire[h].cell) = CELL_SIZE
        BY <3>2, <3>3 DEF WireOK
      <3>7. QED
        BY <3>4, <3>5, <3>6
    <2>4. closed \subseteq Hop
      BY DEF IInv, Shape
    <2>5. ASSUME NEW b \in Build, NEW k \in DOMAIN keys[b]
          PROVE  IsNtorKey(keys[b][k])
      <3>1. ProgressOK(b) /\ KeysOK(b)
        BY Known
      <3>2. k \in 1 .. Done(b)
        BY <3>1 DEF ProgressOK, Done
      <3>3. keys[b][k] = Shared(leads[<<b, k>>], <<b, k>>)
        BY <3>1, <3>2 DEF KeysOK
      <3>4. QED
        BY <3>3, KeysDiffer
    <2>6. QED
      BY <2>1, <2>2, <2>3, <2>4, <2>5 DEF TypeOK
  <1>2. QED
    BY <1>1, Invariance, PTL

\* However often relays restart with new keys while circuits are built, and
\* whatever bytes are drawn, a circuit leads to no process but those whose
\* descriptors its client went by, and each of them has its client's key.
THEOREM KeysAgreeHolds == Spec => []KeysAgree
  <1>1. IInv => KeysAgree
    <2> SUFFICES ASSUME IInv, NEW h \in Hop
                 PROVE  /\ leads[h] # None => NodeDescriptor(leads[h]) = path[h[1]][h[2]]
                        /\ h[2] \in DOMAIN keys[h[1]] => session[h] = keys[h[1]][h[2]]
      BY DEF KeysAgree
    <2>1. PICK b \in Build : \E k \in 1 .. N(b) : h = <<b, k>>
      BY Hops
    <2>2. PICK k \in 1 .. N(b) : h = <<b, k>>
      BY <2>1
    <2>3. HopsOK(b) /\ KeysOK(b) /\ ProgressOK(b) /\ h[1] = b /\ h[2] = k
      BY <2>2, Known
    <2>4. leads[h] # None => NodeDescriptor(leads[h]) = path[b][k]
      BY <2>2, <2>3 DEF HopsOK
    <2>5. k \in DOMAIN keys[b] => session[h] = keys[b][k]
      <3>1. DOMAIN keys[b] = 1 .. Done(b)
        BY <2>3 DEF ProgressOK, Done
      <3>2. QED
        BY <2>2, <2>3, <3>1 DEF KeysOK
    <2>6. QED
      BY <2>3, <2>4, <2>5
  <1>2. QED
    BY <1>1, Invariance, PTL

\* No two hops of any circuits have a keystream in common, and no hop has the
\* same for both directions.
THEOREM KeysAreSeparateHolds == Spec => []KeysAreSeparate
  <1>1. IInv => KeysAreSeparate
    <2>1. ASSUME IInv, NEW h \in Hop, session[h] # None
          PROVE  session[h] = Shared(leads[h], h)
      <3>1. PICK b \in Build : \E k \in 1 .. N(b) : h = <<b, k>>
        BY Hops
      <3>2. PICK k \in 1 .. N(b) : h = <<b, k>>
        BY <3>1
      <3>3. HopsOK(b)
        BY <2>1, Known
      <3>4. QED
        BY <2>1, <3>2, <3>3 DEF HopsOK
    <2> SUFFICES ASSUME IInv, NEW g \in Hop, NEW h \in Hop,
                        session[g] # None, session[h] # None
                 PROVE  /\ session[g].forward # session[h].backward
                        /\ g # h => /\ session[g].forward # session[h].forward
                                    /\ session[g].backward # session[h].backward
      BY DEF KeysAreSeparate
    <2>2. /\ session[g] = Shared(leads[g], g)
          /\ session[h] = Shared(leads[h], h)
      BY <2>1
    <2>3. QED
      BY <2>2, KeysDiffer
  <1>2. QED
    BY <1>1, Invariance, PTL

-----------------------------------------------------------------------------
(* What a build fails over.                                                *)

\* A connection that has ended has been there.
ClosedOK == \A h \in closed : leads[h] # None

LEMMA ClosedKeeps ==
    ASSUME IInv, ClosedOK, [Next]_vars
    PROVE  ClosedOK'
  <1> USE DEF ClosedOK
  <1>1. \A p, f : Accepts(p, f) => p # None
    BY DEF Accepts
  <1>2. closed \subseteq Hop /\ DOMAIN leads = Hop
    BY DEF IInv, Shape
  <1>3. CASE UNCHANGED vars
    BY <1>3 DEF vars
  <1>4. ASSUME NEW r \in Relay, Register(r) \/ Bind(r) \/ Crash(r)
        PROVE  ClosedOK'
    BY <1>4 DEF Register, Bind, Crash
  <1>5. ASSUME NEW b \in Build,
               Query(b) \/ Connect(b) \/ ClientKey(b) \/ ClientFails(b)
        PROVE  ClosedOK'
    <2>1. CASE Connect(b)
      <3>1. closed' = closed
        BY <2>1 DEF Connect
      <3>2. \/ leads' = leads
            \/ \E p : p # None /\ leads' = [leads EXCEPT ![First(b)] = p]
        BY <1>1, <2>1 DEF Connect
      <3>3. QED
        BY <1>2, <3>1, <3>2
    <2>2. QED
      BY <1>5, <2>1 DEF Query, ClientKey, ClientFails
  <1>6. ASSUME NEW h \in Hop, Create(h) \/ Extend(h) \/ ExtendDone(h) \/ Backward(h)
        PROVE  ClosedOK'
    <2>1. CASE Create(h)
      BY <2>1 DEF Create, Alive, EndsLoop
    <2>2. CASE Extend(h)
      <3>1. leads[h] # None /\ (closed' = closed \/ closed' = closed \cup {h})
        BY <2>2 DEF Extend, ExtendTo, Alive, EndsLoop
      <3>2. \/ leads' = leads
            \/ \E p : p # None /\ leads' = [leads EXCEPT ![After(h)] = p]
        BY <1>1, <2>2 DEF Extend, ExtendTo, Connects
      <3>3. QED
        BY <1>2, <3>1, <3>2
    <2>3. QED
      BY <1>6, <2>1, <2>2 DEF ExtendDone, Backward
  <1>7. QED
    BY <1>3, <1>4, <1>5, <1>6 DEF Next

\* Whoever listens at the address of r is r's own process.
LEMMA ListenerOf ==
    ASSUME NEW r \in Relay
    PROVE  /\ Listener(Address(r)) = serving[r]
           /\ Listener(Address(r))' = serving'[r]
  <1> DEFINE at == {q \in Relay : Address(q) = Address(r)}
  <1>1. \A q : Address(q) = Address(r) => q = r
    BY DEF Address
  <1>2. at = {r}
    BY <1>1
  <1>3. (CHOOSE q \in at : TRUE) = r
    BY <1>2
  <1>4. QED
    BY <1>2, <1>3 DEF Listener

\* A relay that is refused is not the one that the descriptor is of.
LEMMA RefusedIsStale ==
    ASSUME NEW b \in Build, NEW k \in DOMAIN path[b],
           ~Accepts(Listener(path[b][k].address), path[b][k].tls_cert_fingerprint)
    PROVE  Stale(b)
  <1> DEFINE p == Listener(path[b][k].address)
  <1>1. p = None \/ Fingerprint(p) # path[b][k].tls_cert_fingerprint
    BY DEF Accepts
  <1>2. NodeDescriptor(p).tls_cert_fingerprint = Fingerprint(p)
    BY DEF NodeDescriptor
  <1> HIDE DEF p
  <1>3. p = None \/ NodeDescriptor(p) # path[b][k]
    BY <1>1, <1>2
  <1>4. QED
    BY <1>3 DEF Stale, p

LEMMA StaysWell ==
    ASSUME IInv, NEW b \in Build, ~Hurt(b), pc'[b] # "failed",
           \A k \in 1 .. N(b) :
              \/ leads'[<<b, k>>] = leads[<<b, k>>]
              \/ /\ serving'[leads'[<<b, k>>][1]] = leads'[<<b, k>>]
                 /\ <<b, k>> \notin closed,
           \A k \in 1 .. N(b) : <<b, k>> \in closed' => <<b, k>> \in closed,
           \A r \in Relay : serving[r] # None => serving'[r] = serving[r]
    PROVE  ~Hurt(b)'
  <1> SUFFICES ASSUME NEW h \in Hop, h[1] = b, leads'[h] # None
               PROVE  Alive(h)'
    BY DEF Hurt, Disconnected, Opened
  <1>1. PICK a \in Build : \E k \in 1 .. N(a) : h = <<a, k>>
    BY Hops
  <1>2. PICK k \in 1 .. N(b) : h = <<b, k>>
    BY <1>1
  <1>3. CASE leads'[h] = leads[h]
    <2>1. Alive(h)
      BY <1>3 DEF Hurt, Disconnected, Opened
    <2>2. leads[h] \in Process /\ leads[h][1] \in Relay
      <3>1. leads[h] \in Process
        BY <1>2, <2>1, Known DEF HopsOK, Alive
      <3>2. QED
        BY <3>1 DEF Process
    <2>3. serving'[leads[h][1]] = leads[h]
      BY <2>1, <2>2 DEF Alive
    <2>4. h \notin closed'
      BY <1>2, <2>1 DEF Alive
    <2>5. QED
      BY <1>3, <2>3, <2>4 DEF Alive
  <1>4. CASE leads'[h] # leads[h]
    BY <1>2, <1>4 DEF Alive
  <1>5. QED
    BY <1>3, <1>4

\* Steps of other builds, and those that leave its connections alone.
LEMMA Untouched ==
    ASSUME IInv, NEW b \in Build, ~Hurt(b), pc'[b] # "failed",
           leads' = leads, closed' = closed, serving' = serving
    PROVE  ~Hurt(b)'
  BY StaysWell

LEMMA CrashMakesStale ==
    ASSUME IInv, NEW r \in Relay, Crash(r), NEW b \in Build, ~Hurt(b), Hurt(b)'
    PROVE  Stale(b)'
  <1>1. /\ serving'[r] = None /\ \A q \in Relay \ {r} : serving'[q] = serving[q]
        /\ leads' = leads /\ closed' = closed /\ pc' = pc /\ path' = path
    BY DEF Crash, client, IInv, RelayInv
  <1>2. PICK h \in Hop : h[1] = b /\ leads[h] # None /\ ~Alive(h)' /\ Alive(h)
    BY <1>1 DEF Hurt, Disconnected, Opened
  <1>3. PICK a \in Build : \E k \in 1 .. N(a) : h = <<a, k>>
    BY Hops
  <1>4. PICK k \in 1 .. N(b) : h = <<b, k>>
    BY <1>2, <1>3
  <1>5. leads[h] \in Process /\ NodeDescriptor(leads[h]) = path[b][k]
    BY <1>2, <1>4, Known DEF HopsOK
  <1>6. leads[h][1] \in Relay
    BY <1>5 DEF Process
  <1>7. leads[h][1] = r
    BY <1>1, <1>2, <1>6 DEF Alive
  <1>8. path[b][k].address = Address(r)
    BY <1>5, <1>7 DEF NodeDescriptor
  <1>9. k \in DOMAIN path[b]
    <2>1. pc[b] # "idle"
      <3>1. ProgressOK(b)
        BY Known
      <3>2. QED
        BY <1>2, <1>4, <3>1 DEF ProgressOK
    <2>2. QED
      BY <2>1, Known DEF PathOK
  <1>10. QED
    BY <1>1, <1>8, <1>9, ListenerOf DEF Stale

\* A relay that passes EXTEND on, connects to the next one, or is refused.
LEMMA ExtendOutcome ==
    ASSUME IInv, NEW b \in Build, NEW k \in 1 .. N(b), Extend(<<b, k>>)
    PROVE  \/ leads' = leads /\ closed' = closed
           \/ /\ leads[Current(b)] = None /\ closed' = closed
              /\ \E p \in Process :
                    /\ leads' = [leads EXCEPT ![Current(b)] = p]
                    /\ serving[p[1]] = p
           \/ Stale(b) /\ leads' = leads /\ closed' = closed \cup {<<b, k>>}
  <1> DEFINE h == <<b, k>>
             next == <<b, k + 1>>
             payload == [data |-> Request(b), under |-> ForwardLayers(b, k + 1)]
  <1>1. /\ PathOK(b) /\ HopsOK(b) /\ KeysOK(b) /\ N(b) \in Nat /\ Done(b) \in Nat
    BY Known
  <1>2. /\ k \in 1 .. Done(b) /\ Done(b) < N(b) /\ leads[Current(b)] = None
        /\ Peeled(h) = payload /\ pc[b] # "idle"
    <2>1. Has(h, "Extend")
      BY DEF Extend
    <2>2. QED
      BY <2>1, ExtendIsPeeled
  <1>3. After(h) = next
    BY DEF After
  <1>4. \/ leads' = leads /\ closed' = closed
        \/ leads[next] = None /\ ExtendTo(h, payload, ParseExtend(payload.data))
    <2> HIDE DEF h, next, payload
    <2>1. Extend(h)
      BY DEF h
    <2>2. QED
      BY <1>2, <1>3, <2>1 DEF Extend
  <1>5. CASE leads' = leads /\ closed' = closed
    BY <1>5
  <1>6. CASE leads[next] = None /\ ExtendTo(h, payload, ParseExtend(payload.data))
    <2>1. k = Done(b) /\ Current(b) = next
      BY <1>1, <1>2, <1>6 DEF KeysOK, Current
    <2>2. PICK p \in Process :
             /\ NodeDescriptor(p) = path[b][k + 1]
             /\ ParseExtend(Request(b)) =
                   [address |-> NodeDescriptor(p).address,
                    X |-> Public(Ephemeral(Current(b))),
                    fingerprint |-> NodeDescriptor(p).tls_cert_fingerprint]
      BY <1>1, <1>2, <2>1, RequestIs
    <2> DEFINE d == NodeDescriptor(p)
               parsed == ParseExtend(payload.data)
               q == Listener(d.address)
    <2>3. /\ parsed.address = d.address
          /\ parsed.fingerprint = d.tls_cert_fingerprint /\ parsed # Malformed
      BY <2>2 DEF Malformed
    <2>4. payload.under = {}
      <3>1. k + 1 .. Done(b) = {}
        BY <1>1, <2>1
      <3>2. QED
        BY <3>1 DEF ForwardLayers
    <2>5. p[1] \in Relay /\ d.address = Address(p[1])
      BY DEF Process, NodeDescriptor
    <2>6. NodeType[leads[h][1]] # "Exit"
      <3>1. leads[h] \in Process /\ NodeDescriptor(leads[h]) = path[b][k]
        BY <1>1, <1>2 DEF KeysOK, HopsOK
      <3>2. PICK o \in Process : o[1] = Path[b][k] /\ path[b][k] = NodeDescriptor(o)
        BY <1>1, <1>2 DEF PathOK
      <3>3. leads[h] = o
        BY <3>1, <3>2, Named DEF NodeDescriptor
      <3>4. NodeType[Path[b][k]] # "Exit"
        <4>1. k \in DOMAIN Path[b] /\ k # Len(Path[b])
          BY <1>1, <1>2, Hops DEF N
        <4>2. QED
          BY <4>1, PathAssumption
      <3>5. QED
        BY <3>2, <3>3, <3>4
    <2> HIDE DEF parsed, d, payload, h, next
    <2>7. CASE Accepts(q, d.tls_cert_fingerprint)
      <3>1. Connects(h, payload, parsed)
        BY <2>3, <2>4, <2>6, <2>7 DEF Connects
      <3>2. /\ leads' = [leads EXCEPT ![next] = Listener(parsed.address)]
            /\ closed' = closed
        BY <1>3, <1>6, <3>1 DEF ExtendTo, parsed
      <3>3. q = p
        BY <2>7, AcceptedIs DEF d
      <3>4. serving[p[1]] = p
        BY <2>5, <3>3, ListenerOf
      <3>5. QED
        BY <1>2, <2>1, <2>3, <3>2, <3>3, <3>4
    <2>8. CASE ~Accepts(q, d.tls_cert_fingerprint)
      <3>1. k + 1 \in DOMAIN path[b]
        BY <1>1, <1>2, <2>1 DEF PathOK
      <3>2. Stale(b)
        BY <2>2, <2>8, <3>1, RefusedIsStale DEF d
      <3>3. ~Connects(h, payload, parsed)
        BY <2>3, <2>8 DEF Connects
      <3>4. leads' = leads /\ closed' = closed \cup {h}
        BY <1>6, <3>3 DEF ExtendTo, EndsLoop, parsed
      <3>5. QED
        BY <3>2, <3>4 DEF h
    <2>9. QED
      BY <2>7, <2>8
  <1>7. QED
    BY <1>4, <1>5, <1>6

\* The relay that it connects to listens, and what it ends is stale.
LEMMA ExtendHurtsNone ==
    ASSUME IInv, ClosedOK, NEW a \in Build, NEW j \in 1 .. N(a), Extend(<<a, j>>),
           NEW b \in Build, ~Hurt(b), Hurt(b)', pc' = pc, serving' = serving
    PROVE  Stale(b)
  <1> DEFINE next == Current(a)
  <1>1. pc'[b] # "failed" /\ DOMAIN leads = Hop
    BY DEF Hurt, IInv, Shape
  <1>2. CASE leads' = leads /\ closed' = closed
    BY <1>1, <1>2, Untouched
  <1>3. CASE /\ leads[next] = None /\ closed' = closed
             /\ \E p \in Process : /\ leads' = [leads EXCEPT ![next] = p]
                                   /\ serving[p[1]] = p
    <2>1. PICK p \in Process : /\ leads' = [leads EXCEPT ![next] = p]
                               /\ serving[p[1]] = p
      BY <1>3
    <2>2. \A k \in 1 .. N(b) :
             \/ leads'[<<b, k>>] = leads[<<b, k>>]
             \/ /\ serving'[leads'[<<b, k>>][1]] = leads'[<<b, k>>]
                /\ <<b, k>> \notin closed
      <3> HIDE DEF next
      <3> SUFFICES ASSUME NEW k \in 1 .. N(b), leads'[<<b, k>>] # leads[<<b, k>>]
                   PROVE  /\ serving'[leads'[<<b, k>>][1]] = leads'[<<b, k>>]
                          /\ <<b, k>> \notin closed
        OBVIOUS
      <3>1. <<b, k>> \in Hop
        BY Hops
      <3>2. <<b, k>> = next /\ leads'[<<b, k>>] = p
        BY <1>1, <2>1, <3>1
      <3>3. <<b, k>> \notin closed
        BY <1>3, <3>2 DEF ClosedOK
      <3>4. QED
        BY <2>1, <3>2, <3>3
    <2>3. QED
      BY <1>1, <1>3, <2>2, StaysWell
  <1>4. CASE Stale(a) /\ leads' = leads /\ closed' = closed \cup {<<a, j>>}
    <2>1. CASE a = b
      BY <1>4, <2>1
    <2>2. CASE a # b
      BY <1>1, <1>4, <2>2, StaysWell
    <2>3. QED
      BY <2>1, <2>2
  <1>5. QED
    BY <1>2, <1>3, <1>4, ExtendOutcome

LEMMA FailsOnlyIfStale ==
    ASSUME IInv, ClosedOK, [Next]_vars, NEW b \in Build, ~Hurt(b), Hurt(b)'
    PROVE  Stale(b) \/ Stale(b)'
  <1>1. /\ Shape /\ PathOK(b) /\ ProgressOK(b) /\ pc[b] # "failed"
        /\ N(b) \in Nat /\ N(b) >= 3
    BY Known, Hops DEF Hurt
  <1>2. pc'[b] = "failed" \/ ~(leads' = leads /\ closed' = closed /\ serving' = serving)
    BY Untouched
  <1>3. CASE UNCHANGED vars
    BY <1>1, <1>2, <1>3 DEF vars, running, client
  <1>4. ASSUME NEW r \in Relay, Register(r) \/ Bind(r) \/ Crash(r)
        PROVE  Stale(b)'
    <2>1. CASE Register(r)
      BY <1>1, <1>2, <2>1 DEF Register, client
    <2>2. CASE Bind(r)
      <3>1. leads' = leads /\ closed' = closed /\ pc' = pc
        BY <2>2 DEF Bind, client
      <3>2. \A q \in Relay : serving[q] # None => serving'[q] = serving[q]
        BY <2>2 DEF Bind, IInv, RelayInv
      <3>3. QED
        BY <1>1, <3>1, <3>2, StaysWell
    <2>3. CASE Crash(r)
      BY <2>3, CrashMakesStale
    <2>4. QED
      BY <1>4, <2>1, <2>2, <2>3
  <1>5. ASSUME NEW a \in Build,
               Query(a) \/ Connect(a) \/ ClientKey(a) \/ ClientFails(a)
        PROVE  Stale(b)
    <2>1. CASE Query(a)
      <3>1. pc' = [pc EXCEPT ![a] = "connect"]
        BY <2>1 DEF Query
      <3>2. pc'[b] # "failed"
        BY <1>1, <3>1 DEF Shape
      <3>3. QED
        BY <1>2, <2>1, <3>2 DEF Query, running
    <2>2. CASE Connect(a)
      <3> DEFINE d == path[a][1]
                 p == Listener(d.address)
      <3>1. serving' = serving /\ closed' = closed /\ pc[a] = "connect"
        BY <2>2 DEF Connect, running
      <3>2. CASE ~Accepts(p, d.tls_cert_fingerprint)
        <4>1. pc' = [pc EXCEPT ![a] = "failed"] /\ leads' = leads
          BY <2>2, <3>2 DEF Connect
        <4>2. a = b
          BY <1>1, <1>2, <3>1, <4>1 DEF Shape
        <4>3. 1 \in DOMAIN path[b]
          BY <1>1, <3>1, <4>2 DEF PathOK
        <4>4. QED
          BY <3>2, <4>2, <4>3, RefusedIsStale
      <3>3. CASE Accepts(p, d.tls_cert_fingerprint)
        <4>1. /\ pc' = [pc EXCEPT ![a] = "waiting"]
              /\ leads' = [leads EXCEPT ![First(a)] = p]
          BY <2>2, <3>3 DEF Connect
        <4>2. pc'[b] # "failed"
          BY <1>1, <4>1 DEF Shape
        <4>3. PathOK(a) /\ ProgressOK(a) /\ N(a) \in Nat /\ N(a) >= 3
          BY Known, Hops
        <4>4. PICK q \in Process : d = NodeDescriptor(q)
          BY <3>1, <4>3 DEF PathOK
        <4>5. p = q /\ serving[q[1]] = q
          <5>1. p = q
            BY <3>3, <4>4, AcceptedIs
          <5>2. q[1] \in Relay /\ d.address = Address(q[1])
            BY <4>4 DEF Process, NodeDescriptor
          <5>3. QED
            BY <5>1, <5>2, ListenerOf
        <4>6. First(a) = <<a, 1>> /\ <<a, 1>> \notin closed /\ <<a, 1>> \in Hop
          <5>1. leads[<<a, 1>>] = None /\ <<a, 1>> \in Hop
            BY <3>1, <4>3, Hops DEF ProgressOK
          <5>2. QED
            BY <5>1 DEF ClosedOK, First
        <4> HIDE DEF p, d
        <4>7. \A k \in 1 .. N(b) :
                 \/ leads'[<<b, k>>] = leads[<<b, k>>]
                 \/ /\ serving'[leads'[<<b, k>>][1]] = leads'[<<b, k>>]
                    /\ <<b, k>> \notin closed
          <5> SUFFICES ASSUME NEW k \in 1 .. N(b), leads'[<<b, k>>] # leads[<<b, k>>]
                       PROVE  /\ serving'[leads'[<<b, k>>][1]] = leads'[<<b, k>>]
                              /\ <<b, k>> \notin closed
            OBVIOUS
          <5>1. <<b, k>> = <<a, 1>>
            BY <1>1, <4>1, <4>6, Hops DEF Shape
          <5>2. leads'[<<b, k>>] = q
            BY <1>1, <4>1, <4>5, <4>6, <5>1 DEF Shape
          <5>3. QED
            BY <3>1, <4>5, <4>6, <5>1, <5>2
        <4>8. QED
          BY <3>1, <4>2, <4>7, StaysWell
      <3>4. QED
        BY <3>2, <3>3
    <2>3. CASE ClientKey(a)
      <3>1. leads' = leads /\ closed' = closed /\ serving' = serving
        BY <2>3 DEF ClientKey, running
      <3>2. PICK p \in Process : ClientFinishes(a, Shared(p, Current(a)))
        BY <2>3, ClientComputes
      <3>3. Shared(p, Current(a)) # Malformed
        <4>1. DOMAIN Shared(p, Current(a)) = {"forward", "backward"}
          BY KeysDiffer DEF IsNtorKey
        <4>2. DOMAIN Malformed = {"error"}
          BY DEF Malformed
        <4>3. QED
          BY <4>1, <4>2
      <3>4. pc' = pc \/ pc' = [pc EXCEPT ![a] = "ready"]
        BY <3>2, <3>3 DEF ClientFinishes
      <3>5. pc'[b] # "failed"
        BY <1>1, <3>4 DEF Shape
      <3>6. QED
        BY <1>2, <3>1, <3>5
    <2>4. CASE ClientFails(a)
      <3>1. /\ leads' = leads /\ closed' = closed /\ serving' = serving
            /\ pc' = [pc EXCEPT ![a] = "failed"] /\ Disconnected(a)
        BY <2>4 DEF ClientFails, running
      <3>2. a # b
        BY <3>1 DEF Hurt
      <3>3. pc'[b] # "failed"
        BY <1>1, <3>1, <3>2 DEF Shape
      <3>4. QED
        BY <1>2, <3>1, <3>3
    <2>5. QED
      BY <1>5, <2>1, <2>2, <2>3, <2>4
  <1>6. ASSUME NEW h \in Hop, Create(h) \/ Extend(h) \/ ExtendDone(h) \/ Backward(h)
        PROVE  Stale(b)
    <2>1. PICK a \in Build : \E k \in 1 .. N(a) : h = <<a, k>>
      BY Hops
    <2>2. PICK k \in 1 .. N(a) : h = <<a, k>>
      BY <2>1
    <2>3. CASE Create(h)
      <3>1. closed' = closed /\ UNCHANGED <<running, listed, client, leads>>
        BY <2>2, <2>3, CreateAnswers
      <3>2. QED
        BY <1>1, <1>2, <3>1 DEF running, client
    <2>4. CASE Extend(h)
      <3>1. pc' = pc /\ serving' = serving
        BY <2>4 DEF Extend, client, running
      <3>2. QED
        BY <1>1, <1>2, <2>2, <2>4, <3>1, ExtendHurtsNone
    <2>5. CASE ExtendDone(h) \/ Backward(h)
      BY <1>1, <1>2, <2>5 DEF ExtendDone, Backward, running, client
    <2>6. QED
      BY <1>6, <2>3, <2>4, <2>5
  <1>7. QED
    BY <1>3, <1>4, <1>5, <1>6 DEF Next

\* A build that has the descriptors of the processes that listen at its
\* addresses does not fail, whatever bytes its keys and its cells' padding
\* consist of: no tag is refused, no EXTEND misread, no CREATE cut short.
THEOREM RefusedOnlyIfStaleHolds == Spec => RefusedOnlyIfStale
  <1>1. Init => ClosedOK
    BY DEF Init, ClosedOK
  <1>2. IInv /\ ClosedOK /\ [Next]_vars => ClosedOK'
    BY ClosedKeeps
  <1>3. IInv /\ ClosedOK /\ [Next]_vars =>
           [\A b \in Build : ~Hurt(b) /\ Hurt(b)' => Stale(b) \/ Stale(b)']_vars
    BY FailsOnlyIfStale
  <1>4. QED
    BY <1>1, <1>2, <1>3, Invariance, PTL DEF Spec, RefusedOnlyIfStale

=============================================================================
