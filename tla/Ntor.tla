-------------------------------- MODULE Ntor --------------------------------
(***************************************************************************)
(* The ntor key exchange, symbolically: what a computation returns is the  *)
(* computation itself, so two results are equal exactly if they were       *)
(* computed from the same inputs.  X25519 alone has an equation, that both *)
(* ends come to the same secret.                                           *)
(*                                                                         *)
(* A secret is named by who drew it, and for what.  Keys and tags are byte *)
(* strings, of two bytes instead of 32.                                    *)
(***************************************************************************)
EXTENDS Naturals, Sequences

KEY_LEN == 2

Zero == <<"zero">>

\* The bytes of a public key are random: the first may happen to be zero.
Public(s) ==
    <<IF s.zero THEN Zero ELSE <<"public", s, 1>>, <<"public", s, 2>>>>

\* HMAC-SHA256 under one of the protocol's four labels.
hmac_sha256(label, data) == <<<<label, data, 1>>, <<label, data, 2>>>>

\* X25519, for the other end's public key as it was received.
raw_dh_static(s, theirs) == {Public(s), theirs}

\* Mutant: the transcript has only the server's long-lived key.
SecretInputStatic(exp1, exp2, B, X, Y) == <<B>>

build_secret_input(exp1, exp2, B, X, Y) == <<exp1, exp2, B, X, Y>>

SessionKey(f, b) == [forward |-> f, backward |-> b]

\* The two halves of the key material.
expand_key_seed(seed) ==
    LET material == hmac_sha256("key_expand", seed)
    IN  SessionKey(SubSeq(material, 1, 1), SubSeq(material, 2, 2))

KeySeed(input) == hmac_sha256("key_extract", input)

Auth(input, B, Y, X) ==
    hmac_sha256("mac", <<hmac_sha256("verify", input), B, Y, X>>)

\* The relay with the static secret b, which draws y for the client's X.
ntor_server(b, y, X) ==
    LET input == build_secret_input(raw_dh_static(y, X), raw_dh_static(b, X),
                                    Public(b), X, Public(y))
    IN  [public |-> Public(y),
         auth |-> Auth(input, Public(b), Public(y), X),
         session_key |-> expand_key_seed(KeySeed(input))]

\* The client that has drawn x for the relay whose static key is B, on the
\* answer Y: the tag that it insists on, and the key that it then has.
ntor_client(x, B, Y) ==
    LET X == Public(x)
        input == build_secret_input(raw_dh_static(x, Y), raw_dh_static(x, B),
                                    B, X, Y)
    IN  [auth |-> Auth(input, B, Y, X),
         session_key |-> expand_key_seed(KeySeed(input))]

=============================================================================
