----------------------------- MODULE MCHandshake -----------------------------
(* Two circuits over the same relays, which restart while they are built. *)
EXTENDS Handshake

MCPath == [b1 |-> <<"r1", "r2", "r3">>, b2 |-> <<"r1", "r2", "r3">>]
MCNodeType == [r1 |-> "Entry", r2 |-> "Middle", r3 |-> "Exit"]
MCMaxStarts == [r1 |-> 2, r2 |-> 2, r3 |-> 1]
MCHasZero == {<<"b1", 2>>, <<"b2", 3>>}

=============================================================================
