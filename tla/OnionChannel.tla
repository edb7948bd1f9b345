----------------------------- MODULE OnionChannel -----------------------------
(***************************************************************************)
(* What one direction of a circuit promises its two ends: the values put   *)
(* in at one end come out at the other in order, each once, until the      *)
(* receiving end closes, after which nothing comes out.                    *)
(***************************************************************************)
EXTENDS Naturals, Sequences

CONSTANT Value

VARIABLES
    sent,   \* values put in so far
    got,    \* values taken out so far
    open    \* the receiving end still reads

Init == sent = <<>> /\ got = <<>> /\ open = TRUE

Put(v) == sent' = Append(sent, v) /\ UNCHANGED <<got, open>>

Take ==
    /\ open
    /\ Len(got) < Len(sent)
    /\ got' = Append(got, sent[Len(got) + 1])
    /\ UNCHANGED <<sent, open>>

Close == open /\ open' = FALSE /\ UNCHANGED <<sent, got>>

Next == (\E v \in Value : Put(v)) \/ Take \/ Close

Spec == Init /\ [][Next]_<<sent, got, open>>

=============================================================================
