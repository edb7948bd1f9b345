------------------------------ MODULE ByteStreams ------------------------------
(***************************************************************************)
(* What one direction of every stream promises its two ends, as TCP would: *)
(* what comes out is what was put in for this connection, in order, each   *)
(* piece once; an end that is reported as finished comes after all of it.  *)
(* Otherwise the connection is aborted, and nothing more comes out.        *)
(***************************************************************************)
EXTENDS Naturals, Sequences

CONSTANTS Conn, Piece

VARIABLES
    sent,   \* pieces put in so far, for each connection
    got,    \* pieces that have come out
    state   \* "open", "finished" or "aborted"

Init ==
    /\ sent = [c \in Conn |-> <<>>]
    /\ got = [c \in Conn |-> <<>>]
    /\ state = [c \in Conn |-> "open"]

\* The putting end may not know yet that the connection was aborted.
Put(c, p) ==
    /\ state[c] # "finished"
    /\ sent' = [sent EXCEPT ![c] = Append(@, p)]
    /\ UNCHANGED <<got, state>>

Take(c) ==
    /\ state[c] = "open"
    /\ Len(got[c]) < Len(sent[c])
    /\ got' = [got EXCEPT ![c] = Append(@, sent[c][Len(@) + 1])]
    /\ UNCHANGED <<sent, state>>

Finish(c) ==
    /\ state[c] = "open"
    /\ got[c] = sent[c]
    /\ state' = [state EXCEPT ![c] = "finished"]
    /\ UNCHANGED <<sent, got>>

Abort(c) ==
    /\ state[c] = "open"
    /\ state' = [state EXCEPT ![c] = "aborted"]
    /\ UNCHANGED <<sent, got>>

Next ==
    \E c \in Conn : (\E p \in Piece : Put(c, p)) \/ Take(c) \/ Finish(c) \/ Abort(c)

Spec == Init /\ [][Next]_<<sent, got, state>>

=============================================================================
