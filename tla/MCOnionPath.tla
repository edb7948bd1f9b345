------------------------------ MODULE MCOnionPath -----------------------------
EXTENDS OnionPath

CONSTANTS data, end

\* One cell that moves the keystreams, and the empty END that does not.
MCCell == {data, end}
MCBytes == [c \in {data, end, DESTROY} |-> IF c = data THEN 1 ELSE 0]

\* Hop h relayed one EXTEND, and one EXTENDED, for each hop after the next.
MCBase == [h \in 0 .. N-1 |-> N-1-h]

=============================================================================
