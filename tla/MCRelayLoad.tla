------------------------------ MODULE MCRelayLoad ------------------------------
EXTENDS RelayLoad, TLC

CONSTANTS up, op, entry, m1, m2, exit

\* The directory draws the middles of a path in any order: two circuits of four
\* hops cross theirs in opposite order.
MCPath == up :> <<entry, m1, m2, exit>> @@ op :> <<entry, m2, m1, exit>>

\* Enough cells on both to lock the middles in a circle, two of them such that
\* the exit answers; the keepalive and a download besides.
MCScript == up :> <<"padding", "ask", "ask">> @@ op :> <<"data", "data">>
MCDown == up :> 1 @@ op :> 0

\* Two uploads, and nothing else.
MCScriptOpposed == [c \in Circuit |-> <<"data", "data">>]
MCDownOpposed == [c \in Circuit |-> 0]

\* Both directions of one circuit at once, over three hops.
MCPathDuplex == up :> <<entry, m1, exit>>
MCScriptDuplex == up :> <<"data", "data", "data", "data", "data", "data">>
MCDownDuplex == up :> 6

=============================================================================
