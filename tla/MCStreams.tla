------------------------------- MODULE MCStreams -------------------------------
EXTENDS Streams, TLC

CONSTANTS c1, c2

\* One connection uploads while the destination of the other one answers.
MCUp == c1 :> 2 @@ c2 :> 0
MCDown == c1 :> 0 @@ c2 :> 1

=============================================================================
