---------------------------- MODULE MCCircuitBuild ----------------------------
EXTENDS CircuitBuild

CONSTANTS entry, m1, m2, exit

\* Two circuits that share all their relays and pass the middles in opposite
\* order.
MCBuild == {1, 2}
MCRelay == {entry, m1, m2, exit}
MCPath == <<<<entry, m1, m2, exit>>, <<entry, m2, m1, exit>>>>

\* One client's circuits, and the first circuits of two clients.
MCOneClient == <<1, 2>>
MCTwoClients == <<1, 1>>

=============================================================================
