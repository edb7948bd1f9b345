---------------------------- MODULE MCCircuitPool ----------------------------
\* The constants are in the configurations: the connections are model values.
EXTENDS CircuitPool

=============================================================================
