----------------------------- MODULE MCDirectory -----------------------------
EXTENDS Directory

CONSTANTS e1, e2, m1, m2, x1

\* e2 is started at the address of e1 and has the operator of m1; m2 and the
\* exit are on the same host, whose IP is exempt.
MCRelay == {e1, e2, m1, m2, x1}
MCType == [r \in MCRelay |-> CASE r \in {e1, e2} -> "Entry"
                               [] r \in {m1, m2} -> "Middle"
                               [] r = x1 -> "Exit"]
MCAddress == [r \in MCRelay |-> IF r = e2 THEN e1 ELSE r]
MCIp == [r \in MCRelay |-> IF r \in {m2, x1} THEN "loopback" ELSE MCAddress[r]]
MCOperator == [r \in MCRelay |-> IF r \in {e2, m1} THEN "operator" ELSE "none"]

=============================================================================
