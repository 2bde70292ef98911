------------------------------ MODULE MCCircuit -----------------------------
EXTENDS Circuit

CONSTANT u1
MCTarget == [a \in Attempt |-> u1]
=============================================================================
