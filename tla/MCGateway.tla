------------------------------ MODULE MCGateway ------------------------------
(* Instances of GatewaySystem for TLC.                                     *)
EXTENDS GatewaySystem, TLC

CONSTANTS w1, w2, w3, k1, k2

\* The keys of w1 and w2 are the same string, as those of 10.0.0.1:12345 and
\* 10.0.0.11:2345 are; that of w3 is another.
TwoShareKey == [w \in Sockets |-> IF w = w3 THEN k2 ELSE k1]

\* Which slot an entry is put into, and which of w1 and w2 has it, makes no
\* difference to safety.
Symmetry == Permutations(Slots) \cup Permutations({w1, w2})

=============================================================================
