------------------------------- MODULE MCYak -------------------------------
(* Instances of Yak for TLC: one port with two or three mbufs, and two     *)
(* ports with one and two mbufs.                                           *)
EXTENDS Yak, TLC

CONSTANTS a1, a2, a3, b1, b2

OnePort2 == [m \in {a1, a2} |-> 0]
OnePort3 == [m \in {a1, a2, a3} |-> 0]
OneAndTwo == [m \in {a1, b1, b2} |-> IF m = a1 THEN 0 ELSE 1]

SymOnePort == Permutations({a1, a2, a3})

=============================================================================
