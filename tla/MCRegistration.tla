--------------------------- MODULE MCRegistration ----------------------------
(* A small instance of Registration for TLC: two hosts with two nodes each,  *)
(* so that every torn entry but a half empty one looks like another node.    *)
EXTENDS Registration, TLC

MCSelf == [host |-> "h", port |-> 1]

MCNode == {MCSelf, [host |-> "h", port |-> 2],
           [host |-> "k", port |-> 1], [host |-> "k", port |-> 2]}

MCNoNode == [host |-> "", port |-> 0]

Symmetry == Permutations(Worker)

=============================================================================
