---------------------------- MODULE MCSubscriber ----------------------------
(* Subscriber for TLC: the symmetric sets of the safety runs. *)
EXTENDS Subscriber, TLC

Symmetry == Permutations(Pub) \cup Permutations(Conn)
=============================================================================
