----------------------------- MODULE MCPublisher ----------------------------
(* Publisher for TLC: the symmetric set of the safety run, and what takes    *)
(* its place in the liveness run, where symmetry is not sound.               *)
EXTENDS Publisher

Symmetry == Permutations(Sess)

\* The first connection gets the first identity: runs that differ only in the
\* sessions' identities are looked at once.  Nothing in the fairness speaks of
\* the accepting of connections.
First == CHOOSE s \in Sess : TRUE
FirstAcceptedFirst == \A s \in Sess : spc'[s] # "none" => spc'[First] # "none"
=============================================================================
