------------------------------ MODULE LossyFifo ------------------------------
(***************************************************************************)
(* What a topic promises of each stretch of a message's way: a family of   *)
(* lossy feeds.  A feed takes the messages of one sender in their order,   *)
(* may lose any of them at any time, and hands the others on in that order *)
(* and once each.  Subscriber and Publisher implement it, the one from the *)
(* socket to the callbacks, the other from Publish to the socket.          *)
(***************************************************************************)
EXTENDS Naturals

CONSTANT Feed

VARIABLES
    offered,   \* number of the last message offered to each feed
    transit,   \* numbers of the messages each feed holds
    taken      \* number of the last message taken out of each feed

vars == <<offered, transit, taken>>

Init ==
    /\ offered = [f \in Feed |-> 0]
    /\ transit = [f \in Feed |-> {}]
    /\ taken = [f \in Feed |-> 0]

\* The next message, of a higher number, enters feed f.
Offer(f) ==
    /\ offered' = [offered EXCEPT ![f] = offered'[f]]
    /\ offered'[f] \in Nat /\ offered'[f] > offered[f]
    /\ transit' = [transit EXCEPT ![f] = @ \cup {offered'[f]}]
    /\ UNCHANGED taken

\* Messages pass by feeds that do not take them.
Skip ==
    /\ offered' \in [Feed -> Nat]
    /\ \A f \in Feed : offered'[f] >= offered[f]
    /\ UNCHANGED <<transit, taken>>

\* Feed f loses one message it holds.
Lose(f) ==
    /\ \E n \in transit[f] : transit' = [transit EXCEPT ![f] = @ \ {n}]
    /\ UNCHANGED <<offered, taken>>

\* The oldest message leaves feed f at its other end.
Take(f) ==
    /\ \E n \in transit[f] :
         /\ \A m \in transit[f] : n <= m
         /\ taken' = [taken EXCEPT ![f] = n]
         /\ transit' = [transit EXCEPT ![f] = @ \ {n}]
    /\ UNCHANGED offered

Next == Skip \/ \E f \in Feed : Offer(f) \/ Lose(f) \/ Take(f)

Spec == Init /\ [][Next]_vars

-----------------------------------------------------------------------------
(* What follows for those at both ends *)

TypeOK ==
    /\ offered \in [Feed -> Nat] /\ taken \in [Feed -> Nat]
    /\ transit \in [Feed -> SUBSET Nat]

\* What a feed holds is newer than what it has handed on, and was offered.
Between ==
    \A f \in Feed :
        /\ taken[f] <= offered[f]
        /\ \A n \in transit[f] : taken[f] < n /\ n <= offered[f]

\* No message is handed on twice, or after a newer one, or without having been
\* offered.
OnceInOrder ==
    [][\A f \in Feed :
         taken'[f] # taken[f] => taken[f] < taken'[f] /\ taken'[f] <= offered[f]]_vars
=============================================================================
