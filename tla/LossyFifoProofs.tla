--------------------------- MODULE LossyFifoProofs ---------------------------
(***************************************************************************)
(* What LossyFifo promises is what a subscriber wants of a topic: proofs   *)
(* that a feed hands on every message at most once, in order.              *)
(***************************************************************************)
EXTENDS LossyFifo, TLAPS

USE DEF TypeOK, Between

\* A feed starts empty.
LEMMA InitInd == Init => TypeOK /\ Between
BY DEF Init

\* A new message is newer than all in transit, and the oldest of them is what is
\* taken.
LEMMA StepInd == TypeOK /\ Between /\ [Next]_vars => (TypeOK /\ Between)'
<1> SUFFICES ASSUME TypeOK, Between, [Next]_vars PROVE (TypeOK /\ Between)'
  OBVIOUS
<1>1. CASE Skip
  BY <1>1 DEF Skip
<1>2. ASSUME NEW f \in Feed, Offer(f) PROVE (TypeOK /\ Between)'
  <2>1. TypeOK'
    BY <1>2 DEF Offer
  <2>2. Between'
    <3> SUFFICES ASSUME NEW g \in Feed
                 PROVE  /\ taken'[g] <= offered'[g]
                        /\ \A n \in transit'[g] : taken'[g] < n /\ n <= offered'[g]
      OBVIOUS
    <3>1. CASE g # f
      BY <1>2, <3>1 DEF Offer
    <3>2. CASE g = f
      BY <1>2, <3>2 DEF Offer
    <3> QED
      BY <3>1, <3>2
  <2> QED
    BY <2>1, <2>2
<1>3. ASSUME NEW f \in Feed, Lose(f) PROVE (TypeOK /\ Between)'
  BY <1>3 DEF Lose
<1>4. ASSUME NEW f \in Feed, Take(f) PROVE (TypeOK /\ Between)'
  <2>1. PICK n \in transit[f] :
          /\ \A m \in transit[f] : n <= m
          /\ taken' = [taken EXCEPT ![f] = n]
          /\ transit' = [transit EXCEPT ![f] = @ \ {n}]
    BY <1>4 DEF Take
  <2>2. UNCHANGED offered
    BY <1>4 DEF Take
  <2>3. TypeOK'
    BY <2>1, <2>2
  <2>4. Between'
    BY <2>1, <2>2
  <2> QED
    BY <2>3, <2>4
<1>5. CASE UNCHANGED vars
  BY <1>5 DEF vars
<1> QED
  BY <1>1, <1>2, <1>3, <1>4, <1>5 DEF Next

\* What a feed holds lies between what it handed on and what it was offered.
THEOREM HoldsBetween == Spec => []Between
BY InitInd, StepInd, PTL DEF Spec

\* No message leaves a feed twice, or after a newer one, or without having been
\* offered to it.
THEOREM FeedsOnceInOrder == Spec => OnceInOrder
<1> DEFINE Once ==
      \A f \in Feed :
        taken'[f] # taken[f] => taken[f] < taken'[f] /\ taken'[f] <= offered[f]
<1>1. TypeOK /\ Between /\ [Next]_vars => [Once]_vars
  <2> SUFFICES ASSUME TypeOK, Between, Next, NEW f \in Feed, taken'[f] # taken[f]
               PROVE  taken[f] < taken'[f] /\ taken'[f] <= offered[f]
    OBVIOUS
  <2>1. PICK g \in Feed : Take(g)
    BY DEF Next, Skip, Offer, Lose
  <2>2. g = f /\ taken'[f] \in transit[f]
    BY <2>1 DEF Take
  <2> QED
    BY <2>2
<1> HIDE DEF TypeOK, Between, Once
<1>2. Init => TypeOK /\ Between
  BY InitInd
<1>3. TypeOK /\ Between /\ [Next]_vars => (TypeOK /\ Between)'
  BY StepInd
<1> QED
  BY <1>1, <1>2, <1>3, PTL DEF Spec, OnceInOrder, Once
=============================================================================
