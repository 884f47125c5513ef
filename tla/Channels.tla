------------------------------- MODULE Channels -------------------------------
(***************************************************************************)
(* Lemmas about sequences as the models use them: Go channels (a send adds *)
(* an element at the end, a receive takes the first), and container/list   *)
(* lists from which one element is removed.                                *)
(***************************************************************************)
EXTENDS Naturals, Sequences, SequencesExt, SequenceTheorems,
        NaturalsInduction, WellFoundedInduction, TLAPS

\* A send adds its element and changes no other.
LEMMA ChanSend ==
    ASSUME NEW S, NEW ch \in Seq(S), NEW e \in S
    PROVE  /\ Append(ch, e) \in Seq(S)
           /\ Len(ch) \in Nat /\ Len(Append(ch, e)) = Len(ch) + 1
           /\ ToSet(Append(ch, e)) = ToSet(ch) \cup {e}
<1>1. /\ Append(ch, e) \in Seq(S)
      /\ Len(Append(ch, e)) = Len(ch) + 1 /\ Len(ch) \in Nat
      /\ \A i \in 1..Len(ch) : Append(ch, e)[i] = ch[i]
      /\ Append(ch, e)[Len(ch) + 1] = e
  BY AppendProperties, LenProperties
<1>2. DOMAIN Append(ch, e) = 1..(Len(ch) + 1) /\ DOMAIN ch = 1..Len(ch)
  BY <1>1, LenProperties
<1>3. ToSet(Append(ch, e)) = ToSet(ch) \cup {e}
  <2>1. ASSUME NEW x \in ToSet(Append(ch, e)) PROVE x \in ToSet(ch) \cup {e}
    <3>1. PICK i \in 1..(Len(ch) + 1) : x = Append(ch, e)[i]
      BY <1>2 DEF ToSet
    <3> QED
      BY <1>1, <1>2, <3>1 DEF ToSet
  <2>2. ToSet(ch) \cup {e} \subseteq ToSet(Append(ch, e))
    BY <1>1, <1>2 DEF ToSet
  <2> QED
    BY <2>1, <2>2
<1> QED
  BY <1>1, <1>3

\* A send of something new keeps the elements distinct.
LEMMA ChanSendNew ==
    ASSUME NEW S, NEW ch \in Seq(S), NEW e \in S,
           IsInjective(ch), e \notin ToSet(ch)
    PROVE  IsInjective(Append(ch, e))
<1>1. /\ Len(Append(ch, e)) = Len(ch) + 1 /\ Len(ch) \in Nat
      /\ \A i \in 1..Len(ch) : Append(ch, e)[i] = ch[i]
      /\ Append(ch, e)[Len(ch) + 1] = e
  BY AppendProperties, LenProperties
<1>2. DOMAIN Append(ch, e) = 1..(Len(ch) + 1) /\ DOMAIN ch = 1..Len(ch)
  BY <1>1, LenProperties, AppendProperties
<1>3. \A i \in 1..Len(ch) : ch[i] # e
  BY <1>2 DEF ToSet
<1> SUFFICES ASSUME NEW i \in 1..(Len(ch) + 1), NEW j \in 1..(Len(ch) + 1),
                    Append(ch, e)[i] = Append(ch, e)[j]
             PROVE  i = j
  BY <1>2 DEF IsInjective
<1> QED
  BY <1>1, <1>2, <1>3 DEF IsInjective

\* A receive yields the first element and leaves the others in their places.
LEMMA ChanReceive ==
    ASSUME NEW S, NEW ch \in Seq(S), ch # <<>>
    PROVE  /\ Head(ch) \in S /\ Head(ch) \in ToSet(ch) /\ Head(ch) = ch[1]
           /\ Tail(ch) \in Seq(S) /\ Len(ch) \in Nat \ {0}
           /\ Len(Tail(ch)) = Len(ch) - 1
           /\ \A i \in 1..(Len(ch) - 1) : Tail(ch)[i] = ch[i + 1]
           /\ ToSet(Tail(ch)) \subseteq ToSet(ch)
           /\ ToSet(ch) = ToSet(Tail(ch)) \cup {Head(ch)}
<1>1. /\ Head(ch) \in S /\ Tail(ch) \in Seq(S) /\ Len(Tail(ch)) = Len(ch) - 1
      /\ Len(ch) \in Nat \ {0}
      /\ \A i \in 1..(Len(ch) - 1) : Tail(ch)[i] = ch[i + 1]
  BY HeadTailProperties, EmptySeq
<1>2. DOMAIN ch = 1..Len(ch) /\ DOMAIN Tail(ch) = 1..(Len(ch) - 1)
  BY <1>1, LenProperties
<1>3. Head(ch) = ch[1]
  OBVIOUS
<1>4. ToSet(Tail(ch)) \subseteq ToSet(ch) /\ Head(ch) \in ToSet(ch)
  BY <1>1, <1>2, <1>3 DEF ToSet
<1>5. ASSUME NEW x \in ToSet(ch), x # Head(ch) PROVE x \in ToSet(Tail(ch))
  <2>1. PICK i \in 1..Len(ch) : x = ch[i]
    BY <1>2 DEF ToSet
  <2>2. i # 1 /\ i - 1 \in 1..(Len(ch) - 1)
    BY <1>1, <1>3, <1>5, <2>1
  <2>3. x = Tail(ch)[i - 1]
    BY <1>1, <2>1, <2>2
  <2> QED
    BY <1>2, <2>2, <2>3 DEF ToSet
<1> QED
  BY <1>1, <1>3, <1>4, <1>5

\* What was received is gone if it was there once.
LEMMA ChanReceiveDistinct ==
    ASSUME NEW S, NEW ch \in Seq(S), ch # <<>>, IsInjective(ch)
    PROVE  IsInjective(Tail(ch)) /\ ToSet(Tail(ch)) = ToSet(ch) \ {Head(ch)}
<1>1. /\ Head(ch) = ch[1] /\ Len(ch) \in Nat \ {0} /\ Len(Tail(ch)) = Len(ch) - 1
      /\ Tail(ch) \in Seq(S)
      /\ \A i \in 1..(Len(ch) - 1) : Tail(ch)[i] = ch[i + 1]
      /\ ToSet(ch) = ToSet(Tail(ch)) \cup {Head(ch)}
  BY ChanReceive
<1>2. DOMAIN ch = 1..Len(ch) /\ DOMAIN Tail(ch) = 1..(Len(ch) - 1)
  BY <1>1, LenProperties
<1>3. \A i, j \in 1..Len(ch) : ch[i] = ch[j] => i = j
  BY <1>2 DEF IsInjective
<1>4. IsInjective(Tail(ch))
  <2> SUFFICES ASSUME NEW i \in 1..(Len(ch) - 1), NEW j \in 1..(Len(ch) - 1),
                      Tail(ch)[i] = Tail(ch)[j]
               PROVE  i = j
    BY <1>2 DEF IsInjective
  <2>1. i + 1 \in 1..Len(ch) /\ j + 1 \in 1..Len(ch)
    BY <1>1
  <2>2. ch[i + 1] = ch[j + 1]
    BY <1>1
  <2> QED
    BY <1>3, <2>1, <2>2
<1>5. Head(ch) \notin ToSet(Tail(ch))
  <2> SUFFICES ASSUME NEW i \in 1..(Len(ch) - 1), Tail(ch)[i] = ch[1] PROVE FALSE
    BY <1>1, <1>2 DEF ToSet
  <2> QED
    BY <1>1, <1>3
<1> QED
  BY <1>1, <1>4, <1>5

-----------------------------------------------------------------------------
(* Two channels in a row *)

\* Sending to the second adds to the whole at its end,
LEMMA SecondSend ==
    ASSUME NEW S, NEW q \in Seq(S), NEW m \in Seq(S), NEW e \in S
    PROVE  q \o Append(m, e) = Append(q \o m, e)
<1>1. <<e>> \in Seq(S)
  OBVIOUS
<1>2. Append(m, e) = m \o <<e>> /\ Append(q \o m, e) = (q \o m) \o <<e>>
  BY AppendIsConcat, ConcatProperties
<1> QED
  BY <1>1, <1>2, ConcatAssociative

\* receiving from the first takes the first of the whole,
LEMMA FirstReceive ==
    ASSUME NEW S, NEW q \in Seq(S), NEW m \in Seq(S), q # <<>>
    PROVE  q \o m # <<>> /\ Head(q \o m) = Head(q) /\ Tail(q \o m) = Tail(q) \o m
<1>1. /\ q \o m \in Seq(S) /\ Len(q \o m) = Len(q) + Len(m)
      /\ \A i \in 1..(Len(q) + Len(m)) :
           (q \o m)[i] = IF i <= Len(q) THEN q[i] ELSE m[i - Len(q)]
      /\ Len(q) \in Nat \ {0} /\ Len(m) \in Nat
  BY ConcatProperties, LenProperties, ChanReceive
<1>2. q \o m # <<>>
  BY <1>1, EmptySeq
<1>3. /\ Tail(q) \in Seq(S) /\ Len(Tail(q)) = Len(q) - 1 /\ Head(q) = q[1]
      /\ \A i \in 1..(Len(q) - 1) : Tail(q)[i] = q[i + 1]
  BY ChanReceive
<1>4. /\ Tail(q \o m) \in Seq(S) /\ Len(Tail(q \o m)) = Len(q) + Len(m) - 1
      /\ Head(q \o m) = (q \o m)[1]
      /\ \A i \in 1..(Len(q) + Len(m) - 1) : Tail(q \o m)[i] = (q \o m)[i + 1]
  BY <1>1, <1>2, ChanReceive
<1>5. /\ Tail(q) \o m \in Seq(S) /\ Len(Tail(q) \o m) = Len(q) - 1 + Len(m)
      /\ \A i \in 1..(Len(q) - 1 + Len(m)) :
           (Tail(q) \o m)[i] = IF i <= Len(q) - 1 THEN Tail(q)[i] ELSE m[i - (Len(q) - 1)]
  BY <1>3, ConcatProperties
<1>6. ASSUME NEW i \in 1..(Len(q) + Len(m) - 1)
      PROVE  Tail(q \o m)[i] = (Tail(q) \o m)[i]
  <2>1. i + 1 \in 1..(Len(q) + Len(m)) /\ i \in 1..(Len(q) - 1 + Len(m))
    BY <1>1
  <2>2. Tail(q \o m)[i] = IF i + 1 <= Len(q) THEN q[i + 1] ELSE m[i + 1 - Len(q)]
    BY <1>1, <1>4, <2>1
  <2>3. CASE i + 1 <= Len(q)
    BY <1>1, <1>3, <1>5, <2>1, <2>2, <2>3
  <2>4. CASE ~(i + 1 <= Len(q))
    <3>1. i - (Len(q) - 1) = i + 1 - Len(q) /\ ~(i <= Len(q) - 1)
      BY <1>1, <2>4
    <3> QED
      BY <1>5, <2>1, <2>2, <2>4, <3>1
  <2> QED
    BY <2>3, <2>4
<1>7. Tail(q \o m) = Tail(q) \o m
  <2>1. Len(q) + Len(m) - 1 = Len(q) - 1 + Len(m)
    BY <1>1
  <2> QED
    BY <1>4, <1>5, <1>6, <2>1, SeqEqual
<1>8. Head(q \o m) = Head(q)
  BY <1>1, <1>3, <1>4
<1> QED
  BY <1>2, <1>7, <1>8

\* and handing the first of the second on to the first changes nothing.
LEMMA SecondToFirst ==
    ASSUME NEW S, NEW q \in Seq(S), NEW m \in Seq(S), m # <<>>
    PROVE  Append(q, Head(m)) \o Tail(m) = q \o m
<1>1. Head(m) \in S /\ Tail(m) \in Seq(S) /\ <<Head(m)>> \in Seq(S)
  BY ChanReceive
<1>2. Append(q, Head(m)) = q \o <<Head(m)>>
  BY <1>1, AppendIsConcat
<1>3. m = <<Head(m)>> \o Tail(m)
  OBVIOUS
<1> QED
  BY <1>1, <1>2, <1>3, ConcatAssociative

-----------------------------------------------------------------------------
(* Lists *)

\* A list without the element at one place.
LEMMA ListWithout ==
    ASSUME NEW S, NEW s \in Seq(S), NEW k \in 1..Len(s)
    PROVE  /\ RemoveAt(s, k) \in Seq(S) /\ Len(RemoveAt(s, k)) = Len(s) - 1
           /\ \A i \in 1..(Len(s) - 1) : RemoveAt(s, k)[i] = s[IF i < k THEN i ELSE i + 1]
<1> DEFINE r == RemoveAt(s, k)
           a == SubSeq(s, 1, k - 1)
           b == SubSeq(s, k + 1, Len(s))
<1>1. Len(s) \in Nat /\ \A i \in 1..Len(s) : s[i] \in S
  BY LenProperties, ElementOfSeq
<1>2. /\ a \in Seq(S) /\ Len(a) = k - 1
      /\ \A i \in 1..(k - 1) : a[i] = s[i]
  <2>1. \A i \in 1..(k - 1) : s[i] \in S
    BY <1>1
  <2>2. /\ a \in Seq(S) /\ Len(a) = IF 1 <= k - 1 THEN k - 1 - 1 + 1 ELSE 0
        /\ \A i \in 1..(k - 1 - 1 + 1) : a[i] = s[1 + i - 1]
    BY <1>1, <2>1, SubSeqProperties
  <2> HIDE DEF a
  <2> QED
    BY <1>1, <2>2
<1>3. /\ b \in Seq(S) /\ Len(b) = Len(s) - k
      /\ \A i \in 1..(Len(s) - k) : b[i] = s[k + i]
  <2>1. \A i \in (k + 1)..Len(s) : s[i] \in S
    BY <1>1
  <2>2. /\ b \in Seq(S)
        /\ Len(b) = IF k + 1 <= Len(s) THEN Len(s) - (k + 1) + 1 ELSE 0
        /\ \A i \in 1..(Len(s) - (k + 1) + 1) : b[i] = s[(k + 1) + i - 1]
    BY <1>1, <2>1, SubSeqProperties
  <2> HIDE DEF b
  <2>3. Len(b) = Len(s) - k /\ Len(s) - (k + 1) + 1 = Len(s) - k
    BY <1>1, <2>2
  <2>4. ASSUME NEW i \in 1..(Len(s) - k) PROVE b[i] = s[k + i]
    <3>1. (k + 1) + i - 1 = k + i
      BY <1>1
    <3> QED
      BY <2>2, <2>3, <3>1
  <2> QED
    BY <2>2, <2>3, <2>4
<1>4. /\ r \in Seq(S) /\ Len(r) = Len(a) + Len(b)
      /\ \A i \in 1..(Len(a) + Len(b)) : r[i] = IF i <= Len(a) THEN a[i] ELSE b[i - Len(a)]
  BY <1>2, <1>3, ConcatProperties DEF RemoveAt
<1> HIDE DEF r, a, b
<1>5. Len(a) + Len(b) = Len(s) - 1
  BY <1>1, <1>2, <1>3
<1>6. ASSUME NEW i \in 1..(Len(s) - 1) PROVE r[i] = s[IF i < k THEN i ELSE i + 1]
  <2>1. CASE i < k
    BY <1>1, <1>2, <1>4, <1>5, <2>1
  <2>2. CASE ~(i < k)
    <3>1. i - Len(a) \in 1..(Len(s) - k) /\ k + (i - Len(a)) = i + 1
      BY <1>1, <1>2, <2>2
    <3>2. ~(i <= Len(a)) /\ i \in 1..(Len(a) + Len(b))
      BY <1>1, <1>2, <1>5, <2>2
    <3>3. r[i] = b[i - Len(a)]
      BY <1>4, <3>2
    <3>4. b[i - Len(a)] = s[i + 1]
      BY <1>3, <3>1
    <3> QED
      BY <2>2, <3>3, <3>4
  <2> QED
    BY <2>1, <2>2
<1>7. r \in Seq(S) /\ Len(r) = Len(s) - 1
  BY <1>4, <1>5
<1> QED
  BY <1>6, <1>7 DEF r

\* A set of numbers that is not empty has a least one.
LEMMA LeastNumber ==
    ASSUME NEW I \in SUBSET Nat, I # {}
    PROVE  \E x \in I : \A y \in I : x <= y
<1> DEFINE R == {ss \in Nat \X Nat : ss[1] < ss[2]}
<1>1. IsWellFoundedOn(R, Nat)
  BY NatLessThanWellFounded DEF OpToRel
<1>2. PICK x \in I : \A y \in I : ~(<<y, x>> \in R)
  <2> HIDE DEF R
  <2> QED
    BY <1>1, WFMin
<1>3. ASSUME NEW y \in I PROVE x <= y
  <2>1. x \in Nat /\ y \in Nat /\ ~(<<y, x>>[1] < <<y, x>>[2])
    BY <1>2
  <2> QED
    BY <2>1
<1> QED
  BY <1>3

\* Removing an element that may be in the list leaves a list.
LEMMA ListRemoveSeq ==
    ASSUME NEW S, NEW s \in Seq(S), NEW e
    PROVE  RemoveFirst(s, e) \in Seq(S)
<1>1. CASE \A i \in 1..Len(s) : s[i] # e
  BY <1>1 DEF RemoveFirst
<1>2. CASE ~(\A i \in 1..Len(s) : s[i] # e)
  <2> DEFINE I == {i \in 1..Len(s) : s[i] = e}
  <2>1. I # {} /\ I \in SUBSET Nat
    BY <1>2
  <2>2. Min(I) \in I
    <3> HIDE DEF I
    <3> QED
      BY <2>1, LeastNumber DEF Min
  <2>3. SelectInSeq(s, LAMBDA v : v = e) = Min(I)
    BY <2>1 DEF SelectInSeq
  <2>4. RemoveFirst(s, e) = RemoveAt(s, Min(I)) /\ Min(I) \in 1..Len(s)
    BY <1>2, <2>2, <2>3 DEF RemoveFirst
  <2> QED
    BY <2>4, ListWithout
<1> QED
  BY <1>1, <1>2

\* Removing an element from a list without duplicates leaves the others.
LEMMA ListRemove ==
    ASSUME NEW S, NEW s \in Seq(S), NEW e, IsInjective(s)
    PROVE  /\ RemoveFirst(s, e) \in Seq(S) /\ IsInjective(RemoveFirst(s, e))
           /\ ToSet(RemoveFirst(s, e)) = ToSet(s) \ {e}
<1>0. Len(s) \in Nat /\ DOMAIN s = 1..Len(s) /\ \A i \in 1..Len(s) : s[i] \in S
  BY LenProperties, ElementOfSeq
<1>1. CASE \A i \in 1..Len(s) : s[i] # e
  BY <1>0, <1>1 DEF RemoveFirst, ToSet
<1>2. CASE ~(\A i \in 1..Len(s) : s[i] # e)
  <2>1. PICK k \in 1..Len(s) : s[k] = e
    BY <1>2
  <2>2. \A i \in 1..Len(s) : s[i] = e <=> i = k
    BY <1>0, <2>1 DEF IsInjective
  <2> DEFINE r == RemoveAt(s, k)
             at(i) == IF i < k THEN i ELSE i + 1
  <2>3. RemoveFirst(s, e) = r
    <3>1. {i \in 1..Len(s) : s[i] = e} = {k}
      BY <2>2
    <3>2. Min({k}) = k
      BY <1>0 DEF Min
    <3>3. SelectInSeq(s, LAMBDA v : v = e) = k
      BY <3>1, <3>2 DEF SelectInSeq
    <3> QED
      BY <1>2, <3>3 DEF RemoveFirst
  <2>6. /\ r \in Seq(S) /\ Len(r) = Len(s) - 1
        /\ \A i \in 1..(Len(s) - 1) : r[i] = s[at(i)]
    BY ListWithout
  <2>7. DOMAIN r = 1..(Len(s) - 1)
    BY <2>6, LenProperties
  <2> HIDE DEF r
  <2>8. \A i \in 1..(Len(s) - 1) : at(i) \in 1..Len(s) /\ at(i) # k
    BY <1>0
  <2>9. IsInjective(r)
    <3> SUFFICES ASSUME NEW i \in 1..(Len(s) - 1), NEW j \in 1..(Len(s) - 1), r[i] = r[j]
                 PROVE  i = j
      BY <2>7 DEF IsInjective
    <3>1. at(i) = at(j)
      BY <1>0, <2>6, <2>8 DEF IsInjective
    <3> QED
      BY <1>0, <3>1
  <2>10. ToSet(r) = ToSet(s) \ {e}
    <3>1. ASSUME NEW x \in ToSet(r) PROVE x \in ToSet(s) \ {e}
      <4>1. PICK i \in 1..(Len(s) - 1) : x = s[at(i)]
        BY <2>6, <2>7 DEF ToSet
      <4> QED
        BY <1>0, <2>2, <2>8, <4>1 DEF ToSet
    <3>2. ASSUME NEW x \in ToSet(s) \ {e} PROVE x \in ToSet(r)
      <4>1. PICK j \in 1..Len(s) : x = s[j]
        BY <1>0 DEF ToSet
      <4>2. j # k
        BY <2>1, <4>1
      <4>3. \E i \in 1..(Len(s) - 1) : at(i) = j
        <5>1. CASE j < k
          BY <1>0, <5>1
        <5>2. CASE j > k
          <6>1. j - 1 \in 1..(Len(s) - 1) /\ at(j - 1) = j
            BY <1>0, <5>2
          <6> QED
            BY <6>1
        <5> QED
          BY <1>0, <4>2, <5>1, <5>2
      <4> QED
        BY <2>6, <2>7, <4>1, <4>3 DEF ToSet
    <3> QED
      BY <3>1, <3>2
  <2> QED
    BY <2>3, <2>6, <2>9, <2>10
<1> QED
  BY <1>1, <1>2
=============================================================================
