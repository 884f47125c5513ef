----------------------------- MODULE TopicProofs -----------------------------
(***************************************************************************)
(* Three lossy feeds one after another are one lossy feed: the proof that  *)
(* what Publisher and Subscriber promise of their stretches carries over   *)
(* to the whole way of a message.                                          *)
(***************************************************************************)
EXTENDS Topic, TLAPS

SessionFacts == INSTANCE LossyFifoProofs WITH
    Feed <- Connection, offered <- published, transit <- queued, taken <- written

WireFacts == INSTANCE LossyFifoProofs WITH
    Feed <- Connection, offered <- written, transit <- underway, taken <- read

ReaderFacts == INSTANCE LossyFifoProofs WITH
    Feed <- Connection, offered <- read, transit <- held, taken <- handled

FeedFacts == INSTANCE LossyFifoProofs WITH
    Feed <- Connection, offered <- published, taken <- handled,
    transit <- [c \in Connection |-> InTransit(c)]

\* Each stretch holds only what lies between its two ends.
SessionOK == Session!TypeOK /\ Session!Between
WireOK == Wire!TypeOK /\ Wire!Between
ReaderOK == Reader!TypeOK /\ Reader!Between

Ordered == SessionOK /\ WireOK /\ ReaderOK

-----------------------------------------------------------------------------
(* The stretches *)

\* A step of the topic is a step of each stretch, or leaves it alone.
LEMMA Stretches ==
    [Next]_vars => /\ [Session!Next]_(Session!vars)
                   /\ [Wire!Next]_(Wire!vars)
                   /\ [Reader!Next]_(Reader!vars)
<1> SUFFICES ASSUME [Next]_vars
             PROVE  /\ Session!Next \/ UNCHANGED Session!vars
                    /\ Wire!Next \/ UNCHANGED Wire!vars
                    /\ Reader!Next \/ UNCHANGED Reader!vars
  OBVIOUS
<1> USE DEF Session!vars, Wire!vars, Reader!vars
<1>1. CASE Publish
  BY <1>1 DEF Publish
<1>2. CASE Break
  BY <1>2 DEF Break
<1>3. CASE Handle
  BY <1>3 DEF Handle
<1>4. ASSUME NEW c \in Connection, Write(c)
      PROVE  Session!Next /\ Wire!Next /\ UNCHANGED Reader!vars
  BY <1>4 DEF Write, Session!Next, Wire!Next
<1>5. ASSUME NEW c \in Connection, Read(c)
      PROVE  UNCHANGED Session!vars /\ Wire!Next /\ Reader!Next
  BY <1>5 DEF Read, Wire!Next, Reader!Next
<1>6. CASE UNCHANGED vars
  BY <1>6 DEF vars
<1> QED
  BY <1>1, <1>2, <1>3, <1>4, <1>5, <1>6 DEF Next

\* Every stretch starts empty.
LEMMA OrderedInit == Init => Ordered
BY DEF Init, Ordered, SessionOK, WireOK, ReaderOK,
       Session!Init, Session!TypeOK, Session!Between,
       Wire!Init, Wire!TypeOK, Wire!Between,
       Reader!Init, Reader!TypeOK, Reader!Between

\* What holds of one lossy feed holds of the session's.
LEMMA SessionStep == SessionOK /\ [Session!Next]_(Session!vars) => SessionOK'
BY SessionFacts!StepInd
   DEF SessionOK, Session!TypeOK, Session!Between, Session!Next, Session!vars,
       Session!Offer, Session!Skip, Session!Lose, Session!Take,
       SessionFacts!TypeOK, SessionFacts!Between, SessionFacts!Next, SessionFacts!vars,
       SessionFacts!Offer, SessionFacts!Skip, SessionFacts!Lose, SessionFacts!Take

\* And of the connection's.
LEMMA WireStep == WireOK /\ [Wire!Next]_(Wire!vars) => WireOK'
BY WireFacts!StepInd
   DEF WireOK, Wire!TypeOK, Wire!Between, Wire!Next, Wire!vars,
       Wire!Offer, Wire!Skip, Wire!Lose, Wire!Take,
       WireFacts!TypeOK, WireFacts!Between, WireFacts!Next, WireFacts!vars,
       WireFacts!Offer, WireFacts!Skip, WireFacts!Lose, WireFacts!Take

\* And of the reader's.
LEMMA ReaderStep == ReaderOK /\ [Reader!Next]_(Reader!vars) => ReaderOK'
BY ReaderFacts!StepInd
   DEF ReaderOK, Reader!TypeOK, Reader!Between, Reader!Next, Reader!vars,
       Reader!Offer, Reader!Skip, Reader!Lose, Reader!Take,
       ReaderFacts!TypeOK, ReaderFacts!Between, ReaderFacts!Next, ReaderFacts!vars,
       ReaderFacts!Offer, ReaderFacts!Skip, ReaderFacts!Lose, ReaderFacts!Take

\* Hence no stretch ever holds anything else.
LEMMA OrderedInvariance == Spec => []Ordered
<1>1. Ordered /\ [Next]_vars => Ordered'
  BY Stretches, SessionStep, WireStep, ReaderStep DEF Ordered
<1> QED
  BY <1>1, OrderedInit, PTL DEF Spec

-----------------------------------------------------------------------------
(* The whole way *)

Transit == [c \in Connection |-> InTransit(c)]

\* What Ordered says of one connection: the stretches do not overlap.
LEMMA Apart ==
    ASSUME Ordered, NEW c \in Connection
    PROVE  /\ published[c] \in Nat /\ written[c] \in Nat /\ read[c] \in Nat
           /\ handled[c] \in Nat
           /\ queued[c] \subseteq Nat /\ underway[c] \subseteq Nat /\ held[c] \subseteq Nat
           /\ handled[c] <= read[c] /\ read[c] <= written[c] /\ written[c] <= published[c]
           /\ \A n \in queued[c] : written[c] < n /\ n <= published[c]
           /\ \A n \in underway[c] : read[c] < n /\ n <= written[c]
           /\ \A n \in held[c] : handled[c] < n /\ n <= read[c]
BY DEF Ordered, SessionOK, WireOK, ReaderOK, Session!TypeOK, Session!Between,
       Wire!TypeOK, Wire!Between, Reader!TypeOK, Reader!Between

\* The types, by name.
LEMMA Functions ==
    ASSUME Ordered
    PROVE  /\ published \in [Connection -> Nat] /\ handled \in [Connection -> Nat]
           /\ queued \in [Connection -> SUBSET Nat]
           /\ underway \in [Connection -> SUBSET Nat]
           /\ held \in [Connection -> SUBSET Nat]
BY DEF Ordered, SessionOK, WireOK, ReaderOK, Session!TypeOK, Wire!TypeOK, Reader!TypeOK

\* A message lost somewhere on the way is lost by the feed.
LEMMA FeedLose ==
    ASSUME NEW c \in Connection, NEW n \in InTransit(c),
           \A d \in Connection : InTransit(d)' = IF d = c THEN InTransit(d) \ {n}
                                                          ELSE InTransit(d),
           UNCHANGED <<published, handled>>
    PROVE  Feeds!Next
<1>1. Transit' = [Transit EXCEPT ![c] = @ \ {n}] /\ Transit[c] = InTransit(c)
  BY DEF Transit
<1>2. Feeds!Lose(c)
  BY <1>1 DEF Feeds!Lose, Transit
<1> QED
  BY <1>2 DEF Feeds!Next

\* A message that moves on along the way is still on it.
LEMMA FeedStutter ==
    ASSUME \A d \in Connection : InTransit(d)' = InTransit(d),
           UNCHANGED <<published, handled>>
    PROVE  UNCHANGED Feeds!vars
BY DEF Feeds!vars

\* Inside a session: a message enters the way or is lost.
LEMMA PublishStep == Ordered /\ Publish => [Feeds!Next]_(Feeds!vars)
<1> SUFFICES ASSUME Ordered, Publish PROVE Feeds!Next \/ UNCHANGED Feeds!vars
  OBVIOUS
<1>0. UNCHANGED <<written, underway, held, handled>> /\ Session!Next
  BY DEF Publish
<1>1. CASE Session!Skip
  <2>1. UNCHANGED queued /\ UNCHANGED handled /\ \A d \in Connection : InTransit(d)' = InTransit(d)
    BY <1>0, <1>1 DEF Session!Skip, InTransit
  <2>2. Feeds!Skip
    BY <1>1, <2>1 DEF Session!Skip, Feeds!Skip
  <2> QED
    BY <2>2 DEF Feeds!Next
<1>2. ASSUME NEW c \in Connection, Session!Offer(c) PROVE Feeds!Next
  <2>1. \A d \in Connection :
          InTransit(d)' = IF d = c THEN InTransit(d) \cup {published'[c]} ELSE InTransit(d)
    BY <1>0, <1>2, Functions DEF Session!Offer, InTransit
  <2>2. Transit' = [Transit EXCEPT ![c] = @ \cup {published'[c]}]
    BY <2>1 DEF Transit
  <2>3. Feeds!Offer(c)
    BY <1>0, <1>2, <2>2 DEF Session!Offer, Feeds!Offer, Transit
  <2> QED
    BY <2>3 DEF Feeds!Next
<1>3. ASSUME NEW c \in Connection, Session!Lose(c) PROVE Feeds!Next
  <2>1. PICK n \in queued[c] : queued' = [queued EXCEPT ![c] = @ \ {n}]
    BY <1>3 DEF Session!Lose
  <2>2. n \in InTransit(c) /\ n \notin underway[c] /\ n \notin held[c]
    BY <2>1, Apart DEF InTransit
  <2>3. \A d \in Connection :
          InTransit(d)' = IF d = c THEN InTransit(d) \ {n} ELSE InTransit(d)
    BY <1>0, <2>1, <2>2, Functions DEF InTransit
  <2> QED
    BY <1>0, <1>3, <2>2, <2>3, FeedLose DEF Session!Lose
<1>4. ASSUME NEW c \in Connection, Session!Take(c) PROVE FALSE
  <2>1. PICK n \in queued[c] : written' = [written EXCEPT ![c] = n]
    BY <1>4 DEF Session!Take
  <2>2. written \in [Connection -> Nat]
    BY DEF Ordered, SessionOK, Session!TypeOK
  <2> QED
    BY <1>0, <2>1, <2>2, Apart
<1> QED
  BY <1>0, <1>1, <1>2, <1>3, <1>4 DEF Session!Next

\* On the connection: a message is lost.
LEMMA BreakStep == Ordered /\ Break => [Feeds!Next]_(Feeds!vars)
<1> SUFFICES ASSUME Ordered, Break PROVE Feeds!Next \/ UNCHANGED Feeds!vars
  OBVIOUS
<1>0. UNCHANGED <<published, queued, written, read, held, handled>> /\ Wire!Next
  BY DEF Break
<1>1. CASE Wire!Skip
  <2>1. \A d \in Connection : InTransit(d)' = InTransit(d)
    BY <1>0, <1>1 DEF Wire!Skip, InTransit
  <2> QED
    BY <1>0, <2>1, FeedStutter
<1>2. ASSUME NEW c \in Connection, Wire!Offer(c) PROVE FALSE
  BY <1>0, <1>2, Apart DEF Wire!Offer
<1>3. ASSUME NEW c \in Connection, Wire!Lose(c) PROVE Feeds!Next
  <2>1. PICK n \in underway[c] : underway' = [underway EXCEPT ![c] = @ \ {n}]
    BY <1>3 DEF Wire!Lose
  <2>2. n \in InTransit(c) /\ n \notin queued[c] /\ n \notin held[c]
    BY <2>1, Apart DEF InTransit
  <2>3. \A d \in Connection :
          InTransit(d)' = IF d = c THEN InTransit(d) \ {n} ELSE InTransit(d)
    BY <1>0, <2>1, <2>2, Functions DEF InTransit
  <2> QED
    BY <1>0, <2>2, <2>3, FeedLose
<1>4. ASSUME NEW c \in Connection, Wire!Take(c) PROVE FALSE
  <2>1. PICK n \in underway[c] : read' = [read EXCEPT ![c] = n]
    BY <1>4 DEF Wire!Take
  <2>2. read \in [Connection -> Nat]
    BY DEF Ordered, WireOK, Wire!TypeOK
  <2> QED
    BY <1>0, <2>1, <2>2, Apart
<1> QED
  BY <1>0, <1>1, <1>2, <1>3, <1>4 DEF Wire!Next

\* In the subscription: a message is lost or handled, the oldest of the way.
LEMMA HandleStep == Ordered /\ Handle => [Feeds!Next]_(Feeds!vars)
<1> SUFFICES ASSUME Ordered, Handle PROVE Feeds!Next \/ UNCHANGED Feeds!vars
  OBVIOUS
<1>0. UNCHANGED <<published, queued, written, underway, read>> /\ Reader!Next
  BY DEF Handle
<1>1. CASE Reader!Skip
  <2>1. UNCHANGED handled /\ \A d \in Connection : InTransit(d)' = InTransit(d)
    BY <1>0, <1>1 DEF Reader!Skip, InTransit
  <2> QED
    BY <1>0, <2>1, FeedStutter
<1>2. ASSUME NEW c \in Connection, Reader!Offer(c) PROVE FALSE
  BY <1>0, <1>2, Apart DEF Reader!Offer
<1>3. ASSUME NEW c \in Connection, Reader!Lose(c) PROVE Feeds!Next
  <2>1. PICK n \in held[c] : held' = [held EXCEPT ![c] = @ \ {n}]
    BY <1>3 DEF Reader!Lose
  <2>2. n \in InTransit(c) /\ n \notin queued[c] /\ n \notin underway[c]
    BY <2>1, Apart DEF InTransit
  <2>3. \A d \in Connection :
          InTransit(d)' = IF d = c THEN InTransit(d) \ {n} ELSE InTransit(d)
    BY <1>0, <2>1, <2>2, Functions DEF InTransit
  <2> QED
    BY <1>0, <1>3, <2>2, <2>3, FeedLose DEF Reader!Lose
<1>4. ASSUME NEW c \in Connection, Reader!Take(c) PROVE Feeds!Next
  <2>1. PICK n \in held[c] :
          /\ \A m \in held[c] : n <= m
          /\ handled' = [handled EXCEPT ![c] = n]
          /\ held' = [held EXCEPT ![c] = @ \ {n}]
    BY <1>4 DEF Reader!Take
  <2>2. n \in InTransit(c) /\ n \notin queued[c] /\ n \notin underway[c]
    BY <2>1, Apart DEF InTransit
  <2>3. \A m \in InTransit(c) : n <= m
    BY <2>1, Apart DEF InTransit
  <2>4. \A d \in Connection :
          InTransit(d)' = IF d = c THEN InTransit(d) \ {n} ELSE InTransit(d)
    BY <1>0, <2>1, <2>2, Functions DEF InTransit
  <2>5. Transit' = [Transit EXCEPT ![c] = @ \ {n}] /\ Transit[c] = InTransit(c)
    BY <2>4 DEF Transit
  <2>6. Feeds!Take(c)
    BY <1>0, <2>1, <2>2, <2>3, <2>5 DEF Feeds!Take, Transit
  <2> QED
    BY <2>6 DEF Feeds!Next
<1> QED
  BY <1>0, <1>1, <1>2, <1>3, <1>4 DEF Reader!Next

\* A message written to the connection is still under way, or lost.
LEMMA WriteStep ==
    ASSUME Ordered, NEW c \in Connection, Write(c)
    PROVE  Feeds!Next \/ UNCHANGED Feeds!vars
<1>1. PICK n \in queued[c] :
        /\ written' = [written EXCEPT ![c] = n]
        /\ queued' = [queued EXCEPT ![c] = @ \ {n}]
  BY DEF Write, Session!Take
<1>2. UNCHANGED <<published, held, handled>>
  BY DEF Write, Session!Take
<1>3. n \in InTransit(c) /\ n \notin underway[c] /\ n \notin held[c]
  BY <1>1, Apart DEF InTransit
<1>4. written'[c] = n
  BY <1>1 DEF Ordered, SessionOK, Session!TypeOK
<1>5. CASE Wire!Offer(c)
  <2>1. \A d \in Connection : InTransit(d)' = InTransit(d)
    BY <1>1, <1>2, <1>4, <1>5, Functions DEF Wire!Offer, InTransit
  <2> QED
    BY <1>2, <2>1, FeedStutter
<1>6. CASE Wire!Skip
  <2>1. \A d \in Connection :
          InTransit(d)' = IF d = c THEN InTransit(d) \ {n} ELSE InTransit(d)
    BY <1>1, <1>2, <1>3, <1>6, Functions DEF Wire!Skip, InTransit
  <2> QED
    BY <1>2, <1>3, <2>1, FeedLose
<1> QED
  BY <1>5, <1>6 DEF Write

\* So is a message read from it.
LEMMA ReadStep ==
    ASSUME Ordered, NEW c \in Connection, Read(c)
    PROVE  Feeds!Next \/ UNCHANGED Feeds!vars
<1>1. PICK n \in underway[c] :
        /\ read' = [read EXCEPT ![c] = n]
        /\ underway' = [underway EXCEPT ![c] = @ \ {n}]
  BY DEF Read, Wire!Take
<1>2. UNCHANGED <<published, queued, handled>>
  BY DEF Read, Reader!Offer, Reader!Skip
<1>3. n \in InTransit(c) /\ n \notin queued[c] /\ n \notin held[c]
  BY <1>1, Apart DEF InTransit
<1>4. read'[c] = n
  BY <1>1 DEF Ordered, WireOK, Wire!TypeOK
<1>5. CASE Reader!Offer(c)
  <2>1. \A d \in Connection : InTransit(d)' = InTransit(d)
    BY <1>1, <1>2, <1>4, <1>5, Functions DEF Reader!Offer, InTransit
  <2> QED
    BY <1>2, <2>1, FeedStutter
<1>6. CASE Reader!Skip
  <2>1. \A d \in Connection :
          InTransit(d)' = IF d = c THEN InTransit(d) \ {n} ELSE InTransit(d)
    BY <1>1, <1>2, <1>3, <1>6, Functions DEF Reader!Skip, InTransit
  <2> QED
    BY <1>2, <1>3, <2>1, FeedLose
<1> QED
  BY <1>5, <1>6 DEF Read

\* Sessions, connections and subscriptions one after another promise what each
\* of them does.
THEOREM ImplementsFeed == Spec => DeliversFeed
<1>1. Init => Feeds!Init
  BY DEF Init, Session!Init, Wire!Init, Reader!Init, Feeds!Init, InTransit
<1>2. Ordered /\ [Next]_vars => [Feeds!Next]_(Feeds!vars)
  <2> SUFFICES ASSUME Ordered, [Next]_vars PROVE Feeds!Next \/ UNCHANGED Feeds!vars
    OBVIOUS
  <2>1. CASE UNCHANGED vars
    BY <2>1 DEF vars, Feeds!vars, InTransit
  <2> QED
    BY <2>1, PublishStep, BreakStep, HandleStep, WriteStep, ReadStep DEF Next
<1> QED
  BY <1>1, <1>2, OrderedInvariance, PTL DEF Spec, DeliversFeed, Feeds!Spec

\* The callbacks of a subscription get what a publisher publishes on their
\* connection at most once, in the order of publication.
THEOREM HandledOnce == Spec => Feeds!OnceInOrder
<1>1. FeedFacts!Spec => FeedFacts!OnceInOrder
  BY FeedFacts!FeedsOnceInOrder
<1>2. FeedFacts!Spec <=> Feeds!Spec
  BY PTL DEF FeedFacts!Spec, Feeds!Spec, FeedFacts!Init, Feeds!Init, FeedFacts!vars,
     Feeds!vars, FeedFacts!Next, Feeds!Next, FeedFacts!Offer, Feeds!Offer,
     FeedFacts!Skip, Feeds!Skip, FeedFacts!Lose, Feeds!Lose, FeedFacts!Take, Feeds!Take
<1>3. FeedFacts!OnceInOrder <=> Feeds!OnceInOrder
  BY PTL DEF FeedFacts!OnceInOrder, Feeds!OnceInOrder, FeedFacts!vars, Feeds!vars
<1> QED
  BY <1>1, <1>2, <1>3, ImplementsFeed DEF DeliversFeed
=============================================================================
