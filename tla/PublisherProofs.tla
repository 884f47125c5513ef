--------------------------- MODULE PublisherProofs ---------------------------
(***************************************************************************)
(* Proofs about Publisher, for every value of its constants: types, the    *)
(* list of sessions, where loop and sessions wait for good, that the loop  *)
(* is a NodeLoop, the order in which messages leave a session, and that    *)
(* each session's feed is one of LossyFifo.                                *)
(***************************************************************************)
EXTENDS Publisher, Channels

-----------------------------------------------------------------------------
(* Types *)

\* A session that writes has a message to write, the accepting goroutine a
\* session to offer.
BusyOK ==
    /\ \A s \in Sess : spc[s] = "writing" => queue[s] # <<>>
    /\ lpc = "offer" => lsess \in Sess

Types == TypeOK /\ BusyOK

\* A channel of one session or subscriber changes, within its capacity.
LEMMA OneChannel ==
    ASSUME NEW A, NEW S, NEW f \in [A -> Seq(S)], NEW cap, \A x \in A : Len(f[x]) <= cap,
           NEW a \in A, NEW q \in Seq(S), Len(q) <= cap
    PROVE  /\ [f EXCEPT ![a] = q] \in [A -> Seq(S)]
           /\ \A x \in A : Len([f EXCEPT ![a] = q][x]) <= cap
OBVIOUS

\* What the assumptions say of the constants.
LEMMA ConstantTypes ==
    /\ ChanCap \in Nat \ {0} /\ SessCap \in Nat \ {0} /\ QueueMax \in Nat \ {0}
    /\ MaxMsg \in Nat /\ MaxShutdowns \in Nat /\ MaxShutdowns <= ChanCap
BY BoundsAssumption

\* The types hold before anyone subscribes.
LEMMA TypesInit == Init => Types
BY ConstantTypes, EmptySeq DEF Init, Types, TypeOK, BusyOK, Message, One

\* The loop takes a message, a session or a notice,
LEMMA TypesReceive == Types /\ (LoopMsg \/ LoopSession \/ LoopSessionError) => Types'
<1> SUFFICES ASSUME Types, LoopMsg \/ LoopSession \/ LoopSessionError PROVE Types'
  OBVIOUS
<1> USE ConstantTypes DEF Types, BusyOK, TypeOK
<1>1. CASE LoopMsg
  <2>1. /\ Head(msgChan) \in 1..MaxMsg /\ Tail(msgChan) \in Seq(1..MaxMsg)
        /\ Len(msgChan) \in Nat /\ Len(Tail(msgChan)) = Len(msgChan) - 1
    BY <1>1, ChanReceive DEF LoopMsg
  <2> QED
    BY SMTT(30), <1>1, <2>1 DEF LoopMsg, acceptVars, sessVars
<1>2. CASE LoopSession
  <2>1. /\ Head(sessionChan) \in Sess /\ Tail(sessionChan) \in Seq(Sess)
        /\ Len(sessionChan) \in Nat /\ Len(Tail(sessionChan)) = Len(sessionChan) - 1
    BY <1>2, ChanReceive DEF LoopSession
  <2>2. Append(sessions, Head(sessionChan)) \in Seq(Sess)
    BY <2>1, AppendProperties
  <2>3. /\ sessionChan' \in Seq(Sess) /\ Len(sessionChan') <= ChanCap
        /\ sessions' \in Seq(Sess)
    BY <1>2, <2>1, <2>2 DEF LoopSession
  <2>4. spc' \in [Sess -> {"none", "waiting", "header", "respond", "sending",
                           "writing", "post", "callback", "done"}]
    BY <1>2, <2>1 DEF LoopSession
  <2>5. \A s \in Sess : spc'[s] = "writing" => queue'[s] # <<>>
    BY <1>2, <2>1 DEF LoopSession
  <2> QED
    BY <1>2, <2>3, <2>4, <2>5 DEF LoopSession, acceptVars
<1>3. CASE LoopSessionError
  <2>1. /\ Tail(sessionErrorChan) \in Seq(Sess) /\ Len(sessionErrorChan) \in Nat
        /\ Len(Tail(sessionErrorChan)) = Len(sessionErrorChan) - 1
    BY <1>3, ChanReceive DEF LoopSessionError
  <2>2. /\ sessions' \in Seq(Sess)
        /\ sessionErrorChan' \in Seq(Sess) /\ Len(sessionErrorChan') <= ChanCap
    BY <1>3, <2>1, ListRemoveSeq DEF LoopSessionError, Unlist
  <2> QED
    BY <1>3, <2>2 DEF LoopSessionError, acceptVars, sessVars
<1> QED
  BY <1>1, <1>2, <1>3

\* sends to a session,
LEMMA TypesFan == Types /\ LoopFan => Types'
<1> SUFFICES ASSUME Types, LoopFan PROVE Types'
  OBVIOUS
<1> USE ConstantTypes DEF Types, BusyOK, TypeOK
<1> DEFINE s == Head(rest)
<1>1. s \in Sess /\ Tail(rest) \in Seq(Sess)
  BY ChanReceive DEF LoopFan
<1>2. cur \in Message
  BY DEF Message, One
<1>3. /\ Append(smsg[s], cur) \in Seq(Message)
      /\ Len(smsg[s]) \in Nat /\ Len(Append(smsg[s], cur)) = Len(smsg[s]) + 1
  BY <1>1, <1>2, ChanSend
<1>4. smsg' \in [Sess -> Seq(Message)] /\ \A t \in Sess : Len(smsg'[t]) <= SessCap
  <2>1. Len(smsg[s]) < SessCap /\ smsg' = [smsg EXCEPT ![s] = Append(smsg[s], cur)]
    BY DEF LoopFan
  <2> HIDE DEF s
  <2>2. Len(Append(smsg[s], cur)) <= SessCap
    BY <1>3, <2>1
  <2> QED
    BY <1>1, <1>3, <2>1, <2>2, OneChannel
<1> QED
  BY <1>1, <1>4 DEF LoopFan, acceptVars, chanVars

\* tells one to quit, or does something else that sends nothing.
LEMMA TypesLoop ==
    Types /\ (\/ LoopFanDone \/ LoopListenerError \/ LoopShutdown \/ LoopUnregister
              \/ LoopQuit \/ LoopCleared) => Types'
<1> SUFFICES ASSUME Types, \/ LoopFanDone \/ LoopListenerError \/ LoopShutdown
                           \/ LoopUnregister \/ LoopQuit \/ LoopCleared
             PROVE  Types'
  OBVIOUS
<1> USE ConstantTypes DEF Types, BusyOK, TypeOK, acceptVars, chanVars, sessVars
<1>1. CASE LoopFanDone \/ LoopUnregister \/ LoopCleared
  BY <1>1, EmptySeq DEF LoopFanDone, LoopUnregister, LoopCleared
<1>2. CASE LoopListenerError
  <2>1. listenerErrorChan' \in 0..ChanCap
    BY <1>2 DEF LoopListenerError
  <2> QED
    BY <1>2, <2>1 DEF LoopListenerError
<1>3. CASE LoopShutdown
  <2>1. shutdownChan' \in 0..ChanCap
    BY <1>3 DEF LoopShutdown
  <2> QED
    BY <1>3, <2>1 DEF LoopShutdown
<1>4. CASE LoopQuit
  <2>1. Head(rest) \in Sess /\ Tail(rest) \in Seq(Sess)
    BY <1>4, ChanReceive DEF LoopQuit
  <2> QED
    BY <1>4, <2>1 DEF LoopQuit
<1> QED
  BY <1>1, <1>2, <1>3, <1>4

\* The accepting goroutine starts sessions and hands them over.
LEMMA TypesAccept == Types /\ AcceptStep => Types'
<1> SUFFICES ASSUME Types, AcceptStep PROVE Types'
  OBVIOUS
<1> USE ConstantTypes DEF Types, BusyOK, TypeOK
<1>1. ASSUME NEW s \in Sess, Accept(s) PROVE Types'
  BY <1>1 DEF Accept, loopVars, chanVars
<1>2. CASE Offer
  <2>1. /\ Append(sessionChan, lsess) \in Seq(Sess) /\ Len(sessionChan) \in Nat
        /\ Len(Append(sessionChan, lsess)) = Len(sessionChan) + 1
    BY <1>2, ChanSend DEF Offer
  <2> QED
    BY SMTT(30), <1>2, <2>1 DEF Offer, loopVars, sessVars
<1>3. CASE AcceptError
  <2>1. listenerErrorChan' \in 0..ChanCap
    BY <1>3 DEF AcceptError
  <2> QED
    BY <1>3, <2>1 DEF AcceptError, loopVars, sessVars
<1> QED
  BY <1>1, <1>2, <1>3 DEF AcceptStep

\* A session queues what it is sent,
LEMMA TypesQueue == \A s \in Sess : Types /\ Receive(s) => Types'
<1> SUFFICES ASSUME NEW s \in Sess, Types, Receive(s) PROVE Types'
  OBVIOUS
<1> USE ConstantTypes DEF Types, BusyOK, TypeOK
<1>1. smsg[s] \in Seq(Message) /\ smsg[s] # <<>> /\ Len(smsg[s]) <= SessCap
  BY DEF Receive
<1>2. /\ Head(smsg[s]) \in Message /\ Tail(smsg[s]) \in Seq(Message)
      /\ Len(smsg[s]) \in Nat /\ Len(Tail(smsg[s])) = Len(smsg[s]) - 1
  BY <1>1, ChanReceive
<1>3. queue[s] \in Seq(Message) /\ Len(queue[s]) <= QueueMax /\ Len(queue[s]) \in Nat
  BY LenProperties
<1> DEFINE m == Head(smsg[s])
           q == queue[s]
<1> HIDE DEF m, q
<1>4. /\ Enqueue(q, m) \in Seq(Message) /\ Len(Enqueue(q, m)) <= QueueMax
  <2>1. CASE Len(q) = QueueMax
    <3>1. q \in Seq(Message) /\ q # <<>>
      BY <1>3, <2>1, EmptySeq DEF q
    <3>2. Tail(q) \in Seq(Message) /\ Len(Tail(q)) = Len(q) - 1
      BY <3>1, ChanReceive
    <3>3. /\ Append(Tail(q), m) \in Seq(Message)
          /\ Len(Append(Tail(q), m)) = Len(Tail(q)) + 1
      BY <1>2, <3>2, ChanSend DEF m
    <3> QED
      BY <1>3, <2>1, <3>2, <3>3 DEF Enqueue
  <2>2. CASE Len(q) # QueueMax
    <3>1. Append(q, m) \in Seq(Message) /\ Len(Append(q, m)) = Len(q) + 1
      BY <1>2, <1>3, ChanSend DEF m, q
    <3> QED
      BY <1>3, <2>2, <3>1 DEF Enqueue, q
  <2> QED
    BY <2>1, <2>2
<1>5. queue' = [queue EXCEPT ![s] = Enqueue(q, m)] /\ smsg' = [smsg EXCEPT ![s] = Tail(@)]
  BY DEF Receive, q, m
<1>6. /\ smsg' \in [Sess -> Seq(Message)] /\ queue' \in [Sess -> Seq(Message)]
      /\ \A t \in Sess : Len(smsg'[t]) <= SessCap /\ Len(queue'[t]) <= QueueMax
  <2>1. smsg' = [smsg EXCEPT ![s] = Tail(smsg[s])] /\ Len(Tail(smsg[s])) <= SessCap
    BY <1>1, <1>2, <1>5
  <2>2. smsg' \in [Sess -> Seq(Message)] /\ \A t \in Sess : Len(smsg'[t]) <= SessCap
    BY <1>2, <2>1, OneChannel
  <2>3. queue' \in [Sess -> Seq(Message)] /\ \A t \in Sess : Len(queue'[t]) <= QueueMax
    BY <1>4, <1>5, OneChannel
  <2> QED
    BY <2>2, <2>3
<1>7. \A t \in Sess : spc'[t] = "writing" => queue'[t] # <<>>
  BY <1>5 DEF Receive, sessUnchanged
<1> QED
  BY <1>6, <1>7 DEF Receive, sessUnchanged, loopVars, acceptVars

\* and writes it to its peer,
LEMMA TypesWrite == \A s \in Sess : Types /\ EndWrite(s) => Types'
<1> SUFFICES ASSUME NEW s \in Sess, Types, EndWrite(s) PROVE Types'
  OBVIOUS
<1> USE ConstantTypes DEF Types, BusyOK, TypeOK
<1>1. queue[s] \in Seq(Message) /\ queue[s] # <<>> /\ Len(queue[s]) <= QueueMax
  BY DEF EndWrite
<1>2. /\ Head(queue[s]) \in Message /\ Tail(queue[s]) \in Seq(Message)
      /\ Len(queue[s]) \in Nat /\ Len(Tail(queue[s])) = Len(queue[s]) - 1
  BY <1>1, ChanReceive
<1>3. /\ queue' \in [Sess -> Seq(Message)] /\ \A t \in Sess : Len(queue'[t]) <= QueueMax
      /\ \A t \in Sess : spc'[t] = "writing" => queue'[t] # <<>>
  <2>1. queue' = [queue EXCEPT ![s] = Tail(queue[s])] /\ Len(Tail(queue[s])) <= QueueMax
    BY <1>1, <1>2 DEF EndWrite
  <2>2. queue' \in [Sess -> Seq(Message)] /\ \A t \in Sess : Len(queue'[t]) <= QueueMax
    BY <1>2, <2>1, OneChannel
  <2>3. \A t \in Sess : spc'[t] = "writing" => t # s /\ spc[t] = "writing"
    BY DEF EndWrite
  <2> QED
    BY <2>1, <2>2, <2>3
<1>4. written' \in [Sess -> 0..MaxMsg]
  <2>1. Head(queue[s]) # One => Head(queue[s]) \in 0..MaxMsg
    BY <1>2 DEF Message
  <2>2. \/ UNCHANGED written
        \/ written' = [written EXCEPT ![s] = IF Head(queue[s]) = One THEN @ ELSE Head(queue[s])]
    BY DEF EndWrite
  <2> QED
    BY <2>1, <2>2
<1>5. spc' \in [Sess -> {"none", "waiting", "header", "respond", "sending",
                         "writing", "post", "callback", "done"}]
  BY DEF EndWrite
<1> QED
  BY <1>3, <1>4, <1>5 DEF EndWrite, sessUnchanged, loopVars, acceptVars

\* greets it, gets ready to write, and says that it ended.
LEMMA TypesSession ==
    \A s \in Sess : Types /\ (\/ ReadHeader(s) \/ WriteHeader(s) \/ StartWrite(s)
                              \/ Post(s) \/ Disconnect(s)) => Types'
<1> SUFFICES ASSUME NEW s \in Sess, Types, \/ ReadHeader(s) \/ WriteHeader(s)
                                           \/ StartWrite(s) \/ Post(s) \/ Disconnect(s)
             PROVE  Types'
  OBVIOUS
<1> USE ConstantTypes DEF Types, BusyOK, TypeOK, sessUnchanged, loopVars, acceptVars
<1>1. CASE ReadHeader(s)
  BY <1>1 DEF ReadHeader
<1>2. CASE WriteHeader(s)
  BY <1>2 DEF WriteHeader
<1>3. CASE StartWrite(s)
  BY <1>3 DEF StartWrite
<1>4. CASE Post(s)
  <2>1. /\ Append(sessionErrorChan, s) \in Seq(Sess) /\ Len(sessionErrorChan) \in Nat
        /\ Len(Append(sessionErrorChan, s)) = Len(sessionErrorChan) + 1
    BY ChanSend
  <2>2. sessionErrorChan' \in Seq(Sess) /\ Len(sessionErrorChan') <= ChanCap
    BY <1>4, <2>1 DEF Post
  <2>3. /\ spc' \in [Sess -> {"none", "waiting", "header", "respond", "sending",
                              "writing", "post", "callback", "done"}]
        /\ \A t \in Sess : spc'[t] = "writing" => t # s /\ spc[t] = "writing"
    BY <1>4 DEF Post
  <2>4. UNCHANGED <<pc, sessions, rest, cur, listening, lpc, lsess, msgChan, shutdownChan,
                    sessionChan, listenerErrorChan, published, smsg, queue, written,
                    connected, disconnected>>
    BY <1>4 DEF Post
  <2> QED
    BY <2>2, <2>3, <2>4
<1>5. CASE Disconnect(s)
  BY <1>5 DEF Disconnect
<1> QED
  BY <1>1, <1>2, <1>3, <1>4, <1>5

\* The callers publish, to all or to one, and shut down.
LEMMA TypesCallers ==
    Types /\ (\/ Publish \/ Shutdown
              \/ \E s \in Sess : SinglePublish(s) \/ ConnectReturns(s)) => Types'
<1> SUFFICES ASSUME Types, \/ Publish \/ Shutdown
                           \/ \E s \in Sess : SinglePublish(s) \/ ConnectReturns(s)
             PROVE  Types'
  OBVIOUS
<1> USE ConstantTypes DEF Types, BusyOK, TypeOK, loopVars, acceptVars
<1>1. CASE Publish
  <2>1. published + 1 \in 1..MaxMsg
    BY <1>1 DEF Publish
  <2>2. /\ Append(msgChan, published + 1) \in Seq(1..MaxMsg) /\ Len(msgChan) \in Nat
        /\ Len(Append(msgChan, published + 1)) = Len(msgChan) + 1
    BY <2>1, ChanSend
  <2>3. /\ published' \in 0..MaxMsg
        /\ msgChan' \in Seq(1..MaxMsg) /\ Len(msgChan') <= ChanCap
    BY <1>1, <2>1, <2>2 DEF Publish
  <2> QED
    BY <1>1, <2>3 DEF Publish, sessVars
<1>2. CASE Shutdown
  BY SMTT(30), <1>2 DEF Shutdown, sessVars
<1>3. ASSUME NEW s \in Sess, SinglePublish(s) PROVE Types'
  <2>1. One \in Message /\ smsg[s] \in Seq(Message) /\ Len(smsg[s]) < SessCap
    BY <1>3 DEF Message, SinglePublish
  <2>2. /\ Append(smsg[s], One) \in Seq(Message) /\ Len(smsg[s]) \in Nat
        /\ Len(Append(smsg[s], One)) = Len(smsg[s]) + 1
    BY <2>1, ChanSend
  <2>3. smsg' \in [Sess -> Seq(Message)] /\ \A t \in Sess : Len(smsg'[t]) <= SessCap
    BY SMTT(30), <1>3, <2>1, <2>2 DEF SinglePublish
  <2> QED
    BY <1>3, <2>3 DEF SinglePublish, sessUnchanged
<1>4. ASSUME NEW s \in Sess, ConnectReturns(s) PROVE Types'
  BY <1>4 DEF ConnectReturns, sessUnchanged
<1> QED
  BY <1>1, <1>2, <1>3, <1>4

\* Every step keeps the types.
LEMMA TypesStep == Types /\ [Next]_vars => Types'
<1> SUFFICES ASSUME Types, [Next]_vars PROVE Types'
  OBVIOUS
<1>1. CASE UNCHANGED vars
  BY <1>1 DEF Types, TypeOK, BusyOK, vars, loopVars, acceptVars, chanVars, sessVars
<1>2. CASE LoopStep
  BY <1>2, TypesReceive, TypesFan, TypesLoop DEF LoopStep, LoopOwnStep
<1>3. CASE \E s \in Sess : SessionStep(s)
  BY <1>3, TypesQueue, TypesWrite, TypesSession DEF SessionStep, TimelySessionStep
<1> QED
  BY <1>1, <1>2, <1>3, TypesAccept, TypesCallers DEF Next

\* Types holds in every state.
LEMMA TypesInvariance == Spec => []Types
BY TypesInit, TypesStep, PTL DEF Spec

\* Every variable keeps its type: neither a channel of the publisher, nor a
\* session's own channel and queue, ever exceeds its capacity.
THEOREM TypeCorrect == Spec => []TypeOK
<1>1. Types => TypeOK
  BY DEF Types
<1> QED
  BY <1>1, TypesInvariance, PTL

-----------------------------------------------------------------------------
(* The sessions *)

HIDE DEF Types

\* What the proofs below need of the types.
Lists ==
    /\ sessions \in Seq(Sess) /\ rest \in Seq(Sess)
    /\ sessionChan \in Seq(Sess) /\ sessionErrorChan \in Seq(Sess)
    /\ lpc = "offer" => lsess \in Sess
    /\ spc \in [Sess -> {"none", "waiting", "header", "respond", "sending",
                         "writing", "post", "callback", "done"}]

\* Every list and channel of sessions holds each of them once, and the loop only
\* goes through sessions that it lists.
ListsDistinct ==
    /\ IsInjective(sessions) /\ IsInjective(rest)
    /\ IsInjective(sessionChan) /\ IsInjective(sessionErrorChan)
    /\ ToSet(rest) \subseteq ToSet(sessions)
    /\ pc \notin {"fan", "quitting"} => rest = <<>>
    /\ lpc = "offer" => lsess \notin ToSet(sessionChan)

\* Session s is on its way to the loop.
Arriving(s) == s \in ToSet(sessionChan) \/ (lpc = "offer" /\ lsess = s)

\* A session arrives before it runs, and its notice leaves after it has run: the
\* list is exact as long as the loop is there to keep it.
ListExact ==
    \A s \in Sess :
      /\ Arriving(s) => spc[s] = "waiting"
      /\ s \in ToSet(sessionErrorChan) => spc[s] \in {"callback", "done"}
      /\ pc # "exited" =>
           (s \in ToSet(sessions) <=> Started(s) \/ s \in ToSet(sessionErrorChan))

Tracks == ListsDistinct /\ ListExact

\* There is nothing to go through.
LEMMA NoElements == IsInjective(<<>>) /\ ToSet(<<>>) = {}
BY DEF IsInjective, ToSet

\* The types of the two lists, by themselves.
LEMMA TypesLists == Types => Lists
BY DEF Types, TypeOK, BusyOK, Lists

\* No session, no entry.
LEMMA TracksInit == Init => Tracks
BY NoElements DEF Init, Tracks, ListsDistinct, ListExact, Arriving, Started

\* A session that arrives is listed when its goroutine starts,
LEMMA TracksSession == Lists /\ Tracks /\ LoopSession => Tracks'
<1> SUFFICES ASSUME Lists, Tracks, LoopSession PROVE Tracks'
  OBVIOUS
<1> USE DEF Lists, Tracks
<1> DEFINE s == Head(sessionChan)
<1>1. /\ s \in Sess /\ s \in ToSet(sessionChan) /\ IsInjective(sessionChan')
      /\ ToSet(sessionChan') = ToSet(sessionChan) \ {s}
  BY ChanReceive, ChanReceiveDistinct DEF LoopSession, ListsDistinct
<1>2. spc[s] = "waiting" /\ s \notin ToSet(sessions)
  BY <1>1 DEF ListExact, Arriving, LoopSession, Started
<1>3. IsInjective(sessions') /\ ToSet(sessions') = ToSet(sessions) \cup {s}
  BY <1>1, <1>2, ChanSend, ChanSendNew DEF LoopSession, ListsDistinct
<1>4. /\ pc = "select" /\ UNCHANGED <<pc, rest, lpc, lsess, sessionErrorChan>>
      /\ spc' = [spc EXCEPT ![s] = "header"]
  BY DEF LoopSession, acceptVars
<1> HIDE DEF s
<1>5. ListsDistinct'
  BY <1>1, <1>3, <1>4 DEF ListsDistinct
<1>6. ListExact'
  <2>1. lpc = "offer" => lsess # s
    BY <1>1 DEF ListsDistinct
  <2> QED
    BY <1>1, <1>2, <1>3, <1>4, <2>1 DEF ListExact, Arriving, Started
<1> QED
  BY <1>5, <1>6

\* and leaves the list when its notice is read.
LEMMA TracksSessionError == Lists /\ Tracks /\ LoopSessionError => Tracks'
<1> SUFFICES ASSUME Lists, Tracks, LoopSessionError PROVE Tracks'
  OBVIOUS
<1> USE DEF Lists, Tracks
<1> DEFINE s == Head(sessionErrorChan)
<1>1. /\ s \in Sess /\ s \in ToSet(sessionErrorChan) /\ IsInjective(sessionErrorChan')
      /\ ToSet(sessionErrorChan') = ToSet(sessionErrorChan) \ {s}
  BY ChanReceive, ChanReceiveDistinct DEF LoopSessionError, ListsDistinct
<1>2. IsInjective(sessions') /\ ToSet(sessions') = ToSet(sessions) \ {s}
  BY ListRemove DEF LoopSessionError, Unlist, ListsDistinct
<1>3. /\ pc = "select" /\ UNCHANGED <<pc, rest, lpc, lsess, sessionChan, spc>>
  BY DEF LoopSessionError, acceptVars, sessVars
<1> HIDE DEF s
<1>4. ListsDistinct'
  BY <1>1, <1>2, <1>3, NoElements DEF ListsDistinct
<1>5. ListExact'
  BY <1>1, <1>2, <1>3 DEF ListExact, Arriving, Started
<1> QED
  BY <1>4, <1>5

\* The loop goes through the list of the sessions,
LEMMA TracksLoop ==
    Lists /\ Tracks /\ (\/ LoopMsg \/ LoopFan \/ LoopFanDone \/ LoopListenerError
                        \/ LoopShutdown \/ LoopUnregister \/ LoopCleared) => Tracks'
<1> SUFFICES ASSUME Lists, Tracks, \/ LoopMsg \/ LoopFan \/ LoopFanDone \/ LoopListenerError
                                   \/ LoopShutdown \/ LoopUnregister \/ LoopCleared
             PROVE  Tracks'
  OBVIOUS
<1> USE DEF Lists, Tracks, ListsDistinct, ListExact, Arriving, Started, acceptVars, chanVars,
        sessVars
<1>1. CASE LoopMsg \/ LoopUnregister
  BY <1>1 DEF LoopMsg, LoopUnregister
<1>2. CASE LoopFan
  <2>1. IsInjective(Tail(rest)) /\ ToSet(Tail(rest)) \subseteq ToSet(sessions)
    BY <1>2, ChanReceive, ChanReceiveDistinct DEF LoopFan
  <2> QED
    BY <1>2, <2>1 DEF LoopFan
<1>3. CASE LoopFanDone \/ LoopListenerError \/ LoopShutdown
  BY <1>3 DEF LoopFanDone, LoopListenerError, LoopShutdown
<1>4. CASE LoopCleared
  BY <1>4, NoElements DEF LoopCleared
<1> QED
  BY <1>1, <1>2, <1>3, <1>4

\* and tells the sessions to quit, one after the other.
LEMMA TracksQuit == Lists /\ Tracks /\ LoopQuit => Tracks'
<1> SUFFICES ASSUME Lists, Tracks, LoopQuit PROVE Tracks'
  OBVIOUS
<1> USE DEF Lists, Tracks
<1> DEFINE s == Head(rest)
<1>1. s \in Sess /\ IsInjective(rest') /\ ToSet(rest') \subseteq ToSet(sessions)
  BY ChanReceive, ChanReceiveDistinct DEF LoopQuit, ListsDistinct
<1>2. /\ pc = "quitting" /\ UNCHANGED <<pc, sessions, lpc, lsess, sessionChan, sessionErrorChan>>
      /\ spc[s] = "sending" /\ spc' = [spc EXCEPT ![s] = "post"]
  BY DEF LoopQuit, acceptVars, chanVars
<1> HIDE DEF s
<1>3. ListsDistinct'
  BY <1>1, <1>2 DEF ListsDistinct
<1>4. ListExact'
  BY <1>1, <1>2 DEF ListExact, Arriving, Started
<1> QED
  BY <1>3, <1>4

\* A session that is accepted starts to arrive.
LEMMA TracksAccept == Lists /\ Tracks /\ AcceptStep => Tracks'
<1> SUFFICES ASSUME Lists, Tracks, AcceptStep PROVE Tracks'
  OBVIOUS
<1> USE DEF Lists, Tracks
<1>1. ASSUME NEW s \in Sess, Accept(s) PROVE Tracks'
  <2>1. /\ lpc = "accept" /\ lsess' = s /\ lpc' = "offer"
        /\ spc[s] = "none" /\ spc' = [spc EXCEPT ![s] = "waiting"]
        /\ UNCHANGED <<pc, sessions, rest, sessionChan, sessionErrorChan>>
    BY <1>1 DEF Accept, loopVars, chanVars
  <2>2. ListsDistinct'
    BY <2>1 DEF ListsDistinct, ListExact, Arriving
  <2>3. ListExact'
    BY <2>1 DEF ListExact, Arriving, Started
  <2> QED
    BY <2>2, <2>3
<1>2. CASE Offer
  <2>1. /\ lpc = "offer" /\ lpc' = "accept" /\ lsess \in Sess
        /\ ToSet(sessionChan') = ToSet(sessionChan) \cup {lsess} /\ IsInjective(sessionChan')
        /\ UNCHANGED <<pc, sessions, rest, sessionErrorChan, spc>>
    BY <1>2, ChanSend, ChanSendNew DEF Offer, loopVars, sessVars, ListsDistinct
  <2>2. ListsDistinct'
    BY <2>1 DEF ListsDistinct
  <2>3. ListExact'
    BY <2>1 DEF ListExact, Arriving, Started
  <2> QED
    BY <2>2, <2>3
<1>3. CASE AcceptError
  BY <1>3 DEF AcceptError, loopVars, sessVars, ListsDistinct, ListExact, Arriving, Started
<1> QED
  BY <1>1, <1>2, <1>3 DEF AcceptStep

\* A running session runs on until it posts its notice.
LEMMA TracksRun ==
    \A s \in Sess : Lists /\ Tracks /\ (\/ ReadHeader(s) \/ WriteHeader(s) \/ Receive(s)
                                        \/ StartWrite(s) \/ EndWrite(s)) => Tracks'
<1> SUFFICES ASSUME NEW s \in Sess, Lists, Tracks,
                    \/ ReadHeader(s) \/ WriteHeader(s) \/ Receive(s)
                    \/ StartWrite(s) \/ EndWrite(s)
             PROVE  Tracks'
  OBVIOUS
<1>1. /\ UNCHANGED <<pc, sessions, rest, lpc, lsess, sessionChan, sessionErrorChan>>
      /\ Started(s)
      /\ \E next \in {"header", "respond", "sending", "writing", "post"} :
           spc' = [spc EXCEPT ![s] = next]
  BY DEF ReadHeader, WriteHeader, Receive, StartWrite, EndWrite, sessUnchanged,
     loopVars, acceptVars, Started, Lists
<1>2. PICK next \in {"header", "respond", "sending", "writing", "post"} :
        spc' = [spc EXCEPT ![s] = next]
  BY <1>1
<1>3. ListsDistinct'
  BY <1>1 DEF Tracks, ListsDistinct
<1>4. ListExact'
  BY <1>1, <1>2 DEF Tracks, Lists, ListExact, Arriving, Started
<1> QED
  BY <1>3, <1>4 DEF Tracks

\* Its notice is the only one, and then its callback runs.
LEMMA TracksEnd ==
    \A s \in Sess : Lists /\ Tracks /\ (Post(s) \/ Disconnect(s)) => Tracks'
<1> SUFFICES ASSUME NEW s \in Sess, Lists, Tracks, Post(s) \/ Disconnect(s) PROVE Tracks'
  OBVIOUS
<1> USE DEF Lists, Tracks
<1>1. CASE Post(s)
  <2>1. /\ UNCHANGED <<pc, sessions, rest, lpc, lsess, sessionChan>>
        /\ spc[s] = "post" /\ spc' = [spc EXCEPT ![s] = "callback"]
    BY <1>1 DEF Post, sessUnchanged, loopVars, acceptVars
  <2>2. s \notin ToSet(sessionErrorChan)
    BY <2>1 DEF ListExact
  <2>3. /\ IsInjective(sessionErrorChan')
        /\ ToSet(sessionErrorChan') = ToSet(sessionErrorChan) \cup {s}
    BY <1>1, <2>2, ChanSend, ChanSendNew DEF Post, ListsDistinct
  <2>4. ListsDistinct'
    BY <2>1, <2>3 DEF ListsDistinct
  <2>5. ListExact'
    BY <2>1, <2>3 DEF ListExact, Arriving, Started
  <2> QED
    BY <2>4, <2>5
<1>2. CASE Disconnect(s)
  <2>1. /\ UNCHANGED <<pc, sessions, rest, lpc, lsess, sessionChan, sessionErrorChan>>
        /\ spc[s] = "callback" /\ spc' = [spc EXCEPT ![s] = "done"]
    BY <1>2 DEF Disconnect, sessUnchanged, loopVars, acceptVars
  <2> QED
    BY <2>1 DEF ListsDistinct, ListExact, Arriving, Started
<1> QED
  BY <1>1, <1>2

\* Every step keeps the list exact.
LEMMA TracksStep == Lists /\ Tracks /\ [Next]_vars => Tracks'
<1> SUFFICES ASSUME Lists, Tracks, [Next]_vars PROVE Tracks'
  OBVIOUS
<1>1. CASE \/ Publish \/ Shutdown \/ UNCHANGED vars
           \/ \E s \in Sess : SinglePublish(s) \/ ConnectReturns(s)
  <2>1. UNCHANGED <<pc, sessions, rest, lpc, lsess, sessionChan, sessionErrorChan, spc>>
    BY <1>1 DEF Publish, Shutdown, vars, SinglePublish, ConnectReturns, sessUnchanged,
       loopVars, acceptVars, chanVars, sessVars
  <2> QED
    BY <2>1 DEF Tracks, ListsDistinct, ListExact, Arriving, Started
<1>2. CASE LoopStep
  BY <1>2, TracksSession, TracksSessionError, TracksLoop, TracksQuit DEF LoopStep, LoopOwnStep
<1>3. CASE \E s \in Sess : SessionStep(s)
  BY <1>3, TracksRun, TracksEnd DEF SessionStep, TimelySessionStep
<1> QED
  BY <1>1, <1>2, <1>3, TracksAccept DEF Next

\* What the lists hold, in every state.
LEMMA TracksInvariance == Spec => []Tracks
<1>1. Types /\ Tracks /\ [Next]_vars => Tracks'
  BY TypesLists, TracksStep
<1> QED
  BY <1>1, TracksInit, TypesInvariance, PTL DEF Spec

\* Every session that runs, or whose notice is still to be read, is listed once,
\* and no other is, as long as the loop runs.
THEOREM SessionsListed == Spec => []SessionsTracked
<1>1. Tracks => SessionsTracked
  BY DEF Tracks, ListsDistinct, ListExact, SessionsTracked
<1> QED
  BY <1>1, TracksInvariance, PTL

-----------------------------------------------------------------------------
(* The loop as its node sees it *)

\* As long as the loop takes messages its listener is open, and an error of the
\* listener is no consequence of closing it.
ListenerHonest ==
    pc \in {"select", "fan"} =>
        listening /\ (listenerErrorChan > 0 => "accept" \in MayFail)

\* Only the loop closes the listener, when it leaves its select for good.
LEMMA ListenerStep == Types /\ ListenerHonest /\ [Next]_vars => ListenerHonest'
<1> SUFFICES ASSUME Types, ListenerHonest, [Next]_vars PROVE ListenerHonest'
  OBVIOUS
<1> USE DEF ListenerHonest, vars, loopVars, acceptVars, chanVars
<1>0. listenerErrorChan \in 0..ChanCap /\ ChanCap \in Nat
  BY ConstantTypes DEF Types, TypeOK
<1>1. CASE LoopStep
  BY <1>0, <1>1 DEF LoopStep, LoopOwnStep, LoopMsg, LoopFan, LoopFanDone, LoopListenerError,
     LoopSession, LoopSessionError, LoopShutdown, LoopUnregister, LoopQuit, LoopCleared
<1>2. CASE AcceptStep
  BY <1>0, <1>2 DEF AcceptStep, Accept, Offer, AcceptError
<1>3. CASE \/ \E s \in Sess : SessionStep(s) \/ SinglePublish(s) \/ ConnectReturns(s)
           \/ Publish \/ Shutdown \/ UNCHANGED vars
  <2>1. UNCHANGED <<pc, listening, listenerErrorChan>>
    BY <1>3 DEF SessionStep, TimelySessionStep, ReadHeader, WriteHeader, Receive,
       StartWrite, EndWrite, Post, Disconnect, SinglePublish, ConnectReturns,
       sessUnchanged, Publish, Shutdown
  <2> QED
    BY <2>1
<1> QED
  BY <1>1, <1>2, <1>3 DEF Next

\* What a step is to the node.
LEMMA LoopStepKinds ==
    ASSUME Types, ListenerHonest, [Next]_vars
    PROVE  [Loop!Next]_(Loop!vars)
<1> USE DEF loopVars, acceptVars, chanVars, State, Loop!vars
<1>0. /\ pc \in {"select", "fan", "unregister", "quitting", "exited"}
      /\ shutdownChan \in 0..ChanCap
  BY DEF Types, TypeOK
<1> DEFINE Same == UNCHANGED <<State, shutdownChan>>
<1>1. Same => [Loop!Next]_(Loop!vars)
  OBVIOUS
<1>2. CASE LoopShutdown
  <2>1. Loop!Stop
    BY <1>0, <1>2 DEF LoopShutdown, Loop!Stop
  <2> QED
    BY <2>1 DEF Loop!Next
<1>3. CASE LoopCleared
  <2>1. Loop!End
    BY <1>0, <1>3 DEF LoopCleared, Loop!End
  <2> QED
    BY <2>1 DEF Loop!Next
<1>4. CASE LoopListenerError
  <2>1. Loop!Fail
    BY <1>0, <1>4 DEF LoopListenerError, ListenerHonest, Loop!Fail
  <2> QED
    BY <2>1 DEF Loop!Next
<1>5. CASE Shutdown
  <2>1. Loop!Tell
    BY <1>0, <1>5, ConstantTypes DEF Shutdown, Loop!Tell
  <2> QED
    BY <2>1 DEF Loop!Next
<1>6. CASE \/ LoopMsg \/ LoopFan \/ LoopFanDone \/ LoopSession \/ LoopSessionError
           \/ LoopUnregister \/ LoopQuit
  <2>1. Same
    BY <1>0, <1>6 DEF LoopMsg, LoopFan, LoopFanDone, LoopSession, LoopSessionError,
       LoopUnregister, LoopQuit
  <2> QED
    BY <1>1, <2>1
<1>7. CASE \/ \E s \in Sess : SessionStep(s) \/ SinglePublish(s) \/ ConnectReturns(s)
           \/ AcceptStep \/ Publish \/ UNCHANGED vars
  <2>1. UNCHANGED <<pc, shutdownChan>>
    BY <1>7 DEF SessionStep, TimelySessionStep, ReadHeader, WriteHeader, Receive,
       StartWrite, EndWrite, Post, Disconnect, SinglePublish, ConnectReturns,
       sessUnchanged, Publish, AcceptStep, Accept, Offer, AcceptError, vars
  <2> QED
    BY <1>1, <2>1
<1> QED
  BY <1>2, <1>3, <1>4, <1>5, <1>6, <1>7 DEF Next, LoopStep, LoopOwnStep

\* Node's abstraction of a loop holds of a publisher's: whatever its sessions do
\* meanwhile, it takes one token and nothing after it, and ends untold only when
\* its listener fails.
THEOREM IsNodeLoop == Spec => RunsAsLoop
<1>1. Init => Loop!Init /\ ListenerHonest
  BY DEF Init, Loop!Init, State, ListenerHonest
<1>2. Spec => []ListenerHonest
  BY <1>1, ListenerStep, TypesInvariance, PTL DEF Spec
<1> QED
  BY <1>1, <1>2, LoopStepKinds, TypesInvariance, PTL DEF Spec, RunsAsLoop, Loop!Spec

-----------------------------------------------------------------------------
(* Where the loop and its sessions wait for good *)

Ended(s) == spc[s] \in {"post", "callback", "done"}

\* The loop sends to a session that has ended: a message for which its channel
\* has no room, or the token to quit, for which nobody waits.
SendsToEnded ==
    /\ rest # <<>> /\ Ended(Head(rest))
    /\ pc = "quitting" \/ (pc = "fan" /\ Len(smsg[Head(rest)]) = SessCap)

\* A step of a session, or of its connect callback, leaves the loop where it is
\* and does not revive a session that has ended.
LEMMA EndedStays ==
    \A s \in Sess :
        Types /\ (SessionStep(s) \/ SinglePublish(s) \/ ConnectReturns(s))
          => /\ UNCHANGED <<pc, rest>>
             /\ \A e \in Sess :
                  Ended(e) =>
                    /\ Ended(e)'
                    /\ smsg'[e] = smsg[e]
                         \/ Len(smsg[e]) < SessCap
<1> SUFFICES ASSUME NEW s \in Sess, Types,
                    SessionStep(s) \/ SinglePublish(s) \/ ConnectReturns(s)
             PROVE  /\ UNCHANGED <<pc, rest>>
                    /\ \A e \in Sess :
                         Ended(e) => /\ Ended(e)'
                                     /\ smsg'[e] = smsg[e] \/ Len(smsg[e]) < SessCap
  OBVIOUS
<1>1. UNCHANGED <<pc, rest>>
  BY DEF SessionStep, TimelySessionStep, ReadHeader, WriteHeader, Receive, StartWrite,
     EndWrite, Post, Disconnect, SinglePublish, ConnectReturns, sessUnchanged, loopVars
<1>2. /\ smsg \in [Sess -> Seq(Message)]
      /\ spc \in [Sess -> {"none", "waiting", "header", "respond", "sending",
                           "writing", "post", "callback", "done"}]
  BY DEF Types, TypeOK
<1>3. ASSUME NEW e \in Sess, Ended(e)
      PROVE  Ended(e)' /\ (smsg'[e] = smsg[e] \/ Len(smsg[e]) < SessCap)
  BY <1>2, <1>3
  DEF Ended, SessionStep, TimelySessionStep, ReadHeader, WriteHeader, Receive, StartWrite,
      EndWrite, Post, Disconnect, SinglePublish, ConnectReturns
<1> QED
  BY <1>1, <1>3

\* No step lets the loop go on, and none makes the session take what it sends.
LEMMA SendsToEndedStep == Types /\ SendsToEnded /\ [Next]_vars => SendsToEnded'
<1> SUFFICES ASSUME Types, SendsToEnded, [Next]_vars PROVE SendsToEnded'
  OBVIOUS
<1>0. Head(rest) \in Sess /\ spc \in [Sess -> {"none", "waiting", "header", "respond",
                              "sending", "writing", "post", "callback", "done"}]
  BY ChanReceive DEF Types, TypeOK, SendsToEnded
<1>1. CASE \E s \in Sess : SessionStep(s) \/ SinglePublish(s) \/ ConnectReturns(s)
  <2>1. PICK s \in Sess : SessionStep(s) \/ SinglePublish(s) \/ ConnectReturns(s)
    BY <1>1
  <2>2. /\ UNCHANGED <<pc, rest>> /\ Ended(Head(rest))'
        /\ smsg'[Head(rest)] = smsg[Head(rest)] \/ Len(smsg[Head(rest)]) < SessCap
    BY <1>0, <2>1, EndedStays DEF SendsToEnded
  <2>3. SessCap \in Nat
    BY ConstantTypes
  <2> QED
    BY <2>2, <2>3 DEF SendsToEnded, Ended
<1>2. CASE AcceptStep
  BY <1>0, <1>2 DEF SendsToEnded, Ended, AcceptStep, Accept, Offer, AcceptError, loopVars,
     sessVars
<1>3. ~LoopStep
  <2>1. pc \in {"quitting", "fan"} /\ rest # <<>> /\ spc[Head(rest)] # "sending"
        /\ (pc = "fan" => ~(Len(smsg[Head(rest)]) < SessCap))
    BY ConstantTypes DEF SendsToEnded, Ended
  <2> QED
    BY <2>1 DEF LoopStep, LoopOwnStep, LoopMsg, LoopFan, LoopFanDone, LoopListenerError, LoopSession,
       LoopSessionError, LoopShutdown, LoopUnregister, LoopQuit, LoopCleared
<1>4. CASE Publish \/ Shutdown \/ UNCHANGED vars
  BY <1>4 DEF SendsToEnded, Ended, Publish, Shutdown, vars, loopVars, sessVars
<1> QED
  BY <1>1, <1>2, <1>3, <1>4 DEF Next

\* That send never ends (publisher.go:81, 110): no message, session or shutdown
\* is handled after it, and the exceptions Blocked in FanProgress and
\* ShutdownProgress are for good.
THEOREM SendToEndedNeverEnds == Spec => [](SendsToEnded => []SendsToEnded)
BY SendsToEndedStep, TypesInvariance, PTL DEF Spec

\* A session's notice finds no room, and the loop has ended or waits as above.
NoticeLost(s) ==
    /\ pc = "exited" \/ SendsToEnded
    /\ spc[s] = "post" /\ Len(sessionErrorChan) = ChanCap
    /\ ~disconnected[s]

\* Its disconnect callback is never called (publisher.go:224, 241): the exception
\* NoticeStuck in DisconnectRuns is then for good.
THEOREM CallbackNeverRuns ==
    ASSUME NEW s \in Sess
    PROVE  Spec => [](NoticeLost(s) => [](NoticeStuck(s) /\ ~disconnected[s]))
<1>1. Types /\ NoticeLost(s) /\ [Next]_vars => NoticeLost(s)'
  <2> SUFFICES ASSUME Types, NoticeLost(s), [Next]_vars PROVE NoticeLost(s)'
    OBVIOUS
  <2>0. /\ spc \in [Sess -> {"none", "waiting", "header", "respond",
                              "sending", "writing", "post", "callback", "done"}]
        /\ disconnected \in [Sess -> BOOLEAN] /\ ChanCap \in Nat
    BY ConstantTypes DEF Types, TypeOK
  <2>1. ~LoopStep
    <3>1. CASE pc = "exited"
      BY <3>1 DEF LoopStep, LoopOwnStep, LoopMsg, LoopFan, LoopFanDone, LoopListenerError, LoopSession,
         LoopSessionError, LoopShutdown, LoopUnregister, LoopQuit, LoopCleared
    <3>2. CASE SendsToEnded
      <4>1. pc \in {"quitting", "fan"} /\ rest # <<>> /\ spc[Head(rest)] # "sending"
            /\ (pc = "fan" => ~(Len(smsg[Head(rest)]) < SessCap))
        BY <3>2, ConstantTypes DEF SendsToEnded, Ended
      <4> QED
        BY <4>1 DEF LoopStep, LoopOwnStep, LoopMsg, LoopFan, LoopFanDone, LoopListenerError, LoopSession,
           LoopSessionError, LoopShutdown, LoopUnregister, LoopQuit, LoopCleared
    <3> QED
      BY <3>1, <3>2 DEF NoticeLost
  <2>2. (pc = "exited" \/ SendsToEnded)'
    <3>1. CASE pc = "exited"
      BY <2>1, <3>1 DEF Next, vars, loopVars, AcceptStep, Accept, Offer, AcceptError,
         SessionStep, TimelySessionStep, ReadHeader, WriteHeader, Receive, StartWrite,
         EndWrite, Post, Disconnect, SinglePublish, ConnectReturns, sessUnchanged, Publish,
         Shutdown
    <3> QED
      BY <3>1, SendsToEndedStep DEF NoticeLost
  <2>3. CASE \E e \in Sess : SessionStep(e) \/ SinglePublish(e) \/ ConnectReturns(e)
    <3>1. PICK e \in Sess : SessionStep(e) \/ SinglePublish(e) \/ ConnectReturns(e)
      BY <2>3
    <3>2. spc'[s] = "post" /\ sessionErrorChan' = sessionErrorChan
          /\ disconnected'[s] = disconnected[s]
      BY <2>0, <3>1 DEF NoticeLost, SessionStep, TimelySessionStep, ReadHeader, WriteHeader,
         Receive, StartWrite, EndWrite, Post, Disconnect, SinglePublish, ConnectReturns
    <3> QED
      BY <2>2, <3>2 DEF NoticeLost
  <2>4. CASE AcceptStep
    <3>1. spc'[s] = "post" /\ UNCHANGED <<sessionErrorChan, disconnected>>
      BY <2>0, <2>4 DEF NoticeLost, AcceptStep, Accept, Offer, AcceptError, sessVars, chanVars
    <3> QED
      BY <2>2, <3>1 DEF NoticeLost
  <2>5. CASE Publish \/ Shutdown \/ UNCHANGED vars
    BY <2>2, <2>5 DEF NoticeLost, Publish, Shutdown, vars, sessVars, chanVars
  <2> QED
    BY <2>1, <2>3, <2>4, <2>5 DEF Next
<1>2. NoticeLost(s) => NoticeStuck(s) /\ ~disconnected[s]
  BY DEF NoticeLost, NoticeStuck, SendsToEnded, Ended, Blocked
<1> QED
  BY <1>1, <1>2, TypesInvariance, PTL DEF Spec

-----------------------------------------------------------------------------
(* A backlog *)

\* The messages of the topic in backlog q.
Topic(q) == ToSet(q) \ {One}

\* A backlog of a session that has written up to w and was sent up to n: in
\* order, newer than what was written, and not newer than what was sent.
Kept(q, w, n) == InOrder(q) /\ w <= n /\ \A m \in Topic(q) : w < m /\ m <= n

\* It is the unbroken end of what was sent.
Unbroken(q, w, n) == \E first \in w + 1 .. n + 1 : Topic(q) = first..n

\* One is not a number of a message.
LEMMA MessageNat == \A m \in Message : m \in Nat /\ (m # One => m > 0)
BY ConstantTypes DEF Message, One

\* An empty backlog is in order.
LEMMA KeptEmpty ==
    ASSUME NEW w \in Nat, NEW n \in Nat, w <= n
    PROVE  Kept(<<>>, w, n) /\ Unbroken(<<>>, w, n)
<1>1. Topic(<<>>) = {}
  BY NoElements DEF Topic
<1>2. n + 1 \in w + 1 .. n + 1 /\ (n + 1)..n = {}
  OBVIOUS
<1>3. InOrder(<<>>)
  BY DEF InOrder
<1> QED
  BY <1>1, <1>2, <1>3 DEF Kept, Unbroken

\* What is sent next, or to one subscriber only, goes to the end.
LEMMA KeptSend ==
    ASSUME NEW q \in Seq(Message), NEW w \in Nat, NEW n \in Nat, Kept(q, w, n),
           NEW m \in Message, m \in {One, n + 1}
    PROVE  LET last == IF m = One THEN n ELSE n + 1 IN
             /\ Topic(Append(q, m)) = IF m = One THEN Topic(q) ELSE Topic(q) \cup {m}
             /\ Kept(Append(q, m), w, last)
             /\ Unbroken(q, w, n) => Unbroken(Append(q, m), w, last)
<1> DEFINE a == Append(q, m)
           last == IF m = One THEN n ELSE n + 1
<1>1. /\ a \in Seq(Message) /\ Len(a) = Len(q) + 1 /\ Len(q) \in Nat
      /\ \A i \in 1..Len(q) : a[i] = q[i]
      /\ a[Len(q) + 1] = m /\ ToSet(a) = ToSet(q) \cup {m}
  BY ChanSend, AppendProperties
<1>2. Topic(a) = IF m = One THEN Topic(q) ELSE Topic(q) \cup {m}
  BY <1>1 DEF Topic
<1>3. DOMAIN q = 1..Len(q) /\ \A i \in 1..Len(q) : q[i] \in Message
  BY LenProperties, ElementOfSeq
<1>4. \A x \in Topic(q) : x \in Nat /\ w < x /\ x <= n
  BY <1>3, MessageNat DEF Kept, Topic, ToSet
<1>5. InOrder(a)
  <2> HIDE DEF a
  <2> SUFFICES ASSUME NEW i \in 1..(Len(q) + 1), NEW j \in 1..(Len(q) + 1),
                      i < j, a[i] # One, a[j] # One
               PROVE  a[i] < a[j]
    BY <1>1 DEF InOrder
  <2>1. i \in 1..Len(q) /\ a[i] = q[i]
    BY <1>1
  <2>2. CASE j \in 1..Len(q)
    BY <1>1, <2>1, <2>2 DEF Kept, InOrder
  <2>3. CASE j = Len(q) + 1
    <3>1. q[i] \in Topic(q)
      BY <1>3, <2>1 DEF Topic, ToSet
    <3>2. m = n + 1 /\ a[j] = m
      BY <1>1, <2>3
    <3> QED
      BY <1>4, <2>1, <3>1, <3>2
  <2> QED
    BY <1>1, <2>2, <2>3
<1>6. w <= last /\ \A x \in Topic(a) : w < x /\ x <= last
  BY <1>2, <1>4 DEF Kept
<1>7. Unbroken(q, w, n) => Unbroken(a, w, last)
  <2> HIDE DEF a
  <2> SUFFICES ASSUME Unbroken(q, w, n) PROVE Unbroken(a, w, last)
    OBVIOUS
  <2>1. PICK first \in w + 1 .. n + 1 : Topic(q) = first..n
    BY DEF Unbroken
  <2>2. first \in w + 1 .. last + 1
    BY <2>1
  <2>3. CASE m = One
    BY <1>2, <2>1, <2>2, <2>3 DEF Unbroken
  <2>4. CASE m # One
    <3>1. Topic(a) = first..n \cup {n + 1} /\ last = n + 1
      BY <1>2, <2>1, <2>4
    <3>2. first..n \cup {n + 1} = first..(n + 1)
      BY <2>1
    <3> QED
      BY <2>2, <3>1, <3>2 DEF Unbroken
  <2> QED
    BY <2>3, <2>4
<1> HIDE DEF a
<1> QED
  BY <1>2, <1>5, <1>6, <1>7 DEF Kept, a

\* Others may be sent more.
LEMMA KeptPassBy ==
    ASSUME NEW q \in Seq(Message), NEW w \in Nat, NEW n \in Nat, Kept(q, w, n),
           NEW k \in Nat, n <= k
    PROVE  Kept(q, w, k)
<1>1. \A x \in Topic(q) : x \in Nat
  BY MessageNat, ElementOfSeq, LenProperties DEF Topic, ToSet
<1> QED
  BY <1>1 DEF Kept

\* The head of a backlog is its oldest message, which may be lost or written.
LEMMA KeptTail ==
    ASSUME NEW q \in Seq(Message), q # <<>>, NEW w \in Nat, NEW n \in Nat, Kept(q, w, n)
    PROVE  /\ Head(q) \in Message /\ Topic(Tail(q)) = Topic(q) \ {Head(q)}
           /\ Kept(Tail(q), w, n)
           /\ Unbroken(q, w, n) => Unbroken(Tail(q), w, n)
           /\ Head(q) # One =>
                /\ Head(q) \in Topic(q) /\ \A m \in Topic(q) : Head(q) <= m
                /\ Kept(Tail(q), Head(q), n)
                /\ Unbroken(q, w, n) => Unbroken(Tail(q), Head(q), n)
<1> DEFINE h == Head(q)
           t == Tail(q)
<1>1. /\ h \in Message /\ h \in ToSet(q) /\ h = q[1] /\ t \in Seq(Message)
      /\ Len(q) \in Nat \ {0} /\ Len(t) = Len(q) - 1
      /\ \A i \in 1..(Len(q) - 1) : t[i] = q[i + 1]
      /\ ToSet(q) = ToSet(t) \cup {h}
  BY ChanReceive
<1>2. DOMAIN q = 1..Len(q) /\ DOMAIN t = 1..(Len(q) - 1)
  BY <1>1, LenProperties
<1> HIDE DEF h, t
<1>3. \A x \in Topic(q) : x \in Nat /\ w < x /\ x <= n
  BY <1>2, MessageNat, ElementOfSeq DEF Kept, Topic, ToSet
<1>4. h # One => \A x \in Topic(t) : h < x
  <2> SUFFICES ASSUME h # One, NEW x \in Topic(t) PROVE h < x
    OBVIOUS
  <2>1. PICK i \in 1..(Len(q) - 1) : x = t[i]
    BY <1>2 DEF Topic, ToSet
  <2>2. x = q[i + 1] /\ i + 1 \in 1..Len(q) /\ 1 \in 1..Len(q) /\ 1 < i + 1
    BY <1>1, <2>1
  <2>3. x # One
    BY DEF Topic
  <2> QED
    BY <1>1, <2>2, <2>3 DEF Kept, InOrder
<1>5. Topic(t) = Topic(q) \ {h}
  <2>1. h \notin Topic(t)
    <3>1. CASE h = One
      BY <3>1 DEF Topic
    <3>2. CASE h # One
      <4>1. h \in Nat
        BY <1>1, MessageNat
      <4> QED
        BY <1>4, <3>2, <4>1
    <3> QED
      BY <3>1, <3>2
  <2> QED
    BY <1>1, <2>1 DEF Topic
<1>6. InOrder(t)
  <2> SUFFICES ASSUME NEW i \in 1..(Len(q) - 1), NEW j \in 1..(Len(q) - 1),
                      i < j, t[i] # One, t[j] # One
               PROVE  t[i] < t[j]
    BY <1>1 DEF InOrder
  <2>1. /\ i + 1 \in 1..Len(q) /\ j + 1 \in 1..Len(q) /\ i + 1 < j + 1
        /\ t[i] = q[i + 1] /\ t[j] = q[j + 1]
    BY <1>1
  <2> QED
    BY <2>1 DEF Kept, InOrder
<1>7. Kept(t, w, n)
  BY <1>3, <1>5, <1>6 DEF Kept
<1>8. h # One => h \in Topic(q) /\ \A m \in Topic(q) : h <= m
  <2> SUFFICES ASSUME h # One PROVE h \in Topic(q) /\ \A m \in Topic(q) : h <= m
    OBVIOUS
  <2>1. h \in Topic(q) /\ h \in Nat
    BY <1>1, MessageNat DEF Topic
  <2> QED
    BY <1>3, <1>4, <1>5, <2>1
<1>9. h # One => Kept(t, h, n)
  BY <1>3, <1>4, <1>5, <1>6, <1>8 DEF Kept
<1>10. ASSUME Unbroken(q, w, n)
       PROVE  Unbroken(t, w, n) /\ (h # One => Unbroken(t, h, n))
  <2>1. PICK first \in w + 1 .. n + 1 : Topic(q) = first..n
    BY <1>10 DEF Unbroken
  <2>2. CASE h = One
    <3>1. Topic(t) = Topic(q)
      BY <1>5, <2>2 DEF Topic
    <3> QED
      BY <2>1, <2>2, <3>1 DEF Unbroken
  <2>3. CASE h # One
    <3>1. h \in first..n /\ \A m \in first..n : h <= m
      BY <1>8, <2>1, <2>3
    <3>2. h = first
      BY <2>1, <3>1
    <3>3. Topic(t) = (h + 1)..n
      BY <1>5, <2>1, <3>2
    <3>4. h + 1 \in w + 1 .. n + 1 /\ h + 1 \in h + 1 .. n + 1
      BY <2>1, <3>1, <3>2
    <3> QED
      BY <3>3, <3>4 DEF Unbroken
  <2> QED
    BY <2>2, <2>3
<1> QED
  BY <1>1, <1>5, <1>7, <1>8, <1>9, <1>10 DEF h, t

-----------------------------------------------------------------------------
(* What a step does to the backlogs *)

\* msgChan holds the messages published and not yet taken, in their order, and
\* a session is sent nothing before the loop has listed it.
Numbers ==
    /\ \A i \in 1..Len(msgChan) : msgChan[i] = cur + i
    /\ cur + Len(msgChan) = published
    /\ pc = "fan" => cur > 0
    /\ \A s \in Sess :
         /\ spc[s] \in {"none", "waiting"} => queue[s] = <<>> /\ smsg[s] = <<>>
         /\ connected[s] = "running" => spc[s] \notin {"none", "waiting", "header"}

\* What the proofs below need of the types.
Backlogs ==
    /\ queue \in [Sess -> Seq(Message)] /\ smsg \in [Sess -> Seq(Message)]
    /\ \A s \in Sess : /\ Backlog(s) \in Seq(Message)
                       /\ Sent(s) \in Nat /\ written[s] \in Nat
                       /\ spc[s] = "writing" => queue[s] # <<>>
    /\ written \in [Sess -> Nat] /\ cur \in Nat /\ cur <= MaxMsg /\ msgChan \in Seq(Nat)

\* Nothing is published.
LEMMA NumbersInit == Init => Numbers
BY EmptySeq DEF Init, Numbers

\* A backlog is a sequence of numbers of messages.
LEMMA TypesBacklogs == Types /\ Numbers => Backlogs
<1> SUFFICES ASSUME Types, Numbers PROVE Backlogs
  OBVIOUS
<1>1. /\ queue \in [Sess -> Seq(Message)] /\ smsg \in [Sess -> Seq(Message)]
      /\ written \in [Sess -> 0..MaxMsg] /\ cur \in 0..MaxMsg /\ MaxMsg \in Nat
      /\ \A s \in Sess : spc[s] = "writing" => queue[s] # <<>>
  BY ConstantTypes DEF Types, TypeOK, BusyOK
<1>2. msgChan \in Seq(Nat)
  <2>1. msgChan \in Seq(1..MaxMsg) /\ 1..MaxMsg \subseteq Nat
    BY <1>1 DEF Types, TypeOK
  <2> QED
    BY <2>1, SeqMonotonic
<1>3. \A s \in Sess : Backlog(s) \in Seq(Message)
  BY <1>1, ConcatProperties DEF Backlog
<1>4. \A s \in Sess : Sent(s) \in Nat
  BY <1>1 DEF Sent, Numbers
<1> QED
  BY <1>1, <1>2, <1>3, <1>4 DEF Backlogs

\* Messages are numbered as they are published, and reach listed sessions only.
LEMMA NumbersStep == Types /\ Tracks /\ Numbers /\ [Next]_vars => Numbers'
<1> SUFFICES ASSUME Types, Tracks, Numbers, [Next]_vars PROVE Numbers'
  OBVIOUS
<1>1. Lists /\ Backlogs
  BY TypesLists, TypesBacklogs
<1> DEFINE Counted == /\ \A i \in 1..Len(msgChan) : msgChan[i] = cur + i
                      /\ cur + Len(msgChan) = published
                      /\ pc = "fan" => cur > 0
           Unsent == \A s \in Sess :
             /\ spc[s] \in {"none", "waiting"} => queue[s] = <<>> /\ smsg[s] = <<>>
             /\ connected[s] = "running" => spc[s] \notin {"none", "waiting", "header"}
<1>2. Counted'
  <2>1. CASE LoopMsg
    <3>1. /\ Head(msgChan) = msgChan[1] /\ Len(msgChan) \in Nat \ {0}
          /\ Len(Tail(msgChan)) = Len(msgChan) - 1
          /\ \A i \in 1..(Len(msgChan) - 1) : Tail(msgChan)[i] = msgChan[i + 1]
      BY <1>1, <2>1, ChanReceive DEF LoopMsg, Backlogs
    <3>2. cur' = cur + 1 /\ cur \in Nat
      BY <1>1, <2>1, <3>1 DEF LoopMsg, Numbers, Backlogs
    <3>3. ASSUME NEW i \in 1..Len(msgChan') PROVE msgChan'[i] = cur' + i
      <4>1. i + 1 \in 1..Len(msgChan) /\ msgChan'[i] = msgChan[i + 1]
        BY <2>1, <3>1 DEF LoopMsg
      <4> QED
        BY <3>2, <4>1 DEF Numbers
    <3> QED
      BY <2>1, <3>1, <3>2, <3>3 DEF LoopMsg, Numbers
  <2>2. CASE Publish
    <3>1. /\ Len(Append(msgChan, published + 1)) = Len(msgChan) + 1 /\ Len(msgChan) \in Nat
          /\ \A i \in 1..Len(msgChan) : Append(msgChan, published + 1)[i] = msgChan[i]
          /\ Append(msgChan, published + 1)[Len(msgChan) + 1] = published + 1
      <4>1. published + 1 \in Nat
        BY ConstantTypes DEF Types, TypeOK
      <4> QED
        BY <1>1, <4>1, AppendProperties, LenProperties DEF Backlogs
    <3>2. UNCHANGED cur /\ UNCHANGED pc /\ cur \in Nat
      BY <1>1, <2>2 DEF Publish, loopVars, Backlogs
    <3>3. ASSUME NEW i \in 1..Len(msgChan') PROVE msgChan'[i] = cur' + i
      <4>1. CASE i \in 1..Len(msgChan)
        BY <2>2, <3>1, <3>2, <4>1 DEF Publish, Numbers
      <4>2. CASE i = Len(msgChan) + 1
        BY <2>2, <3>1, <3>2, <4>2 DEF Publish, Numbers
      <4> QED
        BY <2>2, <3>1, <4>1, <4>2 DEF Publish
    <3> QED
      BY <2>2, <3>1, <3>2, <3>3 DEF Publish, Numbers
  <2>3. CASE UNCHANGED <<msgChan, cur, published>> /\ (pc' = "fan" => pc = "fan")
    BY <2>3 DEF Numbers
  <2>4. \/ LoopMsg \/ Publish
        \/ UNCHANGED <<msgChan, cur, published>> /\ (pc' = "fan" => pc = "fan")
    BY DEF Next, LoopStep, LoopOwnStep, LoopMsg, LoopFan, LoopFanDone, LoopListenerError, LoopSession,
       LoopSessionError, LoopShutdown, LoopUnregister, LoopQuit, LoopCleared, AcceptStep,
       Accept, Offer, AcceptError, SessionStep, TimelySessionStep, ReadHeader, WriteHeader,
       Receive, StartWrite, EndWrite, Post, Disconnect, SinglePublish, ConnectReturns,
       Publish, Shutdown, vars, loopVars, acceptVars, chanVars, sessVars, sessUnchanged
  <2> QED
    BY <2>1, <2>2, <2>3, <2>4
<1>3. Unsent'
  <2> USE <1>1 DEF Numbers, Lists, Backlogs
  <2>0. connected \in [Sess -> {"no", "running", "returned"}]
    BY DEF Types, TypeOK
  <2>1. CASE LoopFan
    <3>1. Head(rest) \in Sess /\ Head(rest) \in ToSet(sessions) /\ pc = "fan"
      BY <2>1, ChanReceive DEF LoopFan, Tracks, ListsDistinct
    <3>2. spc[Head(rest)] \notin {"none", "waiting"}
      BY <3>1 DEF Tracks, ListExact, Started
    <3> QED
      BY <2>1, <3>1, <3>2 DEF LoopFan
  <2>2. CASE LoopSession
    <3>1. Head(sessionChan) \in Sess /\ spc[Head(sessionChan)] = "waiting"
      BY <2>2, ChanReceive DEF LoopSession, Tracks, ListExact, Arriving
    <3> QED
      BY <2>2, <3>1 DEF LoopSession
  <2>3. ASSUME NEW s \in Sess, SessionStep(s) PROVE Unsent'
    <3>1. /\ spc[s] \notin {"none", "waiting"} /\ spc'[s] \notin {"none", "waiting", "header"}
          /\ \A t \in Sess \ {s} : /\ spc'[t] = spc[t] /\ queue'[t] = queue[t]
                                   /\ smsg'[t] = smsg[t] /\ connected'[t] = connected[t]
      BY <2>0, <2>3 DEF SessionStep, TimelySessionStep, ReadHeader, WriteHeader, Receive,
         StartWrite, EndWrite, Post, Disconnect
    <3> QED
      BY <3>1
  <2>4. ASSUME NEW s \in Sess, SinglePublish(s) \/ ConnectReturns(s) PROVE Unsent'
    BY <2>0, <2>4 DEF SinglePublish, ConnectReturns, sessUnchanged
  <2>5. CASE LoopQuit
    <3>1. Head(rest) \in Sess
      BY <2>5, ChanReceive DEF LoopQuit
    <3> QED
      BY <2>5, <3>1 DEF LoopQuit
  <2>6. CASE AcceptStep
    BY <2>6 DEF AcceptStep, Accept, Offer, AcceptError, sessVars
  <2>7. CASE \/ LoopMsg \/ LoopFanDone \/ LoopListenerError \/ LoopSessionError
             \/ LoopShutdown \/ LoopUnregister \/ LoopCleared
             \/ Publish \/ Shutdown \/ UNCHANGED vars
    <3>1. UNCHANGED sessVars
      BY <2>7 DEF LoopMsg, LoopFanDone, LoopListenerError, LoopSessionError, LoopShutdown,
         LoopUnregister, LoopCleared, Publish, Shutdown, vars
    <3> QED
      BY <3>1 DEF sessVars
  <2> QED
    BY <2>1, <2>2, <2>3, <2>4, <2>5, <2>6, <2>7 DEF Next, LoopStep, LoopOwnStep
<1> QED
  BY <1>2, <1>3 DEF Numbers

\* Nothing happens to session s.
Quiet(s) == /\ Backlog(s)' = Backlog(s) /\ Sent(s)' = Sent(s)
            /\ written'[s] = written[s]

\* No backlog changes; a message passes by some sessions that are not listed,
\* and one that has received nothing may be listed.
PassBy ==
    /\ \A s \in Sess : /\ Backlog(s)' = Backlog(s) /\ Sent(s) <= Sent(s)'
                       /\ s \in ToSet(sessions) => Sent(s)' = Sent(s)
    /\ \A s \in ToSet(sessions') : s \in ToSet(sessions) \/ Backlog(s) = <<>>
    /\ UNCHANGED written

\* Session s is sent the next message of the topic,
Gets(s) ==
    /\ Sent(s) + 1 \in Message
    /\ Backlog(s)' = Append(Backlog(s), Sent(s) + 1) /\ Sent(s)' = Sent(s) + 1
    /\ UNCHANGED written

\* or one for it alone,
GetsOne(s) ==
    /\ Backlog(s)' = Append(Backlog(s), One) /\ Sent(s)' = Sent(s)
    /\ UNCHANGED written

\* loses the oldest message it has,
Drops(s) ==
    /\ Backlog(s) # <<>> /\ Backlog(s)' = Tail(Backlog(s)) /\ Sent(s)' = Sent(s)
    /\ UNCHANGED written

\* or writes it.
Writes(s) ==
    /\ Backlog(s) # <<>> /\ Backlog(s)' = Tail(Backlog(s)) /\ Sent(s)' = Sent(s)
    /\ written' = [written EXCEPT ![s] = IF Head(Backlog(s)) = One THEN @
                                         ELSE Head(Backlog(s))]

Changes(s) ==
    /\ \A t \in Sess \ {s} : Quiet(t)
    /\ UNCHANGED sessions
    /\ Gets(s) \/ GetsOne(s) \/ Drops(s) \/ Writes(s)

\* The loop sends the message it has taken to the next session.
LEMMA FanGets ==
    ASSUME Lists, Backlogs, Numbers, Tracks, LoopFan
    PROVE  \E s \in Sess : Changes(s)
<1>0. PICK s \in Sess : s = Head(rest)
  BY ChanReceive DEF LoopFan, Lists
<1>1. /\ s \in ToSet(rest) /\ ToSet(rest') = ToSet(rest) \ {s}
  BY <1>0, ChanReceive, ChanReceiveDistinct DEF LoopFan, Lists, Tracks, ListsDistinct
<1>2. /\ pc = "fan" /\ smsg' = [smsg EXCEPT ![s] = Append(smsg[s], cur)]
      /\ UNCHANGED <<pc, sessions, cur, queue, written>>
  BY <1>0 DEF LoopFan
<1>3. cur \in Nat /\ cur > 0 /\ cur \in Message
  <2>1. cur \in Nat /\ cur > 0
    BY <1>2 DEF Backlogs, Numbers
  <2> QED
    BY <2>1, ConstantTypes DEF Message, Backlogs
<1>4. Sent(s) = cur - 1 /\ Sent(s)' = cur /\ Sent(s) + 1 = cur
  BY <1>1, <1>2, <1>3 DEF Sent
<1>5. Backlog(s)' = Append(Backlog(s), cur)
  <2>1. queue[s] \in Seq(Message) /\ smsg[s] \in Seq(Message)
    BY DEF Backlogs
  <2>2. Backlog(s)' = queue[s] \o Append(smsg[s], cur)
    BY <1>2 DEF Backlog, Backlogs
  <2>3. queue[s] \o Append(smsg[s], cur) = Append(queue[s] \o smsg[s], cur)
    <3>1. cur \in Message
      BY <1>3
    <3>2. \A q, m \in Seq(Message), e \in Message : q \o Append(m, e) = Append(q \o m, e)
      BY SecondSend
    <3> QED
      BY <2>1, <3>1, <3>2
  <2>4. Backlog(s) = queue[s] \o smsg[s]
    BY DEF Backlog
  <2> QED
    BY <2>2, <2>3, <2>4
<1>6. \A t \in Sess \ {s} : Quiet(t)
  BY <1>1, <1>2 DEF Quiet, Backlog, Backlogs, Sent
<1> QED
  BY <1>1, <1>2, <1>3, <1>4, <1>5, <1>6 DEF Changes, Gets

\* A session takes a message from its channel, which at most costs it its oldest.
LEMMA ReceiveDrops ==
    ASSUME Backlogs, NEW s \in Sess, Receive(s)
    PROVE  PassBy \/ Changes(s)
<1> DEFINE q == queue[s]
           m == smsg[s]
<1>1. q \in Seq(Message) /\ m \in Seq(Message) /\ m # <<>>
  BY DEF Backlogs, Receive
<1>2. /\ queue' = [queue EXCEPT ![s] = Enqueue(q, Head(m))]
      /\ smsg' = [smsg EXCEPT ![s] = Tail(m)]
      /\ UNCHANGED <<pc, sessions, rest, cur, written>>
  BY DEF Receive, sessUnchanged, loopVars
<1>3. \A t \in Sess : Sent(t)' = Sent(t)
  BY <1>2 DEF Sent
<1>4. \A t \in Sess \ {s} : Quiet(t)
  BY <1>2, <1>3 DEF Quiet, Backlog, Backlogs
<1>5. Backlog(s) = q \o m /\ Backlog(s)' = Enqueue(q, Head(m)) \o Tail(m)
  BY <1>2 DEF Backlog, Backlogs
<1> HIDE DEF q, m
<1>6. CASE Len(q) = QueueMax
  <2>1. q # <<>>
    BY <1>6, ConstantTypes, EmptySeq
  <2>2. Tail(q) \in Seq(Message)
    BY <1>1, <2>1, ChanReceive
  <2>3. Backlog(s)' = Tail(q) \o m
    BY <1>1, <1>5, <1>6, <2>2, SecondToFirst DEF Enqueue
  <2>4. q \o m # <<>> /\ Tail(q \o m) = Tail(q) \o m
    BY <1>1, <2>1, FirstReceive
  <2>5. Drops(s)
    BY <1>2, <1>3, <1>5, <2>3, <2>4 DEF Drops
  <2> QED
    BY <1>2, <1>4, <2>5 DEF Changes
<1>7. CASE Len(q) # QueueMax
  <2>1. Backlog(s)' = Backlog(s)
    BY <1>1, <1>5, <1>7, SecondToFirst DEF Enqueue
  <2>2. \A t \in Sess : Backlog(t)' = Backlog(t)
    BY <1>4, <2>1 DEF Quiet
  <2>3. \A t \in Sess : Sent(t) <= Sent(t)'
    BY <1>3 DEF Backlogs
  <2> QED
    BY <1>2, <1>3, <2>2, <2>3 DEF PassBy
<1> QED
  BY <1>6, <1>7

\* The end of a write takes the oldest message out of the backlog.
LEMMA WriteTakes ==
    ASSUME Backlogs, NEW s \in Sess, EndWrite(s)
    PROVE  Changes(s)
<1> DEFINE q == queue[s]
           m == smsg[s]
<1>1. q \in Seq(Message) /\ m \in Seq(Message) /\ q # <<>>
  BY DEF Backlogs, EndWrite
<1>2. /\ queue' = [queue EXCEPT ![s] = Tail(q)]
      /\ UNCHANGED <<smsg, pc, sessions, rest, cur>>
      /\ \/ UNCHANGED written
         \/ written' = [written EXCEPT ![s] = IF Head(q) = One THEN @ ELSE Head(q)]
  BY DEF EndWrite, sessUnchanged, loopVars
<1>3. \A t \in Sess : Sent(t)' = Sent(t)
  BY <1>2 DEF Sent
<1>4. \A t \in Sess \ {s} : Quiet(t)
  BY <1>2, <1>3 DEF Quiet, Backlog, Backlogs
<1>5. Backlog(s) = q \o m /\ Backlog(s)' = Tail(q) \o m
  BY <1>2 DEF Backlog, Backlogs
<1> HIDE DEF q, m
<1>6. /\ Backlog(s) # <<>> /\ Backlog(s)' = Tail(Backlog(s))
      /\ Head(Backlog(s)) = Head(q)
  BY <1>1, <1>5, FirstReceive
<1>7. Drops(s) \/ Writes(s)
  BY <1>2, <1>3, <1>6 DEF Drops, Writes
<1> QED
  BY <1>2, <1>4, <1>7 DEF Changes

\* The connect callback sends its subscriber a message.
LEMMA SingleGets ==
    ASSUME Backlogs, NEW s \in Sess, SinglePublish(s)
    PROVE  Changes(s)
<1>1. /\ smsg' = [smsg EXCEPT ![s] = Append(smsg[s], One)]
      /\ UNCHANGED <<queue, written, pc, sessions, rest, cur>>
  BY DEF SinglePublish, sessUnchanged, loopVars
<1>2. \A t \in Sess : Sent(t)' = Sent(t)
  BY <1>1 DEF Sent
<1>3. \A t \in Sess \ {s} : Quiet(t)
  BY <1>1, <1>2 DEF Quiet, Backlog, Backlogs
<1>4. One \in Message
  BY DEF Message
<1>5. Backlog(s)' = Append(Backlog(s), One)
  BY <1>1, <1>4, SecondSend DEF Backlog, Backlogs
<1>6. GetsOne(s)
  BY <1>1, <1>2, <1>5 DEF GetsOne
<1> QED
  BY <1>1, <1>3, <1>6 DEF Changes

\* Each step lets messages pass by or changes the backlog of one session.
LEMMA StepKinds ==
    ASSUME Lists, Backlogs, Numbers, Tracks, [Next]_vars
    PROVE  PassBy \/ \E s \in Sess : Changes(s)
<1>1. CASE LoopFan
  BY <1>1, FanGets
<1>2. CASE \E s \in Sess : Receive(s) \/ EndWrite(s) \/ SinglePublish(s)
  BY <1>2, ReceiveDrops, WriteTakes, SingleGets
<1>3. CASE LoopMsg
  <2>0. msgChan # <<>> /\ Head(msgChan) = msgChan[1] /\ 1 \in 1..Len(msgChan)
    BY <1>3, ChanReceive DEF LoopMsg, Backlogs
  <2>1. /\ pc = "select" /\ pc' = "fan" /\ rest' = sessions /\ cur' = cur + 1
        /\ UNCHANGED <<sessions, queue, smsg, written>>
    BY <1>3, <2>0 DEF LoopMsg, sessVars, Numbers
  <2>2. \A s \in Sess : Backlog(s)' = Backlog(s)
    BY <2>1 DEF Backlog
  <2>3. \A s \in Sess : /\ Sent(s) <= Sent(s)'
                        /\ s \in ToSet(sessions) => Sent(s)' = Sent(s)
    BY <2>1 DEF Sent, Backlogs
  <2> QED
    BY <2>1, <2>2, <2>3 DEF PassBy
<1>4. CASE LoopSession
  <2>1. /\ UNCHANGED <<pc, rest, cur, queue, smsg, written>>
        /\ sessions' = Append(sessions, Head(sessionChan))
        /\ Head(sessionChan) \in Sess /\ Head(sessionChan) \in ToSet(sessionChan)
    BY <1>4, ChanReceive DEF LoopSession, Lists
  <2>2. \A s \in Sess : Backlog(s)' = Backlog(s) /\ Sent(s)' = Sent(s)
    BY <2>1 DEF Backlog, Sent
  <2>3. ToSet(sessions') = ToSet(sessions) \cup {Head(sessionChan)}
    BY <2>1, ChanSend DEF Lists
  <2>4. Backlog(Head(sessionChan)) = <<>>
    <3>1. spc[Head(sessionChan)] = "waiting"
      BY <2>1 DEF Tracks, ListExact, Arriving
    <3> QED
      BY <2>1, <3>1, ConcatEmptySeq, EmptySeq DEF Numbers, Backlog
  <2> QED
    BY <2>1, <2>2, <2>3, <2>4 DEF PassBy, Backlogs
<1>5. CASE LoopSessionError
  <2>1. UNCHANGED <<pc, rest, cur, queue, smsg, written>>
    BY <1>5 DEF LoopSessionError, sessVars
  <2>2. \A s \in Sess : Backlog(s)' = Backlog(s) /\ Sent(s)' = Sent(s)
    BY <2>1 DEF Backlog, Sent
  <2>3. ToSet(sessions') \subseteq ToSet(sessions)
    BY <1>5, ListRemove DEF LoopSessionError, Unlist, Lists, Tracks, ListsDistinct
  <2> QED
    BY <2>1, <2>2, <2>3 DEF PassBy, Backlogs
<1>6. CASE \/ LoopFanDone \/ LoopListenerError \/ LoopShutdown \/ LoopUnregister
           \/ LoopQuit \/ LoopCleared
  <2>1. /\ UNCHANGED <<cur, queue, smsg, written>>
        /\ sessions' = sessions \/ sessions' = <<>>
        /\ pc' # "fan" /\ (pc = "fan" => rest = <<>>)
    BY <1>6 DEF LoopFanDone, LoopListenerError, LoopShutdown, LoopUnregister, LoopQuit,
       LoopCleared, sessVars
  <2>2. \A s \in Sess : Backlog(s)' = Backlog(s) /\ Sent(s)' = Sent(s)
    BY <2>1, NoElements DEF Backlog, Sent
  <2>3. ToSet(sessions') \subseteq ToSet(sessions)
    BY <2>1, NoElements
  <2> QED
    BY <2>1, <2>2, <2>3 DEF PassBy, Backlogs
<1>7. CASE \/ AcceptStep \/ Publish \/ Shutdown \/ UNCHANGED vars
           \/ \E s \in Sess : \/ ReadHeader(s) \/ WriteHeader(s) \/ StartWrite(s)
                              \/ Post(s) \/ Disconnect(s) \/ ConnectReturns(s)
  <2>1. UNCHANGED <<pc, sessions, rest, cur, queue, smsg, written>>
    BY <1>7 DEF AcceptStep, Accept, Offer, AcceptError, Publish, Shutdown, ReadHeader,
       WriteHeader, StartWrite, Post, Disconnect, ConnectReturns, sessUnchanged, loopVars,
       sessVars, vars
  <2>2. \A s \in Sess : Backlog(s)' = Backlog(s) /\ Sent(s)' = Sent(s)
    BY <2>1 DEF Backlog, Sent
  <2> QED
    BY <2>1, <2>2 DEF PassBy, Backlogs
<1> QED
  BY <1>1, <1>2, <1>3, <1>4, <1>5, <1>6, <1>7
     DEF Next, LoopStep, LoopOwnStep, SessionStep, TimelySessionStep

-----------------------------------------------------------------------------
(* The backlogs are kept *)

HIDE DEF Backlog, Sent, Backlogs, Numbers, Tracks, Lists, Kept, Unbroken, Topic, InOrder

\* Every session's backlog is in order and between what it has written and what
\* it was sent; a listed session's lacks nothing of what it was sent since.
AllKept ==
    /\ \A s \in Sess : Kept(Backlog(s), written[s], Sent(s))
    /\ \A s \in ToSet(sessions) : Unbroken(Backlog(s), written[s], Sent(s))

PathInv == Types /\ Tracks /\ Numbers /\ AllKept

BacklogTypes ==
    /\ \A s \in Sess : /\ Backlog(s) \in Seq(Message)
                       /\ Sent(s) \in Nat /\ written[s] \in Nat
    /\ written \in [Sess -> Nat]
    /\ ToSet(sessions) \subseteq Sess

\* The types that a path of messages needs.
LEMMA PathTypes == Types /\ Numbers => BacklogTypes
<1> SUFFICES ASSUME Types, Numbers PROVE BacklogTypes
  OBVIOUS
<1>1. sessions \in Seq(Sess)
  BY TypesLists DEF Lists
<1>2. ToSet(sessions) \subseteq Sess
  BY <1>1, ElementOfSeq, LenProperties DEF ToSet
<1> QED
  BY <1>2, TypesBacklogs DEF Backlogs, BacklogTypes

\* All backlogs are empty.
LEMMA KeptInit == Init => AllKept
<1> SUFFICES ASSUME Init PROVE AllKept
  OBVIOUS
<1>1. \A s \in Sess : Backlog(s) = <<>> /\ written[s] = 0 /\ Sent(s) = 0
  BY NoElements, ConcatEmptySeq, EmptySeq DEF Init, Backlog, Sent
<1>2. ToSet(sessions) = {}
  BY NoElements DEF Init
<1> QED
  BY <1>1, <1>2, KeptEmpty DEF AllKept

\* The one session that changes keeps what its backlog should be.
LEMMA KeptChange ==
    ASSUME BacklogTypes, AllKept, NEW s \in Sess, Gets(s) \/ GetsOne(s) \/ Drops(s) \/ Writes(s)
    PROVE  /\ Kept(Backlog(s)', written'[s], Sent(s)')
           /\ Unbroken(Backlog(s), written[s], Sent(s)) =>
                Unbroken(Backlog(s)', written'[s], Sent(s)')
<1>1. /\ Backlog(s) \in Seq(Message) /\ Sent(s) \in Nat /\ written[s] \in Nat
      /\ Kept(Backlog(s), written[s], Sent(s))
  BY DEF BacklogTypes, AllKept
<1>2. One \in Message /\ \A n \in Nat : n + 1 # One
  BY DEF Message, One
<1>3. CASE Gets(s)
  BY <1>1, <1>2, <1>3, KeptSend DEF Gets
<1>4. CASE GetsOne(s)
  BY <1>1, <1>2, <1>4, KeptSend DEF GetsOne
<1>5. CASE Drops(s)
  BY <1>1, <1>5, KeptTail DEF Drops
<1>6. CASE Writes(s)
  <2>1. written'[s] = IF Head(Backlog(s)) = One THEN written[s] ELSE Head(Backlog(s))
    BY <1>6 DEF Writes, BacklogTypes
  <2> QED
    BY <1>1, <1>6, <2>1, KeptTail DEF Writes
<1> QED
  BY <1>3, <1>4, <1>5, <1>6

\* Every step keeps the backlogs.
LEMMA KeptStep ==
    ASSUME BacklogTypes, BacklogTypes', AllKept, PassBy \/ \E s \in Sess : Changes(s)
    PROVE  AllKept'
<1>1. CASE PassBy
  <2>1. ASSUME NEW s \in Sess PROVE Kept(Backlog(s), written[s], Sent(s))'
    BY <1>1, KeptPassBy DEF PassBy, BacklogTypes, AllKept
  <2>2. ASSUME NEW s \in ToSet(sessions') PROVE Unbroken(Backlog(s), written[s], Sent(s))'
    <3>0. s \in Sess /\ Backlog(s)' = Backlog(s) /\ written'[s] = written[s]
      BY <1>1 DEF PassBy, BacklogTypes
    <3>1. CASE s \in ToSet(sessions)
      BY <1>1, <3>0, <3>1 DEF PassBy, AllKept
    <3>2. CASE Backlog(s) = <<>>
      <4>1. written[s] <= Sent(s)'
        BY <1>1, <3>0 DEF PassBy, BacklogTypes, AllKept, Kept
      <4> QED
        BY <3>0, <3>2, <4>1, KeptEmpty DEF BacklogTypes
    <3> QED
      BY <1>1, <3>1, <3>2 DEF PassBy
  <2> QED
    BY <2>1, <2>2 DEF AllKept
<1>2. ASSUME NEW s \in Sess, Changes(s) PROVE AllKept'
  <2>1. /\ Kept(Backlog(s)', written'[s], Sent(s)')
        /\ Unbroken(Backlog(s), written[s], Sent(s)) =>
             Unbroken(Backlog(s)', written'[s], Sent(s)')
    BY <1>2, KeptChange DEF Changes
  <2>2. ASSUME NEW t \in Sess PROVE Kept(Backlog(t), written[t], Sent(t))'
    BY <1>2, <2>1 DEF Changes, Quiet, AllKept
  <2>3. ASSUME NEW t \in ToSet(sessions') PROVE Unbroken(Backlog(t), written[t], Sent(t))'
    <3>1. t \in ToSet(sessions) /\ t \in Sess
      BY <1>2 DEF Changes, BacklogTypes
    <3> QED
      BY <1>2, <2>1, <3>1 DEF Changes, Quiet, AllKept
  <2> QED
    BY <2>2, <2>3 DEF AllKept
<1> QED
  BY <1>1, <1>2

\* No message is under way at the start.
LEMMA PathInit == Init => PathInv
BY TypesInit, TracksInit, NumbersInit, KeptInit DEF PathInv

\* Every step keeps what is said of the paths.
LEMMA PathStep == PathInv /\ [Next]_vars => PathInv'
<1> SUFFICES ASSUME Types, Tracks, Numbers, AllKept, [Next]_vars PROVE PathInv'
  BY DEF PathInv
<1>1. Types' /\ Tracks' /\ Numbers'
  BY TypesStep, TypesLists, TracksStep, NumbersStep
<1>2. BacklogTypes /\ BacklogTypes'
  BY <1>1, PathTypes, PTL
<1>3. PassBy \/ \E s \in Sess : Changes(s)
  BY TypesLists, TypesBacklogs, StepKinds
<1>4. AllKept'
  BY <1>2, <1>3, KeptStep
<1> QED
  BY <1>1, <1>4 DEF PathInv

\* It holds in every state.
LEMMA PathInvariance == Spec => []PathInv
BY PathInit, PathStep, PTL DEF Spec

\* A session's messages are lost at the old end only, for any number of sessions
\* and messages and any capacities.
THEOREM LostAtOldEnd == Spec => []UnbrokenTail
<1>1. PathInv => UnbrokenTail
  BY PathTypes DEF PathInv, BacklogTypes, AllKept, Kept, Unbroken, Topic, Pending, UnbrokenTail
<1> QED
  BY <1>1, PathInvariance, PTL

-----------------------------------------------------------------------------
(* A session implements a lossy feed *)

\* What a step is for the feed of the session that changes.
LEMMA ChangeIsFeed ==
    ASSUME BacklogTypes, AllKept, NEW s \in Sess, Changes(s)
    PROVE  [Feeds!Next]_(Feeds!vars)
<1> DEFINE sent == [t \in Sess |-> Sent(t)]
           pending == [t \in Sess |-> Pending(t)]
<1>1. /\ Backlog(s) \in Seq(Message) /\ Sent(s) \in Nat /\ written[s] \in Nat
      /\ Kept(Backlog(s), written[s], Sent(s)) /\ Pending(s) = Topic(Backlog(s))
      /\ Pending(s)' = Topic(Backlog(s)')
  BY DEF BacklogTypes, AllKept, Pending, Topic
<1>2. /\ \A t \in Sess \ {s} : /\ Sent(t)' = Sent(t) /\ Pending(t)' = Pending(t)
                               /\ written'[t] = written[t]
      /\ Gets(s) \/ GetsOne(s) \/ Drops(s) \/ Writes(s)
  BY DEF Changes, Quiet, Pending
<1>3. CASE Gets(s)
  <2>1. Sent(s) + 1 # One
    BY <1>1 DEF One
  <2>2. Pending(s)' = Pending(s) \cup {Sent(s)'}
    BY <1>1, <1>3, <2>1, KeptSend DEF Gets
  <2>3. /\ sent' = [sent EXCEPT ![s] = sent'[s]] /\ sent'[s] = Sent(s) + 1
        /\ sent[s] = Sent(s)
    BY <1>2, <1>3 DEF Gets
  <2>4. pending' = [pending EXCEPT ![s] = @ \cup {sent'[s]}]
    BY <1>2, <2>2
  <2>5. sent'[s] \in Nat /\ sent'[s] > sent[s] /\ UNCHANGED written
    BY <1>1, <1>3, <2>3 DEF Gets
  <2>6. Feeds!Offer(s)
    BY <2>3, <2>4, <2>5 DEF Feeds!Offer
  <2> QED
    BY <2>6 DEF Feeds!Next
<1>4. CASE GetsOne(s)
  <2>1. Pending(s)' = Pending(s)
    BY <1>1, <1>4, KeptSend DEF GetsOne, Message
  <2>2. sent' = sent /\ pending' = pending /\ UNCHANGED written
    BY <1>2, <1>4, <2>1 DEF GetsOne
  <2> QED
    BY <2>2 DEF Feeds!vars
<1>5. CASE Drops(s) \/ Writes(s)
  <2> DEFINE h == Head(Backlog(s))
  <2>1. Pending(s)' = Pending(s) \ {h} /\ Sent(s)' = Sent(s)
    BY <1>1, <1>5, KeptTail DEF Drops, Writes
  <2>2. h # One => h \in Pending(s) /\ \A m \in Pending(s) : h <= m
    BY <1>1, <1>5, KeptTail DEF Drops, Writes
  <2>3. h = One => Pending(s)' = Pending(s)
    BY <2>1 DEF Pending
  <2> HIDE DEF h
  <2>4. sent' = sent
    BY <1>2, <2>1
  <2>5. pending' = [pending EXCEPT ![s] = @ \ {h}] /\ pending[s] = Pending(s)
    BY <1>2, <2>1
  <2>6. CASE h = One
    <3>1. pending' = pending
      BY <1>2, <2>3, <2>6
    <3>2. UNCHANGED written
      BY <1>5, <2>6 DEF Drops, Writes, BacklogTypes, h
    <3> QED
      BY <2>4, <3>1, <3>2 DEF Feeds!vars
  <2>7. CASE h # One /\ Drops(s)
    <3>1. Feeds!Lose(s)
      BY <2>2, <2>4, <2>5, <2>7 DEF Feeds!Lose, Drops
    <3> QED
      BY <3>1 DEF Feeds!Next
  <2>8. CASE h # One /\ Writes(s)
    <3>1. written' = [written EXCEPT ![s] = h]
      BY <2>8 DEF Writes, h
    <3>2. Feeds!Take(s)
      BY <2>2, <2>4, <2>5, <2>8, <3>1 DEF Feeds!Take
    <3> QED
      BY <3>2 DEF Feeds!Next
  <2> QED
    BY <1>5, <2>6, <2>7, <2>8
<1> QED
  BY <1>2, <1>3, <1>4, <1>5

\* Messages that pass by a session are none of its feed.
LEMMA PassByIsFeed ==
    ASSUME BacklogTypes, BacklogTypes', PassBy
    PROVE  Feeds!Next
<1>1. \A s \in Sess : Pending(s)' = Pending(s)
  BY DEF PassBy, Pending
<1>2. \A s \in Sess : Sent(s)' \in Nat /\ Sent(s)' >= Sent(s)
  BY DEF PassBy, BacklogTypes
<1>3. Feeds!Skip
  BY <1>1, <1>2 DEF PassBy, Feeds!Skip
<1> QED
  BY <1>3 DEF Feeds!Next

\* A session implements a lossy feed: the fan-out offers messages to those it
\* lists and lets them pass by the others, a full queue and a failed write lose
\* the oldest, a write takes it.
THEOREM ImplementsFeed == Spec => DeliversFeed
<1>1. Init => Feeds!Init
  <2> SUFFICES ASSUME Init PROVE Feeds!Init
    OBVIOUS
  <2>1. \A s \in Sess : Backlog(s) = <<>> /\ Sent(s) = 0
    BY NoElements, ConcatEmptySeq, EmptySeq DEF Init, Backlog, Sent
  <2>2. \A s \in Sess : Pending(s) = {}
    BY <2>1, NoElements DEF Pending
  <2> QED
    BY <2>1, <2>2 DEF Init, Feeds!Init
<1>2. PathInv /\ PathInv' /\ [Next]_vars => [Feeds!Next]_(Feeds!vars)
  <2> SUFFICES ASSUME PathInv, PathInv', [Next]_vars PROVE [Feeds!Next]_(Feeds!vars)
    OBVIOUS
  <2>1. Types /\ Tracks /\ Numbers /\ AllKept /\ Types' /\ Numbers'
    BY DEF PathInv
  <2>2. BacklogTypes /\ BacklogTypes'
    BY <2>1, PathTypes, PTL
  <2>3. PassBy \/ \E s \in Sess : Changes(s)
    BY <2>1, TypesLists, TypesBacklogs, StepKinds
  <2> QED
    BY <2>1, <2>2, <2>3, ChangeIsFeed, PassByIsFeed
<1> QED
  BY <1>1, <1>2, PathInvariance, PTL DEF Spec, DeliversFeed, Feeds!Spec

\* What holds of every lossy feed holds of a session.
Lossy == INSTANCE LossyFifoProofs WITH
    Feed <- Sess, taken <- written,
    offered <- [s \in Sess |-> Sent(s)],
    transit <- [s \in Sess |-> Pending(s)]

\* A peer is written no message of the topic twice, none after a newer one, and
\* none that the session was not sent.
THEOREM WrittenOnce == Spec => Feeds!OnceInOrder
<1>1. Lossy!Spec => Lossy!OnceInOrder
  BY Lossy!FeedsOnceInOrder
<1>2. Lossy!Spec <=> Feeds!Spec
  BY PTL DEF Lossy!Spec, Feeds!Spec, Lossy!Init, Feeds!Init, Lossy!vars, Feeds!vars,
     Lossy!Next, Feeds!Next, Lossy!Offer, Feeds!Offer, Lossy!Skip, Feeds!Skip,
     Lossy!Lose, Feeds!Lose, Lossy!Take, Feeds!Take
<1>3. Lossy!OnceInOrder <=> Feeds!OnceInOrder
  BY PTL DEF Lossy!OnceInOrder, Feeds!OnceInOrder, Lossy!vars, Feeds!vars
<1> QED
  BY <1>1, <1>2, <1>3, ImplementsFeed DEF DeliversFeed
=============================================================================
