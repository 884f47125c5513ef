-------------------------- MODULE SubscriberProofs --------------------------
(***************************************************************************)
(* Proofs about Subscriber, for every value of its constants: types, the   *)
(* readers the subscription has on record, when readers are told to quit,  *)
(* where loop and readers wait for good, that the loop is a NodeLoop, the  *)
(* order of messages from the wire to the callbacks, and that each         *)
(* publisher's feed is one of LossyFifo: it may lose messages, and never   *)
(* reorders or repeats one.                                                *)
(***************************************************************************)
EXTENDS Subscriber, Channels

Recorded == {p \in Pub : connections[p] # NoConn}

\* What the loop still has to handle of the last update.
ListsOK ==
    /\ dead \cap pubList = {} /\ fresh \subseteq pubList
    /\ pc \notin {"update", "crashed"} => dead = {} /\ fresh = {}

\* Records exist for listed publishers already requested and for dead ones not
\* yet told; for all of them when every request succeeds.
RecordsOK ==
    /\ Recorded \subseteq (pubList \ fresh) \cup dead
    /\ NoRequestFails => Recorded = (pubList \ fresh) \cup dead

\* A record names a reader started for that publisher, not told to quit as long
\* as the loop runs.
OwnersOK ==
    \A p \in Pub : connections[p] # NoConn =>
        /\ cpub[connections[p]] = p
        /\ cpc[connections[p]] # "unused"
        /\ pc \notin {"unregister", "exited"} => ~Told(connections[p])

UnusedOK == \A c \in Conn : cpc[c] = "unused" => ~Told(c)

JobOK == pc = "enqueue" => job \in Job

ReadOK ==
    \A c \in Conn : /\ cpc[c] = "body" => nread[c] < MaxMsg
                    /\ cpc[c] = "hold" => nread[c] > 0

\* The part of TypeOK that is about where the readers are.
ReaderTypes ==
    /\ cpc \in [Conn -> {"unused", "dial", "handshake", "size", "body", "hold",
                         "notify", "exited"}]
    /\ quit \in [Conn -> 0..1]

IndInv ==
    /\ TypeOK /\ ListsOK /\ RecordsOK /\ OwnersOK /\ UnusedOK
    /\ JobOK /\ ReadOK /\ NoOrphanReader

-----------------------------------------------------------------------------
(* Lemmas about channels *)

\* A receive yields an element and leaves a shorter channel.
LEMMA ChanGet ==
    ASSUME NEW S, NEW ch \in Seq(S), ch # <<>>
    PROVE  /\ Head(ch) \in S /\ Tail(ch) \in Seq(S)
           /\ Len(ch) \in Nat /\ Len(Tail(ch)) = Len(ch) - 1
BY HeadTailProperties, LenProperties

\* A send adds one element at the end.
LEMMA ChanPut ==
    ASSUME NEW S, NEW ch \in Seq(S), NEW e \in S
    PROVE  /\ Append(ch, e) \in Seq(S)
           /\ Len(ch) \in Nat /\ Len(Append(ch, e)) = Len(ch) + 1
BY AppendProperties, LenProperties

-----------------------------------------------------------------------------
(* The inductive invariant *)

USE DEF IndInv, ListsOK, RecordsOK, OwnersOK, UnusedOK, JobOK, ReadOK,
        NoOrphanReader, Recorded, Running, Told

\* The invariant holds before the loop starts.
LEMMA InitInd == Init => IndInv
<1> SUFFICES ASSUME Init PROVE IndInv
  OBVIOUS
<1>1. TypeOK
  BY PubAssumption, BoundsAssumption DEF Init, TypeOK
<1>2. ListsOK /\ RecordsOK /\ OwnersOK /\ UnusedOK /\ JobOK /\ ReadOK /\ NoOrphanReader
  BY DEF Init
<1> QED
  BY <1>1, <1>2

\* Taking a new list (subscriber.go:62) keeps the invariant.
LEMMA PubListInd == IndInv /\ LoopPubList => IndInv'
<1> SUFFICES ASSUME IndInv, LoopPubList PROVE IndInv'
  OBVIOUS
<1>0. Head(pubListChan) \subseteq Pub /\ Tail(pubListChan) \in Seq(SUBSET Pub)
      /\ Len(Tail(pubListChan)) <= ChanCap
  BY ChanGet, BoundsAssumption DEF TypeOK, LoopPubList
<1>1. TypeOK'
  BY <1>0 DEF TypeOK, LoopPubList, setDifference, cbVars, connVars
<1>2. (ListsOK /\ RecordsOK)'
  BY DEF LoopPubList, setDifference
<1>3. (OwnersOK /\ UnusedOK /\ JobOK /\ ReadOK /\ NoOrphanReader)'
  BY DEF LoopPubList, connVars
<1> QED
  BY <1>1, <1>2, <1>3

\* So does telling a reader whose publisher left,
LEMMA QuitDeadInd == \A p \in Pub : IndInv /\ LoopQuitDead(p) => IndInv'
<1> SUFFICES ASSUME NEW p \in Pub, IndInv, LoopQuitDead(p) PROVE IndInv'
  OBVIOUS
<1> DEFINE c == connections[p]
<1>0. c \in Conn /\ ~Told(c) /\ cpub[c] = p
  BY DEF TypeOK, LoopQuitDead
<1>1. TypeOK'
  BY <1>0 DEF TypeOK, LoopQuitDead, SendQuit, Forget, chanVars, cbVars
<1>2. (ListsOK /\ RecordsOK)'
  BY DEF LoopQuitDead, Forget
<1>3. (OwnersOK /\ UnusedOK)'
  BY <1>0 DEF TypeOK, LoopQuitDead, SendQuit, Forget
<1>4. (JobOK /\ ReadOK)'
  BY DEF LoopQuitDead
<1>5. NoOrphanReader'
  <2> SUFFICES ASSUME NEW d \in Conn, Running(d)', ~Told(d)'
               PROVE  (connections[cpub[d]] = d)'
    OBVIOUS
  <2>1. d # c
    <3>1. quit'[c] = quit[c] + 1 /\ quit[c] \in 0..1
      BY <1>0 DEF TypeOK, LoopQuitDead, SendQuit
    <3> QED
      BY <3>1
  <2>2. Running(d) /\ ~Told(d)
    BY <2>1 DEF TypeOK, LoopQuitDead, SendQuit
  <2>3. connections[cpub[d]] = d
    BY <2>2
  <2> QED
    BY <2>1, <2>3 DEF TypeOK, LoopQuitDead, Forget
<1> QED
  BY <1>1, <1>2, <1>3, <1>4, <1>5

\* starting one for a publisher that joined,
LEMMA RequestInd ==
    \A p \in Pub, outcome \in RequestOutcome :
        IndInv /\ LoopRequest(p, outcome) => IndInv'
<1> SUFFICES ASSUME NEW p \in Pub, NEW outcome \in RequestOutcome,
                    IndInv, LoopRequest(p, outcome)
             PROVE  IndInv'
  OBVIOUS
<1>1. CASE outcome # "tcpros"
  <2>1. TypeOK'
    BY <1>1 DEF TypeOK, LoopRequest, chanVars, cbVars
  <2>2. (ListsOK /\ RecordsOK)'
    BY <1>1 DEF LoopRequest, NoRequestFails
  <2>3. (OwnersOK /\ UnusedOK /\ JobOK /\ ReadOK /\ NoOrphanReader)'
    BY <1>1 DEF LoopRequest
  <2> QED
    BY <2>1, <2>2, <2>3
<1>2. CASE outcome = "tcpros"
  <2>1. PICK c \in Conn :
          /\ cpc[c] = "unused"
          /\ cpc' = [cpc EXCEPT ![c] = "dial"]
          /\ cpub' = [cpub EXCEPT ![c] = p]
          /\ connections' = [connections EXCEPT ![p] = c]
    BY <1>2 DEF LoopRequest
  <2>2. connections[p] = NoConn /\ ~Told(c)
    BY <2>1 DEF LoopRequest
  <2>3. TypeOK'
    BY <2>1 DEF TypeOK, LoopRequest, chanVars, cbVars
  <2>4. (ListsOK /\ RecordsOK)'
    BY <2>1, ConnAssumption DEF TypeOK, LoopRequest
  <2>5. (OwnersOK /\ UnusedOK)'
    BY <2>1, <2>2 DEF TypeOK, LoopRequest
  <2>6. (JobOK /\ ReadOK)'
    BY <2>1 DEF TypeOK, LoopRequest
  <2>7. NoOrphanReader'
    BY <2>1, <2>2, ConnAssumption DEF TypeOK, LoopRequest
  <2> QED
    BY <2>3, <2>4, <2>5, <2>6, <2>7
<1> QED
  BY <1>1, <1>2

\* and going back to the select.
LEMMA UpdatedInd == IndInv /\ LoopUpdated => IndInv'
<1> SUFFICES ASSUME IndInv, LoopUpdated PROVE IndInv'
  OBVIOUS
<1>1. TypeOK'
  BY DEF TypeOK, LoopUpdated, chanVars, cbVars, connVars
<1>2. (ListsOK /\ RecordsOK /\ OwnersOK /\ UnusedOK /\ JobOK /\ ReadOK /\ NoOrphanReader)'
  BY DEF LoopUpdated, connVars
<1> QED
  BY <1>1, <1>2

\* Taking a message keeps the invariant,
LEMMA MsgInd == IndInv /\ LoopMsg => IndInv'
<1> SUFFICES ASSUME IndInv, LoopMsg PROVE IndInv'
  OBVIOUS
<1>1. /\ Head(msgChan) \in Msg /\ Tail(msgChan) \in Seq(Msg)
      /\ Len(Tail(msgChan)) <= ChanCap
  BY ChanGet, BoundsAssumption DEF TypeOK, LoopMsg
<1>2. (stored = callbacks) \in BOOLEAN
  OBVIOUS
<1>3. job' \in Job
  BY <1>1, <1>2 DEF LoopMsg, Msg, Job
<1>4. TypeOK'
  BY <1>1, <1>3 DEF TypeOK, LoopMsg, cbVars, connVars
<1>5. (ListsOK /\ RecordsOK /\ OwnersOK /\ UnusedOK /\ JobOK /\ ReadOK /\ NoOrphanReader)'
  BY <1>3 DEF LoopMsg, connVars
<1> QED
  BY <1>4, <1>5

\* and so does handing it on or dropping it.
LEMMA EnqueueInd == IndInv /\ (LoopEnqueue \/ LoopEnqueueTimeout) => IndInv'
<1> SUFFICES ASSUME IndInv, LoopEnqueue \/ LoopEnqueueTimeout PROVE IndInv'
  OBVIOUS
<1>1. TypeOK'
  <2>1. CASE LoopEnqueue
    <3>1. /\ Append(jobChan, job) \in Seq(Job)
          /\ Len(Append(jobChan, job)) <= JobCap
      BY <2>1, ChanPut, BoundsAssumption DEF TypeOK, LoopEnqueue
    <3> QED
      BY <2>1, <3>1 DEF TypeOK, LoopEnqueue, cbVars, connVars
  <2>2. CASE LoopEnqueueTimeout
    BY <2>2 DEF TypeOK, LoopEnqueueTimeout, chanVars, cbVars, connVars
  <2> QED
    BY <2>1, <2>2
<1>2. (ListsOK /\ RecordsOK /\ OwnersOK /\ UnusedOK /\ JobOK /\ ReadOK /\ NoOrphanReader)'
  BY DEF LoopEnqueue, LoopEnqueueTimeout, connVars
<1> QED
  BY <1>1, <1>2

\* delete(sub.connections, "host:port") deletes nothing: no key has that form.
LEMMA ForgetTcpUri ==
    ASSUME TypeOK, NEW p \in Pub
    PROVE  Forget(TcpUri(p)) = connections
BY KeysAssumption DEF Forget, TypeOK

\* A reader's notice changes no record.
LEMMA DisconnectedInd == IndInv /\ LoopDisconnected => IndInv'
<1> SUFFICES ASSUME IndInv, LoopDisconnected PROVE IndInv'
  OBVIOUS
<1>1. /\ Head(disconnectedChan) \in {TcpUri(p) : p \in Pub}
      /\ Tail(disconnectedChan) \in Seq({TcpUri(p) : p \in Pub})
      /\ Len(Tail(disconnectedChan)) <= ChanCap
  BY ChanGet, BoundsAssumption DEF TypeOK, LoopDisconnected
<1>2. connections' = connections
  BY <1>1, ForgetTcpUri DEF LoopDisconnected
<1>3. TypeOK'
  BY <1>1, <1>2 DEF TypeOK, LoopDisconnected, cbVars, connVars
<1>4. (ListsOK /\ RecordsOK /\ OwnersOK /\ UnusedOK /\ JobOK /\ ReadOK /\ NoOrphanReader)'
  BY <1>2 DEF LoopDisconnected, connVars
<1> QED
  BY <1>3, <1>4

\* The shutdown tells every recorded reader, and the loop does nothing after it.
LEMMA ShutdownLoopInd == IndInv /\ (LoopShutdown \/ LoopUnregister) => IndInv'
<1> SUFFICES ASSUME IndInv, LoopShutdown \/ LoopUnregister PROVE IndInv'
  OBVIOUS
<1>1. CASE LoopShutdown
  <2> DEFINE open == {connections[p] : p \in Pub} \ {NoConn}
  <2>1. \A c \in open : c \in Conn /\ ~Told(c) /\ cpc[c] # "unused"
    BY <1>1 DEF TypeOK, LoopShutdown
  <2>2. /\ \A c \in Conn : quit'[c] = IF c \in open THEN quit[c] + 1 ELSE quit[c]
        /\ \A c \in Conn : closed'[c] = (closed[c] \/ c \in open)
        /\ quit' \in [Conn -> 0..1]
        /\ closed' \in [Conn -> BOOLEAN]
    BY <1>1, <2>1 DEF TypeOK, LoopShutdown, SendQuit
  <2>3. TypeOK'
    <3>1. shutdownChan' \in 0..ChanCap
      BY SMTT(30), <1>1, BoundsAssumption DEF TypeOK, LoopShutdown
    <3>2. /\ pc' = "unregister"
          /\ UNCHANGED <<pubList, dead, fresh, connections, job, pubListChan,
                         msgChan, disconnectedChan, jobChan, callbacks, stored,
                         cpc, cpub, nread, ran, updates>>
      BY <1>1 DEF LoopShutdown, cbVars
    <3> QED
      BY <2>2, <3>1, <3>2 DEF TypeOK
  <2>4. (ListsOK /\ RecordsOK /\ JobOK /\ ReadOK)'
    BY <1>1 DEF LoopShutdown
  <2>5. \A c \in Conn : Told(c)' <=> Told(c) \/ c \in open
    BY <2>1, <2>2 DEF TypeOK
  <2>6. OwnersOK'
    BY <1>1 DEF LoopShutdown
  <2>7. UnusedOK'
    BY <1>1, <2>1, <2>5 DEF LoopShutdown
  <2>8. NoOrphanReader'
    BY <1>1, <2>5 DEF LoopShutdown
  <2> QED
    BY <2>3, <2>4, <2>6, <2>7, <2>8
<1>2. CASE LoopUnregister
  <2>1. TypeOK'
    BY <1>2 DEF TypeOK, LoopUnregister, chanVars, cbVars, connVars
  <2>2. (ListsOK /\ RecordsOK /\ OwnersOK /\ UnusedOK /\ JobOK /\ ReadOK /\ NoOrphanReader)'
    BY <1>2 DEF LoopUnregister, connVars
  <2> QED
    BY <2>1, <2>2
<1> QED
  BY <1>1, <1>2

\* A step of a reader that goes somewhere, through its quit channel or not,
\* keeps everything the loop relies on.
LEMMA ReaderMove ==
    ASSUME IndInv, NEW c \in Conn, connUnchanged,
           NEW next \in {"dial", "handshake", "size", "body", "hold", "notify", "exited"},
           LoopTop(c, next) \/ Goto(c, next), Running(c)
    PROVE  /\ ReaderTypes'
           /\ cpc'[c] \in {next, "exited"}
           /\ \A d \in Conn : d # c => cpc'[d] = cpc[d]
           /\ (ListsOK /\ RecordsOK /\ OwnersOK /\ UnusedOK /\ JobOK /\ NoOrphanReader)'
<1>1. PICK to \in {next, "exited"} : cpc' = [cpc EXCEPT ![c] = to]
  BY DEF LoopTop, Goto
<1>2. \/ UNCHANGED quit
      \/ /\ Told(c) /\ to = "exited"
         /\ quit' = [quit EXCEPT ![c] = IF @ > 0 THEN @ - 1 ELSE 0]
  BY <1>1 DEF LoopTop, Goto, TypeOK
<1>3. quit' \in [Conn -> 0..1]
  <2>1. (IF quit[c] > 0 THEN quit[c] - 1 ELSE 0) \in 0..1
    BY DEF TypeOK
  <2>2. quit \in [Conn -> 0..1]
    BY DEF TypeOK
  <2> HIDE DEF IndInv
  <2> QED
    BY <1>2, <2>1, <2>2
<1>4. cpc' \in [Conn -> {"unused", "dial", "handshake", "size", "body",
                         "hold", "notify", "exited"}]
  BY <1>1 DEF TypeOK
<1>5. (ListsOK /\ RecordsOK /\ JobOK)'
  BY DEF connUnchanged, loopVars
<1>6. UnusedOK'
  BY <1>1, <1>2 DEF TypeOK, connUnchanged
<1>7. OwnersOK'
  BY <1>1, <1>2 DEF TypeOK, connUnchanged, loopVars
<1>8. NoOrphanReader'
  <2> SUFFICES ASSUME NEW d \in Conn, Running(d)', ~Told(d)'
               PROVE  (connections[cpub[d]] = d)'
    OBVIOUS
  <2>1. UNCHANGED <<connections, cpub, closed>>
    BY DEF connUnchanged, loopVars
  <2>2. CASE d = c
    BY <1>1, <1>2, <2>1, <2>2 DEF TypeOK
  <2>3. CASE d # c
    BY <1>1, <1>2, <2>1, <2>3 DEF TypeOK
  <2> QED
    BY <2>2, <2>3
<1> QED
  <2>1. ReaderTypes'
    BY <1>3, <1>4 DEF ReaderTypes
  <2>2. cpc'[c] \in {next, "exited"} /\ \A d \in Conn : d # c => cpc'[d] = cpc[d]
    BY <1>1 DEF TypeOK
  <2> QED
    BY <2>1, <2>2, <1>5, <1>6, <1>7, <1>8

\* Each step of a reader is a ReaderMove, with or without a message: dial and
\* handshake,
LEMMA DialInd == \A c \in Conn : IndInv /\ (Dial(c) \/ Handshake(c)) => IndInv'
<1> SUFFICES ASSUME NEW c \in Conn, IndInv, Dial(c) \/ Handshake(c) PROVE IndInv'
  OBVIOUS
<1>1. PICK next \in {"handshake", "size", "exited"} : LoopTop(c, next) \/ Goto(c, next)
  BY DEF Dial, Handshake
<1>2. Running(c) /\ connUnchanged /\ UNCHANGED <<msgChan, disconnectedChan, nread>>
  BY DEF Dial, Handshake
<1>3. /\ cpc'[c] \in {next, "exited"} /\ \A d \in Conn : d # c => cpc'[d] = cpc[d]
      /\ ReaderTypes' /\ TypeOK
      /\ (ListsOK /\ RecordsOK /\ OwnersOK /\ UnusedOK /\ JobOK /\ NoOrphanReader)'
  BY <1>1, <1>2, ReaderMove
<1>4. TypeOK'
  <2> HIDE DEF IndInv
  <2> QED
    BY <1>2, <1>3 DEF TypeOK, ReaderTypes, connUnchanged, loopVars, cbVars
<1>5. ReadOK'
  BY <1>2, <1>3
<1> QED
  BY <1>3, <1>4, <1>5

\* the size of the next message,
LEMMA ReadSizeInd == \A c \in Conn : IndInv /\ ReadSize(c) => IndInv'
<1> SUFFICES ASSUME NEW c \in Conn, IndInv, ReadSize(c) PROVE IndInv'
  OBVIOUS
<1>1. PICK next \in {"size", "body", "notify", "dial"} :
        /\ LoopTop(c, next) \/ Goto(c, next)
        /\ next = "body" => nread[c] < MaxMsg
  BY DEF ReadSize
<1>2. Running(c) /\ connUnchanged /\ UNCHANGED <<msgChan, disconnectedChan, nread>>
  BY DEF ReadSize
<1>3. /\ cpc'[c] \in {next, "exited"} /\ \A d \in Conn : d # c => cpc'[d] = cpc[d]
      /\ ReaderTypes' /\ TypeOK
      /\ (ListsOK /\ RecordsOK /\ OwnersOK /\ UnusedOK /\ JobOK /\ NoOrphanReader)'
  BY <1>1, <1>2, ReaderMove
<1>4. TypeOK'
  <2> HIDE DEF IndInv
  <2> QED
    BY <1>2, <1>3 DEF TypeOK, ReaderTypes, connUnchanged, loopVars, cbVars
<1>5. ReadOK'
  BY <1>1, <1>2, <1>3
<1> QED
  BY <1>3, <1>4, <1>5

\* its body, which is counted once it is read,
LEMMA ReadBodyInd == \A c \in Conn : IndInv /\ ReadBody(c) => IndInv'
<1> SUFFICES ASSUME NEW c \in Conn, IndInv, ReadBody(c) PROVE IndInv'
  OBVIOUS
<1>1. PICK next \in {"hold", "notify", "dial"} :
        /\ Goto(c, next)
        /\ \/ next = "hold" /\ nread' = [nread EXCEPT ![c] = @ + 1]
           \/ next # "hold" /\ UNCHANGED nread
  BY DEF ReadBody
<1>2. /\ Running(c) /\ connUnchanged /\ UNCHANGED <<msgChan, disconnectedChan>>
      /\ nread[c] < MaxMsg
  BY DEF ReadBody
<1>3. /\ cpc'[c] \in {next, "exited"} /\ \A d \in Conn : d # c => cpc'[d] = cpc[d]
      /\ ReaderTypes' /\ TypeOK
      /\ (ListsOK /\ RecordsOK /\ OwnersOK /\ UnusedOK /\ JobOK /\ NoOrphanReader)'
  BY <1>1, <1>2, ReaderMove
<1>4. nread' \in [Conn -> 0..MaxMsg]
  <2>1. nread[c] + 1 \in 0..MaxMsg
    BY <1>2, BoundsAssumption DEF TypeOK
  <2>2. nread \in [Conn -> 0..MaxMsg]
    BY DEF TypeOK
  <2> HIDE DEF IndInv
  <2> QED
    BY <1>1, <2>1, <2>2
<1>5. TypeOK'
  <2> HIDE DEF IndInv
  <2> QED
    BY <1>2, <1>3, <1>4 DEF TypeOK, ReaderTypes, connUnchanged, loopVars, cbVars
<1>6. ReadOK'
  BY <1>1, <1>2, <1>3 DEF TypeOK
<1> QED
  BY <1>3, <1>5, <1>6

\* its delivery or its loss,
LEMMA DeliverInd == \A c \in Conn : IndInv /\ (Deliver(c) \/ DropHeld(c)) => IndInv'
<1> SUFFICES ASSUME NEW c \in Conn, IndInv, Deliver(c) \/ DropHeld(c) PROVE IndInv'
  OBVIOUS
<1>1. /\ LoopTop(c, "size") /\ connUnchanged /\ UNCHANGED <<disconnectedChan, nread>>
      /\ cpc[c] = "hold"
  BY DEF Deliver, DropHeld
<1>2. /\ cpc'[c] \in {"size", "exited"} /\ \A d \in Conn : d # c => cpc'[d] = cpc[d]
      /\ ReaderTypes' /\ TypeOK
      /\ (ListsOK /\ RecordsOK /\ OwnersOK /\ UnusedOK /\ JobOK /\ NoOrphanReader)'
  BY <1>1, ReaderMove
<1>3. msgChan' \in Seq(Msg) /\ Len(msgChan') <= ChanCap
  <2>1. CASE DropHeld(c)
    BY <2>1 DEF DropHeld, TypeOK
  <2>2. CASE Deliver(c)
    <3>1. [conn |-> c, n |-> nread[c]] \in Msg
      BY <1>1, BoundsAssumption DEF TypeOK, Msg
    <3> QED
      BY <2>2, <3>1, ChanPut, BoundsAssumption DEF Deliver, Room, TypeOK
  <2> QED
    BY <2>1, <2>2
<1>4. TypeOK'
  <2> HIDE DEF IndInv
  <2> QED
    BY <1>1, <1>2, <1>3 DEF TypeOK, ReaderTypes, connUnchanged, loopVars, cbVars
<1>5. ReadOK'
  BY <1>1, <1>2
<1> QED
  BY <1>2, <1>4, <1>5

\* and the notice of a lost connection.
LEMMA NotifyInd == \A c \in Conn : IndInv /\ Notify(c) => IndInv'
<1> SUFFICES ASSUME NEW c \in Conn, IndInv, Notify(c) PROVE IndInv'
  OBVIOUS
<1>1. Goto(c, "exited") /\ connUnchanged /\ UNCHANGED <<msgChan, nread>> /\ Running(c)
  BY DEF Notify
<1>2. /\ cpc'[c] = "exited" /\ \A d \in Conn : d # c => cpc'[d] = cpc[d]
      /\ ReaderTypes' /\ TypeOK
      /\ (ListsOK /\ RecordsOK /\ OwnersOK /\ UnusedOK /\ JobOK /\ NoOrphanReader)'
  BY <1>1, ReaderMove
<1>3. /\ disconnectedChan' \in Seq({TcpUri(p) : p \in Pub})
      /\ Len(disconnectedChan') <= ChanCap
  <2>1. TcpUri(cpub[c]) \in {TcpUri(p) : p \in Pub}
    BY DEF TypeOK
  <2> QED
    BY SMTT(30), <2>1, ChanPut, BoundsAssumption DEF Notify, Room, TypeOK
<1>4. TypeOK'
  <2> HIDE DEF IndInv
  <2> QED
    BY <1>1, <1>2, <1>3 DEF TypeOK, ReaderTypes, connUnchanged, loopVars, cbVars
<1>5. ReadOK'
  BY <1>1, <1>2
<1> QED
  BY <1>2, <1>4, <1>5

\* The callers only fill channels or take jobs.
LEMMA CallersInd ==
    IndInv /\ (\/ \E list \in SUBSET Pub : publisherUpdate(list)
               \/ AppendLength \/ AppendElement \/ Shutdown \/ SpinOnce) => IndInv'
<1> SUFFICES ASSUME IndInv,
                    \/ \E list \in SUBSET Pub : publisherUpdate(list)
                    \/ AppendLength \/ AppendElement \/ Shutdown \/ SpinOnce
             PROVE  IndInv'
  OBVIOUS
<1>1. UNCHANGED <<loopVars, connVars>>
  BY DEF publisherUpdate, AppendLength, AppendElement, Shutdown, SpinOnce
<1>2. (ListsOK /\ RecordsOK /\ OwnersOK /\ UnusedOK /\ JobOK /\ ReadOK /\ NoOrphanReader)'
  BY <1>1 DEF loopVars, connVars
<1>3. TypeOK'
  <2>1. ASSUME NEW list \in SUBSET Pub, publisherUpdate(list) PROVE TypeOK'
    <3>1. /\ pubListChan' \in Seq(SUBSET Pub) /\ Len(pubListChan') <= ChanCap
      BY <2>1, ChanPut, BoundsAssumption DEF publisherUpdate, Room, TypeOK
    <3> QED
      BY <2>1, <3>1, BoundsAssumption
      DEF publisherUpdate, TypeOK, loopVars, cbVars, connVars
  <2>2. CASE AppendLength
    BY <2>2, BoundsAssumption DEF AppendLength, TypeOK, loopVars, chanVars, connVars
  <2>3. CASE AppendElement
    BY <2>3 DEF AppendElement, TypeOK, loopVars, chanVars, connVars
  <2>4. CASE Shutdown
    BY <2>4, BoundsAssumption DEF Shutdown, TypeOK, loopVars, cbVars, connVars
  <2>5. CASE SpinOnce
    <3>1. /\ jobChan' \in Seq(Job) /\ Len(jobChan') <= JobCap
          /\ Head(jobChan) \in Job
      BY <2>5, ChanGet, BoundsAssumption DEF SpinOnce, TypeOK
    <3>2. ran' \in [Conn -> 0..MaxMsg]
      <4>1. Head(jobChan).conn \in Conn /\ Head(jobChan).n \in 0..MaxMsg
        BY <3>1, BoundsAssumption DEF Job
      <4>2. ran \in [Conn -> 0..MaxMsg]
        BY DEF TypeOK
      <4> QED
        BY <2>5, <4>1, <4>2 DEF SpinOnce
    <3> QED
      BY <2>5, <3>1, <3>2 DEF SpinOnce, TypeOK, loopVars, cbVars, connVars
  <2> QED
    BY <2>1, <2>2, <2>3, <2>4, <2>5
<1> QED
  BY <1>2, <1>3

\* So does a panic, which leaves everything but the loop's place as it was.
LEMMA PanicInd == \A p \in Pub : IndInv /\ RequestPanics(p) => IndInv'
<1> SUFFICES ASSUME NEW p \in Pub, IndInv, RequestPanics(p) PROVE IndInv'
  OBVIOUS
<1>1. TypeOK'
  BY DEF TypeOK, RequestPanics, chanVars, cbVars, connVars
<1>2. (ListsOK /\ RecordsOK /\ OwnersOK /\ UnusedOK /\ JobOK /\ ReadOK /\ NoOrphanReader)'
  BY DEF RequestPanics, connVars
<1> QED
  BY <1>1, <1>2

\* Every step keeps the invariant.
LEMMA StepInd == IndInv /\ [Next]_vars => IndInv'
<1> SUFFICES ASSUME IndInv, [Next]_vars PROVE IndInv'
  OBVIOUS
<1> HIDE DEF IndInv
<1>1. CASE LoopStep
  BY <1>1, PubListInd, UpdatedInd, QuitDeadInd, RequestInd, PanicInd, MsgInd,
     EnqueueInd, DisconnectedInd, ShutdownLoopInd
  DEF LoopStep, LoopOwnStep, LoopAnswered
<1>2. CASE \E c \in Conn : TimelyConnStep(c) \/ Handshake(c)
  BY <1>2, DialInd, ReadSizeInd, ReadBodyInd, DeliverInd, NotifyInd DEF TimelyConnStep
<1>3. CASE \/ \E list \in SUBSET Pub : publisherUpdate(list)
           \/ AppendLength \/ AppendElement \/ Shutdown \/ SpinOnce
  BY <1>3, CallersInd
<1>4. CASE UNCHANGED vars
  <2>1. TypeOK'
    BY <1>4 DEF IndInv, TypeOK, vars, loopVars, chanVars, cbVars, connVars
  <2>2. (ListsOK /\ RecordsOK /\ OwnersOK /\ UnusedOK /\ JobOK /\ ReadOK /\ NoOrphanReader)'
    BY <1>4 DEF IndInv, vars, loopVars, connVars
  <2> QED
    BY <2>1, <2>2 DEF IndInv
<1> QED
  BY <1>1, <1>2, <1>3, <1>4 DEF Next

\* The invariant holds in every reachable state.
LEMMA Invariance == Spec => []IndInv
<1> HIDE DEF IndInv
<1> QED
  BY InitInd, StepInd, PTL DEF Spec

-----------------------------------------------------------------------------
(* The theorems *)

\* Every variable keeps its type: no channel of the subscription overflows, and
\* a quit channel holds at most one token, so sending one never blocks the loop.
THEOREM TypeCorrect == Spec => []TypeOK
<1>1. IndInv => TypeOK
  OBVIOUS
<1> HIDE DEF IndInv
<1> QED
  BY <1>1, Invariance, PTL

\* A running reader is on record for its publisher or has been told to quit.
THEOREM NoOrphans == Spec => []NoOrphanReader
<1>1. IndInv => NoOrphanReader
  OBVIOUS
<1> HIDE DEF IndInv, NoOrphanReader
<1> QED
  BY <1>1, Invariance, PTL

\* Between updates the records are those of listed publishers, of all of them
\* when every request succeeds: the quit channel of a publisher that leaves is
\* then never nil.
THEOREM RecordsMirror == Spec => []RecordsMirrorList
<1>1. IndInv => RecordsMirrorList
  BY DEF RecordsMirrorList
<1> HIDE DEF IndInv
<1> QED
  BY <1>1, Invariance, PTL

\* A reader is told to quit once, through its record and an open channel.
THEOREM QuitOnce == Spec => ToldOnce
<1> DEFINE Once ==
      \A c \in Conn :
        quit'[c] > quit[c] =>
          /\ ~Told(c) /\ connections[cpub[c]] = c
          /\ connections'[cpub[c]] = NoConn \/ closed'[c]
<1>1. IndInv /\ [Next]_vars => [Once]_vars
  <2> SUFFICES ASSUME IndInv, Next, NEW c \in Conn, quit'[c] > quit[c]
               PROVE  /\ ~Told(c) /\ connections[cpub[c]] = c
                      /\ connections'[cpub[c]] = NoConn \/ closed'[c]
    OBVIOUS
  <2>0. quit[c] \in 0..1
    BY DEF TypeOK
  <2>1. CASE \E p \in Pub : LoopQuitDead(p)
    <3>1. PICK p \in Pub : LoopQuitDead(p)
      BY <2>1
    <3>2. c = connections[p]
      BY <2>0, <3>1 DEF LoopQuitDead, SendQuit
    <3>3. connections'[p] = NoConn
      BY <3>1 DEF LoopQuitDead, Forget
    <3> QED
      BY <3>1, <3>2, <3>3, ConnAssumption DEF LoopQuitDead
  <2>2. CASE LoopShutdown
    <3>1. PICK p \in Pub : c = connections[p] /\ c # NoConn
      BY <2>0, <2>2 DEF LoopShutdown, SendQuit
    <3>2. closed'[c]
      BY ZenonT(30), <2>2, <3>1 DEF LoopShutdown
    <3> QED
      BY <2>2, <3>1, <3>2 DEF LoopShutdown
  <2>3. ASSUME NEW d \in Conn, TimelyConnStep(d) \/ Handshake(d) PROVE FALSE
    <3>1. \E next : LoopTop(d, next) \/ Goto(d, next)
      BY <2>3 DEF TimelyConnStep, Dial, Handshake, ReadSize, ReadBody, Deliver,
                  DropHeld, Notify
    <3>2. quit \in [Conn -> 0..1]
      BY DEF TypeOK
    <3>3. CASE UNCHANGED quit
      BY <2>0, <3>3
    <3>4. CASE quit' = [quit EXCEPT ![d] = IF @ > 0 THEN @ - 1 ELSE 0]
      <4> HIDE DEF IndInv
      <4> QED
        BY <2>0, <3>2, <3>4
    <3> QED
      BY <3>1, <3>3, <3>4 DEF LoopTop, Goto
  <2>4. CASE UNCHANGED quit
    BY <2>0, <2>4
  <2>5. \/ UNCHANGED quit
        \/ LoopShutdown \/ \E p \in Pub : LoopQuitDead(p)
        \/ \E d \in Conn : TimelyConnStep(d) \/ Handshake(d)
    <3> HIDE DEF IndInv
    <3> QED
      BY DEF Next, LoopStep, LoopOwnStep, LoopAnswered, RequestPanics, LoopPubList,
             LoopRequest, LoopUpdated, LoopMsg,
             LoopEnqueue, LoopEnqueueTimeout, LoopDisconnected, LoopUnregister,
             publisherUpdate, AppendLength, AppendElement, Shutdown, SpinOnce,
             connVars
  <2> QED
    BY <2>1, <2>2, <2>3, <2>4, <2>5
<1> HIDE DEF IndInv, Once
<1> QED
  BY <1>1, Invariance, PTL DEF Spec, ToldOnce, Once

-----------------------------------------------------------------------------
(* Where the loop and its readers wait *)

\* The loop has to tell the reader of a publisher it has no reader of: its send
\* is on a nil channel.
NoQuitChannel(p) == pc = "update" /\ p \in dead /\ connections[p] = NoConn

\* Telling readers to quit waits for nobody: where the loop sends, in an update
\* or when it is shut down (subscriber.go:68, 137), there is a channel, with
\* room, unless the requestTopic of the publisher had failed.
Receptive(c) == c \in Conn /\ quit[c] < ChanCap /\ ~closed[c]
SendsAtOnce ==
    /\ pc = "update" => \A p \in dead : NoQuitChannel(p) \/ Receptive(connections[p])
    /\ pc = "select" =>
         \A c \in {connections[p] : p \in Pub} \ {NoConn} : Receptive(c)
    /\ NoRequestFails => \A p \in Pub : ~NoQuitChannel(p)

\* A loop that tells readers to quit has to wait only for one it does not have,
\* and has them all if no requestTopic fails.
THEOREM QuitSendsAtOnce == Spec => []SendsAtOnce
<1>1. IndInv => SendsAtOnce
  <2> SUFFICES ASSUME IndInv PROVE SendsAtOnce
    OBVIOUS
  <2>1. \A p \in Pub : connections[p] # NoConn /\ pc \in {"update", "select"}
                         => Receptive(connections[p])
    <3> SUFFICES ASSUME NEW p \in Pub, connections[p] # NoConn, pc \in {"update", "select"}
                 PROVE  Receptive(connections[p])
      OBVIOUS
    <3>1. connections[p] \in Conn /\ ~Told(connections[p])
      BY DEF TypeOK
    <3>2. quit[connections[p]] \in 0..1
      BY <3>1 DEF TypeOK
    <3> QED
      BY <3>1, <3>2, BoundsAssumption DEF Receptive
  <2>2. dead \subseteq Pub
    BY DEF TypeOK
  <2>3. NoRequestFails => \A p \in dead : connections[p] # NoConn
    BY <2>2
  <2> QED
    BY <2>1, <2>2, <2>3 DEF SendsAtOnce, NoQuitChannel
<1> HIDE DEF IndInv
<1> QED
  BY <1>1, Invariance, PTL

\* The send on a nil channel never ends: no update, message or shutdown is
\* handled after it (subscriber.go:68).
THEOREM NilSendNeverEnds ==
    ASSUME NEW p \in Pub
    PROVE  Spec => [](NoQuitChannel(p) => []NoQuitChannel(p))
<1>1. NoQuitChannel(p) /\ [Next]_vars => NoQuitChannel(p)'
  <2> SUFFICES ASSUME NoQuitChannel(p), [Next]_vars PROVE NoQuitChannel(p)'
    OBVIOUS
  <2>1. CASE \E q \in Pub : LoopQuitDead(q)
    <3>1. PICK q \in Pub : LoopQuitDead(q)
      BY <2>1
    <3>2. q # p
      BY <3>1 DEF LoopQuitDead, NoQuitChannel
    <3> QED
      BY <3>1, <3>2 DEF LoopQuitDead, NoQuitChannel, Forget
  <2>2. CASE UNCHANGED loopVars
    BY <2>2 DEF NoQuitChannel, loopVars
  <2> QED
    BY <2>1, <2>2
    DEF NoQuitChannel, Next, LoopStep, LoopOwnStep, LoopAnswered, RequestPanics,
        LoopPubList, LoopRequest, LoopUpdated, LoopMsg,
        LoopEnqueue, LoopEnqueueTimeout, LoopDisconnected, LoopShutdown, LoopUnregister,
        TimelyConnStep, Dial, Handshake, ReadSize, ReadBody, Deliver, DropHeld, Notify,
        connUnchanged, publisherUpdate, AppendLength, AppendElement, Shutdown, SpinOnce,
        vars
<1> QED
  BY <1>1, PTL DEF Spec

\* A reader whose notice finds no room after the loop has ended.
LeftBehind(c) ==
    pc \in {"unregister", "exited"} /\ cpc[c] = "notify" /\ ~Room(disconnectedChan)

\* It waits for good, told to quit or not (subscriber.go:240, 264): the exception in
\* ToldReaderStops is one that does not end.
THEOREM LeftBehindForGood ==
    ASSUME NEW c \in Conn
    PROVE  Spec => [](LeftBehind(c) => []LeftBehind(c))
<1>1. IndInv /\ LeftBehind(c) /\ [Next]_vars => LeftBehind(c)'
  <2> SUFFICES ASSUME IndInv, LeftBehind(c), [Next]_vars PROVE LeftBehind(c)'
    OBVIOUS
  <2>1. CASE \E d \in Conn : TimelyConnStep(d) \/ Handshake(d)
    <3>1. PICK d \in Conn : TimelyConnStep(d) \/ Handshake(d)
      BY <2>1
    <3>2. d # c /\ ~Notify(d)
      BY <3>1 DEF LeftBehind, TimelyConnStep, Dial, Handshake, ReadSize, ReadBody,
         Deliver, DropHeld, Notify
    <3>3. UNCHANGED <<pc, disconnectedChan>>
      BY <3>1, <3>2 DEF TimelyConnStep, Dial, Handshake, ReadSize, ReadBody,
         Deliver, DropHeld, connUnchanged, loopVars
    <3>4. cpc'[c] = cpc[c]
      BY <3>1, <3>2 DEF TypeOK, TimelyConnStep, Dial, Handshake, ReadSize, ReadBody,
         Deliver, DropHeld, LoopTop, Goto
    <3> QED
      BY <3>3, <3>4 DEF LeftBehind, Room
  <2>2. CASE UNCHANGED <<cpc, disconnectedChan>> /\ pc' \in {pc, "exited"}
    BY <2>2 DEF LeftBehind, Room
  <2>3. CASE LoopStep
    BY <2>2, <2>3
    DEF LeftBehind, LoopStep, LoopOwnStep, LoopAnswered, RequestPanics, LoopPubList,
        LoopQuitDead, LoopRequest, LoopUpdated, LoopMsg,
        LoopEnqueue, LoopEnqueueTimeout, LoopDisconnected, LoopShutdown, LoopUnregister,
        connVars, chanVars
  <2> QED
    BY <2>1, <2>2, <2>3
    DEF Next, publisherUpdate, AppendLength, AppendElement, Shutdown, SpinOnce, vars,
        loopVars, connVars, chanVars
<1> HIDE DEF IndInv, LeftBehind
<1> QED
  BY <1>1, Invariance, PTL DEF Spec

-----------------------------------------------------------------------------
(* The loop as its node sees it *)

\* The loop's place and what it shares with its node, in every step.
LEMMA LoopStepKinds ==
    ASSUME IndInv, [Next]_vars
    PROVE  [Loop!Next]_(Loop!vars)
<1> USE DEF loopVars, chanVars, cbVars, connVars, State, Loop!vars
<1>0. /\ pc \in {"select", "update", "enqueue", "unregister", "exited", "crashed"}
      /\ pubListChan \in Seq(SUBSET Pub) /\ shutdownChan \in 0..ChanCap
  BY DEF IndInv, TypeOK
<1> DEFINE Same == UNCHANGED <<State, shutdownChan, pubListChan, pubList>>
<1>1. Same => [Loop!Next]_(Loop!vars)
  OBVIOUS
<1>2. CASE LoopPubList
  <2>1. Loop!Receive
    BY <1>0, <1>2 DEF LoopPubList, Loop!Receive
  <2> QED
    BY <2>1 DEF Loop!Next
<1>3. CASE LoopShutdown
  <2>1. Loop!Stop
    BY <1>0, <1>3 DEF LoopShutdown, Loop!Stop
  <2> QED
    BY <2>1 DEF Loop!Next
<1>4. CASE LoopUnregister
  <2>1. Loop!End
    BY <1>0, <1>4 DEF LoopUnregister, Loop!End
  <2> QED
    BY <2>1 DEF Loop!Next
<1>5. ASSUME NEW list \in SUBSET Pub, publisherUpdate(list)
      PROVE  [Loop!Next]_(Loop!vars)
  <2>1. Loop!Send
    BY <1>5 DEF publisherUpdate, Room, Loop!Send
  <2> QED
    BY <2>1 DEF Loop!Next
<1>6. CASE Shutdown
  <2>1. Loop!Tell
    BY <1>0, <1>6, BoundsAssumption DEF Shutdown, Loop!Tell
  <2> QED
    BY <2>1 DEF Loop!Next
<1>7. CASE \/ LoopUpdated \/ \E p \in Pub : LoopQuitDead(p)
           \/ \E p \in Pub, outcome \in RequestOutcome : LoopRequest(p, outcome)
           \/ \E p \in Pub : RequestPanics(p)
           \/ LoopMsg \/ LoopEnqueue \/ LoopEnqueueTimeout \/ LoopDisconnected
  <2>1. Same
    BY <1>0, <1>7 DEF LoopUpdated, LoopQuitDead, LoopRequest, RequestPanics,
       LoopMsg, LoopEnqueue, LoopEnqueueTimeout, LoopDisconnected
  <2> QED
    BY <1>1, <2>1
<1>8. CASE \/ \E c \in Conn : TimelyConnStep(c) \/ Handshake(c)
           \/ AppendLength \/ AppendElement \/ SpinOnce \/ UNCHANGED vars
  <2>1. UNCHANGED <<pc, shutdownChan, pubListChan, pubList>>
    BY <1>8 DEF TimelyConnStep, Dial, Handshake, ReadSize, ReadBody, Deliver, DropHeld,
       Notify, connUnchanged, AppendLength, AppendElement, SpinOnce, vars
  <2> QED
    BY <1>1, <2>1
<1> QED
  BY <1>2, <1>3, <1>4, <1>5, <1>6, <1>7, <1>8
  DEF Next, LoopStep, LoopOwnStep, LoopAnswered

\* Node's abstraction of a loop holds of a subscription's: whatever readers and
\* jobs do meanwhile, it takes the lists in their order, or one token and nothing
\* after it.
THEOREM IsNodeLoop == Spec => RunsAsLoop
<1>1. Init => Loop!Init
  BY DEF Init, Loop!Init, State
<1> QED
  BY <1>1, LoopStepKinds, Invariance, PTL DEF Spec, RunsAsLoop, Loop!Spec

-----------------------------------------------------------------------------
(* The order of messages *)

HIDE DEF IndInv, ListsOK, RecordsOK, OwnersOK, UnusedOK, JobOK, ReadOK,
         NoOrphanReader, Recorded, Running, Told

Item == Job \cup Msg

\* InOrder, message by message; and no message on its way, and none that was
\* handed to a callback, is newer than the last one its reader has read.
Ordered ==
    /\ \A i, j \in 1..Len(Pipeline) :
         i < j /\ Pipeline[i].conn = Pipeline[j].conn => Pipeline[i].n < Pipeline[j].n
    /\ \A i \in 1..Len(Pipeline) :
         LET m == Pipeline[i] IN
           /\ ran[m.conn] < m.n /\ m.n <= nread[m.conn]
           /\ cpc[m.conn] = "hold" => m.n < nread[m.conn]
    /\ \A c \in Conn :
         /\ ran[c] <= nread[c]
         /\ cpc[c] = "hold" => ran[c] < nread[c]

OrderInv == IndInv /\ Ordered

\* What the proofs below need of IndInv.
Typed ==
    /\ Pipeline \in Seq(Item)
    /\ jobChan \in Seq(Job) /\ msgChan \in Seq(Msg)
    /\ pc = "enqueue" => job \in Job
    /\ cpc \in [Conn -> {"unused", "dial", "handshake", "size", "body", "hold",
                         "notify", "exited"}]
    /\ nread \in [Conn -> 0..MaxMsg] /\ ran \in [Conn -> 0..MaxMsg]
    /\ MaxMsg \in Nat

\* An item has the connection and the number of a message.
LEMMA ItemFields == \A m \in Item : m.conn \in Conn /\ m.n \in 1..MaxMsg
BY DEF Item, Job, Msg

\* Three sequences in a row.
LEMMA ThreeInARow ==
    ASSUME NEW S, NEW a \in Seq(S), NEW b \in Seq(S), NEW c \in Seq(S)
    PROVE  /\ a \o b \o c \in Seq(S)
           /\ Len(a) \in Nat /\ Len(b) \in Nat /\ Len(c) \in Nat
           /\ Len(a \o b \o c) = Len(a) + Len(b) + Len(c)
           /\ \A i \in 1..(Len(a) + Len(b) + Len(c)) :
                (a \o b \o c)[i] = IF i <= Len(a) THEN a[i]
                                   ELSE IF i <= Len(a) + Len(b) THEN b[i - Len(a)]
                                   ELSE c[i - (Len(a) + Len(b))]
<1>1. /\ a \o b \in Seq(S) /\ Len(a \o b) = Len(a) + Len(b)
      /\ \A i \in 1..(Len(a) + Len(b)) :
           (a \o b)[i] = IF i <= Len(a) THEN a[i] ELSE b[i - Len(a)]
  BY ConcatProperties
<1>2. Len(a) \in Nat /\ Len(b) \in Nat /\ Len(c) \in Nat
  BY LenProperties
<1> DEFINE ab == a \o b
<1> HIDE DEF ab
<1>3. /\ ab \o c \in Seq(S) /\ Len(ab \o c) = Len(ab) + Len(c)
      /\ \A i \in 1..(Len(ab) + Len(c)) :
           (ab \o c)[i] = IF i <= Len(ab) THEN ab[i] ELSE c[i - Len(ab)]
  BY <1>1, ConcatProperties DEF ab
<1>4. ab = a \o b
  BY DEF ab
<1> QED
  BY <1>1, <1>2, <1>3, <1>4

\* The job being enqueued is an item like the others.
LEMMA BoundTyped ==
    ASSUME pc = "enqueue" => job \in Job
    PROVE  Bound \in Seq(Item)
<1>1. CASE pc = "enqueue"
  <2>1. job \in Item
    BY <1>1 DEF Item
  <2> HIDE DEF Item
  <2> QED
    BY <1>1, <2>1 DEF Bound
<1>2. CASE pc # "enqueue"
  BY <1>2, EmptySeq DEF Bound
<1> QED
  BY <1>1, <1>2

\* The messages and jobs in the pipeline are well formed.
LEMMA IndTyped == IndInv => Typed
<1> SUFFICES ASSUME IndInv PROVE Typed
  OBVIOUS
<1>1. /\ jobChan \in Seq(Job) /\ msgChan \in Seq(Msg) /\ MaxMsg \in Nat
      /\ pc = "enqueue" => job \in Job
  BY BoundsAssumption DEF IndInv, TypeOK, JobOK
<1>2. jobChan \in Seq(Item) /\ msgChan \in Seq(Item)
  BY <1>1, SeqMonotonic DEF Item
<1>3. Bound \in Seq(Item)
  BY <1>1, BoundTyped
<1>4. Pipeline \in Seq(Item)
  BY <1>2, <1>3, ThreeInARow DEF Pipeline
<1> QED
  BY <1>1, <1>4 DEF IndInv, TypeOK, Typed

\* The loop takes a message out of msgChan: it stays where it is in the pipeline.
LEMMA MsgPipeline ==
    ASSUME Typed, Typed', LoopMsg
    PROVE  /\ Len(Pipeline') = Len(Pipeline)
           /\ \A i \in 1..Len(Pipeline) : /\ Pipeline'[i].conn = Pipeline[i].conn
                                          /\ Pipeline'[i].n = Pipeline[i].n
<1>1. jobChan \in Seq(Item) /\ msgChan \in Seq(Item) /\ <<>> \in Seq(Item)
  BY SeqMonotonic, EmptySeq DEF Typed, Item
<1>2. /\ Tail(msgChan) \in Seq(Item) /\ Len(Tail(msgChan)) = Len(msgChan) - 1
      /\ Len(msgChan) \in Nat \ {0} /\ Head(msgChan) = msgChan[1]
      /\ \A i \in 1..(Len(msgChan) - 1) : Tail(msgChan)[i] = msgChan[i + 1]
  BY <1>1, HeadTailProperties, EmptySeq DEF LoopMsg
<1>3. <<job'>> \in Seq(Item) /\ Len(<<job'>>) = 1 /\ <<job'>>[1] = job'
  BY DEF Typed, Item, LoopMsg
<1>4. job'.conn = msgChan[1].conn /\ job'.n = msgChan[1].n
  BY <1>2 DEF LoopMsg
<1>5. Pipeline = jobChan \o <<>> \o msgChan
  BY DEF Pipeline, Bound, LoopMsg
<1>6. Pipeline' = jobChan \o <<job'>> \o Tail(msgChan)
  BY DEF Pipeline, Bound, LoopMsg
<1>7. /\ Len(jobChan) \in Nat /\ Len(Pipeline) = Len(jobChan) + Len(msgChan)
      /\ \A i \in 1..(Len(jobChan) + Len(msgChan)) :
           Pipeline[i] = IF i <= Len(jobChan) THEN jobChan[i] ELSE msgChan[i - Len(jobChan)]
  BY <1>1, <1>2, <1>5, ThreeInARow
<1>8. /\ Len(Pipeline') = Len(jobChan) + 1 + (Len(msgChan) - 1)
      /\ \A i \in 1..(Len(jobChan) + 1 + (Len(msgChan) - 1)) :
           Pipeline'[i] = IF i <= Len(jobChan) THEN jobChan[i]
                          ELSE IF i <= Len(jobChan) + 1 THEN <<job'>>[i - Len(jobChan)]
                          ELSE Tail(msgChan)[i - (Len(jobChan) + 1)]
  BY <1>1, <1>2, <1>3, <1>6, ThreeInARow
<1>9. Len(Pipeline') = Len(Pipeline)
  BY <1>2, <1>7, <1>8
<1>10. ASSUME NEW i \in 1..Len(Pipeline)
       PROVE  Pipeline'[i].conn = Pipeline[i].conn /\ Pipeline'[i].n = Pipeline[i].n
  <2>1. i \in 1..(Len(jobChan) + Len(msgChan)) /\ i \in 1..(Len(jobChan) + 1 + (Len(msgChan) - 1))
    BY <1>2, <1>7
  <2>2. CASE i <= Len(jobChan)
    BY <1>7, <1>8, <2>1, <2>2
  <2>3. CASE i = Len(jobChan) + 1
    <3>1. i - Len(jobChan) = 1 /\ ~(i <= Len(jobChan)) /\ i <= Len(jobChan) + 1
      BY <1>7, <2>3
    <3>2. Pipeline'[i] = job' /\ Pipeline[i] = msgChan[1]
      BY <1>3, <1>7, <1>8, <2>1, <3>1
    <3> QED
      BY <1>4, <3>2
  <2>4. CASE i > Len(jobChan) + 1
    <3>1. /\ i - (Len(jobChan) + 1) \in 1..(Len(msgChan) - 1)
          /\ i - (Len(jobChan) + 1) + 1 = i - Len(jobChan)
          /\ ~(i <= Len(jobChan)) /\ ~(i <= Len(jobChan) + 1)
      BY <1>2, <1>7, <2>1, <2>4
    <3>2. Pipeline'[i] = Tail(msgChan)[i - (Len(jobChan) + 1)]
      BY <1>8, <2>1, <3>1
    <3>3. Pipeline[i] = msgChan[i - Len(jobChan)]
      BY <1>7, <2>1, <3>1
    <3> QED
      BY <1>2, <3>1, <3>2, <3>3
  <2> QED
    BY <1>7, <2>1, <2>2, <2>3, <2>4
<1> QED
  BY <1>9, <1>10

\* It hands it on: the pipeline is the same.
LEMMA EnqueuePipeline ==
    ASSUME Typed, LoopEnqueue
    PROVE  Pipeline' = Pipeline
<1>1. /\ jobChan \in Seq(Item) /\ msgChan \in Seq(Item) /\ job \in Item
      /\ Append(jobChan, job) \in Seq(Item)
  BY SeqMonotonic, AppendProperties DEF Typed, LoopEnqueue, Item
<1>2. Append(jobChan, job) = jobChan \o <<job>>
  BY <1>1, AppendIsConcat
<1>3. Append(jobChan, job) \o <<>> = Append(jobChan, job)
  BY <1>1, ConcatEmptySeq
<1> QED
  BY <1>2, <1>3 DEF Pipeline, Bound, LoopEnqueue

\* It gives it up: the others stay in their order.
LEMMA TimeoutPipeline ==
    ASSUME Typed, LoopEnqueueTimeout
    PROVE  \E k \in 1..Len(Pipeline) :
             /\ Len(Pipeline') = Len(Pipeline) - 1
             /\ \A i \in 1..(Len(Pipeline) - 1) :
                  Pipeline'[i] = Pipeline[IF i < k THEN i ELSE i + 1]
<1>1. /\ jobChan \in Seq(Item) /\ msgChan \in Seq(Item) /\ <<>> \in Seq(Item)
      /\ <<job>> \in Seq(Item) /\ Len(<<job>>) = 1
  BY SeqMonotonic, EmptySeq DEF Typed, LoopEnqueueTimeout, Item
<1>2. Pipeline = jobChan \o <<job>> \o msgChan
  BY DEF Pipeline, Bound, LoopEnqueueTimeout
<1>3. Pipeline' = jobChan \o <<>> \o msgChan
  BY DEF Pipeline, Bound, LoopEnqueueTimeout, chanVars
<1>4. /\ Len(jobChan) \in Nat /\ Len(msgChan) \in Nat
      /\ Len(Pipeline) = Len(jobChan) + 1 + Len(msgChan)
      /\ \A i \in 1..(Len(jobChan) + 1 + Len(msgChan)) :
           Pipeline[i] = IF i <= Len(jobChan) THEN jobChan[i]
                         ELSE IF i <= Len(jobChan) + 1 THEN <<job>>[i - Len(jobChan)]
                         ELSE msgChan[i - (Len(jobChan) + 1)]
  BY <1>1, <1>2, ThreeInARow
<1>5. /\ Len(Pipeline') = Len(jobChan) + Len(msgChan)
      /\ \A i \in 1..(Len(jobChan) + Len(msgChan)) :
           Pipeline'[i] = IF i <= Len(jobChan) THEN jobChan[i] ELSE msgChan[i - Len(jobChan)]
  <2>1. Len(<<>>) = 0
    OBVIOUS
  <2>2. /\ Len(Pipeline') = Len(jobChan) + 0 + Len(msgChan)
        /\ \A i \in 1..(Len(jobChan) + 0 + Len(msgChan)) :
             Pipeline'[i] = IF i <= Len(jobChan) THEN jobChan[i]
                            ELSE IF i <= Len(jobChan) + 0 THEN <<>>[i - Len(jobChan)]
                            ELSE msgChan[i - (Len(jobChan) + 0)]
    BY <1>1, <1>3, <2>1, ThreeInARow
  <2> QED
    BY <1>4, <2>2
<1> DEFINE k == Len(jobChan) + 1
<1>6. k \in 1..Len(Pipeline) /\ Len(Pipeline') = Len(Pipeline) - 1
  BY <1>4, <1>5
<1>7. ASSUME NEW i \in 1..(Len(Pipeline) - 1)
      PROVE  Pipeline'[i] = Pipeline[IF i < k THEN i ELSE i + 1]
  <2>1. i \in 1..(Len(jobChan) + Len(msgChan))
    BY <1>4
  <2>2. CASE i < k
    BY <1>4, <1>5, <2>1, <2>2
  <2>3. CASE ~(i < k)
    <3>1. /\ i + 1 \in 1..(Len(jobChan) + 1 + Len(msgChan))
          /\ ~(i <= Len(jobChan)) /\ ~(i + 1 <= Len(jobChan)) /\ ~(i + 1 <= Len(jobChan) + 1)
          /\ i + 1 - (Len(jobChan) + 1) = i - Len(jobChan)
      BY <1>4, <2>1, <2>3
    <3>2. Pipeline[i + 1] = msgChan[i - Len(jobChan)]
      BY <1>4, <3>1
    <3>3. Pipeline'[i] = msgChan[i - Len(jobChan)]
      BY <1>5, <2>1, <3>1
    <3> QED
      BY <2>3, <3>2, <3>3
  <2> QED
    BY <2>2, <2>3
<1> QED
  BY <1>6, <1>7

\* A reader sends its message: it comes last.
LEMMA DeliverPipeline ==
    ASSUME Typed, NEW c \in Conn, Deliver(c), nread[c] > 0
    PROVE  /\ [conn |-> c, n |-> nread[c]] \in Item
           /\ Pipeline' = Append(Pipeline, [conn |-> c, n |-> nread[c]])
<1> DEFINE m == [conn |-> c, n |-> nread[c]]
<1>1. m \in Item
  BY DEF Typed, Item, Msg
<1>2. jobChan \in Seq(Item) /\ msgChan \in Seq(Item)
  BY SeqMonotonic DEF Typed, Item
<1>3. Bound \in Seq(Item)
  BY BoundTyped DEF Typed
<1>4. Pipeline' = jobChan \o Bound \o Append(msgChan, m) /\ Pipeline = jobChan \o Bound \o msgChan
  BY DEF Pipeline, Bound, Deliver, connUnchanged, loopVars
<1>5. jobChan \o Bound \in Seq(Item)
  BY <1>2, <1>3, ConcatProperties
<1> HIDE DEF m
<1>6. Pipeline' = Append(Pipeline, m)
  BY <1>1, <1>2, <1>4, <1>5, SecondSend
<1> QED
  BY <1>1, <1>6 DEF m

\* Spin takes the first job.
LEMMA SpinPipeline ==
    ASSUME Typed, SpinOnce
    PROVE  /\ Pipeline # <<>> /\ Head(Pipeline) = Head(jobChan)
           /\ Pipeline' = Tail(Pipeline)
<1>1. jobChan \in Seq(Item) /\ msgChan \in Seq(Item) /\ jobChan # <<>>
  BY SeqMonotonic DEF Typed, Item, SpinOnce
<1>2. Bound \in Seq(Item)
  BY BoundTyped DEF Typed
<1>3. Pipeline' = Tail(jobChan) \o Bound \o msgChan /\ Pipeline = jobChan \o Bound \o msgChan
  BY DEF Pipeline, Bound, SpinOnce, loopVars
<1>4. Tail(jobChan) \in Seq(Item)
  BY <1>1, HeadTailProperties
<1>5. /\ jobChan \o Bound \o msgChan = jobChan \o (Bound \o msgChan)
      /\ Tail(jobChan) \o Bound \o msgChan = Tail(jobChan) \o (Bound \o msgChan)
  BY SMTT(30), <1>1, <1>2, <1>4, ConcatAssociative
<1>6. Bound \o msgChan \in Seq(Item)
  BY <1>1, <1>2, ConcatProperties
<1> DEFINE others == Bound \o msgChan
<1> HIDE DEF others
<1>7. /\ jobChan \o others # <<>> /\ Head(jobChan \o others) = Head(jobChan)
      /\ Tail(jobChan \o others) = Tail(jobChan) \o others
  BY <1>1, <1>6, FirstReceive DEF others
<1>8. Pipeline = jobChan \o others /\ Pipeline' = Tail(jobChan) \o others
  BY <1>3, <1>5 DEF others
<1> QED
  BY <1>7, <1>8


-----------------------------------------------------------------------------
(* The order is kept *)

\* Whatever leaves the pipeline, what stays is in order.
LEMMA OrderOfRest ==
    ASSUME Typed, Typed', Ordered, UNCHANGED ran, UNCHANGED nread,
           \A c \in Conn : cpc'[c] = "hold" => cpc[c] = "hold",
           NEW at, at \in [1..Len(Pipeline') -> 1..Len(Pipeline)],
           \A i, j \in 1..Len(Pipeline') : i < j => at[i] < at[j],
           \A i \in 1..Len(Pipeline') : /\ Pipeline'[i].conn = Pipeline[at[i]].conn
                                        /\ Pipeline'[i].n = Pipeline[at[i]].n
    PROVE  Ordered'
<1>1. \A i \in 1..Len(Pipeline) : Pipeline[i].conn \in Conn
  BY ItemFields, ElementOfSeq DEF Typed
<1>2. (\A i, j \in 1..Len(Pipeline) :
         i < j /\ Pipeline[i].conn = Pipeline[j].conn => Pipeline[i].n < Pipeline[j].n)'
  BY SMTT(30) DEF Ordered
<1>3. (\A i \in 1..Len(Pipeline) :
         LET m == Pipeline[i] IN
           /\ ran[m.conn] < m.n /\ m.n <= nread[m.conn]
           /\ cpc[m.conn] = "hold" => m.n < nread[m.conn])'
  BY <1>1 DEF Ordered
<1>4. (\A c \in Conn : /\ ran[c] <= nread[c]
                       /\ cpc[c] = "hold" => ran[c] < nread[c])'
  BY DEF Ordered
<1> QED
  BY <1>2, <1>3, <1>4 DEF Ordered

\* Nothing moves.
LEMMA OrderSame ==
    ASSUME Typed, Typed', Ordered, UNCHANGED ran, UNCHANGED nread,
           \A c \in Conn : cpc'[c] = "hold" => cpc[c] = "hold",
           Len(Pipeline') = Len(Pipeline),
           \A i \in 1..Len(Pipeline) : /\ Pipeline'[i].conn = Pipeline[i].conn
                                       /\ Pipeline'[i].n = Pipeline[i].n
    PROVE  Ordered'
<1> DEFINE at == [i \in 1..Len(Pipeline') |-> i]
<1>1. /\ at \in [1..Len(Pipeline') -> 1..Len(Pipeline)]
      /\ \A i, j \in 1..Len(Pipeline') : i < j => at[i] < at[j]
      /\ \A i \in 1..Len(Pipeline') : /\ Pipeline'[i].conn = Pipeline[at[i]].conn
                                      /\ Pipeline'[i].n = Pipeline[at[i]].n
  OBVIOUS
<1> HIDE DEF at
<1> QED
  BY <1>1, OrderOfRest

\* A reader reads one more message.
LEMMA OrderRead ==
    ASSUME Typed, Typed', Ordered, NEW c \in Conn, cpc[c] # "hold",
           cpc' = [cpc EXCEPT ![c] = "hold"], nread' = [nread EXCEPT ![c] = @ + 1],
           Pipeline' = Pipeline, UNCHANGED ran
    PROVE  Ordered'
<1>1. \A i \in 1..Len(Pipeline) : Pipeline[i].conn \in Conn /\ Pipeline[i].n \in Nat
  BY ItemFields, ElementOfSeq DEF Typed
<1>2. (\A i \in 1..Len(Pipeline) :
         LET m == Pipeline[i] IN
           /\ ran[m.conn] < m.n /\ m.n <= nread[m.conn]
           /\ cpc[m.conn] = "hold" => m.n < nread[m.conn])'
  <2> SUFFICES ASSUME NEW i \in 1..Len(Pipeline), NEW m, m = Pipeline[i]
               PROVE  /\ ran[m.conn] < m.n /\ m.n <= nread'[m.conn]
                      /\ cpc'[m.conn] = "hold" => m.n < nread'[m.conn]
    BY Zenon
  <2>1. /\ ran[m.conn] < m.n /\ m.n <= nread[m.conn] /\ m.conn \in Conn /\ m.n \in Nat
        /\ cpc[m.conn] = "hold" => m.n < nread[m.conn]
    BY <1>1 DEF Ordered
  <2> QED
    BY <2>1, SMTT(30) DEF Typed
<1>3. (\A d \in Conn : /\ ran[d] <= nread[d]
                       /\ cpc[d] = "hold" => ran[d] < nread[d])'
  BY DEF Ordered, Typed
<1> QED
  BY <1>2, <1>3 DEF Ordered

\* It sends the message it holds.
LEMMA OrderDeliver ==
    ASSUME Typed, Typed', Ordered, NEW c \in Conn, Deliver(c), nread[c] > 0
    PROVE  Ordered'
<1> DEFINE m == [conn |-> c, n |-> nread[c]]
           p == Pipeline
<1>1. /\ p \in Seq(Item) /\ m \in Item /\ Pipeline' = Append(p, m)
  BY DeliverPipeline DEF Typed
<1>2. m.conn = c /\ m.n = nread[c]
  OBVIOUS
<1>3. /\ cpc[c] = "hold" /\ UNCHANGED nread /\ UNCHANGED ran
      /\ \A d \in Conn : cpc'[d] = "hold" => cpc[d] = "hold" /\ d # c
  BY DEF Deliver, LoopTop, connUnchanged, Typed
<1>4. \A i \in 1..Len(p) : p[i].conn \in Conn /\ p[i].n \in Nat
  BY ItemFields, ElementOfSeq, <1>1
<1> HIDE DEF m
<1>5. /\ Len(Append(p, m)) = Len(p) + 1 /\ Len(p) \in Nat
      /\ \A i \in 1..Len(p) : Append(p, m)[i] = p[i]
      /\ Append(p, m)[Len(p) + 1] = m
  BY <1>1, AppendProperties, LenProperties
<1>6. \A i \in 1..Len(p) : p[i].conn = c => p[i].n < nread[c]
  BY <1>3 DEF Ordered
<1>7. (\A i, j \in 1..Len(Pipeline) :
         i < j /\ Pipeline[i].conn = Pipeline[j].conn => Pipeline[i].n < Pipeline[j].n)'
  <2> SUFFICES ASSUME NEW i \in 1..(Len(p) + 1), NEW j \in 1..(Len(p) + 1), i < j,
                      Append(p, m)[i].conn = Append(p, m)[j].conn
               PROVE  Append(p, m)[i].n < Append(p, m)[j].n
    BY <1>1, <1>5
  <2>1. i \in 1..Len(p) /\ Append(p, m)[i] = p[i]
    BY <1>5
  <2>2. CASE j \in 1..Len(p)
    BY <1>5, <2>1, <2>2 DEF Ordered
  <2>3. CASE j = Len(p) + 1
    BY <1>2, <1>5, <1>6, <2>1, <2>3
  <2> QED
    BY <1>5, <2>2, <2>3
<1>8. (\A i \in 1..Len(Pipeline) :
         LET k == Pipeline[i] IN
           /\ ran[k.conn] < k.n /\ k.n <= nread[k.conn]
           /\ cpc[k.conn] = "hold" => k.n < nread[k.conn])'
  <2> SUFFICES ASSUME NEW i \in 1..(Len(p) + 1), NEW k, k = Append(p, m)[i]
               PROVE  /\ ran[k.conn] < k.n /\ k.n <= nread[k.conn]
                      /\ cpc'[k.conn] = "hold" => k.n < nread[k.conn]
    BY <1>1, <1>3, <1>5
  <2>1. CASE i \in 1..Len(p)
    <3>1. k = p[i]
      BY <1>5, <2>1
    <3> QED
      BY <1>3, <1>4, <2>1, <3>1 DEF Ordered
  <2>2. CASE i = Len(p) + 1
    <3>1. k = m
      BY <1>5, <2>2
    <3>2. ran[c] < nread[c] /\ nread[c] \in Nat
      BY <1>3 DEF Ordered, Typed
    <3> QED
      BY <1>2, <1>3, <3>1, <3>2
  <2> QED
    BY <1>5, <2>1, <2>2
<1>9. (\A d \in Conn : /\ ran[d] <= nread[d]
                       /\ cpc[d] = "hold" => ran[d] < nread[d])'
  BY <1>3 DEF Ordered
<1> QED
  BY <1>7, <1>8, <1>9 DEF Ordered

\* Spin runs the oldest job.
LEMMA OrderSpin ==
    ASSUME Typed, Typed', Ordered, SpinOnce
    PROVE  Ordered'
<1> DEFINE p == Pipeline
<1>1. p \in Seq(Item) /\ p # <<>> /\ Head(p) = Head(jobChan) /\ Pipeline' = Tail(p)
  BY SpinPipeline DEF Typed
<1>2. /\ Head(p) = p[1] /\ Len(p) \in Nat \ {0} /\ Len(Tail(p)) = Len(p) - 1
      /\ \A i \in 1..(Len(p) - 1) : Tail(p)[i] = p[i + 1]
  BY <1>1, ChanReceive
<1>3. \A i \in 1..Len(p) : p[i].conn \in Conn /\ p[i].n \in Nat
  BY ItemFields, ElementOfSeq, <1>1
<1>4. ran' = [ran EXCEPT ![p[1].conn] = p[1].n] /\ UNCHANGED <<nread, cpc>>
  BY <1>1, <1>2 DEF SpinOnce, connVars
<1>5. \A i \in 1..Len(Pipeline') : i + 1 \in 1..Len(p) /\ Pipeline'[i] = p[i + 1]
  BY <1>1, <1>2
<1>6. (\A i, j \in 1..Len(Pipeline) :
         i < j /\ Pipeline[i].conn = Pipeline[j].conn => Pipeline[i].n < Pipeline[j].n)'
  BY <1>5 DEF Ordered
<1>7. (\A i \in 1..Len(Pipeline) :
         LET k == Pipeline[i] IN
           /\ ran[k.conn] < k.n /\ k.n <= nread[k.conn]
           /\ cpc[k.conn] = "hold" => k.n < nread[k.conn])'
  <2> SUFFICES ASSUME NEW i \in 1..Len(Pipeline'), NEW k, k = p[i + 1]
               PROVE  /\ ran'[k.conn] < k.n /\ k.n <= nread[k.conn]
                      /\ cpc[k.conn] = "hold" => k.n < nread[k.conn]
    BY <1>4, <1>5
  <2>1. /\ ran[k.conn] < k.n /\ k.n <= nread[k.conn] /\ k.conn \in Conn
        /\ cpc[k.conn] = "hold" => k.n < nread[k.conn]
    BY <1>3, <1>5 DEF Ordered
  <2>2. k.conn = p[1].conn => p[1].n < k.n
    BY <1>2, <1>5 DEF Ordered
  <2> QED
    BY <1>4, <2>1, <2>2 DEF Typed
<1>8. (\A d \in Conn : /\ ran[d] <= nread[d]
                       /\ cpc[d] = "hold" => ran[d] < nread[d])'
  BY <1>2, <1>3, <1>4 DEF Ordered, Typed
<1> QED
  BY <1>6, <1>7, <1>8 DEF Ordered

\* The loop gives up a message nobody made room for.
LEMMA OrderTimeout ==
    ASSUME Typed, Typed', Ordered, LoopEnqueueTimeout
    PROVE  Ordered'
<1>1. PICK k \in 1..Len(Pipeline) :
        /\ Len(Pipeline') = Len(Pipeline) - 1
        /\ \A i \in 1..(Len(Pipeline) - 1) :
             Pipeline'[i] = Pipeline[IF i < k THEN i ELSE i + 1]
  BY TimeoutPipeline
<1>2. Len(Pipeline) \in Nat
  BY LenProperties DEF Typed
<1> DEFINE at == [i \in 1..Len(Pipeline') |-> IF i < k THEN i ELSE i + 1]
<1>3. /\ at \in [1..Len(Pipeline') -> 1..Len(Pipeline)]
      /\ \A i, j \in 1..Len(Pipeline') : i < j => at[i] < at[j]
      /\ \A i \in 1..Len(Pipeline') : Pipeline'[i] = Pipeline[at[i]]
  BY <1>1, <1>2
<1>4. UNCHANGED ran /\ UNCHANGED nread /\ UNCHANGED cpc
  BY DEF LoopEnqueueTimeout, connVars
<1> HIDE DEF at
<1> QED
  BY <1>3, <1>4, OrderOfRest

\* Steps that matter to no message: all are where they were.
Quiet ==
    /\ Pipeline' = Pipeline /\ UNCHANGED nread /\ UNCHANGED ran
    /\ \A c \in Conn : cpc'[c] = "hold" <=> cpc[c] = "hold"

\* Reader c has read one more message.
ReadsOne(c) ==
    /\ cpc[c] # "hold" /\ cpc' = [cpc EXCEPT ![c] = "hold"]
    /\ nread' = [nread EXCEPT ![c] = @ + 1]
    /\ Pipeline' = Pipeline /\ UNCHANGED ran

\* The steps that move a message, and all the others.
LEMMA StepKinds ==
    ASSUME Typed, [Next]_vars
    PROVE  \/ LoopMsg \/ LoopEnqueueTimeout \/ SpinOnce
           \/ \E c \in Conn : ReadsOne(c) \/ Deliver(c) \/ DropHeld(c)
           \/ Quiet
<1>1. CASE \E c \in Conn : TimelyConnStep(c) \/ Handshake(c)
  <2>1. PICK c \in Conn : TimelyConnStep(c) \/ Handshake(c)
    BY <1>1
  <2>2. CASE Deliver(c) \/ DropHeld(c)
    BY <2>2
  <2>3. CASE ReadBody(c) /\ Goto(c, "hold") /\ nread' = [nread EXCEPT ![c] = @ + 1]
    <3>1. ReadsOne(c)
      BY <2>3 DEF ReadBody, Goto, ReadsOne, connUnchanged, loopVars, Pipeline, Bound
    <3> QED
      BY <3>1
  <2>4. CASE \/ Dial(c) \/ Handshake(c) \/ ReadSize(c) \/ Notify(c)
             \/ ReadBody(c) /\ \E next \in {"dial", "notify"} : Goto(c, next) /\ UNCHANGED nread
    <3>1. /\ connUnchanged /\ UNCHANGED msgChan /\ UNCHANGED nread /\ cpc[c] # "hold"
          /\ \E next \in {"dial", "handshake", "size", "body", "notify", "exited"} :
               LoopTop(c, next) \/ Goto(c, next)
      BY <2>4 DEF Dial, Handshake, ReadSize, Notify, ReadBody
    <3>2. PICK next \in {"dial", "handshake", "size", "body", "notify", "exited"} :
            cpc' = [cpc EXCEPT ![c] = next]
      BY <3>1 DEF LoopTop, Goto
    <3>3. Pipeline' = Pipeline /\ UNCHANGED nread /\ UNCHANGED ran
      BY <3>1 DEF connUnchanged, loopVars, Pipeline, Bound
    <3>4. \A d \in Conn : cpc'[d] = "hold" <=> cpc[d] = "hold"
      BY <3>1, <3>2 DEF Typed
    <3> QED
      BY <3>3, <3>4 DEF Quiet
  <2> QED
    BY <2>1, <2>2, <2>3, <2>4 DEF TimelyConnStep, ReadBody
<1>2. CASE LoopEnqueue
  BY <1>2, EnqueuePipeline DEF Quiet, LoopEnqueue, connVars
<1>3. CASE \/ LoopPubList \/ LoopUpdated \/ LoopDisconnected \/ LoopShutdown \/ LoopUnregister
           \/ \E p \in Pub : LoopQuitDead(p) \/ RequestPanics(p)
  BY <1>3 DEF Quiet, LoopPubList, LoopUpdated, LoopDisconnected, LoopShutdown,
     LoopUnregister, LoopQuitDead, RequestPanics, Pipeline, Bound, chanVars, connVars
<1>4. ASSUME NEW p \in Pub, NEW outcome \in RequestOutcome, LoopRequest(p, outcome)
      PROVE  Quiet
  <2>1. Pipeline' = Pipeline /\ UNCHANGED nread /\ UNCHANGED ran
    BY <1>4 DEF LoopRequest, Pipeline, Bound, chanVars
  <2>2. \A c \in Conn : cpc'[c] = "hold" <=> cpc[c] = "hold"
    BY <1>4 DEF LoopRequest, Typed
  <2> QED
    BY <2>1, <2>2 DEF Quiet
<1>5. CASE \/ \E list \in SUBSET Pub : publisherUpdate(list)
           \/ AppendLength \/ AppendElement \/ Shutdown \/ UNCHANGED vars
  BY <1>5 DEF Quiet, publisherUpdate, AppendLength, AppendElement, Shutdown, vars,
     Pipeline, Bound, chanVars, connVars, loopVars
<1> QED
  BY <1>1, <1>2, <1>3, <1>4, <1>5
  DEF Next, LoopStep, LoopOwnStep, LoopAnswered

\* Every step keeps the messages in order.
LEMMA OrderStep == OrderInv /\ [Next]_vars => OrderInv'
<1> SUFFICES ASSUME IndInv, Ordered, [Next]_vars PROVE IndInv' /\ Ordered'
  BY DEF OrderInv
<1>1. IndInv'
  BY StepInd
<1>2. Typed /\ Typed'
  BY <1>1, IndTyped, PTL
<1>3. \A c \in Conn : cpc[c] = "hold" => nread[c] > 0
  BY DEF IndInv, ReadOK
<1>4. CASE LoopMsg
  <2>1. /\ Len(Pipeline') = Len(Pipeline)
        /\ \A i \in 1..Len(Pipeline) : /\ Pipeline'[i].conn = Pipeline[i].conn
                                       /\ Pipeline'[i].n = Pipeline[i].n
    BY <1>2, <1>4, MsgPipeline
  <2> QED
    BY <1>1, <1>2, <1>4, <2>1, OrderSame DEF LoopMsg, connVars
<1>5. CASE LoopEnqueueTimeout
  BY <1>1, <1>2, <1>5, OrderTimeout
<1>6. CASE SpinOnce
  BY <1>1, <1>2, <1>6, OrderSpin
<1>7. ASSUME NEW c \in Conn, ReadsOne(c) PROVE Ordered'
  BY <1>2, <1>7, OrderRead DEF ReadsOne
<1>8. ASSUME NEW c \in Conn, Deliver(c) PROVE Ordered'
  BY <1>2, <1>3, <1>8, OrderDeliver DEF Deliver
<1>9. ASSUME NEW c \in Conn, DropHeld(c) PROVE Ordered'
  <2>1. Pipeline' = Pipeline /\ UNCHANGED nread /\ UNCHANGED ran
    BY <1>9 DEF DropHeld, connUnchanged, loopVars, Pipeline, Bound
  <2>2. \A d \in Conn : cpc'[d] = "hold" => cpc[d] = "hold"
    BY <1>2, <1>9 DEF DropHeld, LoopTop, Typed
  <2> QED
    BY <1>2, <2>1, <2>2, OrderSame
<1>10. CASE Quiet
  BY <1>1, <1>2, <1>10, OrderSame DEF Quiet
<1> QED
  BY <1>1, <1>2, <1>4, <1>5, <1>6, <1>7, <1>8, <1>9, <1>10, StepKinds

\* Message by message or by connection, the order is the same property.
LEMMA OrderedInOrder == Typed /\ Ordered => InOrder
<1> SUFFICES ASSUME Typed, Ordered PROVE InOrder
  OBVIOUS
<1>1. \A c \in Conn : \A n \in Waiting(c) :
        ran[c] < n /\ n <= nread[c] /\ (cpc[c] = "hold" => n < nread[c])
  BY DEF Ordered, Waiting
<1>2. \A c \in Conn : \A n \in InFlight(c) : ran[c] < n
  BY <1>1 DEF Ordered, InFlight
<1> QED
  BY <1>1, <1>2 DEF InOrder, Ordered

\* A subscription starts without messages.
LEMMA OrderInit == Init => OrderInv
<1> SUFFICES ASSUME Init PROVE Ordered
  BY InitInd DEF OrderInv
<1>1. Pipeline = <<>>
  BY EmptySeq, ConcatEmptySeq DEF Init, Pipeline, Bound
<1> QED
  BY <1>1 DEF Init, Ordered

\* The messages are in order in every reachable state.
LEMMA OrderInvariance == Spec => []OrderInv
BY OrderInit, OrderStep, PTL DEF Spec

\* A connection's messages reach the callbacks in the order they were read and
\* at most once each, for any number of connections, messages and capacities.
THEOREM MessagesInOrder == Spec => []InOrder
<1>1. OrderInv => InOrder
  BY IndTyped, OrderedInOrder DEF OrderInv
<1> QED
  BY <1>1, OrderInvariance, PTL

-----------------------------------------------------------------------------
(* A subscription implements a lossy feed *)

\* What waits, and what is in flight, by its place in the pipeline.
LEMMA WaitingIs ==
    ASSUME NEW c
    PROVE  \A n : n \in Waiting(c) <=>
             \E i \in 1..Len(Pipeline) : Pipeline[i].conn = c /\ Pipeline[i].n = n
BY DEF Waiting

\* The same connections and numbers at the same places are the same flight.
LEMMA FlightSame ==
    ASSUME \A c \in Conn : cpc'[c] = "hold" <=> cpc[c] = "hold", UNCHANGED nread,
           Len(Pipeline') = Len(Pipeline),
           \A i \in 1..Len(Pipeline) : /\ Pipeline'[i].conn = Pipeline[i].conn
                                       /\ Pipeline'[i].n = Pipeline[i].n
    PROVE  \A c \in Conn : InFlight(c)' = InFlight(c)
<1> SUFFICES ASSUME NEW c \in Conn PROVE InFlight(c)' = InFlight(c)
  OBVIOUS
<1>1. Waiting(c)' = Waiting(c)
  BY DEF Waiting
<1> QED
  BY <1>1 DEF InFlight

\* A message that is sent stays in flight.
LEMMA FlightDeliver ==
    ASSUME Typed, NEW c \in Conn, Deliver(c), nread[c] > 0
    PROVE  \A d \in Conn : InFlight(d)' = InFlight(d)
<1> DEFINE m == [conn |-> c, n |-> nread[c]]
<1>1. m.conn = c /\ m.n = nread[c]
  OBVIOUS
<1>2. /\ Pipeline \in Seq(Item) /\ m \in Item /\ Pipeline' = Append(Pipeline, m)
  BY DeliverPipeline DEF Typed
<1> HIDE DEF m
<1>3. /\ Len(Pipeline') = Len(Pipeline) + 1 /\ Len(Pipeline) \in Nat
      /\ \A i \in 1..Len(Pipeline) : Pipeline'[i] = Pipeline[i]
      /\ Pipeline'[Len(Pipeline) + 1] = m
  BY <1>2, AppendProperties, LenProperties
<1>4. /\ cpc[c] = "hold" /\ cpc'[c] # "hold" /\ UNCHANGED nread
      /\ \A d \in Conn \ {c} : cpc'[d] = cpc[d]
  BY DEF Deliver, LoopTop, Typed
<1> SUFFICES ASSUME NEW d \in Conn PROVE InFlight(d)' = InFlight(d)
  OBVIOUS
<1>5. CASE d = c
  <2>1. Waiting(c)' = Waiting(c) \cup {nread[c]}
    <3>1. ASSUME NEW n \in Waiting(c)' PROVE n \in Waiting(c) \cup {nread[c]}
      <4>1. PICK i \in 1..Len(Pipeline') : Pipeline'[i].conn = c /\ Pipeline'[i].n = n
        BY <3>1 DEF Waiting
      <4>2. CASE i = Len(Pipeline) + 1
        BY <1>1, <1>3, <4>1, <4>2
      <4>3. CASE i \in 1..Len(Pipeline)
        BY <1>3, <4>1, <4>3, WaitingIs
      <4> QED
        BY <1>3, <4>2, <4>3
    <3>2. Waiting(c) \subseteq Waiting(c)'
      BY <1>3 DEF Waiting
    <3>3. nread[c] \in Waiting(c)'
      BY <1>1, <1>3 DEF Waiting
    <3> QED
      BY <3>1, <3>2, <3>3
  <2> QED
    BY <1>4, <1>5, <2>1 DEF InFlight
<1>6. CASE d # c
  <2>1. Waiting(d)' = Waiting(d)
    <3>1. ASSUME NEW n \in Waiting(d)' PROVE n \in Waiting(d)
      <4>1. PICK i \in 1..Len(Pipeline') : Pipeline'[i].conn = d /\ Pipeline'[i].n = n
        BY <3>1 DEF Waiting
      <4>2. i \in 1..Len(Pipeline)
        BY <1>1, <1>3, <1>6, <4>1
      <4> QED
        BY <1>3, <4>1, <4>2, WaitingIs
    <3>2. Waiting(d) \subseteq Waiting(d)'
      BY <1>3 DEF Waiting
    <3> QED
      BY <3>1, <3>2
  <2> QED
    BY <1>4, <1>6, <2>1 DEF InFlight
<1> QED
  BY <1>5, <1>6

\* When one message leaves the pipeline its connection loses it, and only it.
LEMMA FlightWithout ==
    ASSUME Typed, Typed', Ordered, UNCHANGED cpc, UNCHANGED nread,
           NEW k \in 1..Len(Pipeline),
           Len(Pipeline') = Len(Pipeline) - 1,
           \A i \in 1..(Len(Pipeline) - 1) :
             Pipeline'[i] = Pipeline[IF i < k THEN i ELSE i + 1]
    PROVE  /\ Pipeline[k].n \in InFlight(Pipeline[k].conn)
           /\ \A c \in Conn :
                InFlight(c)' = IF c = Pipeline[k].conn
                                 THEN InFlight(c) \ {Pipeline[k].n} ELSE InFlight(c)
<1>1. Len(Pipeline) \in Nat
  BY LenProperties DEF Typed
<1>2. \A i \in 1..Len(Pipeline) : Pipeline[i].conn \in Conn /\ Pipeline[i].n \in Nat
  BY ItemFields, ElementOfSeq DEF Typed
<1>3. Pipeline[k].n \in InFlight(Pipeline[k].conn)
  BY DEF InFlight, Waiting
<1>4. ASSUME NEW c \in Conn
      PROVE  InFlight(c)' = IF c = Pipeline[k].conn
                              THEN InFlight(c) \ {Pipeline[k].n} ELSE InFlight(c)
  <2>1. \A n : n \in Waiting(c)' <=>
          \E i \in 1..Len(Pipeline) : i # k /\ Pipeline[i].conn = c /\ Pipeline[i].n = n
    <3>1. ASSUME NEW n \in Waiting(c)'
          PROVE  \E i \in 1..Len(Pipeline) : i # k /\ Pipeline[i].conn = c /\ Pipeline[i].n = n
      <4>1. PICK j \in 1..(Len(Pipeline) - 1) : Pipeline'[j].conn = c /\ Pipeline'[j].n = n
        BY <3>1 DEF Waiting
      <4>2. CASE j < k
        <5>1. j \in 1..Len(Pipeline) /\ j # k /\ Pipeline'[j] = Pipeline[j]
          BY <1>1, <4>2
        <5> QED
          BY <4>1, <5>1
      <4>3. CASE ~(j < k)
        <5>1. j + 1 \in 1..Len(Pipeline) /\ j + 1 # k /\ Pipeline'[j] = Pipeline[j + 1]
          BY <1>1, <4>3
        <5> QED
          BY <4>1, <5>1
      <4> QED
        BY <4>2, <4>3
    <3>2. ASSUME NEW n, NEW i \in 1..Len(Pipeline), i # k, Pipeline[i].conn = c,
                 Pipeline[i].n = n
          PROVE  n \in Waiting(c)'
      <4>1. CASE i < k
        <5>1. i \in 1..(Len(Pipeline) - 1) /\ Pipeline'[i] = Pipeline[i]
          BY <1>1, <4>1
        <5> QED
          BY <3>2, <5>1 DEF Waiting
      <4>2. CASE i > k
        <5>1. /\ i - 1 \in 1..(Len(Pipeline) - 1) /\ ~(i - 1 < k) /\ (i - 1) + 1 = i
          BY <1>1, <4>2
        <5>2. Pipeline'[i - 1] = Pipeline[i]
          BY <5>1
        <5> QED
          BY <3>2, <5>1, <5>2 DEF Waiting
      <4> QED
        BY <1>1, <3>2, <4>1, <4>2
    <3> QED
      BY <3>1, <3>2
  <2>2. Waiting(c)' = IF c = Pipeline[k].conn THEN Waiting(c) \ {Pipeline[k].n} ELSE Waiting(c)
    <3>1. \A i \in 1..Len(Pipeline) :
            i # k /\ Pipeline[i].conn = Pipeline[k].conn => Pipeline[i].n # Pipeline[k].n
      BY <1>1, <1>2 DEF Ordered
    <3>2. \A n : n \in Waiting(c) <=>
            \E i \in 1..Len(Pipeline) : Pipeline[i].conn = c /\ Pipeline[i].n = n
      BY WaitingIs
    <3>3. CASE c = Pipeline[k].conn
      <4>1. \A n : n \in Waiting(c)' <=> n \in Waiting(c) \ {Pipeline[k].n}
        BY <2>1, <3>1, <3>2, <3>3
      <4> QED
        BY <3>3, <4>1
    <3>4. CASE c # Pipeline[k].conn
      <4>1. \A n : n \in Waiting(c)' <=> n \in Waiting(c)
        BY <2>1, <3>2, <3>4
      <4> QED
        BY <3>4, <4>1
    <3> QED
      BY <3>3, <3>4
  <2>3. cpc[c] = "hold" /\ c = Pipeline[k].conn => Pipeline[k].n # nread[c]
    BY <1>2 DEF Ordered, Typed
  <2> QED
    BY <2>2, <2>3 DEF InFlight
<1> QED
  BY <1>3, <1>4

\* The messages of each connection that are in flight, as the feeds see them.
Transit == [c \in Conn |-> InFlight(c)]

\* Nothing has been read: the feeds are empty.
LEMMA FeedInit == Init => Feeds!Init
<1> SUFFICES ASSUME Init PROVE Feeds!Init
  OBVIOUS
<1>1. Pipeline = <<>> /\ Len(Pipeline) = 0
  BY EmptySeq, ConcatEmptySeq DEF Init, Pipeline, Bound
<1>2. \A c \in Conn : InFlight(c) = {}
  BY <1>1 DEF Init, InFlight, Waiting
<1> QED
  BY <1>2 DEF Init, Feeds!Init

\* A message that leaves without reaching a callback is lost.
LEMMA FeedLose ==
    ASSUME NEW c \in Conn, NEW n \in InFlight(c), UNCHANGED nread, UNCHANGED ran,
           \A d \in Conn :
             InFlight(d)' = IF d = c THEN InFlight(d) \ {n} ELSE InFlight(d)
    PROVE  Feeds!Lose(c)
<1>1. Transit' = [Transit EXCEPT ![c] = @ \ {n}] /\ n \in Transit[c]
  BY DEF Transit
<1> QED
  BY <1>1 DEF Feeds!Lose, Transit

\* A step that leaves every flight as it was is none for the feeds.
LEMMA FeedStutter ==
    ASSUME UNCHANGED nread, UNCHANGED ran, \A c \in Conn : InFlight(c)' = InFlight(c)
    PROVE  UNCHANGED Feeds!vars
BY DEF Feeds!vars

\* A message read from the socket is offered.
LEMMA FeedOffer ==
    ASSUME Typed, Typed', NEW c \in Conn, ReadsOne(c)
    PROVE  Feeds!Offer(c)
<1>1. \A d \in Conn : Waiting(d)' = Waiting(d)
  BY DEF ReadsOne, Waiting
<1>2. /\ nread'[c] \in Nat /\ nread'[c] = nread[c] + 1 /\ nread[c] \in Nat
      /\ nread' = [nread EXCEPT ![c] = nread'[c]]
      /\ \A d \in Conn \ {c} : nread'[d] = nread[d] /\ cpc'[d] = cpc[d]
      /\ cpc[c] # "hold" /\ cpc'[c] = "hold" /\ UNCHANGED ran
  BY DEF ReadsOne, Typed
<1>3. \A d \in Conn :
        InFlight(d)' = IF d = c THEN InFlight(d) \cup {nread'[c]} ELSE InFlight(d)
  BY <1>1, <1>2 DEF InFlight
<1>4. Transit' = [Transit EXCEPT ![c] = @ \cup {nread'[c]}]
  BY <1>3 DEF Transit
<1> QED
  BY <1>2, <1>4 DEF Feeds!Offer, Transit

\* The job Spin runs is the oldest message of its connection: it is taken.
LEMMA FeedTake ==
    ASSUME Typed, Typed', Ordered, SpinOnce
    PROVE  \E c \in Conn : Feeds!Take(c)
<1> DEFINE p == Pipeline
           c == p[1].conn
           n == p[1].n
<1>1. p \in Seq(Item) /\ p # <<>> /\ Head(p) = Head(jobChan) /\ Pipeline' = Tail(p)
  BY SpinPipeline DEF Typed
<1>2. /\ Head(p) = p[1] /\ Len(p) \in Nat \ {0} /\ Len(Tail(p)) = Len(p) - 1
      /\ \A i \in 1..(Len(p) - 1) : Tail(p)[i] = p[i + 1]
  BY <1>1, ChanReceive
<1>3. \A i \in 1..Len(p) : p[i].conn \in Conn /\ p[i].n \in Nat
  BY ItemFields, ElementOfSeq, <1>1
<1>4. ran' = [ran EXCEPT ![c] = n] /\ UNCHANGED nread /\ UNCHANGED cpc
  BY <1>1, <1>2 DEF SpinOnce, connVars
<1>5. \A i \in 1..(Len(p) - 1) : Pipeline'[i] = p[IF i < 1 THEN i ELSE i + 1]
  BY <1>1, <1>2
<1>6. /\ 1 \in 1..Len(Pipeline) /\ Len(Pipeline') = Len(Pipeline) - 1
  BY <1>1, <1>2
<1>7. /\ n \in InFlight(c)
      /\ \A d \in Conn : InFlight(d)' = IF d = c THEN InFlight(d) \ {n} ELSE InFlight(d)
  BY <1>4, <1>5, <1>6, FlightWithout
<1>8. \A m \in InFlight(c) : n <= m
  <2> SUFFICES ASSUME NEW m \in InFlight(c) PROVE n <= m
    OBVIOUS
  <2>1. CASE m \in Waiting(c)
    <3>1. PICK i \in 1..Len(p) : p[i].conn = c /\ p[i].n = m
      BY <2>1, WaitingIs
    <3>2. 1 < i => n < m
      BY <1>6, <3>1 DEF Ordered
    <3> QED
      BY <1>2, <1>3, <3>1, <3>2
  <2>2. CASE cpc[c] = "hold" /\ m = nread[c]
    BY <1>3, <1>6, <2>2 DEF Ordered
  <2> QED
    BY <2>1, <2>2 DEF InFlight
<1>9. c \in Conn
  BY <1>3, <1>6
<1> HIDE DEF c, n
<1>10. Transit' = [Transit EXCEPT ![c] = @ \ {n}] /\ Transit[c] = InFlight(c)
  BY <1>7, <1>9 DEF Transit
<1>11. Feeds!Take(c)
  BY ZenonT(30), <1>4, <1>7, <1>8, <1>10 DEF Feeds!Take, Transit
<1> QED
  BY <1>9, <1>11

\* Every step of the subscription is a step of one feed, or of none.
LEMMA FeedStep == OrderInv /\ [Next]_vars => [Feeds!Next]_(Feeds!vars)
<1> SUFFICES ASSUME IndInv, Ordered, [Next]_vars PROVE [Feeds!Next]_(Feeds!vars)
  BY DEF OrderInv
<1>1. Typed /\ Typed'
  <2>1. IndInv'
    BY StepInd
  <2> QED
    BY <2>1, IndTyped, PTL
<1>2. \A c \in Conn : cpc[c] = "hold" => nread[c] > 0
  BY DEF IndInv, ReadOK
<1>3. CASE LoopMsg
  <2>1. /\ Len(Pipeline') = Len(Pipeline)
        /\ \A i \in 1..Len(Pipeline) : /\ Pipeline'[i].conn = Pipeline[i].conn
                                       /\ Pipeline'[i].n = Pipeline[i].n
    BY <1>1, <1>3, MsgPipeline
  <2>2. UNCHANGED cpc /\ UNCHANGED nread /\ UNCHANGED ran
    BY <1>3 DEF LoopMsg, connVars
  <2> QED
    BY <2>1, <2>2, FlightSame, FeedStutter
<1>4. CASE LoopEnqueueTimeout
  <2>1. PICK k \in 1..Len(Pipeline) :
          /\ Len(Pipeline') = Len(Pipeline) - 1
          /\ \A i \in 1..(Len(Pipeline) - 1) :
               Pipeline'[i] = Pipeline[IF i < k THEN i ELSE i + 1]
    BY <1>1, <1>4, TimeoutPipeline
  <2>2. UNCHANGED cpc /\ UNCHANGED nread /\ UNCHANGED ran
    BY <1>4 DEF LoopEnqueueTimeout, connVars
  <2>3. /\ Pipeline[k].n \in InFlight(Pipeline[k].conn)
        /\ \A c \in Conn :
             InFlight(c)' = IF c = Pipeline[k].conn
                              THEN InFlight(c) \ {Pipeline[k].n} ELSE InFlight(c)
    BY <1>1, <2>1, <2>2, FlightWithout
  <2>4. Pipeline[k].conn \in Conn
    BY <1>1, ItemFields, ElementOfSeq DEF Typed
  <2>5. Feeds!Lose(Pipeline[k].conn)
    BY <2>2, <2>3, <2>4, FeedLose
  <2> QED
    BY <2>4, <2>5 DEF Feeds!Next
<1>5. CASE SpinOnce
  BY <1>1, <1>5, FeedTake DEF Feeds!Next
<1>6. ASSUME NEW c \in Conn, ReadsOne(c) PROVE Feeds!Next
  BY <1>1, <1>6, FeedOffer DEF Feeds!Next
<1>7. ASSUME NEW c \in Conn, Deliver(c) PROVE UNCHANGED Feeds!vars
  <2>1. \A d \in Conn : InFlight(d)' = InFlight(d)
    BY <1>1, <1>2, <1>7, FlightDeliver DEF Deliver
  <2>2. UNCHANGED nread /\ UNCHANGED ran
    BY <1>7 DEF Deliver, connUnchanged
  <2> QED
    BY <2>1, <2>2, FeedStutter
<1>8. ASSUME NEW c \in Conn, DropHeld(c) PROVE Feeds!Next
  <2>1. /\ cpc[c] = "hold" /\ cpc'[c] # "hold" /\ UNCHANGED nread /\ UNCHANGED ran
        /\ \A d \in Conn \ {c} : cpc'[d] = cpc[d]
    BY <1>1, <1>8 DEF DropHeld, LoopTop, connUnchanged, Typed
  <2>2. \A d \in Conn : Waiting(d)' = Waiting(d)
    BY <1>8 DEF DropHeld, connUnchanged, loopVars, Waiting, Pipeline, Bound
  <2>3. nread[c] \notin Waiting(c)
    <3>1. \A i \in 1..Len(Pipeline) : Pipeline[i].conn = c => Pipeline[i].n < nread[c]
      BY <2>1 DEF Ordered
    <3>2. \A i \in 1..Len(Pipeline) : Pipeline[i].n \in Nat
      BY <1>1, ItemFields, ElementOfSeq DEF Typed
    <3>3. ASSUME nread[c] \in Waiting(c) PROVE FALSE
      <4>1. PICK i \in 1..Len(Pipeline) : Pipeline[i].conn = c /\ Pipeline[i].n = nread[c]
        BY <3>3, WaitingIs
      <4> QED
        BY <3>1, <3>2, <4>1
    <3> QED
      BY <3>3
  <2>4. /\ nread[c] \in InFlight(c)
        /\ \A d \in Conn :
             InFlight(d)' = IF d = c THEN InFlight(d) \ {nread[c]} ELSE InFlight(d)
    BY <2>1, <2>2, <2>3 DEF InFlight
  <2> QED
    BY <2>1, <2>4, FeedLose DEF Feeds!Next
<1>9. CASE Quiet
  BY <1>9, FlightSame, FeedStutter DEF Quiet
<1> QED
  BY <1>1, <1>3, <1>4, <1>5, <1>6, <1>7, <1>8, <1>9, StepKinds

\* A subscription implements one lossy feed per connection: the reader offers
\* what it reads, a full msgChan and a full jobChan lose, Spin takes the oldest.
THEOREM ImplementsFeed == Spec => DeliversFeed
<1>1. Init => Feeds!Init
  BY FeedInit
<1>2. OrderInv /\ [Next]_vars => [Feeds!Next]_(Feeds!vars)
  BY FeedStep
<1> QED
  BY <1>1, <1>2, OrderInvariance, PTL DEF Spec, DeliversFeed, Feeds!Spec

\* What holds of every lossy feed holds of a subscription.
Lossy == INSTANCE LossyFifoProofs WITH
    Feed <- Conn, offered <- nread, taken <- ran,
    transit <- [c \in Conn |-> InFlight(c)]

\* A callback is handed no message of a connection twice, none after a newer
\* one, and none that was not read.
THEOREM HandedOnOnce == Spec => Feeds!OnceInOrder
<1>1. Lossy!Spec => Lossy!OnceInOrder
  BY Lossy!FeedsOnceInOrder
<1>2. Lossy!Spec <=> Feeds!Spec
  BY PTL DEF Lossy!Spec, Feeds!Spec, Lossy!Init, Feeds!Init, Lossy!vars, Feeds!vars,
     Lossy!Next, Feeds!Next, Lossy!Offer, Feeds!Offer, Lossy!Skip, Feeds!Skip,
     Lossy!Lose, Feeds!Lose, Lossy!Take, Feeds!Take
<1>3. Lossy!OnceInOrder <=> Feeds!OnceInOrder
  BY PTL DEF Lossy!OnceInOrder, Feeds!OnceInOrder, Lossy!vars, Feeds!vars
<1> QED
  BY <1>1, <1>2, <1>3, ImplementsFeed DEF DeliversFeed
=============================================================================
