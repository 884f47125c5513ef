----------------------------- MODULE Publisher ------------------------------
(***************************************************************************)
(* One advertised topic of a node (src/ros/publisher.go): the loop         *)
(* goroutine, the goroutine that accepts subscribers, one session          *)
(* goroutine per subscriber, and the callers: Publish, Shutdown and the    *)
(* connect callback's SingleSubscriberPublisher.                           *)
(*                                                                         *)
(* A published message is its number in the order it entered msgChan; a    *)
(* message for one subscriber is One.  Contents are left out.  A session   *)
(* has an identity in Sess, used once.                                     *)
(***************************************************************************)
EXTENDS Naturals, Sequences, SequencesExt

CONSTANTS
    Sess,           \* identities of sessions, one per accepted connection
    NoSess,         \* "no session"
    ConnectCallback,\* the publisher was made with a connect callback
    MayFail,        \* what may go wrong: "accept", "header", "write"
    ChanCap,        \* capacity of the publisher's channels (10 in the code)
    SessCap,        \* capacity of a session's msgChan (10 in the code)
    QueueMax,       \* size of a session's own queue (100 in the code)
    MaxMsg,         \* bound: messages published
    MaxShutdowns    \* bound: calls of Shutdown

ASSUME SessAssumption == NoSess \notin Sess
ASSUME FailAssumption == MayFail \subseteq {"accept", "header", "write"}
ASSUME CallbackAssumption == ConnectCallback \in BOOLEAN
ASSUME BoundsAssumption ==
    /\ ChanCap \in Nat \ {0} /\ SessCap \in Nat \ {0} /\ QueueMax \in Nat \ {0}
    /\ MaxMsg \in Nat /\ MaxShutdowns \in Nat /\ MaxShutdowns <= ChanCap

VARIABLES
    pc,                 \* where the loop goroutine is
    sessions,           \* pub.sessions
    rest,               \* sessions the loop has still to send to
    cur,                \* number of the message last taken from msgChan
    listening,          \* the listener is open
    lpc, lsess,         \* the accepting goroutine, and the session it offers
    msgChan, shutdownChan, sessionChan, sessionErrorChan, listenerErrorChan,
    published,          \* messages published
    spc,                \* where each session goroutine is
    smsg,               \* session.msgChan
    queue,              \* the session's queue
    written,            \* number of the last message it wrote to its peer
    connected,          \* its connect callback: not called, running, returned
    disconnected        \* its disconnect callback was called

loopVars == <<pc, sessions, rest, cur>>
acceptVars == <<listening, lpc, lsess>>
chanVars == <<msgChan, shutdownChan, sessionChan, sessionErrorChan, listenerErrorChan>>
sessVars == <<spc, smsg, queue, written, connected, disconnected>>
vars == <<loopVars, acceptVars, chanVars, published, sessVars>>

One == 0
Message == {One} \cup 1..MaxMsg

Init ==
    /\ pc = "select" /\ sessions = <<>> /\ rest = <<>> /\ cur = 0
    /\ listening = TRUE /\ lpc = "accept" /\ lsess = NoSess
    /\ msgChan = <<>> /\ shutdownChan = 0 /\ sessionChan = <<>>
    /\ sessionErrorChan = <<>> /\ listenerErrorChan = 0
    /\ published = 0
    /\ spc = [s \in Sess |-> "none"]
    /\ smsg = [s \in Sess |-> <<>>] /\ queue = [s \in Sess |-> <<>>]
    /\ written = [s \in Sess |-> 0]
    /\ connected = [s \in Sess |-> "no"]
    /\ disconnected = [s \in Sess |-> FALSE]

-----------------------------------------------------------------------------
(* The loop goroutine *)

\* case msg := <-pub.msgChan: the message goes to every session in turn.
LoopMsg ==
    /\ pc = "select" /\ msgChan # <<>>
    /\ cur' = Head(msgChan) /\ msgChan' = Tail(msgChan)
    /\ rest' = sessions /\ pc' = "fan"
    /\ UNCHANGED <<sessions, acceptVars, shutdownChan, sessionChan, sessionErrorChan,
                   listenerErrorChan, published, sessVars>>

\* Mutant: a full session is skipped.
Bug_LoopFan_DropsWhenFull ==
    /\ pc = "fan" /\ rest # <<>>
    /\ LET s == Head(rest) IN
         smsg' = [smsg EXCEPT ![s] = IF Len(@) < SessCap THEN Append(@, cur) ELSE @]
    /\ rest' = Tail(rest)
    /\ UNCHANGED <<pc, sessions, cur, acceptVars, chanVars, published, spc, queue,
                   written, connected, disconnected>>

\* session.msgChan <- msg, which waits for room as long as it takes.
LoopFan ==
    /\ pc = "fan" /\ rest # <<>>
    /\ LET s == Head(rest) IN
         /\ Len(smsg[s]) < SessCap
         /\ smsg' = [smsg EXCEPT ![s] = Append(@, cur)]
    /\ rest' = Tail(rest)
    /\ UNCHANGED <<pc, sessions, cur, acceptVars, chanVars, published, spc, queue,
                   written, connected, disconnected>>

LoopFanDone ==
    /\ pc = "fan" /\ rest = <<>>
    /\ pc' = "select"
    /\ UNCHANGED <<sessions, rest, cur, acceptVars, chanVars, published, sessVars>>

\* case err := <-pub.listenerErrorChan: close the listener and give up, leaving
\* the sessions running.
LoopListenerError ==
    /\ pc = "select" /\ listenerErrorChan > 0
    /\ listenerErrorChan' = listenerErrorChan - 1
    /\ listening' = FALSE /\ pc' = "exited"
    /\ UNCHANGED <<sessions, rest, cur, lpc, lsess, msgChan, shutdownChan, sessionChan,
                   sessionErrorChan, published, sessVars>>

\* case s := <-pub.sessionChan: list the session and start its goroutine.
LoopSession ==
    /\ pc = "select" /\ sessionChan # <<>>
    /\ LET s == Head(sessionChan) IN
         /\ sessions' = Append(sessions, s)
         /\ spc' = [spc EXCEPT ![s] = "header"]
    /\ sessionChan' = Tail(sessionChan)
    /\ UNCHANGED <<pc, rest, cur, acceptVars, msgChan, shutdownChan, sessionErrorChan,
                   listenerErrorChan, published, smsg, queue, written, connected,
                   disconnected>>

\* Mutant: the ended session stays listed.
Bug_Unlist(s) == sessions

\* The list without the first element equal to the session.
Unlist(s) == RemoveFirst(sessions, s)

\* case err := <-pub.sessionErrorChan
LoopSessionError ==
    /\ pc = "select" /\ sessionErrorChan # <<>>
    /\ sessions' = Unlist(Head(sessionErrorChan))
    /\ sessionErrorChan' = Tail(sessionErrorChan)
    /\ UNCHANGED <<pc, rest, cur, acceptVars, msgChan, shutdownChan, sessionChan,
                   listenerErrorChan, published, sessVars>>

\* case <-pub.shutdownChan
LoopShutdown ==
    /\ pc = "select" /\ shutdownChan > 0
    /\ shutdownChan' = shutdownChan - 1
    /\ listening' = FALSE /\ pc' = "unregister"
    /\ UNCHANGED <<sessions, rest, cur, lpc, lsess, msgChan, sessionChan,
                   sessionErrorChan, listenerErrorChan, published, sessVars>>

\* The unregisterPublisher call returned, whatever its result.
LoopUnregister ==
    /\ pc = "unregister"
    /\ rest' = sessions /\ pc' = "quitting"
    /\ UNCHANGED <<sessions, cur, acceptVars, chanVars, published, sessVars>>

\* session.quitChan <- struct{}{}: the channel has no buffer, so the session
\* must be at its select to take it; it returns at once.
LoopQuit ==
    /\ pc = "quitting" /\ rest # <<>>
    /\ spc[Head(rest)] = "sending"
    /\ spc' = [spc EXCEPT ![Head(rest)] = "post"]
    /\ rest' = Tail(rest)
    /\ UNCHANGED <<pc, sessions, cur, acceptVars, chanVars, published, smsg, queue,
                   written, connected, disconnected>>

\* Mutant: the return is left out.
Bug_LoopCleared_Resumes ==
    /\ pc = "quitting" /\ rest = <<>>
    /\ sessions' = <<>> /\ pc' = "select"
    /\ UNCHANGED <<rest, cur, acceptVars, chanVars, published, sessVars>>

\* pub.sessions.Init(); return
LoopCleared ==
    /\ pc = "quitting" /\ rest = <<>>
    /\ sessions' = <<>> /\ pc' = "exited"
    /\ UNCHANGED <<rest, cur, acceptVars, chanVars, published, sessVars>>

\* What the loop does without waiting for the master.
LoopOwnStep ==
    \/ LoopMsg \/ LoopFan \/ LoopFanDone \/ LoopListenerError \/ LoopSession
    \/ LoopSessionError \/ LoopShutdown \/ LoopQuit \/ LoopCleared

LoopStep == LoopOwnStep \/ LoopUnregister

-----------------------------------------------------------------------------
(* The accepting goroutine, listenRemoteSubscriber *)

Accept(s) ==
    /\ lpc = "accept" /\ listening /\ spc[s] = "none"
    /\ lsess' = s /\ lpc' = "offer"
    /\ spc' = [spc EXCEPT ![s] = "waiting"]
    /\ UNCHANGED <<loopVars, listening, chanVars, published, smsg, queue, written,
                   connected, disconnected>>

\* pub.sessionChan <- session
Offer ==
    /\ lpc = "offer" /\ Len(sessionChan) < ChanCap
    /\ sessionChan' = Append(sessionChan, lsess)
    /\ lsess' = NoSess /\ lpc' = "accept"
    /\ UNCHANGED <<loopVars, listening, msgChan, shutdownChan, sessionErrorChan,
                   listenerErrorChan, published, sessVars>>

\* Accept failed, which it also does once the listener is closed.
AcceptError ==
    /\ lpc = "accept" /\ (~listening \/ "accept" \in MayFail)
    /\ listenerErrorChan < ChanCap
    /\ listenerErrorChan' = listenerErrorChan + 1
    /\ lpc' = "exited"
    /\ UNCHANGED <<loopVars, listening, lsess, msgChan, shutdownChan, sessionChan,
                   sessionErrorChan, published, sessVars>>

AcceptStep == (\E s \in Sess : Accept(s)) \/ Offer \/ AcceptError

-----------------------------------------------------------------------------
(* The session goroutines, remoteSubscriberSession.start *)

sessUnchanged == UNCHANGED <<loopVars, acceptVars, msgChan, shutdownChan, sessionChan,
                                listenerErrorChan, published>>

\* The peer's header, read without a deadline.  A good one starts the connect
\* callback, if there is one, in a goroutine of its own; a bad one ends the
\* session.
ReadHeader(s) ==
    /\ spc[s] = "header"
    /\ \/ /\ spc' = [spc EXCEPT ![s] = "respond"]
          /\ connected' = [connected EXCEPT ![s] = IF ConnectCallback THEN "running" ELSE @]
       \/ /\ "header" \in MayFail
          /\ spc' = [spc EXCEPT ![s] = "post"]
          /\ UNCHANGED connected
    /\ sessUnchanged
    /\ UNCHANGED <<sessionErrorChan, smsg, queue, written, disconnected>>

\* The response header, also written without a deadline.
WriteHeader(s) ==
    /\ spc[s] = "respond"
    /\ \/ spc' = [spc EXCEPT ![s] = "sending"]
       \/ "header" \in MayFail /\ spc' = [spc EXCEPT ![s] = "post"]
    /\ sessUnchanged
    /\ UNCHANGED <<sessionErrorChan, smsg, queue, written, connected, disconnected>>

\* Mutant: nothing is dropped.
Bug_Enqueue_NoLimit(q, m) == Append(q, m)

\* The queue with a new message, the oldest dropped when there is no room.
Enqueue(q, m) == Append(IF Len(q) = QueueMax THEN Tail(q) ELSE q, m)

\* case msg := <-session.msgChan
Receive(s) ==
    /\ spc[s] = "sending" /\ smsg[s] # <<>>
    /\ queue' = [queue EXCEPT ![s] = Enqueue(@, Head(smsg[s]))]
    /\ smsg' = [smsg EXCEPT ![s] = Tail(@)]
    /\ sessUnchanged
    /\ UNCHANGED <<sessionErrorChan, spc, written, connected, disconnected>>

\* case msg := <-queue: a write of size and body follows.
StartWrite(s) ==
    /\ spc[s] = "sending" /\ queue[s] # <<>>
    /\ spc' = [spc EXCEPT ![s] = "writing"]
    /\ sessUnchanged
    /\ UNCHANGED <<sessionErrorChan, smsg, queue, written, connected, disconnected>>

\* Mutant: a write to a peer that does not read never ends.
Bug_EndWrite_NoDeadline(s) == FALSE

\* Mutant: a message that has been written stays in the queue.
Bug_EndWrite_KeepsMessage(s) ==
    /\ spc[s] = "writing"
    /\ spc' = [spc EXCEPT ![s] = "sending"]
    /\ written' = [written EXCEPT ![s] = IF Head(queue[s]) = One THEN @ ELSE Head(queue[s])]
    /\ sessUnchanged
    /\ UNCHANGED <<sessionErrorChan, smsg, queue, connected, disconnected>>

\* Size and body, each under a 30 ms deadline: written, or an error or a
\* time-out, either of which ends the session.
EndWrite(s) ==
    /\ spc[s] = "writing"
    /\ queue' = [queue EXCEPT ![s] = Tail(@)]
    /\ \/ /\ spc' = [spc EXCEPT ![s] = "sending"]
          /\ written' = [written EXCEPT ![s] = IF Head(queue[s]) = One THEN @
                                               ELSE Head(queue[s])]
       \/ /\ "write" \in MayFail
          /\ spc' = [spc EXCEPT ![s] = "post"]
          /\ UNCHANGED written
    /\ sessUnchanged
    /\ UNCHANGED <<sessionErrorChan, smsg, connected, disconnected>>

\* Mutant: a session that posts its notice skips the callback.
Bug_Post(s) ==
    /\ spc[s] = "post" /\ Len(sessionErrorChan) < ChanCap
    /\ sessionErrorChan' = Append(sessionErrorChan, s)
    /\ spc' = [spc EXCEPT ![s] = "done"]
    /\ sessUnchanged
    /\ UNCHANGED <<smsg, queue, written, connected, disconnected>>

\* The deferred notice: session.errorChan <- remoteSubscriberSessionError
Post(s) ==
    /\ spc[s] = "post" /\ Len(sessionErrorChan) < ChanCap
    /\ sessionErrorChan' = Append(sessionErrorChan, s)
    /\ spc' = [spc EXCEPT ![s] = "callback"]
    /\ sessUnchanged
    /\ UNCHANGED <<smsg, queue, written, connected, disconnected>>

\* The deferred call of the disconnect callback, in the session's goroutine.
Disconnect(s) ==
    /\ spc[s] = "callback"
    /\ disconnected' = [disconnected EXCEPT ![s] = TRUE]
    /\ spc' = [spc EXCEPT ![s] = "done"]
    /\ sessUnchanged
    /\ UNCHANGED <<sessionErrorChan, smsg, queue, written, connected>>

\* What a session does under the scheduler and its deadlines alone.
TimelySessionStep(s) ==
    Receive(s) \/ StartWrite(s) \/ EndWrite(s) \/ Post(s) \/ Disconnect(s)

SessionStep(s) == ReadHeader(s) \/ WriteHeader(s) \/ TimelySessionStep(s)

-----------------------------------------------------------------------------
(* The callers *)

\* Publish: pub.msgChan <- buf.Bytes()
Publish ==
    /\ published < MaxMsg /\ Len(msgChan) < ChanCap
    /\ published' = published + 1
    /\ msgChan' = Append(msgChan, published + 1)
    /\ UNCHANGED <<loopVars, acceptVars, shutdownChan, sessionChan, sessionErrorChan,
                   listenerErrorChan, sessVars>>

Shutdown ==
    /\ shutdownChan < MaxShutdowns
    /\ shutdownChan' = shutdownChan + 1
    /\ UNCHANGED <<loopVars, acceptVars, msgChan, sessionChan, sessionErrorChan,
                   listenerErrorChan, published, sessVars>>

\* The connect callback sends one message to its subscriber only, or returns
\* without doing so.
SinglePublish(s) ==
    /\ connected[s] = "running" /\ Len(smsg[s]) < SessCap
    /\ smsg' = [smsg EXCEPT ![s] = Append(@, One)]
    /\ connected' = [connected EXCEPT ![s] = "returned"]
    /\ sessUnchanged
    /\ UNCHANGED <<sessionErrorChan, spc, queue, written, disconnected>>

ConnectReturns(s) ==
    /\ connected[s] = "running"
    /\ connected' = [connected EXCEPT ![s] = "returned"]
    /\ sessUnchanged
    /\ UNCHANGED <<sessionErrorChan, spc, smsg, queue, written, disconnected>>

Next ==
    \/ LoopStep \/ AcceptStep
    \/ \E s \in Sess : SessionStep(s) \/ SinglePublish(s) \/ ConnectReturns(s)
    \/ Publish \/ Shutdown

Spec == Init /\ [][Next]_vars

\* Goroutines are scheduled, and the select of the loop picks at random among
\* its ready cases, as does that of a session.  No fairness for a peer's
\* headers, which have no deadline, nor for the master's answer to
\* unregisterPublisher: the HTTP call (xmlrpc.go:489) has no time-out.
Fairness ==
    /\ WF_vars(LoopOwnStep) /\ SF_vars(LoopShutdown) /\ SF_vars(LoopQuit)
    /\ WF_vars(Offer) /\ WF_vars(AcceptError)
    /\ \A s \in Sess : WF_vars(TimelySessionStep(s)) /\ SF_vars(Receive(s))

FairSpec == Spec /\ Fairness

-----------------------------------------------------------------------------
(* Properties *)

\* Types of all variables; no channel and no queue exceeds its capacity.
TypeOK ==
    /\ pc \in {"select", "fan", "unregister", "quitting", "exited"}
    /\ sessions \in Seq(Sess) /\ rest \in Seq(Sess) /\ cur \in 0..MaxMsg
    /\ listening \in BOOLEAN /\ lpc \in {"accept", "offer", "exited"}
    /\ lsess \in Sess \cup {NoSess}
    /\ msgChan \in Seq(1..MaxMsg) /\ Len(msgChan) <= ChanCap
    /\ shutdownChan \in 0..ChanCap
    /\ sessionChan \in Seq(Sess) /\ Len(sessionChan) <= ChanCap
    /\ sessionErrorChan \in Seq(Sess) /\ Len(sessionErrorChan) <= ChanCap
    /\ listenerErrorChan \in 0..ChanCap
    /\ published \in 0..MaxMsg
    /\ spc \in [Sess -> {"none", "waiting", "header", "respond", "sending",
                         "writing", "post", "callback", "done"}]
    /\ smsg \in [Sess -> Seq(Message)] /\ queue \in [Sess -> Seq(Message)]
    /\ \A s \in Sess : Len(smsg[s]) <= SessCap /\ Len(queue[s]) <= QueueMax
    /\ written \in [Sess -> 0..MaxMsg]
    /\ connected \in [Sess -> {"no", "running", "returned"}]
    /\ disconnected \in [Sess -> BOOLEAN]

Started(s) == spc[s] \in {"header", "respond", "sending", "writing", "post"}

\* As long as the loop runs it lists exactly the sessions that are running or
\* whose exit notice it has still to read, each once: none is forgotten while it
\* runs, none stays for good after it ended.
SessionsTracked ==
    /\ IsInjective(sessions)
    /\ pc # "exited" =>
         \A s \in Sess :
           s \in ToSet(sessions) <=> Started(s) \/ s \in ToSet(sessionErrorChan)

\* What session s has received and not yet written, the oldest first, and the
\* topic's messages in it.
Backlog(s) == queue[s] \o smsg[s]
Pending(s) == ToSet(Backlog(s)) \ {One}

\* The last message of the topic the loop sent to session s, or sent before it
\* listed it.
Sent(s) == IF pc = "fan" /\ s \in ToSet(rest) THEN cur - 1 ELSE cur

\* The messages of the topic in a backlog are in order, each once.
InOrder(q) == \A i, j \in 1..Len(q) : i < j /\ q[i] # One /\ q[j] # One => q[i] < q[j]

\* What a session has still to write is an unbroken run of messages, newer than
\* those written and ending with the last one the loop sent it: messages are
\* lost at the old end only, never reordered or repeated.
UnbrokenTail ==
    \A s \in ToSet(sessions) :
        /\ InOrder(Backlog(s))
        /\ \E first \in written[s] + 1 .. Sent(s) + 1 : Pending(s) = first..Sent(s)

\* From Publish to the socket every session is a lossy feed of the topic's
\* messages: the fan-out offers them, the write to the peer takes them.
Feeds == INSTANCE LossyFifo WITH
    Feed <- Sess, taken <- written,
    offered <- [s \in Sess |-> Sent(s)],
    transit <- [s \in Sess |-> Pending(s)]

\* With two select loops, a queue that overflows and a write that may fail, a
\* session's peer still gets the topic's messages in order and once each.
DeliversFeed == Feeds!Spec

\* Where the loop is, for its node.
State ==
    CASE pc \in {"select", "fan"} -> "running"
      [] pc \in {"unregister", "quitting"} -> "stopping"
      [] pc = "exited" -> "ended"

\* To its node it is a NodeLoop that gets no lists: it takes one token and
\* nothing after it, and ends without one only when its listener fails.
Loop == INSTANCE NodeLoop WITH
    List <- {}, NoList <- NoSess, ListCap <- 0, TokenCap <- ChanCap,
    MayFail <- "accept" \in MayFail,
    state <- State, tokens <- shutdownChan, lists <- <<>>, seen <- NoSess

RunsAsLoop == Loop!Spec

\* The session the loop waits for is neither at its select nor writing.
Blocked == rest # <<>> /\ spc[Head(rest)] \notin {"sending", "writing"}

\* However slowly the subscribers read, a message reaches all sessions, unless
\* the loop is stuck for good behind one that never finished its handshake or
\* has already ended.
FanProgress == []<>(pc # "fan" \/ Blocked)

\* The master leaves the unregisterPublisher call unanswered.
AwaitsMaster == pc = "unregister"

\* A Shutdown ends the loop, with the same exception, unless the master never
\* answers.
ShutdownProgress ==
    shutdownChan > 0 ~> (pc = "exited" \/ []Blocked \/ []AwaitsMaster)

\* The exit notice of session s finds sessionErrorChan full, and the loop that
\* should read it has ended or waits itself.
NoticeStuck(s) ==
    /\ spc[s] = "post" /\ Len(sessionErrorChan) = ChanCap
    /\ pc = "exited" \/ AwaitsMaster \/ Blocked

\* The disconnect callback of a session that ends is called, unless its notice,
\* which comes first, is stuck for good.
DisconnectRuns ==
    \A s \in Sess : spc[s] = "post" ~> (disconnected[s] \/ []NoticeStuck(s))

\* A shutdown that has the master's answer ends the loop, with no session left.
SessionsCleared == pc = "quitting" ~> (pc = "exited" /\ sessions = <<>>)
=============================================================================
