----------------------------- MODULE Subscriber -----------------------------
(***************************************************************************)
(* One topic subscription of a node (src/ros/subscriber.go): the loop      *)
(* goroutine that owns the subscription, the goroutine that reads each     *)
(* remote publisher's TCPROS stream, the channels between them, and the    *)
(* callers: publisherUpdate (XML-RPC goroutine), NewSubscriber, Shutdown   *)
(* and Spin (user goroutine).                                              *)
(*                                                                         *)
(* A message is the number of its arrival on its connection; payloads,     *)
(* header contents and logging are left out.  A reader goroutine has an    *)
(* identity of its own in Conn, used once.                                 *)
(***************************************************************************)
EXTENDS Naturals, Sequences, FiniteSets

CONSTANTS
    Pub,             \* XML-RPC API URIs of remote publishers
    Conn,            \* identities of reader goroutines (and their quit channels)
    NoConn,          \* "no entry", the nil channel a map lookup then returns
    NoJob,           \* "no message being bound to the callbacks"
    RequestOutcome,  \* outcomes of requestTopic the environment may produce
    ChanCap,         \* capacity of the subscription's channels (10 in the code)
    JobCap,          \* capacity of the node's jobChan (100 in the code)
    MaxUpdates,      \* bound: publisherUpdate calls
    MaxMsg,          \* bound: messages per connection
    MaxCallbacks,    \* bound: callbacks attached to the subscription
    MaxShutdowns     \* bound: calls of Shutdown

\* The "host:port" a reader dials and reports, formatted from the publisher's
\* answer to requestTopic.
TcpUri(p) == <<"host:port", p>>

\* API URIs read "http://host:port/": a "host:port" is never one of them.
ASSUME KeysAssumption == \A p, q \in Pub : TcpUri(p) # q
ASSUME PubAssumption == Pub # {}
ASSUME ConnAssumption == NoConn \notin Conn
ASSUME OutcomeAssumption == 
    RequestOutcome \subseteq {"tcpros", "other", "error", "malformed"}
ASSUME BoundsAssumption ==
    /\ ChanCap \in Nat \ {0} /\ JobCap \in Nat \ {0}
    /\ MaxUpdates \in Nat /\ MaxMsg \in Nat /\ MaxCallbacks \in Nat \ {0}
    /\ MaxShutdowns \in Nat /\ MaxShutdowns <= ChanCap

VARIABLES
    pc,               \* where the loop goroutine is; "crashed": the process ended
    pubList,          \* sub.pubList
    dead, fresh,      \* deadPubs and newPubs still to be handled
    connections,      \* sub.connections: publisher -> quit channel
    job,              \* message (and callbacks) the loop is enqueueing
    pubListChan, msgChan, disconnectedChan, shutdownChan,
    jobChan,          \* node.jobChan, as far as this topic fills it
    callbacks,        \* length of sub.callbacks
    stored,           \* elements of sub.callbacks already written
    cpc,              \* where each reader goroutine is
    cpub,             \* the publisher it was started for
    quit, closed,     \* tokens in its quit channel; the channel is closed
    nread,            \* messages it has read
    ran,              \* last message of each connection handed to a callback
    updates           \* publisherUpdate calls so far

loopVars == <<pc, pubList, dead, fresh, connections, job>>
chanVars == <<pubListChan, msgChan, disconnectedChan, shutdownChan, jobChan>>
cbVars   == <<callbacks, stored>>
connVars == <<cpc, cpub, quit, closed, nread>>
vars == <<loopVars, chanVars, cbVars, connVars, ran, updates>>

Msg == [conn : Conn, n : 1..MaxMsg]
Job == [conn : Conn, n : 1..MaxMsg, whole : BOOLEAN]

\* Mutant: one element too many.
Bug_Room(ch) == Len(ch) <= ChanCap

Room(ch) == Len(ch) < ChanCap

Init ==
    /\ pc = "select" /\ pubList = {} /\ dead = {} /\ fresh = {}
    /\ connections = [p \in Pub |-> NoConn]
    /\ job = NoJob
    /\ pubListChan = <<>> /\ msgChan = <<>> /\ disconnectedChan = <<>>
    /\ shutdownChan = 0 /\ jobChan = <<>>
    /\ callbacks = 1 /\ stored = 1
    /\ cpc = [c \in Conn |-> "unused"]
    /\ cpub = [c \in Conn |-> CHOOSE p \in Pub : TRUE]
    /\ quit = [c \in Conn |-> 0] /\ closed = [c \in Conn |-> FALSE]
    /\ nread = [c \in Conn |-> 0] /\ ran = [c \in Conn |-> 0]
    /\ updates = 0

-----------------------------------------------------------------------------
(* The loop goroutine *)

setDifference(lhs, rhs) == lhs \ rhs

\* Mutant: the entry is left.
Bug_Forget(key) == connections

\* delete(sub.connections, key)
Forget(key) == [p \in Pub |-> IF p = key THEN NoConn ELSE connections[p]]

\* Mutant: nobody is told.
Bug_SendQuit(cs) == quit

\* quitChan <- struct{}{} on the channel of every reader in cs
SendQuit(cs) == [c \in Conn |-> IF c \in cs THEN quit[c] + 1 ELSE quit[c]]

\* case list := <-sub.pubListChan
LoopPubList ==
    /\ pc = "select" /\ pubListChan # <<>>
    /\ LET list == Head(pubListChan) IN
         /\ dead' = setDifference(pubList, list)
         /\ fresh' = setDifference(list, pubList)
         /\ pubList' = list
    /\ pubListChan' = Tail(pubListChan)
    /\ pc' = "update"
    /\ UNCHANGED <<connections, job, msgChan, disconnectedChan, shutdownChan,
                   jobChan, cbVars, connVars, ran, updates>>

\* A publisher left the list.  Without an entry the lookup yields a nil
\* channel, on which the send never completes: there is no step then.
LoopQuitDead(p) ==
    /\ pc = "update" /\ p \in dead
    /\ connections[p] # NoConn
    /\ quit[connections[p]] < ChanCap
    /\ quit' = SendQuit({connections[p]})
    /\ connections' = Forget(p)
    /\ dead' = dead \ {p}
    /\ UNCHANGED <<pc, pubList, fresh, job, chanVars, cbVars,
                   cpc, cpub, closed, nread, ran, updates>>

\* A publisher joined the list: requestTopic, and on TCPROS a new reader.
\* An error or another protocol leaves it without an entry, and is not retried.
LoopRequest(p, outcome) ==
    /\ pc = "update" /\ dead = {} /\ p \in fresh /\ outcome # "malformed"
    /\ fresh' = fresh \ {p}
    /\ IF outcome = "tcpros"
         THEN \E c \in Conn :
                /\ cpc[c] = "unused"
                /\ cpc' = [cpc EXCEPT ![c] = "dial"]
                /\ cpub' = [cpub EXCEPT ![c] = p]
                /\ connections' = [connections EXCEPT ![p] = c]
         ELSE UNCHANGED <<cpc, cpub, connections>>
    /\ UNCHANGED <<pc, pubList, dead, job, chanVars, cbVars,
                   quit, closed, nread, ran, updates>>

\* The publisher answers with success but not with a list of the form
\* <<name, host, port>>: a type assertion or an index panics, in a goroutine that
\* recovers nothing, and the process ends.
RequestPanics(p) ==
    /\ pc = "update" /\ dead = {} /\ p \in fresh /\ "malformed" \in RequestOutcome
    /\ pc' = "crashed"
    /\ UNCHANGED <<pubList, dead, fresh, connections, job, chanVars, cbVars,
                   connVars, ran, updates>>

\* Both lists handled: back to the select.
LoopUpdated ==
    /\ pc = "update" /\ dead = {} /\ fresh = {}
    /\ pc' = "select"
    /\ UNCHANGED <<pubList, dead, fresh, connections, job, chanVars, cbVars,
                   connVars, ran, updates>>

\* case msgEvent := <-sub.msgChan: bind a copy of the callbacks.
LoopMsg ==
    /\ pc = "select" /\ msgChan # <<>>
    /\ LET m == Head(msgChan) IN
         job' = [conn |-> m.conn, n |-> m.n, whole |-> stored = callbacks]
    /\ msgChan' = Tail(msgChan)
    /\ pc' = "enqueue"
    /\ UNCHANGED <<pubList, dead, fresh, connections, pubListChan,
                   disconnectedChan, shutdownChan, jobChan, cbVars, connVars,
                   ran, updates>>

LoopEnqueue ==
    /\ pc = "enqueue" /\ Len(jobChan) < JobCap
    /\ jobChan' = Append(jobChan, job)
    /\ job' = NoJob /\ pc' = "select"
    /\ UNCHANGED <<pubList, dead, fresh, connections, pubListChan, msgChan,
                   disconnectedChan, shutdownChan, cbVars, connVars, ran, updates>>

\* Mutant: no time-out.
Bug_LoopEnqueueTimeout_Stuck == FALSE

\* Mutant: the message goes back to the end of msgChan instead.
Bug_LoopEnqueueTimeout_Requeue ==
    /\ pc = "enqueue" /\ Len(jobChan) = JobCap /\ Room(msgChan)
    /\ msgChan' = Append(msgChan, [conn |-> job.conn, n |-> job.n])
    /\ job' = NoJob /\ pc' = "select"
    /\ UNCHANGED <<pubList, dead, fresh, connections, pubListChan,
                   disconnectedChan, shutdownChan, jobChan, cbVars,
                   connVars, ran, updates>>

\* Nobody made room in jobChan for 3 s: the message is dropped.
LoopEnqueueTimeout ==
    /\ pc = "enqueue" /\ Len(jobChan) = JobCap
    /\ job' = NoJob /\ pc' = "select"
    /\ UNCHANGED <<pubList, dead, fresh, connections, chanVars, cbVars,
                   connVars, ran, updates>>

\* case pubURI := <-sub.disconnectedChan
LoopDisconnected ==
    /\ pc = "select" /\ disconnectedChan # <<>>
    /\ connections' = Forget(Head(disconnectedChan))
    /\ disconnectedChan' = Tail(disconnectedChan)
    /\ UNCHANGED <<pc, pubList, dead, fresh, job, pubListChan, msgChan,
                   shutdownChan, jobChan, cbVars, connVars, ran, updates>>

\* case <-sub.shutdownChan: tell every reader to quit and close its channel.
LoopShutdown ==
    /\ pc = "select" /\ shutdownChan > 0
    /\ LET open == {connections[p] : p \in Pub} \ {NoConn} IN
         /\ \A c \in open : quit[c] < ChanCap
         /\ quit' = SendQuit(open)
         /\ closed' = [c \in Conn |-> closed[c] \/ c \in open]
    /\ shutdownChan' = shutdownChan - 1
    /\ pc' = "unregister"
    /\ UNCHANGED <<pubList, dead, fresh, connections, job, pubListChan, msgChan,
                   disconnectedChan, jobChan, cbVars, cpc, cpub, nread, ran, updates>>

\* Mutant: after a failed call the loop goes on.
Bug_LoopUnregister_Resumes ==
    /\ pc = "unregister"
    /\ pc' = "select"
    /\ UNCHANGED <<pubList, dead, fresh, connections, job, chanVars, cbVars,
                   connVars, ran, updates>>

\* The unregisterSubscriber call returned, whatever its result.
LoopUnregister ==
    /\ pc = "unregister"
    /\ pc' = "exited"
    /\ UNCHANGED <<pubList, dead, fresh, connections, job, chanVars, cbVars,
                   connVars, ran, updates>>

\* What the loop does without waiting for an answer from outside the process.
LoopOwnStep ==
    \/ LoopPubList \/ LoopUpdated
    \/ \E p \in Pub : LoopQuitDead(p)
    \/ LoopMsg \/ LoopEnqueue \/ LoopEnqueueTimeout
    \/ LoopDisconnected \/ LoopShutdown

\* A publisher or the master answers, or the call to it fails.
LoopAnswered ==
    \/ \E p \in Pub, outcome \in RequestOutcome : LoopRequest(p, outcome)
    \/ \E p \in Pub : RequestPanics(p)
    \/ LoopUnregister

LoopStep == LoopOwnStep \/ LoopAnswered

-----------------------------------------------------------------------------
(* The reader goroutines, startRemotePublisherConn *)

connUnchanged == UNCHANGED <<loopVars, pubListChan, shutdownChan, jobChan, cbVars,
                             cpub, closed, ran, updates>>

\* Mutant: the quit channel is not looked at.
Bug_LoopTop(c, next) ==
    /\ cpc' = [cpc EXCEPT ![c] = next]
    /\ UNCHANGED quit

\* Reader c is back at its select: it returns when its quit channel has a token
\* or is closed, and starts the read "next" otherwise.
LoopTop(c, next) ==
    IF quit[c] > 0 \/ closed[c]
      THEN /\ cpc' = [cpc EXCEPT ![c] = "exited"]
           /\ quit' = [quit EXCEPT ![c] = IF @ > 0 THEN @ - 1 ELSE 0]
      ELSE /\ cpc' = [cpc EXCEPT ![c] = next]
           /\ UNCHANGED quit

\* Reader c goes to next without looking at its quit channel.
Goto(c, next) ==
    /\ cpc' = [cpc EXCEPT ![c] = next]
    /\ UNCHANGED quit

\* The 3 s timer of the dial loop is created when the select is entered, so the
\* default branch runs; a failed dial ends the reader without a notice.
Dial(c) ==
    /\ cpc[c] = "dial"
    /\ \E next \in {"handshake", "exited"} : Goto(c, next)
    /\ connUnchanged /\ UNCHANGED <<msgChan, disconnectedChan, nread>>

\* Connection headers, without a deadline: the peer may never answer.
Handshake(c) ==
    /\ cpc[c] = "handshake"
    /\ LoopTop(c, "size") \/ Goto(c, "exited")
    /\ connUnchanged /\ UNCHANGED <<msgChan, disconnectedChan, nread>>

\* Size read under a 1 s deadline: a good size, a time-out, an error, or a size
\* of 256 MB or more, which drops the connection and dials again.
ReadSize(c) ==
    /\ cpc[c] = "size"
    /\ \/ nread[c] < MaxMsg /\ LoopTop(c, "body")
       \/ LoopTop(c, "size")
       \/ Goto(c, "notify")
       \/ Goto(c, "dial")
    /\ connUnchanged /\ UNCHANGED <<msgChan, disconnectedChan, nread>>

ReadBody(c) ==
    /\ cpc[c] = "body"
    /\ \/ Goto(c, "hold") /\ nread' = [nread EXCEPT ![c] = @ + 1]
       \/ Goto(c, "dial") /\ UNCHANGED nread
       \/ Goto(c, "notify") /\ UNCHANGED nread
    /\ connUnchanged /\ UNCHANGED <<msgChan, disconnectedChan>>

Deliver(c) ==
    /\ cpc[c] = "hold" /\ Room(msgChan)
    /\ msgChan' = Append(msgChan, [conn |-> c, n |-> nread[c]])
    /\ LoopTop(c, "size")
    /\ connUnchanged /\ UNCHANGED <<disconnectedChan, nread>>

\* The loop took nothing from a full msgChan for 30 ms.
DropHeld(c) ==
    /\ cpc[c] = "hold" /\ ~Room(msgChan)
    /\ LoopTop(c, "size")
    /\ connUnchanged /\ UNCHANGED <<msgChan, disconnectedChan, nread>>

\* disconnectedChan <- pubURI; return
Notify(c) ==
    /\ cpc[c] = "notify" /\ Room(disconnectedChan)
    /\ disconnectedChan' = Append(disconnectedChan, TcpUri(cpub[c]))
    /\ Goto(c, "exited")
    /\ connUnchanged /\ UNCHANGED <<msgChan, nread>>

\* Every step of reader c but the handshake, which nothing bounds in time.
TimelyConnStep(c) ==
    Dial(c) \/ ReadSize(c) \/ ReadBody(c) \/ Deliver(c) \/ DropHeld(c) \/ Notify(c)

-----------------------------------------------------------------------------
(* The callers *)

\* pubListChan <- list, from publisherUpdate or from NewSubscriber.
publisherUpdate(list) ==
    /\ updates < MaxUpdates /\ Room(pubListChan)
    /\ pubListChan' = Append(pubListChan, list)
    /\ updates' = updates + 1
    /\ UNCHANGED <<loopVars, msgChan, disconnectedChan, shutdownChan, jobChan,
                   cbVars, connVars, ran>>

\* NewSubscriber on a topic already subscribed appends to sub.callbacks from the
\* user goroutine.  The two stores of the append are separate: the loop, which
\* takes no lock, may read the new length before the new element is written.
AppendLength ==
    /\ stored = callbacks /\ callbacks < MaxCallbacks
    /\ callbacks' = callbacks + 1
    /\ UNCHANGED <<loopVars, chanVars, stored, connVars, ran, updates>>

AppendElement ==
    /\ stored < callbacks
    /\ stored' = callbacks
    /\ UNCHANGED <<loopVars, chanVars, callbacks, connVars, ran, updates>>

Shutdown ==
    /\ shutdownChan < MaxShutdowns
    /\ shutdownChan' = shutdownChan + 1
    /\ UNCHANGED <<loopVars, pubListChan, msgChan, disconnectedChan, jobChan,
                   cbVars, connVars, ran, updates>>

\* Spin runs one job.  A job with a missing callback panics instead, which ends
\* the process.
SpinOnce ==
    /\ jobChan # <<>> /\ Head(jobChan).whole
    /\ ran' = [ran EXCEPT ![Head(jobChan).conn] = Head(jobChan).n]
    /\ jobChan' = Tail(jobChan)
    /\ UNCHANGED <<loopVars, pubListChan, msgChan, disconnectedChan, shutdownChan,
                   cbVars, connVars, updates>>

\* A panic ends every goroutine of the process.
Alive == pc # "crashed"

Next ==
    /\ Alive
    /\ \/ LoopStep
       \/ \E c \in Conn : TimelyConnStep(c) \/ Handshake(c)
       \/ \E list \in SUBSET Pub : publisherUpdate(list)
       \/ AppendLength \/ AppendElement \/ Shutdown \/ SpinOnce

Spec == Init /\ [][Next]_vars

\* Goroutines are scheduled; the loop's select picks at random among the ready
\* cases, so a token in shutdownChan is taken in the end even if the other
\* channels keep filling.  No fairness for the peer's handshake, for Spin, or for
\* an answer of a publisher or the master: the HTTP call (xmlrpc.go:489) has no
\* time-out.
Fairness ==
    /\ WF_vars(LoopOwnStep) /\ SF_vars(LoopShutdown)
    /\ \A c \in Conn : WF_vars(Alive /\ TimelyConnStep(c))

FairSpec == Spec /\ Fairness

-----------------------------------------------------------------------------
(* Properties *)

\* Types of all variables; in particular no channel ever holds more than its
\* capacity and no quit channel more than one token.
TypeOK ==
    /\ pc \in {"select", "update", "enqueue", "unregister", "exited", "crashed"}
    /\ pubList \subseteq Pub /\ dead \subseteq Pub /\ fresh \subseteq Pub
    /\ connections \in [Pub -> Conn \cup {NoConn}]
    /\ job \in Job \cup {NoJob}
    /\ pubListChan \in Seq(SUBSET Pub) /\ Len(pubListChan) <= ChanCap
    /\ msgChan \in Seq(Msg) /\ Len(msgChan) <= ChanCap
    /\ disconnectedChan \in Seq({TcpUri(p) : p \in Pub})
    /\ Len(disconnectedChan) <= ChanCap
    /\ shutdownChan \in 0..ChanCap
    /\ jobChan \in Seq(Job) /\ Len(jobChan) <= JobCap
    /\ callbacks \in 1..MaxCallbacks /\ stored \in 1..MaxCallbacks
    /\ cpc \in [Conn -> {"unused", "dial", "handshake", "size", "body", "hold",
                         "notify", "exited"}]
    /\ cpub \in [Conn -> Pub]
    /\ quit \in [Conn -> 0..1] /\ closed \in [Conn -> BOOLEAN]
    /\ nread \in [Conn -> 0..MaxMsg] /\ ran \in [Conn -> 0..MaxMsg]
    /\ updates \in 0..MaxUpdates

Running(c) == cpc[c] \notin {"unused", "exited"}
Told(c) == quit[c] > 0 \/ closed[c]

\* Every running reader is the one the subscription has on record for its
\* publisher or has been told to quit: no reader of a publisher that left, no
\* second reader of one publisher, survives unnoticed.
NoOrphanReader ==
    \A c \in Conn : Running(c) => Told(c) \/ connections[cpub[c]] = c

\* Every requestTopic succeeds on TCPROS, or ends the process.
NoRequestFails == RequestOutcome \subseteq {"tcpros", "malformed"}

\* Between two updates the subscription keeps a record for listed publishers
\* only, and for each of them exactly when every requestTopic succeeded.
RecordsMirrorList ==
    pc \in {"select", "enqueue"} =>
        LET recorded == {p \in Pub : connections[p] # NoConn} IN
          /\ recorded \subseteq pubList
          /\ NoRequestFails => recorded = pubList

\* The job the loop is enqueueing, if any.
Bound == IF pc = "enqueue" THEN <<job>> ELSE <<>>

\* Messages and jobs on their way from the readers to Spin, the oldest first.
Pipeline == jobChan \o Bound \o msgChan

\* The numbers of connection c's messages that wait in the pipeline, and of all
\* that are on their way: c may hold one more, the last it has read.
Waiting(c) == {Pipeline[i].n : i \in {j \in 1..Len(Pipeline) : Pipeline[j].conn = c}}
InFlight(c) == Waiting(c) \cup (IF cpc[c] = "hold" THEN {nread[c]} ELSE {})

\* A connection's messages reach the callbacks in the order they were read and
\* at most once each, whatever is dropped on the way.
InOrder ==
    /\ \A i, j \in 1..Len(Pipeline) :
         i < j /\ Pipeline[i].conn = Pipeline[j].conn => Pipeline[i].n < Pipeline[j].n
    /\ \A c \in Conn : \A n \in InFlight(c) : ran[c] < n
    /\ \A c \in Conn : cpc[c] = "hold" => \A n \in Waiting(c) : n < nread[c]

\* From the socket to the callbacks every reader is a lossy feed: what it has
\* read is offered, what Spin hands to the callbacks is taken.
Feeds == INSTANCE LossyFifo WITH
    Feed <- Conn, offered <- nread, taken <- ran,
    transit <- [c \in Conn |-> InFlight(c)]

\* Through the reader, msgChan, the loop and jobChan, with a drop possible at
\* three of them, no step reorders, repeats or invents a message.
DeliversFeed == Feeds!Spec

\* Where the loop is, for its node.  After a crash there is no node to tell.
State ==
    CASE pc \in {"select", "update", "enqueue", "crashed"} -> "running"
      [] pc = "unregister" -> "stopping"
      [] pc = "exited" -> "ended"

\* To its node it is a NodeLoop: updates, requests, readers and messages do not
\* keep it from taking its lists in order, or one token and nothing after it.
Loop == INSTANCE NodeLoop WITH
    List <- SUBSET Pub, NoList <- {}, ListCap <- ChanCap, TokenCap <- ChanCap,
    MayFail <- FALSE,
    state <- State, tokens <- shutdownChan, lists <- pubListChan, seen <- pubList

RunsAsLoop == Loop!Spec

\* A reader is told to quit once, through the record of its publisher, and
\* never through a closed channel (a send on which would panic).
ToldOnce ==
    [][\A c \in Conn :
          quit'[c] > quit[c] =>
            /\ ~Told(c) /\ connections[cpub[c]] = c
            /\ connections'[cpub[c]] = NoConn \/ closed'[c]]_vars

\* The loop waits for an answer to requestTopic or to unregisterSubscriber.
AwaitsAnswer ==
    pc = "unregister" \/ (pc = "update" /\ dead = {} /\ fresh # {})

\* A Shutdown ends the loop goroutine, even if nobody runs the jobs, unless a
\* publisher or the master leaves a call unanswered for good or a malformed
\* answer has ended the process.
ShutdownTerminates ==
    shutdownChan > 0 ~> (pc \in {"exited", "crashed"} \/ []AwaitsAnswer)

\* A reader told to quit comes to its end, unless it waits for good for a peer
\* that does not finish the handshake or for the loop to take its notice.  (The
\* latter takes more readers than the channel has room for: LeftBehindForGood.)
ToldReaderStops ==
    \A c \in Conn :
        Told(c) ~> \/ cpc[c] = "exited" \/ pc = "crashed"
                   \/ [](cpc[c] \in {"handshake", "notify"})
=============================================================================
