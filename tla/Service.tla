------------------------------- MODULE Service ------------------------------
(***************************************************************************)
(* One service of a node (src/ros/service_server.go), the clients calling  *)
(* it (src/ros/service_client.go) and the goroutine that spins the node    *)
(* and so runs the handler.                                                *)
(*                                                                         *)
(* A call is one connection, one session goroutine and one job; it has an  *)
(* identity in Call, used once.  Both ends set a deadline before each read *)
(* and write, so every read may time out; neither end ever closes its      *)
(* connection, so a peer that gave up is only noticed by a time-out.       *)
(***************************************************************************)
EXTENDS Naturals, Sequences, SequencesExt

CONSTANTS
    Call,           \* identities of calls
    NoCall,         \* "no job being run"
    MayFail,        \* "accept", "match", "decode", "handler", "result", "write"
    CloseCap,       \* capacity of sessionCloseChan (10 in the code)
    JobCap,         \* capacity of the node's jobChan (100 in the code)
    MaxShutdowns    \* bound: calls of Shutdown

ASSUME CallAssumption == NoCall \notin Call
ASSUME FailAssumption ==
    MayFail \subseteq {"accept", "match", "decode", "handler", "result", "write"}
ASSUME BoundsAssumption ==
    CloseCap \in Nat \ {0} /\ JobCap \in Nat \ {0} /\ MaxShutdowns \in Nat

VARIABLES
    pc,                 \* where the server's loop is
    sessions,           \* server.sessions
    shutdownChan, sessionCloseChan,
    spc,                \* where each session goroutine is
    cpc,                \* where each client is
    answered,           \* the session wrote its response header
    reply,              \* what the session wrote after the request
    jobChan,            \* node.jobChan, as far as this service fills it
    spin, stage,        \* the job being run, and how far it is
    expired,            \* the session gave up waiting for the result
    decoded,            \* the job decoded its request
    handled             \* times the handler ran for the call

loopVars == <<pc, sessions>>
chanVars == <<shutdownChan, sessionCloseChan>>
spinVars == <<spin, stage, decoded, handled>>
vars == <<loopVars, chanVars, spc, cpc, answered, reply, expired, jobChan, spinVars>>

Init ==
    /\ pc = "accept" /\ sessions = <<>>
    /\ shutdownChan = 0 /\ sessionCloseChan = <<>>
    /\ spc = [c \in Call |-> "none"] /\ cpc = [c \in Call |-> "idle"]
    /\ answered = [c \in Call |-> FALSE] /\ reply = [c \in Call |-> "none"]
    /\ expired = [c \in Call |-> FALSE]
    /\ jobChan = <<>> /\ spin = NoCall /\ stage = "idle"
    /\ decoded = [c \in Call |-> FALSE] /\ handled = [c \in Call |-> 0]

-----------------------------------------------------------------------------
(* The server's loop *)

loopFrame == UNCHANGED <<cpc, answered, reply, expired, jobChan, spinVars>>

\* Accept a waiting connection: list the session and start its goroutine.
LoopAccept(c) ==
    /\ pc = "accept" /\ spc[c] = "backlog"
    /\ sessions' = Append(sessions, c)
    /\ spc' = [spc EXCEPT ![c] = "header"]
    /\ pc' = "select"
    /\ loopFrame /\ UNCHANGED chanVars

\* Nobody connected within 1 ms.
LoopAcceptTimeout ==
    /\ pc = "accept"
    /\ pc' = "select"
    /\ loopFrame /\ UNCHANGED <<sessions, chanVars, spc>>

\* Any other error of Accept ends the loop, registered and with its sessions.
LoopAcceptError ==
    /\ pc = "accept" /\ "accept" \in MayFail
    /\ pc' = "exited"
    /\ loopFrame /\ UNCHANGED <<sessions, chanVars, spc>>

\* Mutant: the ended session stays listed.
Bug_Unlist(c) == sessions

\* The list without the first element equal to the session.
Unlist(c) == RemoveFirst(sessions, c)

\* case ev := <-s.sessionCloseChan
LoopClose ==
    /\ pc = "select" /\ sessionCloseChan # <<>>
    /\ sessions' = Unlist(Head(sessionCloseChan))
    /\ sessionCloseChan' = Tail(sessionCloseChan)
    /\ pc' = "accept"
    /\ loopFrame /\ UNCHANGED <<shutdownChan, spc>>

\* case <-timeoutChan: nothing else was ready for 1 ms.
LoopIdle ==
    /\ pc = "select" /\ sessionCloseChan = <<>> /\ shutdownChan = 0
    /\ pc' = "accept"
    /\ loopFrame /\ UNCHANGED <<sessions, chanVars, spc>>

\* Mutant: the loop goes on after closing its listener.
Bug_LoopShutdown_Resumes ==
    /\ pc = "select" /\ shutdownChan > 0
    /\ shutdownChan' = shutdownChan - 1
    /\ pc' = "accept"
    /\ loopFrame /\ UNCHANGED <<sessions, sessionCloseChan, spc>>

\* case <-s.shutdownChan: close the listener.
LoopShutdown ==
    /\ pc = "select" /\ shutdownChan > 0
    /\ shutdownChan' = shutdownChan - 1
    /\ pc' = "unregister"
    /\ loopFrame /\ UNCHANGED <<sessions, sessionCloseChan, spc>>

LoopUnregister ==
    /\ pc = "unregister"
    /\ pc' = "quitting"
    /\ loopFrame /\ UNCHANGED <<sessions, chanVars, spc>>

\* A session's quitChan is never made: a send on the nil channel of a listed
\* session never completes, and the loop ends only if no session is listed.
LoopCleared ==
    /\ pc = "quitting" /\ sessions = <<>>
    /\ pc' = "exited"
    /\ loopFrame /\ UNCHANGED <<sessions, chanVars, spc>>

\* What the loop does without waiting for the master.
LoopOwnStep ==
    \/ \E c \in Call : LoopAccept(c)
    \/ LoopAcceptTimeout \/ LoopAcceptError \/ LoopClose \/ LoopIdle
    \/ LoopShutdown \/ LoopCleared

LoopStep == LoopOwnStep \/ LoopUnregister

-----------------------------------------------------------------------------
(* The session goroutines, remoteClientSession.start *)

SessionTo(c, next) == spc' = [spc EXCEPT ![c] = next]
sessionFrame == UNCHANGED <<loopVars, shutdownChan, cpc, spinVars>>

\* The request header is read (the client wrote it on connecting) and answered,
\* or one of the two times out.  A probe or a header for another service or type
\* ends the session, after the answer.
SessionHeader(c) ==
    /\ spc[c] = "header"
    /\ \/ /\ answered' = [answered EXCEPT ![c] = TRUE]
          /\ SessionTo(c, "request") \/ ("match" \in MayFail /\ SessionTo(c, "post"))
       \/ SessionTo(c, "post") /\ UNCHANGED answered
    /\ sessionFrame /\ UNCHANGED <<sessionCloseChan, reply, expired, jobChan>>

\* The request is read, or its deadline passes, which panics.
SessionRequest(c) ==
    /\ spc[c] = "request"
    /\ \/ cpc[c] \in {"await", "late"} /\ SessionTo(c, "enqueue")
       \/ SessionTo(c, "post")
    /\ sessionFrame /\ UNCHANGED <<sessionCloseChan, answered, reply, expired, jobChan>>

\* jobChan <- func() {...}, which waits for room as long as it takes.
SessionEnqueue(c) ==
    /\ spc[c] = "enqueue" /\ Len(jobChan) < JobCap
    /\ jobChan' = Append(jobChan, c)
    /\ SessionTo(c, "wait")
    /\ sessionFrame /\ UNCHANGED <<sessionCloseChan, answered, reply, expired>>

\* Mutant: the client is told, as if the request had been refused.
Bug_SessionTimeout_Answers(c) ==
    /\ spc[c] = "wait"
    /\ SessionTo(c, "post")
    /\ expired' = [expired EXCEPT ![c] = TRUE]
    /\ reply' = [reply EXCEPT ![c] = "error"]
    /\ sessionFrame /\ UNCHANGED <<sessionCloseChan, answered, jobChan>>

\* 1 s passed without a result: panic.
SessionTimeout(c) ==
    /\ spc[c] = "wait"
    /\ SessionTo(c, "post")
    /\ expired' = [expired EXCEPT ![c] = TRUE]
    /\ sessionFrame /\ UNCHANGED <<sessionCloseChan, answered, reply, jobChan>>

\* The result is written: OK byte, size and body.  A failed write panics; so does
\* the nil error of a handler with the wrong number of results, after its byte 0.
SessionReply(c) ==
    /\ \/ spc[c] = "ok" /\ reply' = [reply EXCEPT ![c] = "ok"]
       \/ spc[c] = "error" /\ reply' = [reply EXCEPT ![c] = "error"]
       \/ spc[c] \in {"ok", "error"} /\ "write" \in MayFail /\ UNCHANGED reply
       \/ spc[c] = "nil" /\ UNCHANGED reply
    /\ SessionTo(c, "post")
    /\ sessionFrame /\ UNCHANGED <<sessionCloseChan, answered, expired, jobChan>>

\* Mutant: the notice does not wait for room.
Bug_SessionPost_Unbounded(c) ==
    /\ spc[c] = "post"
    /\ sessionCloseChan' = Append(sessionCloseChan, c)
    /\ SessionTo(c, "done")
    /\ sessionFrame /\ UNCHANGED <<answered, reply, expired, jobChan>>

\* The deferred notice: sessionCloseChan <- remoteClientSessionCloseEvent
SessionPost(c) ==
    /\ spc[c] = "post" /\ Len(sessionCloseChan) < CloseCap
    /\ sessionCloseChan' = Append(sessionCloseChan, c)
    /\ SessionTo(c, "done")
    /\ sessionFrame /\ UNCHANGED <<answered, reply, expired, jobChan>>

SessionStep(c) ==
    \/ SessionHeader(c) \/ SessionRequest(c) \/ SessionEnqueue(c)
    \/ SessionTimeout(c) \/ SessionReply(c) \/ SessionPost(c)

-----------------------------------------------------------------------------
(* The spinning goroutine and the job it runs *)

spinFrame == UNCHANGED <<loopVars, chanVars, cpc, answered, reply, expired>>

SpinTake ==
    /\ spin = NoCall /\ jobChan # <<>>
    /\ spin' = Head(jobChan) /\ stage' = "decode" /\ jobChan' = Tail(jobChan)
    /\ spinFrame /\ UNCHANGED <<spc, decoded, handled>>

\* Mutant: the handler runs on a half-decoded request.
Bug_SpinDecode_IgnoresError ==
    /\ stage = "decode"
    /\ \/ stage' = "handle" /\ decoded' = [decoded EXCEPT ![spin] = TRUE]
       \/ "decode" \in MayFail /\ stage' = "handle" /\ UNCHANGED decoded
    /\ spinFrame /\ UNCHANGED <<spc, jobChan, spin, handled>>

\* Deserialize; its error is sent and the job goes on all the same.
SpinDecode ==
    /\ stage = "decode"
    /\ \/ stage' = "handle" /\ decoded' = [decoded EXCEPT ![spin] = TRUE]
       \/ "decode" \in MayFail /\ stage' = "undecoded" /\ UNCHANGED decoded
    /\ spinFrame /\ UNCHANGED <<spc, jobChan, spin, handled>>

\* The handler returns nil, an error, or not exactly one result.
SpinHandle ==
    /\ stage = "handle"
    /\ handled' = [handled EXCEPT ![spin] = @ + 1]
    /\ \/ stage' = "ok"
       \/ "handler" \in MayFail /\ stage' = "error"
       \/ "result" \in MayFail /\ stage' = "nil"
    /\ spinFrame /\ UNCHANGED <<spc, jobChan, spin, decoded>>

\* Mutant: the result is sent again.
Bug_SpinSend_Retries ==
    /\ stage \in {"undecoded", "ok", "error", "nil"}
    /\ spc[spin] = "wait"
    /\ SessionTo(spin, IF stage = "undecoded" THEN "error" ELSE stage)
    /\ spinFrame /\ UNCHANGED <<jobChan, spin, stage, decoded, handled>>

\* A send on responseChan or errorChan has no buffer: it completes only while
\* the session is at its select, and blocks this goroutine until then.
SpinSend ==
    /\ stage \in {"undecoded", "ok", "error", "nil"}
    /\ spc[spin] = "wait"
    /\ SessionTo(spin, IF stage = "undecoded" THEN "error" ELSE stage)
    /\ IF stage = "undecoded"
         THEN stage' = "handle" /\ UNCHANGED spin
         ELSE stage' = "idle" /\ spin' = NoCall
    /\ spinFrame /\ UNCHANGED <<jobChan, decoded, handled>>

SpinStep == SpinTake \/ SpinDecode \/ SpinHandle \/ SpinSend

-----------------------------------------------------------------------------
(* The clients, defaultServiceClient.Call *)

ClientTo(c, next) == cpc' = [cpc EXCEPT ![c] = next]
clientFrame == UNCHANGED <<loopVars, chanVars, answered, reply, expired, jobChan, spinVars>>

\* lookupService and Dial succeed, and the header is written: the connection
\* waits in the listener's backlog.  Where nobody accepts any more, Call only
\* returns an error.
ClientConnect(c) ==
    /\ cpc[c] = "idle" /\ pc \in {"accept", "select"}
    /\ ClientTo(c, "header")
    /\ spc' = [spc EXCEPT ![c] = "backlog"]
    /\ clientFrame

\* The server's header is there and matches: the request is written.
ClientRequest(c) ==
    /\ cpc[c] = "header" /\ answered[c]
    /\ ClientTo(c, "await")
    /\ clientFrame /\ UNCHANGED spc

\* OK byte and response, or the server's error message.
ClientReply(c) ==
    /\ cpc[c] = "await"
    /\ \/ reply[c] = "ok" /\ ClientTo(c, "success")
       \/ reply[c] = "error" /\ ClientTo(c, "refused")
    /\ clientFrame /\ UNCHANGED spc

\* A 10 ms deadline passes, or the server's header does not match: Call returns
\* an error.  A request already written stays readable by the server.
ClientTimeout(c) ==
    /\ \/ cpc[c] = "header" /\ ClientTo(c, "failed")
       \/ cpc[c] = "await" /\ ClientTo(c, "late")
    /\ clientFrame /\ UNCHANGED spc

ClientStep(c) ==
    ClientConnect(c) \/ ClientRequest(c) \/ ClientReply(c) \/ ClientTimeout(c)

Shutdown ==
    /\ shutdownChan < MaxShutdowns
    /\ shutdownChan' = shutdownChan + 1
    /\ UNCHANGED <<loopVars, sessionCloseChan, spc, cpc, answered, reply, expired,
                   jobChan, spinVars>>

Next ==
    \/ LoopStep \/ SpinStep \/ Shutdown
    \/ \E c \in Call : SessionStep(c) \/ ClientStep(c)

Spec == Init /\ [][Next]_vars

\* Goroutines are scheduled, the application keeps spinning and its handler
\* returns; the select of the loop picks at random among its ready cases.  No
\* fairness for the master's answer to unregisterService: the HTTP call
\* (xmlrpc.go:489) has no time-out.
Fairness ==
    /\ WF_vars(LoopOwnStep) /\ SF_vars(LoopShutdown) /\ SF_vars(LoopClose)
    /\ WF_vars(SpinStep)
    /\ \A c \in Call : WF_vars(SessionStep(c))

FairSpec == Spec /\ Fairness

-----------------------------------------------------------------------------
(* Properties *)

\* Types of all variables; no channel exceeds its capacity.
TypeOK ==
    /\ pc \in {"accept", "select", "unregister", "quitting", "exited"}
    /\ sessions \in Seq(Call)
    /\ shutdownChan \in 0..MaxShutdowns
    /\ sessionCloseChan \in Seq(Call) /\ Len(sessionCloseChan) <= CloseCap
    /\ spc \in [Call -> {"none", "backlog", "header", "request", "enqueue", "wait",
                         "ok", "error", "nil", "post", "done"}]
    /\ cpc \in [Call -> {"idle", "header", "await", "late", "success", "refused",
                         "failed"}]
    /\ answered \in [Call -> BOOLEAN] /\ reply \in [Call -> {"none", "ok", "error"}]
    /\ expired \in [Call -> BOOLEAN]
    /\ jobChan \in Seq(Call) /\ Len(jobChan) <= JobCap
    /\ spin \in Call \cup {NoCall}
    /\ stage \in {"idle", "decode", "undecoded", "handle", "ok", "error", "nil"}
    /\ decoded \in [Call -> BOOLEAN] /\ handled \in [Call -> 0..1]

\* A call that returned without error had its request decoded and handled, once,
\* whatever timed out on either side.
SuccessMeansHandled ==
    \A c \in Call : cpc[c] = "success" => decoded[c] /\ handled[c] = 1

\* A call the server refused was either handled once or never decoded.
RefusalMeansReported ==
    \A c \in Call : cpc[c] = "refused" => handled[c] = 1 \/ ~decoded[c]

\* As long as the loop runs it lists exactly the sessions that are running or
\* whose close event it has still to read, each once.
SessionsTracked ==
    /\ IsInjective(sessions)
    /\ pc # "exited" =>
         \A c \in Call :
           c \in ToSet(sessions) <=>
             \/ spc[c] \notin {"none", "backlog", "done"}
             \/ c \in ToSet(sessionCloseChan)

\* Where the loop is, for its node.
State ==
    CASE pc \in {"accept", "select"} -> "running"
      [] pc \in {"unregister", "quitting"} -> "stopping"
      [] pc = "exited" -> "ended"

\* To its node it is a NodeLoop that gets no lists: it takes one token and
\* nothing after it, and ends without one only when its listener fails.
Loop == INSTANCE NodeLoop WITH
    List <- {}, NoList <- NoCall, ListCap <- 0, TokenCap <- MaxShutdowns,
    MayFail <- "accept" \in MayFail,
    state <- State, tokens <- shutdownChan, lists <- <<>>, seen <- NoCall

RunsAsLoop == Loop!Spec

\* The job being run has a result for a session that gave up on it, or that it
\* has already sent a decoding error.
Unheard ==
    /\ stage \in {"undecoded", "ok", "error", "nil"}
    /\ spc[spin] \in {"error", "post", "done"}
    /\ expired[spin] \/ ~decoded[spin]

\* Every job comes to its end and frees the spinning goroutine, unless its
\* session expired or its request did not decode: then the goroutine is blocked
\* for good.
SpinProgress == spin # NoCall ~> (spin = NoCall \/ []Unheard)

\* A Shutdown ends the loop, unless a session is listed when it is taken or the
\* master never answers the unregisterService call.
ShutdownProgress ==
    shutdownChan > 0 ~> \/ pc = "exited"
                        \/ [](pc = "quitting" /\ sessions # <<>>)
                        \/ [](pc = "unregister")
=============================================================================
