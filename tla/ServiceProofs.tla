---------------------------- MODULE ServiceProofs ----------------------------
(***************************************************************************)
(* Proofs about Service, for every value of its constants: types, the list *)
(* of sessions, that the loop is a NodeLoop, what a call that returned     *)
(* says of its request, and where loop and jobs wait for good.             *)
(***************************************************************************)
EXTENDS Service, Channels

-----------------------------------------------------------------------------
(* Types *)

SessionStates == {"none", "backlog", "header", "request", "enqueue", "wait",
                  "ok", "error", "nil", "post", "done"}
ClientStates == {"idle", "header", "await", "late", "success", "refused", "failed"}

\* TypeOK, but for how often a handler runs; and a job is run or none is.
Types ==
    /\ pc \in {"accept", "select", "unregister", "quitting", "exited"}
    /\ sessions \in Seq(Call)
    /\ shutdownChan \in 0..MaxShutdowns
    /\ sessionCloseChan \in Seq(Call) /\ Len(sessionCloseChan) <= CloseCap
    /\ spc \in [Call -> SessionStates] /\ cpc \in [Call -> ClientStates]
    /\ answered \in [Call -> BOOLEAN] /\ reply \in [Call -> {"none", "ok", "error"}]
    /\ expired \in [Call -> BOOLEAN]
    /\ jobChan \in Seq(Call) /\ Len(jobChan) <= JobCap
    /\ spin \in Call \cup {NoCall}
    /\ stage \in {"idle", "decode", "undecoded", "handle", "ok", "error", "nil"}
    /\ stage = "idle" <=> spin = NoCall
    /\ decoded \in [Call -> BOOLEAN] /\ handled \in [Call -> Nat]

\* What the assumptions say of the constants.
LEMMA ConstantTypes ==
    CloseCap \in Nat \ {0} /\ JobCap \in Nat \ {0} /\ MaxShutdowns \in Nat /\ NoCall \notin Call
BY BoundsAssumption, CallAssumption

\* The types hold before anyone calls.
LEMMA TypesInit == Init => Types
BY ConstantTypes, EmptySeq DEF Init, Types, SessionStates, ClientStates

\* The server's loop keeps them,
LEMMA TypesLoop == Types /\ LoopStep => Types'
<1> SUFFICES ASSUME Types, LoopStep PROVE Types'
  OBVIOUS
<1> USE ConstantTypes DEF Types, loopFrame, chanVars, spinVars
<1>1. ASSUME NEW c \in Call, LoopAccept(c) PROVE Types'
  BY <1>1, AppendProperties DEF LoopAccept, SessionStates
<1>2. CASE LoopClose
  <2>1. /\ Tail(sessionCloseChan) \in Seq(Call) /\ Len(sessionCloseChan) \in Nat
        /\ Len(Tail(sessionCloseChan)) = Len(sessionCloseChan) - 1
    BY <1>2, ChanReceive DEF LoopClose
  <2>2. /\ sessions' \in Seq(Call)
        /\ sessionCloseChan' \in Seq(Call) /\ Len(sessionCloseChan') <= CloseCap
    BY <1>2, <2>1, ListRemoveSeq DEF LoopClose, Unlist
  <2> QED
    BY <1>2, <2>2 DEF LoopClose
<1>3. CASE LoopShutdown
  <2>1. shutdownChan' \in 0..MaxShutdowns
    BY <1>3 DEF LoopShutdown
  <2> QED
    BY <1>3, <2>1 DEF LoopShutdown
<1>4. CASE LoopAcceptTimeout \/ LoopAcceptError \/ LoopIdle \/ LoopUnregister \/ LoopCleared
  BY <1>4 DEF LoopAcceptTimeout, LoopAcceptError, LoopIdle, LoopUnregister, LoopCleared
<1> QED
  BY <1>1, <1>2, <1>3, <1>4 DEF LoopStep, LoopOwnStep

\* so does a session,
LEMMA TypesSession == \A c \in Call : Types /\ SessionStep(c) => Types'
<1> SUFFICES ASSUME NEW c \in Call, Types, SessionStep(c) PROVE Types'
  OBVIOUS
<1> USE ConstantTypes DEF Types, sessionFrame, loopVars, spinVars, SessionTo
<1>1. CASE SessionHeader(c)
  BY <1>1 DEF SessionHeader, SessionStates
<1>2. CASE SessionRequest(c)
  BY <1>2 DEF SessionRequest, SessionStates
<1>3. CASE SessionEnqueue(c)
  <2>1. /\ Append(jobChan, c) \in Seq(Call) /\ Len(jobChan) \in Nat
        /\ Len(Append(jobChan, c)) = Len(jobChan) + 1
    BY ChanSend
  <2> QED
    BY <1>3, <2>1 DEF SessionEnqueue, SessionStates
<1>4. CASE SessionTimeout(c)
  BY <1>4 DEF SessionTimeout, SessionStates
<1>5. CASE SessionReply(c)
  BY <1>5 DEF SessionReply, SessionStates
<1>6. CASE SessionPost(c)
  <2>1. /\ Append(sessionCloseChan, c) \in Seq(Call) /\ Len(sessionCloseChan) \in Nat
        /\ Len(Append(sessionCloseChan, c)) = Len(sessionCloseChan) + 1
    BY ChanSend
  <2> QED
    BY <1>6, <2>1 DEF SessionPost, SessionStates
<1> QED
  BY <1>1, <1>2, <1>3, <1>4, <1>5, <1>6 DEF SessionStep

\* the goroutine that runs the jobs,
LEMMA TypesSpin == Types /\ SpinStep => Types'
<1> SUFFICES ASSUME Types, SpinStep PROVE Types'
  OBVIOUS
<1> USE ConstantTypes DEF Types, spinFrame, loopVars, chanVars
<1>1. CASE SpinTake
  <2>1. /\ Head(jobChan) \in Call /\ Tail(jobChan) \in Seq(Call) /\ Len(jobChan) \in Nat
        /\ Len(Tail(jobChan)) = Len(jobChan) - 1
    BY <1>1, ChanReceive DEF SpinTake
  <2> QED
    BY <1>1, <2>1 DEF SpinTake
<1>2. CASE SpinDecode
  BY <1>2 DEF SpinDecode
<1>3. CASE SpinHandle
  BY <1>3 DEF SpinHandle
<1>4. CASE SpinSend
  BY <1>4 DEF SpinSend, SessionTo, SessionStates
<1> QED
  BY <1>1, <1>2, <1>3, <1>4 DEF SpinStep

\* and a client.
LEMMA TypesClient == \A c \in Call : Types /\ ClientStep(c) => Types'
<1> SUFFICES ASSUME NEW c \in Call, Types, ClientStep(c) PROVE Types'
  OBVIOUS
<1> USE DEF Types, clientFrame, ClientTo, loopVars, chanVars, spinVars, ClientStates, SessionStates
<1>1. CASE ClientConnect(c)
  BY <1>1 DEF ClientConnect
<1>2. CASE ClientRequest(c)
  BY <1>2 DEF ClientRequest
<1>3. CASE ClientReply(c)
  BY <1>3 DEF ClientReply
<1>4. CASE ClientTimeout(c)
  BY <1>4 DEF ClientTimeout
<1> QED
  BY <1>1, <1>2, <1>3, <1>4 DEF ClientStep

\* Every step keeps the types.
LEMMA TypesStep == Types /\ [Next]_vars => Types'
<1> SUFFICES ASSUME Types, [Next]_vars PROVE Types'
  OBVIOUS
<1>1. CASE UNCHANGED vars
  BY <1>1 DEF Types, vars, loopVars, chanVars, spinVars
<1>2. CASE Shutdown
  <2>1. shutdownChan' \in 0..MaxShutdowns
    BY <1>2, ConstantTypes DEF Shutdown, Types
  <2> QED
    BY <1>2, <2>1 DEF Shutdown, Types, loopVars, spinVars
<1> QED
  BY <1>1, <1>2, TypesLoop, TypesSession, TypesSpin, TypesClient DEF Next

-----------------------------------------------------------------------------
(* The sessions *)

HIDE DEF Types

\* The session of call c runs.
Runs(c) == spc[c] \notin {"none", "backlog", "done"}

\* Every session is listed once and posts its close event once, when it is done:
\* the list is exact as long as the loop is there to keep it.
Tracks ==
    /\ IsInjective(sessions) /\ IsInjective(sessionCloseChan)
    /\ \A c \in Call :
         /\ c \in ToSet(sessionCloseChan) => spc[c] = "done"
         /\ pc # "exited" =>
              (c \in ToSet(sessions) <=> Runs(c) \/ c \in ToSet(sessionCloseChan))

\* The table is empty at the start.
LEMMA TracksInit == Init => Tracks
BY DEF Init, Tracks, Runs, IsInjective, ToSet

\* A call connects once.
ConnectsOnce == \A c \in Call : cpc[c] = "idle" => spc[c] = "none"

\* The steps of the server's loop keep the list exact.
LEMMA TracksLoop == Types /\ Tracks /\ LoopStep => Tracks'
<1> SUFFICES ASSUME Types, Tracks, LoopStep PROVE Tracks'
  OBVIOUS
<1>0. /\ sessions \in Seq(Call) /\ sessionCloseChan \in Seq(Call)
      /\ spc \in [Call -> SessionStates]
  BY DEF Types
<1>1. ASSUME NEW c \in Call, LoopAccept(c) PROVE Tracks'
  <2>1. /\ pc = "accept" /\ pc' = "select" /\ spc[c] = "backlog"
        /\ spc' = [spc EXCEPT ![c] = "header"] /\ UNCHANGED sessionCloseChan
    BY <1>1 DEF LoopAccept, chanVars
  <2>2. c \notin ToSet(sessions)
    BY <2>1 DEF Tracks, Runs
  <2>3. IsInjective(sessions') /\ ToSet(sessions') = ToSet(sessions) \cup {c}
    BY <1>0, <1>1, <2>2, ChanSend, ChanSendNew DEF LoopAccept, Tracks
  <2> QED
    BY <1>0, <2>1, <2>3 DEF Tracks, Runs
<1>2. CASE LoopClose
  <2> DEFINE c == Head(sessionCloseChan)
  <2>1. /\ c \in ToSet(sessionCloseChan) /\ c \in Call /\ IsInjective(sessionCloseChan')
        /\ ToSet(sessionCloseChan') = ToSet(sessionCloseChan) \ {c}
    BY <1>0, <1>2, ChanReceive, ChanReceiveDistinct DEF LoopClose, Tracks
  <2>2. IsInjective(sessions') /\ ToSet(sessions') = ToSet(sessions) \ {c}
    BY <1>0, <1>2, ListRemove DEF LoopClose, Unlist, Tracks
  <2>3. pc = "select" /\ pc' = "accept" /\ UNCHANGED spc
    BY <1>2 DEF LoopClose
  <2> HIDE DEF c
  <2> QED
    BY <2>1, <2>2, <2>3 DEF Tracks, Runs
<1>3. CASE \/ LoopAcceptTimeout \/ LoopAcceptError \/ LoopIdle \/ LoopShutdown
           \/ LoopUnregister \/ LoopCleared
  <2>1. UNCHANGED <<sessions, sessionCloseChan, spc>> /\ pc # "exited"
    BY <1>3 DEF LoopAcceptTimeout, LoopAcceptError, LoopIdle, LoopShutdown, LoopUnregister,
       LoopCleared, chanVars
  <2> QED
    BY <2>1 DEF Tracks, Runs
<1> QED
  BY <1>1, <1>2, <1>3 DEF LoopStep, LoopOwnStep

\* So do those of a session, whose close event is its last.
LEMMA TracksSession == \A c \in Call : Types /\ Tracks /\ SessionStep(c) => Tracks'
<1> SUFFICES ASSUME NEW c \in Call, Types, Tracks, SessionStep(c) PROVE Tracks'
  OBVIOUS
<1>0. /\ sessionCloseChan \in Seq(Call) /\ spc \in [Call -> SessionStates]
  BY DEF Types
<1>1. UNCHANGED pc /\ UNCHANGED sessions
  BY DEF SessionStep, SessionHeader, SessionRequest, SessionEnqueue, SessionTimeout,
     SessionReply, SessionPost, sessionFrame, loopVars
<1>2. CASE SessionPost(c)
  <2>1. spc[c] = "post" /\ spc' = [spc EXCEPT ![c] = "done"]
    BY <1>2 DEF SessionPost, SessionTo
  <2>2. c \notin ToSet(sessionCloseChan)
    BY <2>1 DEF Tracks
  <2>3. /\ IsInjective(sessionCloseChan')
        /\ ToSet(sessionCloseChan') = ToSet(sessionCloseChan) \cup {c}
    BY <1>0, <1>2, <2>2, ChanSend, ChanSendNew DEF SessionPost, Tracks
  <2> QED
    BY <1>0, <1>1, <2>1, <2>3 DEF Tracks, Runs
<1>3. CASE ~SessionPost(c)
  <2>1. /\ UNCHANGED sessionCloseChan /\ spc[c] \notin {"none", "backlog", "done"}
        /\ \E next \in {"request", "enqueue", "wait", "post"} : spc' = [spc EXCEPT ![c] = next]
    BY <1>3 DEF SessionStep, SessionHeader, SessionRequest, SessionEnqueue, SessionTimeout,
       SessionReply, SessionTo
  <2> QED
    BY <1>0, <1>1, <2>1 DEF Tracks, Runs
<1> QED
  BY <1>2, <1>3

\* Neither jobs nor clients end a session or start one.
LEMMA TracksOthers ==
    \/ SpinStep \/ Shutdown \/ UNCHANGED vars \/ \E c \in Call : ClientStep(c)
    => (Types /\ ConnectsOnce /\ Tracks => Tracks')
<1> SUFFICES ASSUME Types, ConnectsOnce, Tracks,
                    \/ SpinStep \/ Shutdown \/ UNCHANGED vars \/ \E c \in Call : ClientStep(c)
             PROVE  Tracks'
  OBVIOUS
<1>0. /\ spc \in [Call -> SessionStates] /\ (stage = "idle" <=> spin = NoCall)
      /\ spin \in Call \cup {NoCall}
  BY DEF Types
<1>1. UNCHANGED pc /\ UNCHANGED sessions /\ UNCHANGED sessionCloseChan
  BY DEF SpinStep, SpinTake, SpinDecode, SpinHandle, SpinSend, spinFrame, Shutdown, ClientStep,
     ClientConnect, ClientRequest, ClientReply, ClientTimeout, clientFrame, vars, loopVars,
     chanVars
<1>2. CASE SpinSend
  <2>1. spin \in Call /\ Runs(spin)
    BY <1>0, <1>2 DEF SpinSend, Runs
  <2>2. \E next \in {"ok", "error", "nil"} : spc' = [spc EXCEPT ![spin] = next]
    BY <1>2 DEF SpinSend, SessionTo
  <2> QED
    BY <1>0, <1>1, <2>1, <2>2 DEF Tracks, Runs
<1>3. ASSUME NEW c \in Call, ClientConnect(c) PROVE Tracks'
  <2>1. spc[c] = "none" /\ spc' = [spc EXCEPT ![c] = "backlog"]
    BY <1>3 DEF ClientConnect, ConnectsOnce
  <2> QED
    BY <1>0, <1>1, <2>1 DEF Tracks, Runs
<1>4. CASE UNCHANGED spc
  BY <1>1, <1>4 DEF Tracks, Runs
<1> QED
  BY <1>2, <1>3, <1>4 DEF SpinStep, SpinTake, SpinDecode, SpinHandle, spinFrame, Shutdown,
     ClientStep, ClientRequest, ClientReply, ClientTimeout, clientFrame, vars

\* The client of a call connects before its session does anything.
LEMMA ConnectsOnceStep == Types /\ ConnectsOnce /\ [Next]_vars => ConnectsOnce'
<1> SUFFICES ASSUME Types, ConnectsOnce, [Next]_vars PROVE ConnectsOnce'
  OBVIOUS
<1>0. /\ spc \in [Call -> SessionStates] /\ cpc \in [Call -> ClientStates]
      /\ (stage = "idle" <=> spin = NoCall) /\ spin \in Call \cup {NoCall}
  BY DEF Types
<1>1. CASE LoopStep
  <2>1. /\ UNCHANGED cpc
        /\ \/ UNCHANGED spc
           \/ \E c \in Call : spc[c] = "backlog" /\ spc' = [spc EXCEPT ![c] = "header"]
    BY <1>1 DEF LoopStep, LoopOwnStep, LoopAccept, LoopAcceptTimeout, LoopAcceptError, LoopClose, LoopIdle,
       LoopShutdown, LoopUnregister, LoopCleared, loopFrame
  <2> QED
    BY <1>0, <2>1 DEF ConnectsOnce
<1>2. ASSUME NEW c \in Call, SessionStep(c) PROVE ConnectsOnce'
  <2>1. /\ UNCHANGED cpc /\ spc[c] # "none"
        /\ \E next : spc' = [spc EXCEPT ![c] = next]
    BY <1>2 DEF SessionStep, SessionHeader, SessionRequest, SessionEnqueue, SessionTimeout,
       SessionReply, SessionPost, SessionTo, sessionFrame
  <2> QED
    BY <1>0, <2>1 DEF ConnectsOnce
<1>3. CASE SpinSend
  <2>1. /\ UNCHANGED cpc /\ spin \in Call /\ spc[spin] = "wait"
        /\ \E next : spc' = [spc EXCEPT ![spin] = next]
    BY <1>0, <1>3 DEF SpinSend, SessionTo, spinFrame
  <2> QED
    BY <1>0, <2>1 DEF ConnectsOnce
<1>4. ASSUME NEW c \in Call, ClientStep(c) PROVE ConnectsOnce'
  <2>1. /\ \E next \in ClientStates \ {"idle"} : cpc' = [cpc EXCEPT ![c] = next]
        /\ UNCHANGED spc \/ (cpc[c] = "idle" /\ spc' = [spc EXCEPT ![c] = "backlog"])
    BY <1>4 DEF ClientStep, ClientConnect, ClientRequest, ClientReply, ClientTimeout, ClientTo,
       clientFrame, ClientStates
  <2> QED
    BY <1>0, <2>1 DEF ConnectsOnce
<1>5. CASE SpinTake \/ SpinDecode \/ SpinHandle \/ Shutdown \/ UNCHANGED vars
  BY <1>5 DEF SpinTake, SpinDecode, SpinHandle, spinFrame, Shutdown, vars, ConnectsOnce
<1> QED
  BY <1>1, <1>2, <1>3, <1>4, <1>5 DEF Next, SpinStep

\* Types and sessions in every reachable state.
LEMMA ListInvariance == Spec => [](Types /\ ConnectsOnce /\ Tracks)
<1>1. Init => ConnectsOnce
  BY DEF Init, ConnectsOnce
<1>2. Types /\ ConnectsOnce /\ Tracks /\ [Next]_vars => Tracks'
  BY TracksLoop, TracksSession, TracksOthers DEF Next
<1> QED
  BY <1>1, <1>2, TypesInit, TypesStep, ConnectsOnceStep, TracksInit, PTL DEF Spec

\* Every session that runs, or whose close event is still to be read, is listed
\* once, and no other is, as long as the loop runs.
THEOREM SessionsListed == Spec => []SessionsTracked
<1>1. Tracks => SessionsTracked
  BY DEF Tracks, Runs, SessionsTracked
<1> QED
  BY <1>1, ListInvariance, PTL

-----------------------------------------------------------------------------
(* The loop as its node sees it *)

\* What a step is to the node.
LEMMA LoopStepKinds ==
    ASSUME Types, [Next]_vars
    PROVE  [Loop!Next]_(Loop!vars)
<1> USE DEF loopVars, chanVars, State, Loop!vars
<1>0. /\ pc \in {"accept", "select", "unregister", "quitting", "exited"}
      /\ shutdownChan \in 0..MaxShutdowns /\ MaxShutdowns \in Nat
  BY ConstantTypes DEF Types
<1> DEFINE Same == UNCHANGED <<State, shutdownChan>>
<1>1. Same => [Loop!Next]_(Loop!vars)
  OBVIOUS
<1>2. CASE LoopShutdown
  <2>1. Loop!Stop
    BY <1>0, <1>2 DEF LoopShutdown, Loop!Stop
  <2> QED
    BY <2>1 DEF Loop!Next
<1>3. CASE LoopCleared
  <2>1. Loop!End
    BY <1>0, <1>3 DEF LoopCleared, Loop!End
  <2> QED
    BY <2>1 DEF Loop!Next
<1>4. CASE LoopAcceptError
  <2>1. Loop!Fail
    BY <1>0, <1>4 DEF LoopAcceptError, Loop!Fail
  <2> QED
    BY <2>1 DEF Loop!Next
<1>5. CASE Shutdown
  <2>1. Loop!Tell
    BY <1>0, <1>5 DEF Shutdown, Loop!Tell
  <2> QED
    BY <2>1 DEF Loop!Next
<1>6. CASE \/ \E c \in Call : LoopAccept(c)
           \/ LoopAcceptTimeout \/ LoopClose \/ LoopIdle \/ LoopUnregister
  <2>1. Same
    BY <1>0, <1>6 DEF LoopAccept, LoopAcceptTimeout, LoopClose, LoopIdle, LoopUnregister
  <2> QED
    BY <1>1, <2>1
<1>7. CASE SpinStep \/ (\E c \in Call : SessionStep(c) \/ ClientStep(c)) \/ UNCHANGED vars
  <2>1. UNCHANGED <<pc, shutdownChan>>
    BY <1>7 DEF SpinStep, SpinTake, SpinDecode, SpinHandle, SpinSend, spinFrame,
       SessionStep, SessionHeader, SessionRequest, SessionEnqueue, SessionTimeout,
       SessionReply, SessionPost, sessionFrame, ClientStep, ClientConnect, ClientRequest,
       ClientReply, ClientTimeout, clientFrame, vars
  <2> QED
    BY <1>1, <2>1
<1> QED
  BY <1>2, <1>3, <1>4, <1>5, <1>6, <1>7 DEF Next, LoopStep, LoopOwnStep

\* Node's abstraction of a loop holds of a service server's: whatever its
\* sessions, its clients and the spinning goroutine do meanwhile, it takes one
\* token and nothing after it, and ends untold only when its listener fails.
THEOREM IsNodeLoop == Spec => RunsAsLoop
<1>1. Init => Loop!Init
  BY DEF Init, Loop!Init, State
<1> QED
  BY <1>1, TypesInit, TypesStep, LoopStepKinds, PTL DEF Spec, RunsAsLoop, Loop!Spec

-----------------------------------------------------------------------------
(* The jobs *)

\* The session of call c has not made its job yet.
Early(c) == spc[c] \in {"none", "backlog", "header", "request", "enqueue"}

\* The job of call c has been made and has sent nothing yet.
Silent(c) == c \in ToSet(jobChan) \/ (spin = c /\ stage \in {"decode", "undecoded"})

\* A call has one job at most, which runs its handler once at most and decodes
\* the request before that or never; and after a decoding error was sent, the
\* result of the handler finds no session that waits for it.
JobOf(c) ==
    /\ Early(c) => ~Silent(c) /\ spin # c /\ handled[c] = 0 /\ ~decoded[c]
    /\ c \in ToSet(jobChan) => spin # c
    /\ Silent(c) => /\ handled[c] = 0 /\ ~decoded[c]
                    /\ reply[c] = "none" /\ spc[c] \in {"wait", "post", "done"}
    /\ spin = c /\ stage = "handle" => handled[c] = 0
    /\ spin = c /\ stage \in {"ok", "error", "nil"} => handled[c] = 1
    /\ spin = c /\ stage \in {"handle", "ok", "error", "nil"} /\ ~decoded[c] => spc[c] # "wait"
    /\ handled[c] \in 0..1

\* What the session has been sent, has written, and what its client has read.
ResultOf(c) ==
    /\ spc[c] = "ok" => handled[c] = 1 /\ decoded[c]
    /\ spc[c] = "error" => handled[c] = 1 \/ ~decoded[c]
    /\ reply[c] # "none" => spc[c] \in {"post", "done"}
    /\ reply[c] = "ok" => handled[c] = 1 /\ decoded[c]
    /\ reply[c] = "error" => handled[c] = 1 \/ ~decoded[c]
    /\ cpc[c] = "success" => reply[c] = "ok"
    /\ cpc[c] = "refused" => reply[c] = "error"

Jobs == IsInjective(jobChan) /\ \A c \in Call : JobOf(c) /\ ResultOf(c)

\* There is no job yet.
LEMMA JobsInit == Init => Jobs
BY ConstantTypes DEF Init, Jobs, JobOf, ResultOf, Early, Silent, IsInjective, ToSet

\* The types the proofs below need.
CallTypes ==
    /\ jobChan \in Seq(Call) /\ (stage = "idle" <=> spin = NoCall)
    /\ spin \in Call \cup {NoCall} /\ NoCall \notin Call
    /\ spc \in [Call -> SessionStates] /\ cpc \in [Call -> ClientStates]
    /\ reply \in [Call -> {"none", "ok", "error"}] /\ expired \in [Call -> BOOLEAN]
    /\ decoded \in [Call -> BOOLEAN] /\ handled \in [Call -> Nat]

\* The types of the calls, by themselves.
LEMMA TypesCalls == Types => CallTypes
BY ConstantTypes DEF Types, CallTypes

\* A step that changes no job, and no session but one that makes or has none,
\* or lets one wait in vain, or writes what it was sent.
LEMMA JobsSession == \A c \in Call : CallTypes /\ Jobs /\ SessionStep(c) => Jobs'
<1> SUFFICES ASSUME NEW c \in Call, CallTypes, Jobs, SessionStep(c) PROVE Jobs'
  OBVIOUS
<1>0. UNCHANGED <<cpc, spin, stage, decoded, handled>>
  BY DEF SessionStep, SessionHeader, SessionRequest, SessionEnqueue, SessionTimeout,
     SessionReply, SessionPost, sessionFrame, spinVars
<1>1. CASE SessionEnqueue(c)
  <2>1. spc[c] = "enqueue" /\ spc' = [spc EXCEPT ![c] = "wait"] /\ UNCHANGED reply
    BY <1>1 DEF SessionEnqueue, SessionTo
  <2>2. c \notin ToSet(jobChan) /\ Early(c)
    BY <2>1 DEF Jobs, JobOf, Early, Silent
  <2>3. ToSet(jobChan') = ToSet(jobChan) \cup {c} /\ IsInjective(jobChan')
    BY <1>1, <2>2, ChanSend, ChanSendNew DEF SessionEnqueue, Jobs, CallTypes
  <2>4. ASSUME NEW d \in Call PROVE (JobOf(d) /\ ResultOf(d))'
    <3>1. CASE d = c
      BY <1>0, <2>1, <2>2, <2>3, <3>1 DEF Jobs, JobOf, ResultOf, Early, Silent, CallTypes
    <3>2. CASE d # c
      BY <1>0, <2>1, <2>3, <3>2 DEF Jobs, JobOf, ResultOf, Early, Silent, CallTypes
    <3> QED
      BY <3>1, <3>2
  <2> QED
    BY <2>3, <2>4 DEF Jobs
<1>2. CASE SessionReply(c)
  <2>1. /\ spc[c] \in {"ok", "error", "nil"} /\ spc' = [spc EXCEPT ![c] = "post"]
        /\ UNCHANGED jobChan
        /\ \/ UNCHANGED reply
           \/ spc[c] \in {"ok", "error"} /\ reply' = [reply EXCEPT ![c] = spc[c]]
    BY <1>2 DEF SessionReply, SessionTo
  <2>2. ASSUME NEW d \in Call PROVE (JobOf(d) /\ ResultOf(d))'
    <3>1. CASE d = c
      BY <1>0, <2>1, <3>1 DEF Jobs, JobOf, ResultOf, Early, Silent, CallTypes
    <3>2. CASE d # c
      BY <1>0, <2>1, <3>2 DEF Jobs, JobOf, ResultOf, Early, Silent, CallTypes
    <3> QED
      BY <3>1, <3>2
  <2> QED
    BY <2>1, <2>2 DEF Jobs
<1>3. CASE SessionHeader(c) \/ SessionRequest(c) \/ SessionTimeout(c) \/ SessionPost(c)
  <2>1. /\ UNCHANGED <<jobChan, reply>>
        /\ spc[c] \in {"header", "request"} \/ (spc[c] \in {"wait", "post"} /\ spc'[c] \in {"post", "done"})
        /\ spc' = [spc EXCEPT ![c] = spc'[c]]
        /\ spc'[c] \in {"request", "enqueue", "post", "done"}
    BY <1>3 DEF SessionHeader, SessionRequest, SessionTimeout, SessionPost, SessionTo, CallTypes
  <2>2. ASSUME NEW d \in Call PROVE (JobOf(d) /\ ResultOf(d))'
    <3>1. CASE d = c
      BY <1>0, <2>1, <3>1 DEF Jobs, JobOf, ResultOf, Early, Silent, CallTypes
    <3>2. CASE d # c
      BY <1>0, <2>1, <3>2 DEF Jobs, JobOf, ResultOf, Early, Silent, CallTypes
    <3> QED
      BY <3>1, <3>2
  <2> QED
    BY <2>1, <2>2 DEF Jobs
<1> QED
  BY <1>1, <1>2, <1>3 DEF SessionStep

\* The job being run goes on to its handler and to its result.
LEMMA JobsSpin == CallTypes /\ Jobs /\ SpinStep => Jobs'
<1> SUFFICES ASSUME CallTypes, Jobs, SpinStep PROVE Jobs'
  OBVIOUS
<1>0. UNCHANGED <<cpc, reply>>
  BY DEF SpinStep, SpinTake, SpinDecode, SpinHandle, SpinSend, spinFrame
<1>1. CASE SpinTake
  <2>1. /\ spin' \in ToSet(jobChan) /\ spin' \in Call /\ IsInjective(jobChan')
        /\ ToSet(jobChan') = ToSet(jobChan) \ {spin'}
    BY <1>1, ChanReceive, ChanReceiveDistinct DEF SpinTake, Jobs, CallTypes
  <2>2. stage' = "decode" /\ spin = NoCall /\ UNCHANGED <<spc, decoded, handled>>
    BY <1>1 DEF SpinTake
  <2>3. ASSUME NEW d \in Call PROVE (JobOf(d) /\ ResultOf(d))'
    BY <1>0, <2>1, <2>2 DEF Jobs, JobOf, ResultOf, Early, Silent, CallTypes
  <2> QED
    BY <2>1, <2>3 DEF Jobs
<1>2. CASE SpinDecode
  <2>1. /\ stage = "decode" /\ spin \in Call /\ UNCHANGED <<spc, jobChan, spin, handled>>
        /\ \/ stage' = "handle" /\ decoded' = [decoded EXCEPT ![spin] = TRUE]
           \/ stage' = "undecoded" /\ UNCHANGED decoded
    BY <1>2 DEF SpinDecode, CallTypes
  <2>2. ASSUME NEW d \in Call PROVE (JobOf(d) /\ ResultOf(d))'
    <3>1. CASE d = spin
      BY <1>0, <2>1, <3>1 DEF Jobs, JobOf, ResultOf, Early, Silent, CallTypes
    <3>2. CASE d # spin
      BY <1>0, <2>1, <3>2 DEF Jobs, JobOf, ResultOf, Early, Silent, CallTypes
    <3> QED
      BY <3>1, <3>2
  <2> QED
    BY <2>1, <2>2 DEF Jobs
<1>3. CASE SpinHandle
  <2>1. /\ stage = "handle" /\ spin \in Call /\ UNCHANGED <<spc, jobChan, spin, decoded>>
        /\ handled' = [handled EXCEPT ![spin] = @ + 1] /\ stage' \in {"ok", "error", "nil"}
    BY <1>3 DEF SpinHandle, CallTypes
  <2>2. handled[spin] = 0 /\ handled'[spin] = 1
    BY <2>1 DEF Jobs, JobOf, CallTypes
  <2>3. ASSUME NEW d \in Call PROVE (JobOf(d) /\ ResultOf(d))'
    <3>1. CASE d = spin
      BY <1>0, <2>1, <2>2, <3>1 DEF Jobs, JobOf, ResultOf, Early, Silent, CallTypes
    <3>2. CASE d # spin
      BY <1>0, <2>1, <3>2 DEF Jobs, JobOf, ResultOf, Early, Silent, CallTypes
    <3> QED
      BY <3>1, <3>2
  <2> QED
    BY <2>1, <2>3 DEF Jobs
<1>4. CASE SpinSend
  <2>1. /\ stage \in {"undecoded", "ok", "error", "nil"} /\ spin \in Call /\ spc[spin] = "wait"
        /\ spc' = [spc EXCEPT ![spin] = IF stage = "undecoded" THEN "error" ELSE stage]
        /\ UNCHANGED <<jobChan, decoded, handled>>
        /\ IF stage = "undecoded" THEN stage' = "handle" /\ spin' = spin
                                  ELSE stage' = "idle" /\ spin' = NoCall
    BY <1>4 DEF SpinSend, SessionTo, CallTypes
  <2>2. ASSUME NEW d \in Call PROVE (JobOf(d) /\ ResultOf(d))'
    <3>1. CASE d = spin
      <4>1. CASE stage = "undecoded"
        BY <1>0, <2>1, <3>1, <4>1 DEF Jobs, JobOf, ResultOf, Early, Silent, CallTypes
      <4>2. CASE stage # "undecoded"
        BY <1>0, <2>1, <3>1, <4>2 DEF Jobs, JobOf, ResultOf, Early, Silent, CallTypes
      <4> QED
        BY <4>1, <4>2
    <3>2. CASE d # spin
      BY <1>0, <2>1, <3>2 DEF Jobs, JobOf, ResultOf, Early, Silent, CallTypes
    <3> QED
      BY <3>1, <3>2
  <2> QED
    BY <2>1, <2>2 DEF Jobs
<1> QED
  BY <1>1, <1>2, <1>3, <1>4 DEF SpinStep

\* The server's loop and the clients see results only.
LEMMA JobsOthers ==
    CallTypes /\ ConnectsOnce /\ Jobs
    /\ (LoopStep \/ Shutdown \/ UNCHANGED vars \/ \E c \in Call : ClientStep(c))
    => Jobs'
<1> SUFFICES ASSUME CallTypes, ConnectsOnce, Jobs,
                    LoopStep \/ Shutdown \/ UNCHANGED vars \/ \E c \in Call : ClientStep(c)
             PROVE  Jobs'
  OBVIOUS
<1>1. UNCHANGED <<jobChan, spin, stage, decoded, handled, reply>>
  BY DEF LoopStep, LoopOwnStep, LoopAccept, LoopAcceptTimeout, LoopAcceptError, LoopClose, LoopIdle,
     LoopShutdown, LoopUnregister, LoopCleared, loopFrame, Shutdown, vars, ClientStep,
     ClientConnect, ClientRequest, ClientReply, ClientTimeout, clientFrame, spinVars
<1>2. ASSUME NEW c \in Call, LoopAccept(c) PROVE Jobs'
  <2>1. spc[c] = "backlog" /\ spc' = [spc EXCEPT ![c] = "header"] /\ UNCHANGED cpc
    BY <1>2 DEF LoopAccept, loopFrame
  <2> QED
    BY <1>1, <2>1 DEF Jobs, JobOf, ResultOf, Early, Silent, CallTypes
<1>3. ASSUME NEW c \in Call, ClientStep(c) PROVE Jobs'
  <2>1. /\ UNCHANGED spc \/ (spc[c] = "none" /\ spc' = [spc EXCEPT ![c] = "backlog"])
        /\ \E next \in ClientStates :
             /\ cpc' = [cpc EXCEPT ![c] = next]
             /\ next = "success" => reply[c] = "ok"
             /\ next = "refused" => reply[c] = "error"
    BY <1>3 DEF ClientStep, ClientConnect, ClientRequest, ClientReply, ClientTimeout, ClientTo,
       clientFrame, ClientStates, ConnectsOnce
  <2> QED
    BY <1>1, <2>1 DEF Jobs, JobOf, ResultOf, Early, Silent, CallTypes
<1>4. CASE UNCHANGED <<spc, cpc>>
  BY <1>1, <1>4 DEF Jobs, JobOf, ResultOf, Early, Silent, CallTypes
<1> QED
  BY <1>2, <1>3, <1>4 DEF LoopStep, LoopOwnStep, LoopAcceptTimeout, LoopAcceptError, LoopClose, LoopIdle,
     LoopShutdown, LoopUnregister, LoopCleared, loopFrame, Shutdown, vars

\* The invariant of the jobs, in every reachable state.
LEMMA JobsInvariance == Spec => [](Types /\ Jobs)
<1>1. Types /\ ConnectsOnce /\ Jobs /\ [Next]_vars => Jobs'
  BY TypesCalls, JobsSession, JobsSpin, JobsOthers DEF Next
<1> QED
  BY <1>1, JobsInit, ListInvariance, PTL DEF Spec

\* Every variable keeps its type: no channel of the service overflows, and no
\* handler runs twice for one call.
THEOREM TypeCorrect == Spec => []TypeOK
<1>1. Types /\ Jobs => TypeOK
  BY DEF Types, Jobs, JobOf, TypeOK, SessionStates, ClientStates
<1> QED
  BY <1>1, JobsInvariance, PTL

\* A call that returned without error had its request decoded and handled once.
THEOREM SuccessIsHandled == Spec => []SuccessMeansHandled
<1>1. Jobs => SuccessMeansHandled
  BY DEF Jobs, ResultOf, SuccessMeansHandled
<1> QED
  BY <1>1, JobsInvariance, PTL

\* A call that was refused was handled once or never decoded.
THEOREM RefusalIsReported == Spec => []RefusalMeansReported
<1>1. Jobs => RefusalMeansReported
  BY DEF Jobs, ResultOf, RefusalMeansReported
<1> QED
  BY <1>1, JobsInvariance, PTL
-----------------------------------------------------------------------------
(* Where the spinning goroutine and the loop wait for good *)

\* The session of call c waits for a result, or has given up doing so.
Awaits(c) == spc[c] = "wait" \/ (spc[c] \in {"post", "done"} /\ expired[c])

\* The session of a job that has sent nothing yet waits for it or has given up;
\* after a decoding error was sent it waits no more.
Heard(c) ==
    /\ Silent(c) => Awaits(c)
    /\ spin = c /\ stage \in {"handle", "ok", "error", "nil"} =>
         IF decoded[c] THEN Awaits(c) ELSE spc[c] \in {"error", "post", "done"}

HeardOut == \A c \in Call : Heard(c)

\* A session that ends has sent nothing, has its result, or gave up.
LEMMA HeardSession ==
    \A c \in Call : CallTypes /\ Jobs /\ HeardOut /\ SessionStep(c) => HeardOut'
<1> SUFFICES ASSUME NEW c \in Call, CallTypes, Jobs, HeardOut, SessionStep(c) PROVE HeardOut'
  OBVIOUS
<1>0. UNCHANGED <<spin, stage, decoded>>
  BY DEF SessionStep, SessionHeader, SessionRequest, SessionEnqueue, SessionTimeout,
     SessionReply, SessionPost, sessionFrame, spinVars
<1>1. CASE SessionEnqueue(c)
  <2>1. /\ spc' = [spc EXCEPT ![c] = "wait"] /\ UNCHANGED expired
        /\ jobChan' = Append(jobChan, c) /\ spc[c] = "enqueue"
    BY <1>1 DEF SessionEnqueue, SessionTo
  <2>2. \A e \in Call : e # c => (e \in ToSet(jobChan)' <=> e \in ToSet(jobChan))
    BY <2>1, ChanSend DEF CallTypes
  <2>3. spin # c
    BY <2>1 DEF Jobs, JobOf, Early
  <2> QED
    BY <1>0, <2>1, <2>2, <2>3 DEF HeardOut, Heard, Silent, Awaits, CallTypes
<1>2. CASE SessionTimeout(c)
  <2>1. /\ spc' = [spc EXCEPT ![c] = "post"] /\ spc[c] = "wait" /\ UNCHANGED jobChan
        /\ expired' = [expired EXCEPT ![c] = TRUE]
    BY <1>2 DEF SessionTimeout, SessionTo, sessionFrame
  <2>2. \A e \in Call : e # c => Heard(e)'
    BY <1>0, <2>1 DEF HeardOut, Heard, Silent, Awaits, CallTypes
  <2>3. Heard(c)'
    BY <1>0, <2>1 DEF HeardOut, Heard, Silent, Awaits, CallTypes
  <2> QED
    BY <2>2, <2>3 DEF HeardOut
<1>3. CASE SessionHeader(c) \/ SessionRequest(c) \/ SessionReply(c) \/ SessionPost(c)
  <2>1. \E next \in {"request", "enqueue", "post", "done"} :
           /\ spc' = [spc EXCEPT ![c] = next] /\ UNCHANGED <<jobChan, expired>>
           /\ next \in {"request", "enqueue"} => spc[c] \in {"header", "request"}
           /\ next = "post" => spc[c] \in {"header", "request", "ok", "error", "nil"}
           /\ next = "done" => spc[c] = "post"
    BY <1>3 DEF SessionHeader, SessionRequest, SessionReply, SessionPost, SessionTo, sessionFrame
  <2> QED
    BY <1>0, <2>1 DEF HeardOut, Heard, Silent, Awaits, CallTypes, Jobs, JobOf, Early
<1> QED
  BY <1>1, <1>2, <1>3 DEF SessionStep

\* The spinning goroutine takes a job, decodes, handles, sends.
LEMMA HeardSpin == CallTypes /\ Jobs /\ HeardOut /\ SpinStep => HeardOut'
<1> SUFFICES ASSUME CallTypes, Jobs, HeardOut, SpinStep PROVE HeardOut'
  OBVIOUS
<1>0. UNCHANGED expired
  BY DEF SpinStep, SpinTake, SpinDecode, SpinHandle, SpinSend, spinFrame
<1>1. CASE SpinTake
  <2>1. /\ jobChan # <<>> /\ spin' = Head(jobChan) /\ stage' = "decode"
        /\ jobChan' = Tail(jobChan) /\ UNCHANGED <<spc, decoded>>
    BY <1>1 DEF SpinTake
  <2>2. Head(jobChan) \in ToSet(jobChan)
        /\ \A e \in Call : e \in ToSet(jobChan)' => e \in ToSet(jobChan)
    BY <2>1, ChanReceive DEF CallTypes
  <2> QED
    BY <1>0, <2>1, <2>2 DEF HeardOut, Heard, Silent, Awaits
<1>2. CASE SpinDecode
  <2>1. /\ stage = "decode" /\ UNCHANGED <<spc, jobChan, spin>>
        /\ \/ stage' = "handle" /\ decoded' = [decoded EXCEPT ![spin] = TRUE]
           \/ stage' = "undecoded" /\ UNCHANGED decoded
    BY <1>2 DEF SpinDecode
  <2> QED
    BY <1>0, <2>1 DEF HeardOut, Heard, Silent, Awaits, CallTypes
<1>3. CASE SpinHandle
  <2>1. /\ stage = "handle" /\ UNCHANGED <<spc, jobChan, spin, decoded>>
        /\ stage' \in {"ok", "error", "nil"}
    BY <1>3 DEF SpinHandle
  <2> QED
    BY <1>0, <2>1 DEF HeardOut, Heard, Silent, Awaits
<1>4. CASE SpinSend
  <2>1. /\ spc[spin] = "wait" /\ UNCHANGED <<jobChan, decoded>>
        /\ \/ stage = "undecoded" /\ stage' = "handle" /\ UNCHANGED spin
              /\ spc' = [spc EXCEPT ![spin] = "error"]
           \/ /\ stage \in {"ok", "error", "nil"} /\ stage' = "idle" /\ spin' = NoCall
              /\ spc' = [spc EXCEPT ![spin] = stage]
    BY <1>4 DEF SpinSend, SessionTo
  <2>2. spin \in Call /\ spin \notin ToSet(jobChan)
        /\ (stage = "undecoded" => ~decoded[spin])
    BY <2>1 DEF CallTypes, Jobs, JobOf, Silent
  <2> QED
    BY <1>0, <2>1, <2>2 DEF HeardOut, Heard, Silent, Awaits, CallTypes
<1> QED
  BY <1>1, <1>2, <1>3, <1>4 DEF SpinStep

\* The server's loop and the clients change neither jobs nor who waits.
LEMMA HeardOthers ==
    CallTypes /\ ConnectsOnce /\ Jobs /\ HeardOut
    /\ (LoopStep \/ Shutdown \/ UNCHANGED vars \/ \E c \in Call : ClientStep(c))
    => HeardOut'
<1> SUFFICES ASSUME CallTypes, ConnectsOnce, Jobs, HeardOut,
                    LoopStep \/ Shutdown \/ UNCHANGED vars \/ \E c \in Call : ClientStep(c)
             PROVE  HeardOut'
  OBVIOUS
<1>1. UNCHANGED <<jobChan, spin, stage, decoded, expired>>
  BY DEF LoopStep, LoopOwnStep, LoopAccept, LoopAcceptTimeout, LoopAcceptError, LoopClose, LoopIdle,
     LoopShutdown, LoopUnregister, LoopCleared, loopFrame, Shutdown, vars, ClientStep,
     ClientConnect, ClientRequest, ClientReply, ClientTimeout, clientFrame, spinVars
<1>2. \/ UNCHANGED spc
      \/ \E c \in Call, next \in {"backlog", "header"} :
           spc[c] \in {"none", "backlog"} /\ spc' = [spc EXCEPT ![c] = next]
  <2>1. CASE \E c \in Call : LoopAccept(c) \/ ClientStep(c)
    <3>1. PICK c \in Call : LoopAccept(c) \/ ClientStep(c)
      BY <2>1
    <3> QED
      BY <3>1 DEF LoopAccept, ClientStep, ClientConnect, ClientRequest, ClientReply,
         ClientTimeout, clientFrame, ConnectsOnce
  <2>2. CASE UNCHANGED spc
    BY <2>2
  <2> QED
    BY <2>1, <2>2 DEF LoopStep, LoopOwnStep, LoopAcceptTimeout, LoopAcceptError, LoopClose, LoopIdle,
       LoopShutdown, LoopUnregister, LoopCleared, loopFrame, Shutdown, vars
<1> QED
  BY <1>1, <1>2 DEF HeardOut, Heard, Silent, Awaits, CallTypes

\* Who waits for what, in every reachable state.
LEMMA HeardInvariance == Spec => [](Types /\ ConnectsOnce /\ Jobs /\ HeardOut)
<1>1. Init => HeardOut
  BY ConstantTypes DEF Init, HeardOut, Heard, Silent, ToSet
<1>2. Types /\ ConnectsOnce /\ Jobs /\ HeardOut /\ [Next]_vars => HeardOut'
  BY TypesCalls, HeardSession, HeardSpin, HeardOthers DEF Next
<1> QED
  BY <1>1, <1>2, JobsInvariance, ListInvariance, PTL DEF Spec

\* A job that has something to send.
Sends == stage \in {"undecoded", "ok", "error", "nil"}

\* It can send it, unless its session gave up or has been sent a decoding error
\* before (service_server.go:247, 263, 267, 269): no other order of time-outs and
\* replies stops the goroutine that spins the node.
THEOREM StoppedOnlyUnheard == Spec => [](Sends => spc[spin] = "wait" \/ Unheard)
<1>1. Types /\ Jobs /\ HeardOut => (Sends => spc[spin] = "wait" \/ Unheard)
  BY ConstantTypes DEF Types, Jobs, JobOf, HeardOut, Heard, Silent, Awaits, Sends, Unheard
<1> QED
  BY <1>1, HeardInvariance, PTL

\* A job nobody hears is never heard,
THEOREM UnheardForGood == Spec => [](Unheard => []Unheard)
<1>1. Types /\ ConnectsOnce /\ Unheard /\ [Next]_vars => Unheard'
  <2> SUFFICES ASSUME Types, ConnectsOnce, Unheard, [Next]_vars PROVE Unheard'
    OBVIOUS
  <2>0. /\ spin \in Call /\ spc \in [Call -> SessionStates] /\ NoCall \notin Call
        /\ expired \in [Call -> BOOLEAN] /\ decoded \in [Call -> BOOLEAN]
    BY ConstantTypes DEF Types, Unheard
  <2>1. ~SpinStep
    BY <2>0 DEF Unheard, SpinStep, SpinTake, SpinDecode, SpinHandle, SpinSend
  <2>2. CASE \E c \in Call : SessionStep(c)
    <3>1. PICK c \in Call : SessionStep(c)
      BY <2>2
    <3>2. UNCHANGED <<stage, spin, decoded>> /\ (expired[spin] => expired'[spin])
      BY <2>0, <3>1 DEF SessionStep, SessionHeader, SessionRequest, SessionEnqueue,
         SessionTimeout, SessionReply, SessionPost, sessionFrame, spinVars
    <3>3. spc'[spin] \in {"error", "post", "done"}
      BY <2>0, <3>1 DEF Unheard, SessionStep, SessionHeader, SessionRequest, SessionEnqueue,
         SessionTimeout, SessionReply, SessionPost, SessionTo
    <3> QED
      BY <3>2, <3>3 DEF Unheard
  <2>3. CASE LoopStep \/ Shutdown \/ UNCHANGED vars \/ \E c \in Call : ClientStep(c)
    <3>1. UNCHANGED <<stage, spin, decoded, expired>>
      BY <2>3 DEF LoopStep, LoopOwnStep, LoopAccept, LoopAcceptTimeout, LoopAcceptError, LoopClose, LoopIdle,
         LoopShutdown, LoopUnregister, LoopCleared, loopFrame, Shutdown, vars, ClientStep,
         ClientConnect, ClientRequest, ClientReply, ClientTimeout, clientFrame, spinVars
    <3>2. spc'[spin] = spc[spin]
      BY <2>0, <2>3 DEF Unheard, LoopStep, LoopOwnStep, LoopAccept, LoopAcceptTimeout, LoopAcceptError,
         LoopClose, LoopIdle, LoopShutdown, LoopUnregister, LoopCleared, loopFrame, Shutdown,
         vars, ClientStep, ClientConnect, ClientRequest, ClientReply, ClientTimeout,
         clientFrame, ConnectsOnce
    <3> QED
      BY <3>1, <3>2 DEF Unheard
  <2> QED
    BY <2>1, <2>2, <2>3 DEF Next
<1> QED
  BY <1>1, HeardInvariance, PTL DEF Spec

\* and then no job runs any more: no call is handled, by this service or, as they
\* share jobChan, by any other of the node.
THEOREM UnheardStopsSpinning == Spec => [][Unheard => UNCHANGED spinVars]_vars
<1>1. Types /\ [Next]_vars => [Unheard => UNCHANGED spinVars]_vars
  <2> SUFFICES ASSUME Types, Next, Unheard PROVE UNCHANGED spinVars
    OBVIOUS
  <2>1. ~SpinStep
    BY ConstantTypes DEF Types, Unheard, SpinStep, SpinTake, SpinDecode, SpinHandle, SpinSend
  <2> QED
    BY <2>1 DEF Next, LoopStep, LoopOwnStep, LoopAccept, LoopAcceptTimeout, LoopAcceptError, LoopClose,
       LoopIdle, LoopShutdown, LoopUnregister, LoopCleared, loopFrame, Shutdown, ClientStep,
       ClientConnect, ClientRequest, ClientReply, ClientTimeout, clientFrame, spinVars,
       SessionStep, SessionHeader, SessionRequest, SessionEnqueue, SessionTimeout,
       SessionReply, SessionPost, sessionFrame
<1> QED
  BY <1>1, HeardInvariance, PTL DEF Spec

\* The loop tells a session to quit.
Quits == pc = "quitting" /\ sessions # <<>>

\* It does so on a channel that was never made, for good (service_server.go:134):
\* the exception in ShutdownProgress.
THEOREM NilQuitNeverEnds == Spec => [](Quits => []Quits)
<1>1. Quits /\ [Next]_vars => Quits'
  BY DEF Quits, Next, vars, loopVars, LoopStep, LoopOwnStep, LoopAccept, LoopAcceptTimeout,
     LoopAcceptError, LoopClose, LoopIdle, LoopShutdown, LoopUnregister, LoopCleared, Shutdown, ClientStep,
     ClientConnect, ClientRequest, ClientReply, ClientTimeout, clientFrame, SpinStep, SpinTake,
     SpinDecode, SpinHandle, SpinSend, spinFrame, SessionStep, SessionHeader, SessionRequest,
     SessionEnqueue, SessionTimeout, SessionReply, SessionPost, sessionFrame
<1> QED
  BY <1>1, PTL DEF Spec
=============================================================================
