-------------------------------- MODULE Node ---------------------------------
(***************************************************************************)
(* A node (src/ros/node.go) between its user and the master: the user      *)
(* goroutine that registers, removes and shuts down, the tables it keeps,  *)
(* the goroutine that serves each slave API request, and the loop          *)
(* goroutines of subscriptions, publishers and service servers.            *)
(*                                                                         *)
(* What a loop does between its start and its end is the business of       *)
(* Subscriber, Publisher and Service; here it takes lists and tokens, and  *)
(* ends when told: all four implement NodeLoop.  A list of publishers is   *)
(* the number of the change at the master that made it.                    *)
(***************************************************************************)
EXTENDS Naturals, Sequences, FiniteSets, Names

CONSTANTS
    NodeWords,    \* words of the name the node is created with
    Mapping,      \* remapping arguments, a set of <<name, name>>
    RawName,      \* names the user passes
    Programs,     \* what a user's program may call: sets of "subscribe",
                  \* "advertise", "callbacks", "serve", "close", "spin"
    MayFail,      \* what may go wrong: "call", "accept"
    NoLoop,       \* "no entry"
    Ghost,        \* a registration whose answer was lost
    ChanCap,      \* capacity of the loops' channels (10 in the code)
    MaxLoops,     \* bound: loops started
    MaxOps,       \* bound: calls by the user
    MaxChanges    \* bound: changes of a topic's publishers at the master

ASSUME NoLoopAssumption == NoLoop \notin Nat /\ Ghost \notin Nat /\ NoLoop # Ghost
ASSUME ProgramsAssumption ==
    Programs \subseteq
        SUBSET {"subscribe", "advertise", "callbacks", "serve", "close", "spin"}
ASSUME FailAssumption == MayFail \subseteq {"call", "accept"}
ASSUME BoundsAssumption ==
    /\ ChanCap \in Nat \ {0} /\ MaxLoops \in Nat \ {0} /\ MaxOps \in Nat
    /\ MaxChanges \in Nat

\* A node has a name, and its user passes some names.
ASSUME NamesAssumption ==
    /\ NodeWords \in Seq(STRING) /\ canonicalizeName(NodeWords) # <<>>
    /\ RawName \subseteq Name /\ RawName # {} /\ Mapping \subseteq Name \X Name

Self == qualifyNodeName(NodeWords)
Loop == 1..MaxLoops
Kind == {"sub", "pub", "srv"}
\* Every name a raw name may lead to, remapped up to twice.
Topic ==
    LET images == {resolve(Self, m[2]) : m \in Mapping} IN
      {resolve(Self, n) : n \in RawName} \cup images

VARIABLES
    program,        \* what the user's program calls
    resolved,       \* node.nameResolver.resolvedMapping
    upc,            \* where the user goroutine is
    new,            \* loop it creates, removes or replaces, or 0
    telling,        \* loops its call has still to send a token to
    publishers,     \* the list its registration returned
    ops,            \* calls made so far
    ok,             \* node.ok
    entry,          \* node.subscribers, publishers and servers
    nloops,         \* loops created
    kind, topic,    \* of each loop
    early,          \* lists that were on their way while it registered
    lpc,            \* where each loop is
    tokens,         \* its shutdownChan
    lists,          \* its pubListChan
    seen,           \* the list it works with
    wg,             \* node.waitGroup
    hpc,            \* where the goroutine that serves publisherUpdate is
    htopic, hlist,  \* topic and list of its request
    hsub,           \* the loop it found
    answer,         \* what requestTopic answered, if anybody asked
    registered,     \* at the master: the loop registered for each name
    current,        \* at the master: number of the newest list of each topic
    owed            \* at the master: the node has still to be told of it

argVars == <<program, resolved>>
userVars == <<argVars, upc, new, telling, publishers, ops>>
bornVars == <<nloops, kind, topic, early>>
runVars == <<lpc, tokens, lists, seen, wg>>
handlerVars == <<hpc, htopic, hlist, hsub, answer>>
masterVars == <<registered, current, owed>>
vars == <<userVars, ok, entry, bornVars, runVars, handlerVars, masterVars>>

SomeTopic == CHOOSE t \in Topic : TRUE

Init ==
    /\ program \in Programs /\ resolved \in resolvedMappings(Self, Mapping)
    /\ upc = "start" /\ new = 0 /\ telling = {} /\ publishers = 0 /\ ops = 0
    /\ ok = TRUE
    /\ entry = [k \in Kind |-> [t \in Topic |-> NoLoop]]
    /\ nloops = 0 /\ kind = [l \in Loop |-> "sub"] /\ topic = [l \in Loop |-> SomeTopic]
    /\ early = [l \in Loop |-> {}]
    /\ lpc = [l \in Loop |-> "unused"] /\ tokens = [l \in Loop |-> 0]
    /\ lists = [l \in Loop |-> <<>>] /\ seen = [l \in Loop |-> 0] /\ wg = 0
    /\ hpc = "idle" /\ htopic = SomeTopic /\ hlist = 0 /\ hsub = NoLoop /\ answer = <<>>
    /\ registered = [k \in Kind |-> [t \in Topic |-> NoLoop]]
    /\ current = [t \in Topic |-> 0] /\ owed = [t \in Topic |-> FALSE]

-----------------------------------------------------------------------------
(* The user goroutine *)

\* newDefaultNode sets the parameters of the command line; a failing call
\* leaves no node.
Start ==
    /\ upc = "start"
    /\ upc' \in {"idle"} \cup (IF "call" \in MayFail THEN {"failed"} ELSE {})
    /\ UNCHANGED <<argVars, new, telling, publishers, ops, ok, entry, bornVars, runVars,
                   handlerVars, masterVars>>

\* The process is there: it was created and has not been ended by a map race.
Up == upc \notin {"start", "failed", "crashed"}

Remap(n) == remap(Self, resolved, n)

\* The user makes a call that is in its program.
Called(use) ==
    /\ upc = "idle" /\ use \in program /\ ops < MaxOps
    /\ ops' = ops + 1

\* A call comes to the sends of tokens to the loops in ls, and stays at place
\* until all are through.
BeginTelling(place, ls) == upc' = place /\ telling' = ls

\* Where a call goes on when its sends are through.
AfterTelling(place) ==
    CASE place = "closing" -> "idle"
      [] place = "removing" -> "deleting"
      [] place = "replacing" -> "serving"
      [] place = "telling" -> "waiting"

\* Shutdown sends to the subscriptions first, then to the publishers, then to the
\* service servers, each kind in the order its map yields.
Before(k1, k2) == <<k1, k2>> \in {<<"sub", "pub">>, <<"sub", "srv">>, <<"pub", "srv">>}

\* Mutant: the token is left out.
Bug_SendToken(l) ==
    /\ l \in telling /\ telling' = telling \ {l}
    /\ upc' = IF telling = {l} THEN AfterTelling(upc) ELSE upc
    /\ UNCHANGED <<argVars, new, publishers, ops, ok, entry, bornVars, runVars,
                   handlerVars, masterVars>>

\* shutdownChan <- struct{}{}, which waits for room: while the channel of the loop
\* is full, the user goroutine stays where it is.
SendToken(l) ==
    /\ l \in telling /\ \A m \in telling : ~Before(kind[m], kind[l])
    /\ tokens[l] < ChanCap
    /\ tokens' = [tokens EXCEPT ![l] = @ + 1]
    /\ telling' = telling \ {l}
    /\ upc' = IF telling = {l} THEN AfterTelling(upc) ELSE upc
    /\ UNCHANGED <<argVars, new, publishers, ops, ok, entry, bornVars, lpc, lists, seen,
                   wg, handlerVars, masterVars>>

\* callRosAPI to register name t: it succeeds and the loop is created, it
\* fails, or it fails although the master did register the name.
Register(k, t) ==
    \/ /\ nloops < MaxLoops
       /\ LET l == nloops + 1 IN
            /\ nloops' = l /\ new' = l
            /\ kind' = [kind EXCEPT ![l] = k] /\ topic' = [topic EXCEPT ![l] = t]
            /\ early' = [early EXCEPT ![l] =
                 {current[t]} \cup {v \in {hlist} : hpc # "idle" /\ htopic = t}]
            /\ registered' = [registered EXCEPT ![k][t] = l]
       /\ publishers' = current[t]
       /\ upc' = "storing"
    \/ /\ "call" \in MayFail
       /\ \/ registered' = [registered EXCEPT ![k][t] = Ghost]
          \/ UNCHANGED registered
       /\ upc' = "idle"
       /\ UNCHANGED <<new, publishers, bornVars>>

\* NewSubscriber for a topic without a subscription.  (With one, the callback
\* is added to it: see Subscriber.)
NewSubscriber(n) ==
    /\ Called("subscribe") /\ entry["sub"][Remap(n)] = NoLoop
    /\ Register("sub", Remap(n))
    /\ UNCHANGED <<argVars, telling, ok, entry, runVars, handlerVars, current, owed>>

\* The entry of a publisher is looked up by the name as it was passed, not by
\* the remapped one; the table holds global names only.
Published(n) ==
    IF n = Global(resolve(Self, n)) /\ n.words \in Topic
      THEN entry["pub"][n.words] ELSE NoLoop

Advertise(n) ==
    /\ Published(n) = NoLoop
    /\ Register("pub", Remap(n))
    /\ UNCHANGED <<argVars, telling, ok, entry, runVars, handlerVars, current, owed>>

NewPublisherWithCallbacks(n) == Called("callbacks") /\ Advertise(n)

\* NewPublisher remaps the name that NewPublisherWithCallbacks remaps again.
NewPublisher(n) == Called("advertise") /\ Advertise(Global(Remap(n)))

\* NewServiceServer tells an earlier server of that name to end ...
NewServiceServer(n) ==
    LET l == entry["srv"][Remap(n)] IN
      /\ Called("serve")
      /\ \/ /\ l # NoLoop /\ new' = l /\ BeginTelling("replacing", {l})
            /\ UNCHANGED <<publishers, bornVars, registered>>
         \/ /\ l = NoLoop /\ Register("srv", Remap(n))
            /\ UNCHANGED telling
      /\ UNCHANGED <<argVars, ok, entry, runVars, handlerVars, current, owed>>

\* ... and then registers.
Serve ==
    /\ upc = "serving" /\ Register("srv", topic[new])
    /\ UNCHANGED <<argVars, telling, ops, ok, entry, runVars, handlerVars, current, owed>>

\* The new object goes into its table and its goroutine is started.
Store ==
    /\ upc = "storing"
    /\ entry' = [entry EXCEPT ![kind[new]][topic[new]] = new]
    /\ lpc' = [lpc EXCEPT ![new] = "starting"]
    /\ upc' = IF kind[new] = "sub" THEN "sending" ELSE "idle"
    /\ UNCHANGED <<argVars, new, telling, publishers, ops, ok, bornVars, tokens, lists, seen,
                   wg, handlerVars, masterVars>>

\* Mutant: an update is dropped when there is no room.
Bug_SendList(l, v) ==
    lists' = [lists EXCEPT ![l] = IF Len(@) < ChanCap THEN Append(@, v) ELSE @]

\* sub.pubListChan <- list
SendList(l, v) ==
    /\ Len(lists[l]) < ChanCap
    /\ lists' = [lists EXCEPT ![l] = Append(@, v)]

\* Mutant: the list takes the place of an update that came before it.
Bug_SendFirstList_Replaces ==
    /\ upc = "sending" /\ lists' = [lists EXCEPT ![new] = <<publishers>>]
    /\ upc' = "idle"
    /\ UNCHANGED <<argVars, new, telling, publishers, ops, ok, entry, bornVars, lpc, tokens,
                   seen, wg, handlerVars, masterVars>>

\* NewSubscriber hands the list its registration returned to the new loop.
SendFirstList ==
    /\ upc = "sending" /\ SendList(new, publishers)
    /\ upc' = "idle"
    /\ UNCHANGED <<argVars, new, telling, publishers, ops, ok, entry, bornVars, lpc, tokens,
                   seen, wg, handlerVars, masterVars>>

\* RemoveSubscriber and RemovePublisher tell the loop to end and then delete the
\* entry.
RemoveEntry(k, t) ==
    /\ entry[k][t] # NoLoop /\ new' = entry[k][t]
    /\ BeginTelling("removing", {entry[k][t]})
    /\ UNCHANGED <<argVars, publishers, ok, entry, bornVars, runVars, handlerVars,
                   masterVars>>

RemoveSubscriber(n) == Called("subscribe") /\ RemoveEntry("sub", Remap(n))

RemovePublisher(n) == Called("advertise") /\ RemoveEntry("pub", Remap(n))

Delete ==
    /\ upc = "deleting"
    /\ entry' = [entry EXCEPT ![kind[new]][topic[new]] = NoLoop]
    /\ upc' = "idle"
    /\ UNCHANGED <<argVars, new, telling, publishers, ops, ok, bornVars, runVars,
                   handlerVars, masterVars>>

\* The object's own Shutdown leaves its entry in the table.
Close(k, t) ==
    /\ Called("close") /\ entry[k][t] # NoLoop
    /\ BeginTelling("closing", {entry[k][t]})
    /\ UNCHANGED <<argVars, new, publishers, ok, entry, bornVars, runVars, handlerVars,
                   masterVars>>

\* Spin takes jobs as long as node.ok is set.
Spin ==
    /\ Called("spin") /\ upc' = "spinning"
    /\ UNCHANGED <<argVars, new, telling, publishers, ok, entry, bornVars, runVars,
                   handlerVars, masterVars>>

SpinReturns ==
    /\ upc = "spinning" /\ ~ok /\ upc' = "idle"
    /\ UNCHANGED <<argVars, new, telling, publishers, ops, ok, entry, bornVars, runVars,
                   handlerVars, masterVars>>

\* Shutdown clears node.ok, sends a token to every loop that has an entry ...
Shutdown ==
    /\ upc = "idle" /\ ok' = FALSE
    /\ LET ls == {entry[k][t] : k \in Kind, t \in Topic} \ {NoLoop} IN
         BeginTelling(IF ls = {} THEN "waiting" ELSE "telling", ls)
    /\ UNCHANGED <<argVars, new, publishers, ops, entry, bornVars, runVars, handlerVars,
                   masterVars>>

\* Mutant: the loops are not waited for.
Bug_Waited ==
    /\ upc = "waiting"
    /\ upc' = "draining"
    /\ UNCHANGED <<argVars, new, telling, publishers, ops, ok, entry, bornVars, runVars,
                   handlerVars, masterVars>>

\* ... waits for the loops that have counted themselves in, closes the slave
\* API's listener ...
Waited ==
    /\ upc = "waiting" /\ wg = 0
    /\ upc' = "draining"
    /\ UNCHANGED <<argVars, new, telling, publishers, ops, ok, entry, bornVars, runVars,
                   handlerVars, masterVars>>

\* ... and waits for its requests.
Drained ==
    /\ upc = "draining" /\ hpc = "idle"
    /\ upc' = "done"
    /\ UNCHANGED <<argVars, new, telling, publishers, ops, ok, entry, bornVars, runVars,
                   handlerVars, masterVars>>

\* What the user goroutine does once a call is begun.
UserStep ==
    \/ \E l \in Loop : SendToken(l)
    \/ Serve \/ Store \/ SendFirstList \/ Delete \/ Waited \/ Drained \/ SpinReturns

UserCall ==
    \/ \E n \in RawName :
         \/ NewSubscriber(n) \/ RemoveSubscriber(n) \/ NewServiceServer(n)
         \/ NewPublisher(n) \/ NewPublisherWithCallbacks(n) \/ RemovePublisher(n)
    \/ \E k \in Kind, t \in Topic : Close(k, t)
    \/ Start \/ Spin \/ Shutdown

-----------------------------------------------------------------------------
(* The loop goroutines *)

\* wg.Add(1), in the goroutine itself
LoopStart(l) ==
    /\ Up /\ lpc[l] = "starting"
    /\ lpc' = [lpc EXCEPT ![l] = "running"] /\ wg' = wg + 1
    /\ UNCHANGED <<userVars, ok, entry, bornVars, tokens, lists, seen, handlerVars,
                   masterVars>>

LoopList(l) ==
    /\ Up /\ lpc[l] = "running" /\ lists[l] # <<>>
    /\ seen' = [seen EXCEPT ![l] = Head(lists[l])]
    /\ lists' = [lists EXCEPT ![l] = Tail(@)]
    /\ UNCHANGED <<userVars, ok, entry, bornVars, lpc, tokens, wg, handlerVars,
                   masterVars>>

LoopToken(l) ==
    /\ Up /\ lpc[l] = "running" /\ tokens[l] > 0
    /\ tokens' = [tokens EXCEPT ![l] = @ - 1]
    /\ lpc' = [lpc EXCEPT ![l] = "stopping"]
    /\ UNCHANGED <<userVars, ok, entry, bornVars, lists, seen, wg, handlerVars,
                   masterVars>>

\* The master takes the registration of this node away, for a service only if
\* it is the one of this server's address.
Unregister(l) ==
    [registered EXCEPT ![kind[l]][topic[l]] =
        IF kind[l] = "srv" /\ @ # l THEN @ ELSE NoLoop]

\* Mutant: wg.Done is left out.
Bug_LoopEnd(l) ==
    /\ Up /\ lpc[l] = "stopping"
    /\ registered' = Unregister(l) /\ lpc' = [lpc EXCEPT ![l] = "exited"]
    /\ UNCHANGED <<userVars, ok, entry, bornVars, tokens, lists, seen, wg, handlerVars,
                   current, owed>>

\* The unregister call returned, or failed, and the loop ends.
LoopEnd(l) ==
    /\ Up /\ lpc[l] = "stopping"
    /\ \/ registered' = Unregister(l) /\ lpc' = [lpc EXCEPT ![l] = "exited"]
       \/ "call" \in MayFail /\ lpc' = [lpc EXCEPT ![l] = "gone"] /\ UNCHANGED registered
    /\ wg' = wg - 1
    /\ UNCHANGED <<userVars, ok, entry, bornVars, tokens, lists, seen, handlerVars,
                   current, owed>>

\* A publisher or server whose listener fails ends without a word to the master.
LoopGone(l) ==
    /\ Up /\ lpc[l] = "running" /\ kind[l] # "sub" /\ "accept" \in MayFail
    /\ lpc' = [lpc EXCEPT ![l] = "gone"] /\ wg' = wg - 1
    /\ UNCHANGED <<userVars, ok, entry, bornVars, tokens, lists, seen, handlerVars,
                   masterVars>>

\* What Subscriber, Publisher and Service spell out.
LoopWorks(l) == LoopList(l) \/ LoopToken(l) \/ LoopEnd(l) \/ LoopGone(l)

LoopStep(l) == LoopStart(l) \/ LoopWorks(l)

-----------------------------------------------------------------------------
(* The slave API: one goroutine per request.  The master sends a node one    *)
(* publisherUpdate at a time; requests come in on open connections even when *)
(* the listener is closed.                                                   *)

\* The master tells the node of the newest list.
MasterUpdates(t) ==
    /\ owed[t] /\ hpc = "idle" /\ Up
    /\ owed' = [owed EXCEPT ![t] = FALSE]
    /\ hpc' = "called" /\ htopic' = t /\ hlist' = current[t]
    /\ UNCHANGED <<userVars, ok, entry, bornVars, runVars, hsub, answer, registered,
                   current>>

\* publisherUpdate looks the topic up: "No such topic", or it goes on to send.
publisherUpdate ==
    /\ Up /\ hpc = "called"
    /\ hsub' = entry["sub"][htopic]
    /\ hpc' = IF hsub' = NoLoop THEN "idle" ELSE "sending"
    /\ UNCHANGED <<userVars, ok, entry, bornVars, runVars, htopic, hlist, answer,
                   masterVars>>

\* The lookup meets the user goroutine's write to the same map: it may also
\* end the process ("concurrent map read and map write").
MapRace ==
    /\ hpc = "called"
    /\ upc \in {"storing", "deleting"} /\ kind[new] = "sub"
    /\ upc' = "crashed"
    /\ UNCHANGED <<argVars, new, telling, publishers, ops, ok, entry, bornVars, runVars,
                   handlerVars, masterVars>>

SendUpdate ==
    /\ Up /\ hpc = "sending" /\ SendList(hsub, hlist)
    /\ hpc' = "idle" /\ hsub' = NoLoop
    /\ UNCHANGED <<userVars, ok, entry, bornVars, lpc, tokens, seen, wg, htopic, hlist,
                   answer, masterVars>>

HandlerStep == publisherUpdate \/ SendUpdate

\* A subscriber that has this node from the master asks it for its port.
requestTopic(t) ==
    /\ Up /\ answer = <<>>
    /\ answer' = <<t, IF entry["pub"][t] = NoLoop THEN "No such topic" ELSE "Success">>
    /\ UNCHANGED <<userVars, ok, entry, bornVars, runVars, hpc, htopic, hlist, hsub,
                   masterVars>>

\* The operating system's interrupt, or shutdown of the slave API.
Interrupt ==
    /\ Up /\ ok /\ ok' = FALSE
    /\ UNCHANGED <<userVars, entry, bornVars, runVars, handlerVars, masterVars>>

\* At the master: a publisher of t, of another node, comes or goes.  (Changes
\* that neither a subscription nor a request on its way could notice are left
\* out.)
Change(t) ==
    /\ Up /\ current[t] < MaxChanges
    /\ registered["sub"][t] # NoLoop \/ (hpc # "idle" /\ htopic = t)
    /\ current' = [current EXCEPT ![t] = @ + 1]
    /\ owed' = [owed EXCEPT ![t] = @ \/ registered["sub"][t] # NoLoop]
    /\ UNCHANGED <<userVars, ok, entry, bornVars, runVars, handlerVars, registered>>

Next ==
    \/ UserCall \/ UserStep
    \/ \E l \in Loop : LoopStep(l)
    \/ \E t \in Topic : MasterUpdates(t) \/ requestTopic(t) \/ Change(t)
    \/ HandlerStep \/ MapRace \/ Interrupt

Spec == Init /\ [][Next]_vars

\* Some goroutine of the node that can go on does.  Every call and every change is
\* bounded here, so this weak form of the scheduler's fairness is enough.  None
\* for what the user calls and what happens at the master, and none for what a
\* loop does once it has started: it may be blocked for good (see Subscriber,
\* Publisher, Service), or wait for an answer that does not come.
Fairness ==
    WF_vars(UserStep \/ HandlerStep \/ \E l \in Loop : LoopStart(l))

FairSpec == Spec /\ Fairness

-----------------------------------------------------------------------------
(* Properties *)

\* Types of all variables; the WaitGroup counts the loops between their start
\* and their end, and no channel exceeds its capacity.
TypeOK ==
    /\ program \in Programs /\ resolved \in resolvedMappings(Self, Mapping)
    /\ upc \in {"start", "failed", "idle", "storing", "sending", "closing", "removing",
                "deleting", "replacing", "serving", "spinning", "telling", "waiting",
                "draining", "done", "crashed"}
    /\ new \in 0..nloops /\ nloops \in 0..MaxLoops /\ ops \in 0..MaxOps
    /\ telling \subseteq 1..nloops /\ publishers \in 0..MaxChanges
    /\ ok \in BOOLEAN
    /\ entry \in [Kind -> [Topic -> 1..nloops \cup {NoLoop}]]
    /\ kind \in [Loop -> Kind] /\ topic \in [Loop -> Topic]
    /\ early \in [Loop -> SUBSET (0..MaxChanges)]
    /\ lpc \in [Loop -> {"unused", "starting", "running", "stopping", "exited", "gone"}]
    /\ tokens \in [Loop -> 0..ChanCap]
    /\ lists \in [Loop -> Seq(0..MaxChanges)] /\ \A l \in Loop : Len(lists[l]) <= ChanCap
    /\ seen \in [Loop -> 0..MaxChanges]
    /\ wg = Cardinality({l \in Loop : lpc[l] \in {"running", "stopping"}})
    /\ hpc \in {"idle", "called", "sending"} /\ htopic \in Topic /\ hlist \in 0..MaxChanges
    /\ hsub \in Loop \cup {NoLoop}
    /\ answer \in {<<>>} \cup Topic \X {"No such topic", "Success"}
    /\ registered \in [Kind -> [Topic -> Loop \cup {NoLoop, Ghost}]]
    /\ current \in [Topic -> 0..MaxChanges] /\ owed \in [Topic -> BOOLEAN]

\* A subscription at rest: nothing is on its way to it, and the master would
\* tell it of a change.
AtRest(l) ==
    LET t == topic[l] IN
      /\ kind[l] = "sub" /\ lpc[l] = "running" /\ lists[l] = <<>>
      /\ entry["sub"][t] = l /\ registered["sub"][t] # NoLoop /\ ~owed[t]
      /\ ~(hpc # "idle" /\ htopic = t) /\ ~(upc = "sending" /\ new = l)

\* A subscription at rest works with the newest list of publishers, or with one of
\* two that may overtake it: the list its registration returned (node.go:507), and
\* the list of a request for the topic that was being served at that moment.  No
\* list of a later request is lost or reordered.
FreshList == \A l \in Loop : AtRest(l) => seen[l] \in {current[topic[l]]} \cup early[l]

\* Some name leads NewPublisherWithCallbacks to look for another entry than the
\* one it writes for topic t.
MisKeyed(t) ==
    \E n \in RawName \cup {Global(Remap(r)) : r \in RawName} :
        Remap(n) = t /\ n # Global(t)

Told(l) == tokens[l] > 0 \/ lpc[l] \in {"stopping", "exited", "gone"}
Orphan(l) ==
    lpc[l] \in {"starting", "running"} /\ ~Told(l) /\ entry[kind[l]][topic[l]] # l

\* Every loop the node can no longer reach has been told to end.
NoOrphanLoop == \A l \in Loop : ~Orphan(l)

\* The one exception: a publisher replaced in the table under a name it was not
\* looked up by.
OrphansAreMisKeyed ==
    \A l \in Loop : Orphan(l) => kind[l] = "pub" /\ MisKeyed(topic[l])

\* The registration of name t was left behind by a call that failed, or is of a loop
\* that was told to end or ended.
Withdrawn(k, t) ==
    \/ registered[k][t] = Ghost
    \/ registered[k][t] \in Loop /\ Told(registered[k][t])

\* A subscriber that has this node from the master is turned away only while
\* the publisher is being created or withdrawn.
RefusedOnlyInGap ==
    [][\A t \in Topic :
         answer' # answer /\ answer' = <<t, "No such topic">>
           /\ registered["pub"][t] # NoLoop =>
             \/ upc = "storing" /\ kind[new] = "pub" /\ topic[new] = t
             \/ Withdrawn("pub", t)]_vars

\* When Shutdown has waited for the loops, the master knows the node only by a
\* loop that had not started yet, or because a call or a listener failed.
NothingLeft ==
    [][upc = "waiting" /\ upc' = "draining" =>
         \A k \in Kind, t \in Topic :
           registered[k][t] \notin {NoLoop, Ghost} =>
             \E l \in Loop : kind[l] = k /\ topic[l] = t /\ lpc[l] \in {"starting", "gone"}]_vars

\* Where loop l is between its start and its end.
State(l) ==
    CASE lpc[l] \in {"unused", "starting", "running"} -> "running"
      [] lpc[l] = "stopping" -> "stopping"
      [] lpc[l] \in {"exited", "gone"} -> "ended"

LoopOf(l) == INSTANCE NodeLoop WITH
    List <- 0..MaxChanges, NoList <- 0, ListCap <- ChanCap, TokenCap <- ChanCap,
    MayFail <- "accept" \in MayFail,
    state <- State(l), tokens <- tokens[l], lists <- lists[l], seen <- seen[l]

\* Every loop is a NodeLoop, as a subscription's, a publisher's and a service
\* server's are: whatever the node does with all its loops at once, and in
\* whatever order calls, updates and shutdowns come, each gets lists and tokens
\* as the loops that are spelled out there expect them.
LoopsRunAsLoops ==
    /\ \A l \in Loop : LoopOf(l)!Init
    /\ [][\A l \in Loop : [LoopOf(l)!Next]_(LoopOf(l)!vars)]_vars

\* The handler sends to a loop that has ended.
HandlerStuck == hpc = "sending" /\ lpc[hsub] \in {"exited", "gone"}

\* The user goroutine sends to a loop that has ended and whose channel is full.
SendStuck ==
    \E l \in telling : lpc[l] \in {"exited", "gone"} /\ tokens[l] = ChanCap

\* Loop l was told to end, and has not yet.
Ending(l) == Told(l) /\ lpc[l] \in {"running", "stopping"}

\* What may keep Shutdown waiting.
Held == SendStuck \/ HandlerStuck \/ \E l \in Loop : Ending(l) \/ Orphan(l)

\* From its first send on, Shutdown comes to its end, unless for good it waits for
\* room in the channel of a loop that has ended, for a loop that was told and does
\* not end, for one it can no longer reach, or for a request that sends to a loop
\* that has ended.
ShutdownReturns ==
    upc \in {"telling", "waiting"} ~> (upc \in {"done", "crashed"} \/ []Held)
=============================================================================
