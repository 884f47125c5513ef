----------------------------- MODULE NodeProofs ------------------------------
(***************************************************************************)
(* Proofs about Node, for every program, every set of names and remapping  *)
(* arguments, every channel capacity and every bound:                      *)
(*                                                                         *)
(*   TypeCorrect      types; the WaitGroup counts the running loops        *)
(*   OrphansReplaced  OrphansAreMisKeyed                                   *)
(*   RefusedInGap     RefusedOnlyInGap                                     *)
(*   LeftByFailure    NothingLeft                                          *)
(*   ListsFresh       FreshList                                            *)
(*                                                                         *)
(*   ShutdownForgetsNone                                                   *)
(*                    which loops are told to end when Shutdown waits      *)
(*   SendHoldsCall, OrphanForGood, OrphanHoldsShutdown,                    *)
(*   RequestHoldsShutdown                                                  *)
(*                    what may hold Shutdown for good: the parts of Held   *)
(*   LoopsAreNodeLoops                                                     *)
(*                    LoopsRunAsLoops                                      *)
(*                                                                         *)
(* The inductive invariant is the conjunction of the parts below.  What    *)
(* the tables promise is broken for the time of a call, so LoopsBorn,      *)
(* InCall and Entries say what the user goroutine has still to do at each  *)
(* place it may be at; Registrations and Updates then relate the tables of *)
(* the node with those of the master.                                      *)
(***************************************************************************)
EXTENDS Node, FiniteSetTheorems, Channels

-----------------------------------------------------------------------------
(* The inductive invariant *)

\* The loop was put into its table and its goroutine was started.
Stored(l) == lpc[l] # "unused"

\* Loops are numbered as they are created; nobody can reach one before it is
\* stored.
LoopsBorn ==
    /\ \A l \in Loop : l > nloops => ~Stored(l)
    /\ \A l \in Loop : ~Stored(l) => tokens[l] = 0

\* An entry is of its kind and name.
Entries ==
    \A k \in Kind, t \in Topic : entry[k][t] # NoLoop =>
        /\ kind[entry[k][t]] = k /\ topic[entry[k][t]] = t
        /\ Stored(entry[k][t])

\* The names under which a publisher may be replaced unnoticed.
MisKeyedNames == {t \in Topic : MisKeyed(t)}

\* The loop that l would replace in its table was told to end, or is looked
\* for under another name.
MayReplace(l, x) ==
    x # NoLoop =>
        \/ kind[l] = "srv" /\ Told(x)
        \/ kind[l] = "pub" /\ topic[l] \in MisKeyedNames

\* What holds while the user goroutine is inside a call.
InCall ==
    /\ upc = "storing" =>
         /\ new # 0 /\ ~Stored(new)
         /\ registered[kind[new]][topic[new]] \in {new, NoLoop}
         /\ MayReplace(new, entry[kind[new]][topic[new]])
    /\ upc = "sending" => new # 0 /\ kind[new] = "sub"
    /\ upc \in {"removing", "deleting", "replacing", "serving"} =>
         new # 0 /\ entry[kind[new]][topic[new]] = new
    /\ upc \in {"deleting", "serving"} => Told(new)
    /\ upc \in {"replacing", "serving"} => kind[new] = "srv"
    /\ upc \in {"storing", "sending"} /\ kind[new] = "sub" => publishers \in early[new]

\* The places where a call sends its tokens.
Sends == {"closing", "removing", "replacing", "telling"}

\* Tokens are sent to loops that have an entry, and by a call that is at such a
\* place.
Telling ==
    /\ telling # {} => upc \in Sends
    /\ upc \in {"removing", "replacing"} => telling = {new}
    /\ \A l \in telling : entry[kind[l]][topic[l]] = l

\* A loop the master knows for a name is of that name, did not withdraw it, and
\* is about to be stored, or in the table, or told to end.
Holds(l, k, t) ==
    /\ kind[l] = k /\ topic[l] = t /\ lpc[l] # "exited"
    /\ \/ upc \in {"storing", "crashed"} /\ new = l
       \/ Stored(l) /\ (entry[k][t] = l \/ Told(l))

Registrations ==
    \A k \in Kind, t \in Topic :
        registered[k][t] \in Loop => Holds(registered[k][t], k, t)

\* A request that sends found a subscription of its topic.
Requests ==
    hpc = "sending" =>
        hsub \in Loop /\ kind[hsub] = "sub" /\ topic[hsub] = htopic /\ Stored(hsub)

\* A subscription that the node and the master know of.
Live(l) ==
    /\ kind[l] = "sub" /\ registered["sub"][topic[l]] # NoLoop
    /\ entry["sub"][topic[l]] = l \/ (upc = "storing" /\ new = l)

\* The first list is still to be sent to it.
Awaits(l) == upc \in {"storing", "sending"} /\ new = l

\* The last list sent to it.
Newest(l) == IF lists[l] = <<>> THEN seen[l] ELSE lists[l][Len(lists[l])]

\* Nothing is newer than v but what the master has still to tell, or v was on
\* its way when l registered.
UpToDate(l, v) == v \in {current[topic[l]]} \cup early[l] \/ owed[topic[l]]

\* The request that is being served brings the newest list to l.
Brings(l) ==
    /\ hpc # "idle" /\ htopic = topic[l] /\ hlist = current[topic[l]]
    /\ hpc = "called" \/ hsub = l

Updated(l) ==
    /\ hpc # "idle" /\ htopic = topic[l] => UpToDate(l, hlist)
    /\ Awaits(l) \/ UpToDate(l, Newest(l)) \/ Brings(l)

Updates == \A l \in Loop : Live(l) => Updated(l)

-----------------------------------------------------------------------------
(* Names *)

\* The recursion of canonicalizeName defines a function: if it did not up to
\* some i, then not up to a least one, and the function up to the place before
\* it would go on for one more.
LEMMA WordsCounted ==
    ASSUME NEW words, NEW m \in Nat
    PROVE  \E f : f = [i \in 0..m |->
                         IF i = 0 THEN <<>>
                         ELSE IF words[i] = "" THEN f[i - 1]
                         ELSE Append(f[i - 1], words[i])]
<1> DEFINE More(e, i) == IF words[i] = "" THEN e ELSE Append(e, words[i])
           Body(f, i) == IF i = 0 THEN <<>> ELSE More(f[i - 1], i)
           Upto(n) == \E f : f = [i \in 0..n |-> Body(f, i)]
           I == {n \in Nat : ~Upto(n)}
<1> HIDE DEF More
<1>1. Upto(0)
  <2> DEFINE f == [i \in 0..0 |-> <<>>]
  <2>1. \A i \in 0..0 : i = 0
    OBVIOUS
  <2>2. f = [i \in 0..0 |-> Body(f, i)]
    BY <2>1
  <2> HIDE DEF f
  <2> QED
    BY <2>2
<1>2. ASSUME NEW n \in Nat, n # 0, Upto(n - 1) PROVE Upto(n)
  <2>1. PICK g : g = [i \in 0..(n - 1) |-> Body(g, i)]
    BY <1>2
  <2>2. \A i \in 0..(n - 1) : g[i] = Body(g, i)
    BY <2>1
  <2> DEFINE f == [i \in 0..n |-> IF i = n THEN More(g[n - 1], n) ELSE g[i]]
  <2>3. f[n] = More(g[n - 1], n) /\ \A i \in 0..(n - 1) : f[i] = g[i]
    BY <1>2
  <2>4. f = [i \in 0..n |-> f[i]]
    OBVIOUS
  <2> HIDE DEF f
  <2>5. n - 1 \in 0..(n - 1) /\ \A i \in 0..n : i = n \/ i \in 0..(n - 1)
    BY <1>2
  <2>6. f[n] = Body(f, n)
    BY <1>2, <2>3, <2>5
  <2>7. ASSUME NEW i \in 0..(n - 1) PROVE f[i] = Body(f, i)
    <3>1. i = 0 \/ i - 1 \in 0..(n - 1)
      BY <1>2
    <3> QED
      BY <2>2, <2>3, <3>1
  <2>8. \A i \in 0..n : f[i] = Body(f, i)
    BY <2>5, <2>6, <2>7
  <2>9. f = [i \in 0..n |-> Body(f, i)]
    <3> HIDE DEF Body
    <3> QED
      BY <2>4, <2>8
  <2> QED
    BY <2>9
<1>3. I = {}
  <2> HIDE DEF Upto
  <2> SUFFICES ASSUME I # {} PROVE FALSE
    OBVIOUS
  <2>1. PICK n \in I : \A k \in I : n <= k
    BY LeastNumber
  <2>2. n \in Nat /\ n # 0 /\ n - 1 \in Nat
    BY <1>1, <2>1
  <2>3. n - 1 \notin I
    BY <2>1, <2>2
  <2> QED
    BY <1>2, <2>1, <2>2, <2>3
<1>4. Upto(m)
  <2> HIDE DEF Upto
  <2> QED
    BY <1>3
<1> QED
  BY <1>4 DEF More

\* What is left of a name has no empty words, and a name without empty words
\* is left as it is.
LEMMA Canonical ==
    ASSUME NEW words \in Seq(STRING)
    PROVE  /\ canonicalizeName(words) \in Seq(STRING \ {""})
           /\ words \in Seq(STRING \ {""}) => canonicalizeName(words) = words
<1> DEFINE W == STRING \ {""}
           n == Len(words)
           c == CHOOSE f : f = [i \in 0..n |->
                                  IF i = 0 THEN <<>>
                                  ELSE IF words[i] = "" THEN f[i - 1]
                                  ELSE Append(f[i - 1], words[i])]
<1>0. \A i \in 1..n : words[i] = "" \/ words[i] \in W
  BY ElementOfSeq
<1>1. n \in Nat
  BY LenProperties
<1>2. c = [i \in 0..n |-> IF i = 0 THEN <<>>
                          ELSE IF words[i] = "" THEN c[i - 1]
                          ELSE Append(c[i - 1], words[i])]
  <2> HIDE DEF n
  <2>1. \E f : f = [i \in 0..n |-> IF i = 0 THEN <<>>
                                   ELSE IF words[i] = "" THEN f[i - 1]
                                   ELSE Append(f[i - 1], words[i])]
    BY <1>1, WordsCounted
  <2> QED
    BY <2>1
<1>3. canonicalizeName(words) = c[n]
  BY DEF canonicalizeName
<1>4. \A i \in 1..n : words[i] = words[i] /\ (words \in Seq(W) => words[i] \in W)
  <2> HIDE DEF W
  <2> QED
    BY ElementOfSeq
<1>5. "" \notin W
  OBVIOUS
<1>6. \A s \in Seq(W), e \in W :
        /\ Append(s, e) \in Seq(W) /\ Len(Append(s, e)) = Len(s) + 1
        /\ Append(s, e)[Len(s) + 1] = e
        /\ \A k \in 1..Len(s) : Append(s, e)[k] = s[k]
  <2> HIDE DEF W
  <2> QED
    BY AppendProperties, LenProperties
<1> HIDE DEF c, n, W
<1>7. /\ c[0] = <<>>
      /\ \A i \in 1..n : i - 1 \in 0..n /\ i \in 0..n /\ i # 0
      /\ \A i \in 1..n :
           c[i] = IF words[i] = "" THEN c[i - 1] ELSE Append(c[i - 1], words[i])
  <2>1. 0 \in 0..n /\ \A i \in 1..n : i - 1 \in 0..n /\ i \in 0..n /\ i # 0
    BY <1>1
  <2>2. c[0] = <<>>
    BY <1>2, <2>1
  <2>3. ASSUME NEW i \in 1..n
        PROVE  c[i] = IF words[i] = "" THEN c[i - 1] ELSE Append(c[i - 1], words[i])
    BY <1>2, <2>1
  <2> QED
    BY <2>1, <2>2, <2>3
<1>8. \A i \in 0..n : c[i] \in Seq(W)
  <2> DEFINE I == {i \in 0..n : c[i] \notin Seq(W)}
  <2> SUFFICES ASSUME I # {} PROVE FALSE
    OBVIOUS
  <2>1. I \in SUBSET Nat
    BY <1>1
  <2>2. PICK i \in I : \A k \in I : i <= k
    <3> HIDE DEF I
    <3> QED
      BY <2>1, LeastNumber
  <2>3. i # 0
    BY <1>7, <2>2, EmptySeq
  <2>4. i \in 1..n /\ i - 1 \in 0..n /\ i - 1 < i
    BY <1>1, <2>2, <2>3
  <2>5. c[i - 1] \in Seq(W)
    BY <2>2, <2>4
  <2>6. c[i] \in Seq(W)
    <3>1. CASE words[i] = ""
      BY <1>7, <2>4, <2>5, <3>1
    <3>2. CASE words[i] # ""
      <4>1. c[i] = Append(c[i - 1], words[i]) /\ words[i] \in W
        BY <1>0, <1>7, <2>4, <3>2
      <4> QED
        BY <1>6, <2>5, <4>1
    <3> QED
      BY <3>1, <3>2
  <2> QED
    BY <2>2, <2>6
<1>9. ASSUME words \in Seq(W) PROVE c[n] = words
  <2> DEFINE Same(i) == Len(c[i]) = i /\ \A k \in 1..i : c[i][k] = words[k]
             I == {i \in 0..n : ~Same(i)}
  <2>1. \A i \in 1..n : c[i] = Append(c[i - 1], words[i]) /\ words[i] \in W
    BY <1>4, <1>5, <1>7, <1>9
  <2>2. Same(0)
    <3>1. \A k \in 1..0 : FALSE
      OBVIOUS
    <3>2. Len(c[0]) = 0
      BY <1>7, EmptySeq
    <3> QED
      BY <3>1, <3>2
  <2>3. ASSUME NEW i \in 1..n, Same(i - 1) PROVE Same(i)
    <3>1. c[i - 1] \in Seq(W) /\ i - 1 \in 0..n /\ Len(c[i - 1]) = i - 1
      BY <1>7, <1>8, <2>3
    <3>2. i \in Int /\ i - 1 + 1 = i
      BY <1>1
    <3>3. /\ Len(c[i]) = i /\ c[i][i] = words[i]
          /\ \A k \in 1..(i - 1) : c[i][k] = c[i - 1][k]
      <4>1. c[i] = Append(c[i - 1], words[i]) /\ words[i] \in W
        BY <2>1
      <4> QED
        BY <1>6, <3>1, <3>2, <4>1
    <3>4. \A k \in 1..i : k = i \/ k \in 1..(i - 1)
      BY <3>2
    <3> QED
      BY <2>3, <3>3, <3>4
  <2>4. I = {}
    <3> HIDE DEF Same
    <3> SUFFICES ASSUME I # {} PROVE FALSE
      OBVIOUS
    <3>1. I \in SUBSET Nat
      BY <1>1
    <3>2. PICK i \in I : \A k \in I : i <= k
      <4> HIDE DEF I
      <4> QED
        BY <3>1, LeastNumber
    <3>3. i # 0
      BY <2>2, <3>2
    <3>4. i \in 1..n /\ i - 1 \in 0..n /\ i - 1 < i
      BY <1>1, <3>2, <3>3
    <3>5. Same(i - 1)
      BY <3>2, <3>4
    <3> QED
      BY <2>3, <3>2, <3>4, <3>5
  <2>5. n \in 0..n /\ Same(n)
    <3> HIDE DEF Same
    <3> QED
      BY <1>1, <2>4
  <2>6. Len(c[n]) = Len(words) /\ c[n] \in Seq(W)
    BY <1>8, <2>5 DEF n
  <2> QED
    BY <1>9, <2>5, <2>6, SeqEqual
<1> QED
  <2>1. n \in 0..n
    BY <1>1
  <2> QED
    BY <1>3, <1>8, <1>9, <2>1 DEF W

\* The node's own name has its parts.
LEMMA SelfParts ==
    Self.namespace \in Seq(STRING) /\ Self.name \in STRING
<1> DEFINE c == canonicalizeName(NodeWords)
           W == STRING \ {""}
<1>1. c \in Seq(W) /\ c # <<>>
  BY NamesAssumption, Canonical
<1>2. c \in Seq(STRING)
  <2>1. W \subseteq STRING
    OBVIOUS
  <2> HIDE DEF c, W
  <2> QED
    BY <1>1, <2>1, SeqMonotonic
<1>3. Self = [namespace |-> Front(c), name |-> Last(c)]
  BY DEF Self, qualifyNodeName
<1> HIDE DEF c
<1>4. Len(c) \in Nat /\ Len(c) # 0
  BY <1>1, <1>2, LenProperties, EmptySeq
<1>5. Front(c) \in Seq(STRING)
  BY <1>2, <1>4, SubSeqProperties DEF Front
<1>6. Last(c) \in STRING
  BY <1>2, <1>4, ElementOfSeq DEF Last
<1> QED
  BY <1>3, <1>5, <1>6

\* A name resolves to words that are not empty.
LEMMA ResolvedWords ==
    ASSUME NEW n \in Name
    PROVE  resolve(Self, n) \in Seq(STRING \ {""})
<1>1. n.words \in Seq(STRING) /\ n.kind \in {"relative", "private", "global"}
  BY DEF Name
<1>2. /\ Self.namespace \o n.words \in Seq(STRING)
      /\ Self.namespace \o <<Self.name>> \o n.words \in Seq(STRING)
  BY <1>1, SelfParts, ConcatProperties
<1> QED
  BY <1>1, <1>2, Canonical DEF resolve

\* A name below the root is global already.
LEMMA GlobalName ==
    ASSUME NEW t \in Seq(STRING \ {""})
    PROVE  Global(t) \in Name /\ resolve(Self, Global(t)) = t
<1>1. t \in Seq(STRING)
  <2>1. STRING \ {""} \subseteq STRING
    OBVIOUS
  <2> QED
    BY <2>1, SeqMonotonic
<1> QED
  BY <1>1, Canonical DEF Global, Name, resolve

\* Resolving a name once is resolving it for good: what the node stores, and
\* passes on as a global name, resolves to itself (name.go).
THEOREM ResolutionIdempotent ==
    ASSUME NEW n \in Name
    PROVE  resolve(Self, Global(resolve(Self, n))) = resolve(Self, n)
BY ResolvedWords, GlobalName

\* The names the tables are keyed by.
LEMMA Topics ==
    Topic # {} /\ SomeTopic \in Topic /\ Topic \subseteq Seq(STRING \ {""})
<1> DEFINE images == {resolve(Self, m[2]) : m \in Mapping}
<1>1. PICK r \in RawName : TRUE
  BY NamesAssumption
<1>2. resolve(Self, r) \in Topic
  BY DEF Topic
<1>3. \A n \in Name : resolve(Self, n) \in Seq(STRING \ {""})
  BY ResolvedWords
<1>4. RawName \subseteq Name /\ \A m \in Mapping : m[2] \in Name
  BY NamesAssumption
<1>5. Topic \subseteq Seq(STRING \ {""})
  BY <1>3, <1>4 DEF Topic
<1> QED
  BY <1>2, <1>5 DEF SomeTopic

\* Remapping leads from a name that resolves to a key of the tables to another.
LEMMA Remapped ==
    ASSUME resolved \in resolvedMappings(Self, Mapping),
           NEW n, resolve(Self, n) \in Topic
    PROVE  Remap(n) \in Topic
<1> DEFINE key == resolve(Self, n)
           keys == {resolve(Self, m[1]) : m \in Mapping}
           targets(k) == {resolve(Self, m[2]) : m \in {x \in Mapping : resolve(Self, x[1]) = k}}
<1>1. DOMAIN resolved = keys /\ \A k \in keys : resolved[k] \in targets(k)
  BY DEF resolvedMappings
<1>2. \A k : targets(k) \subseteq Topic
  BY DEF Topic
<1>3. Remap(n) = IF key \in keys THEN resolved[key] ELSE key
  BY <1>1 DEF Remap, remap
<1> QED
  BY <1>1, <1>2, <1>3

\* What the user passes, and what NewPublisher makes of it, is a name whose
\* remapped form keys the tables.
LEMMA PassedNames ==
    ASSUME resolved \in resolvedMappings(Self, Mapping), NEW n \in RawName
    PROVE  /\ n \in Name /\ Remap(n) \in Topic
           /\ Global(Remap(n)) \in Name /\ Remap(Global(Remap(n))) \in Topic
<1>1. n \in Name /\ resolve(Self, n) \in Topic
  BY NamesAssumption DEF Topic
<1>2. Remap(n) \in Topic
  BY <1>1, Remapped
<1>3. Global(Remap(n)) \in Name /\ resolve(Self, Global(Remap(n))) = Remap(n)
  BY <1>2, Topics, GlobalName
<1> QED
  BY <1>1, <1>2, <1>3, Remapped

\* A publisher is advertised although the table has one of its name only if it
\* was looked for under another.
LEMMA LookedUpElsewhere ==
    ASSUME resolved \in resolvedMappings(Self, Mapping),
           NEW n \in RawName \cup {Global(Remap(r)) : r \in RawName},
           Published(n) = NoLoop, entry["pub"][Remap(n)] # NoLoop
    PROVE  Remap(n) \in MisKeyedNames
<1>1. Remap(n) \in Topic
  BY PassedNames
<1>2. CASE n = Global(Remap(n))
  <2>1. resolve(Self, n) = Remap(n)
    BY <1>1, <1>2, Topics, GlobalName
  <2>2. n.words = Remap(n)
    BY <1>2 DEF Global
  <2> QED
    BY <1>1, <1>2, <2>1, <2>2 DEF Published
<1>3. CASE n # Global(Remap(n))
  BY <1>1, <1>3 DEF MisKeyed, MisKeyedNames
<1> QED
  BY <1>2, <1>3

-----------------------------------------------------------------------------
(* What the steps are *)

\* What the bounds of the code and of the model are.
LEMMA ConstantTypes ==
    /\ NoLoop \notin Nat /\ Ghost \notin Nat /\ NoLoop # Ghost
    /\ ChanCap \in Nat \ {0} /\ MaxLoops \in Nat \ {0} /\ MaxOps \in Nat /\ MaxChanges \in Nat
BY NoLoopAssumption, BoundsAssumption

\* Where the user goroutine is outside of a call that changes a table.
Resting == {"start", "failed", "idle", "spinning", "waiting", "draining", "done"}

Answers == {<<>>} \cup Topic \X {"No such topic", "Success"}

\* Nothing the tables, the loops or the master hold changes.
Elsewhere ==
    /\ UNCHANGED <<argVars, new, telling, publishers, entry, bornVars, runVars, hpc,
                   htopic, hlist, hsub, masterVars>>
    /\ \/ upc' = upc
       \/ upc \in {"start", "idle", "spinning"} /\ upc' \in {"failed", "idle", "spinning"}
       \/ upc = "waiting" /\ wg = 0 /\ upc' = "draining"
       \/ upc = "draining" /\ hpc = "idle" /\ upc' = "done"
    /\ ops' \in 0..MaxOps /\ ok' \in BOOLEAN /\ answer' \in Answers

\* The loops that the tables lead to.
Listed == {entry[k][t] : k \in Kind, t \in Topic} \ {NoLoop}

\* A call comes to its sends of tokens, to some of the loops in the tables: to the
\* one that is removed or replaced, or, if it is Shutdown, to all.
Begins ==
    /\ upc = "idle" /\ upc' \in Sends \cup {"waiting"}
    /\ telling' \subseteq Listed /\ (telling' # {} => upc' \in Sends)
    /\ upc' \in {"removing", "replacing"} =>
         new' \in Listed /\ telling' = {new'}
    /\ upc' = "replacing" => kind[new'] = "srv"
    /\ upc' \notin {"removing", "replacing"} => new' = new
    /\ upc' \in {"telling", "waiting"} => telling' = Listed
    /\ ops' \in 0..MaxOps /\ ok' \in BOOLEAN
    /\ UNCHANGED <<argVars, publishers, entry, bornVars, runVars, handlerVars,
                   masterVars>>

\* A call that registers name t creates a loop for it.
Creates(k, t) ==
    /\ upc \in {"idle", "serving"} /\ upc' = "storing" /\ ops' \in 0..MaxOps
    /\ nloops < MaxLoops /\ nloops' = nloops + 1 /\ new' = nloops + 1
    /\ kind' = [kind EXCEPT ![nloops + 1] = k]
    /\ topic' = [topic EXCEPT ![nloops + 1] = t]
    /\ early' = [early EXCEPT ![nloops + 1] =
         {current[t]} \cup {v \in {hlist} : hpc # "idle" /\ htopic = t}]
    /\ registered' = [registered EXCEPT ![k][t] = nloops + 1]
    /\ publishers' = current[t]
    /\ entry[k][t] # NoLoop =>
         (k = "srv" /\ Told(entry[k][t])) \/ (k = "pub" /\ t \in MisKeyedNames)
    /\ UNCHANGED <<argVars, telling, ok, entry, runVars, handlerVars, current, owed>>

\* A call fails to register a name.
Fails ==
    /\ upc \in {"idle", "serving"} /\ upc' = "idle" /\ ops' \in 0..MaxOps
    /\ \/ UNCHANGED registered
       \/ \E k \in Kind, t \in Topic :
            /\ registered' = [registered EXCEPT ![k][t] = Ghost]
            /\ k = "sub" => entry[k][t] = NoLoop
    /\ UNCHANGED <<argVars, new, telling, publishers, ok, entry, bornVars, runVars,
                   handlerVars, current, owed>>

\* A loop ends, with or without a word to the master.
Leaves(l) ==
    /\ lpc[l] \in {"running", "stopping"}
    /\ \/ lpc[l] = "stopping" /\ registered' = Unregister(l)
          /\ lpc' = [lpc EXCEPT ![l] = "exited"]
       \/ UNCHANGED registered /\ lpc' = [lpc EXCEPT ![l] = "gone"]
          /\ (lpc[l] = "running" => "accept" \in MayFail)
    /\ wg' = wg - 1
    /\ UNCHANGED <<userVars, ok, entry, bornVars, tokens, lists, seen, handlerVars,
                   current, owed>>

Steps ==
    \/ Elsewhere \/ Begins \/ Fails \/ Store \/ SendFirstList \/ Delete
    \/ \E k \in Kind, t \in Topic : Creates(k, t)
    \/ \E l \in Loop : SendToken(l)
    \/ \E t \in Topic : MasterUpdates(t)
    \/ \E t \in Topic : Change(t)
    \/ \E l \in Loop : LoopStart(l)
    \/ \E l \in Loop : LoopList(l)
    \/ \E l \in Loop : LoopToken(l)
    \/ \E l \in Loop : Leaves(l)
    \/ publisherUpdate \/ SendUpdate \/ MapRace

\* An entry is a loop that was created.
LEMMA EntryTypes ==
    ASSUME TypeOK, NEW k \in Kind, NEW t \in Topic
    PROVE  /\ entry[k][t] # NoLoop => entry[k][t] \in Loop /\ entry[k][t] \in 1..nloops
           /\ nloops \in Nat /\ nloops <= MaxLoops /\ \A l \in 1..nloops : l \in Loop
<1>1. nloops \in 0..MaxLoops
  BY DEF TypeOK
<1>2. nloops \in Nat /\ nloops <= MaxLoops /\ \A l \in 1..nloops : l \in Loop
  BY <1>1, ConstantTypes DEF Loop
<1>3. entry \in [Kind -> [Topic -> 1..nloops \cup {NoLoop}]]
  BY DEF TypeOK
<1> QED
  BY <1>2, <1>3

\* The loops of the tables were created.
LEMMA ListedLoops ==
    ASSUME TypeOK
    PROVE  Listed \subseteq Loop /\ Listed \subseteq 1..nloops
BY EntryTypes DEF Listed

\* A call that registers name t, whose entry it found free, or told to end, or
\* looked for elsewhere, creates a loop or fails.
LEMMA RegisterKinds ==
    ASSUME TypeOK, NEW k \in Kind, NEW t \in Topic, Register(k, t),
           upc \in {"idle", "serving"}, ops' \in 0..MaxOps,
           entry[k][t] # NoLoop =>
             (k = "srv" /\ Told(entry[k][t])) \/ (k = "pub" /\ t \in MisKeyedNames),
           UNCHANGED <<argVars, telling, ok, entry, runVars, handlerVars, current, owed>>
    PROVE  Steps
<1>1. Register(k, t) => upc' = "storing" \/ upc' = "idle"
  BY DEF Register
<1>2. CASE upc' = "storing"
  <2>1. Creates(k, t)
    BY <1>2 DEF Register, Creates
  <2> QED
    BY <2>1 DEF Steps
<1>3. CASE upc' = "idle"
  <2>1. Fails
    BY <1>3 DEF Register, Fails
  <2> QED
    BY <2>1 DEF Steps
<1> QED
  BY <1>1, <1>2, <1>3

\* Every action is one of these steps.
LEMMA StepKinds ==
    ASSUME TypeOK, Entries, InCall, [Next]_vars
    PROVE  Steps
<1>0. /\ resolved \in resolvedMappings(Self, Mapping) /\ ops \in 0..MaxOps /\ ok \in BOOLEAN
      /\ answer \in Answers
  BY DEF TypeOK, Answers
<1> USE DEF vars, userVars, argVars, bornVars, runVars, handlerVars, masterVars
<1>1. CASE Start \/ SpinReturns \/ Waited \/ Drained \/ Interrupt \/ UNCHANGED vars
  <2>1. Elsewhere
    BY <1>0, <1>1 DEF Start, SpinReturns, Waited, Drained, Interrupt, Elsewhere, Resting
  <2> QED
    BY <2>1 DEF Steps
<1>2. CASE Spin
  <2>1. ops' \in 0..MaxOps
    BY <1>0, <1>2, ConstantTypes DEF Spin, Called
  <2>2. Elsewhere
    BY <1>0, <1>2, <2>1 DEF Spin, Called, Elsewhere, Resting
  <2> QED
    BY <2>2 DEF Steps
<1>3. ASSUME NEW t \in Topic, requestTopic(t) PROVE Steps
  <2>1. answer' \in Answers
    BY <1>3 DEF requestTopic, Answers
  <2>2. Elsewhere
    BY <1>0, <1>3, <2>1 DEF requestTopic, Elsewhere
  <2> QED
    BY <2>2 DEF Steps
<1>4. ASSUME NEW n \in RawName, NewSubscriber(n) PROVE Steps
  <2>1. Remap(n) \in Topic /\ "sub" \in Kind
    BY <1>0, PassedNames DEF Kind
  <2>2. upc = "idle" /\ ops' \in 0..MaxOps
    BY <1>0, <1>4, ConstantTypes DEF NewSubscriber, Called
  <2> QED
    BY <1>4, <2>1, <2>2, RegisterKinds DEF NewSubscriber
<1>5. ASSUME NEW n \in RawName \cup {Global(Remap(r)) : r \in RawName}, Advertise(n),
             upc = "idle", ops' \in 0..MaxOps
      PROVE  Steps
  <2>1. Remap(n) \in Topic /\ "pub" \in Kind
    BY <1>0, PassedNames DEF Kind
  <2>2. entry["pub"][Remap(n)] # NoLoop => Remap(n) \in MisKeyedNames
    BY <1>0, <1>5, LookedUpElsewhere DEF Advertise
  <2> QED
    BY <1>5, <2>1, <2>2, RegisterKinds DEF Advertise
<1>6. ASSUME NEW n \in RawName, NewPublisher(n) \/ NewPublisherWithCallbacks(n)
      PROVE  Steps
  <2>1. upc = "idle" /\ ops' \in 0..MaxOps
    BY <1>0, <1>6, ConstantTypes DEF NewPublisher, NewPublisherWithCallbacks, Called
  <2>2. Advertise(n) \/ Advertise(Global(Remap(n)))
    BY <1>6 DEF NewPublisher, NewPublisherWithCallbacks
  <2> QED
    BY <1>5, <2>1, <2>2
<1>7. ASSUME NEW n \in RawName, NewServiceServer(n) PROVE Steps
  <2>1. Remap(n) \in Topic /\ "srv" \in Kind
    BY <1>0, PassedNames DEF Kind
  <2>2. upc = "idle" /\ ops' \in 0..MaxOps
    BY <1>0, <1>7, ConstantTypes DEF NewServiceServer, Called
  <2> DEFINE l == entry["srv"][Remap(n)]
  <2>3. CASE l # NoLoop
    <3>1. l \in Listed
      BY <2>1, <2>3 DEF Listed
    <3>2. /\ new' = l /\ upc' = "replacing" /\ telling' = {l}
          /\ UNCHANGED <<argVars, publishers, ok, entry, bornVars, runVars, handlerVars,
                         masterVars>>
      BY <1>7, <2>3 DEF NewServiceServer, BeginTelling
    <3>3. kind[l] = "srv"
      BY <2>1, <2>3 DEF Entries
    <3> HIDE DEF l
    <3>4. Begins
      BY <1>0, <2>2, <3>1, <3>2, <3>3 DEF Begins, Sends
    <3> QED
      BY <3>4 DEF Steps
  <2>4. CASE l = NoLoop
    BY <1>7, <2>1, <2>2, <2>4, RegisterKinds DEF NewServiceServer
  <2> QED
    BY <2>3, <2>4
<1>8. CASE Serve
  <2>1. new \in Loop /\ kind[new] = "srv" /\ topic[new] \in Topic /\ "srv" \in Kind
    <3>1. new \in 0..nloops /\ kind \in [Loop -> Kind] /\ topic \in [Loop -> Topic]
      BY DEF TypeOK
    <3>2. nloops \in Nat /\ \A l \in 1..nloops : l \in Loop
      BY EntryTypes, Topics DEF Kind
    <3>3. new # 0 /\ kind[new] = "srv"
      BY <1>8 DEF Serve, InCall
    <3>4. new \in Loop
      BY <3>1, <3>2, <3>3
    <3> QED
      BY <3>1, <3>3, <3>4 DEF Kind
  <2>2. entry["srv"][topic[new]] = new /\ Told(new)
    BY <1>8, <2>1 DEF Serve, InCall
  <2> QED
    BY <1>0, <1>8, <2>1, <2>2, RegisterKinds DEF Serve
<1>9. ASSUME NEW n \in RawName, RemoveSubscriber(n) \/ RemovePublisher(n) PROVE Steps
  <2>1. Remap(n) \in Topic /\ "sub" \in Kind /\ "pub" \in Kind
    BY <1>0, PassedNames DEF Kind
  <2>2. PICK k \in Kind, t \in Topic :
          RemoveEntry(k, t) /\ upc = "idle" /\ ops' \in 0..MaxOps
    BY <1>0, <1>9, <2>1, ConstantTypes DEF RemoveSubscriber, RemovePublisher, Called
  <2>3. entry[k][t] \in Listed
    BY <2>2 DEF RemoveEntry, Listed
  <2>4. /\ new' = entry[k][t] /\ upc' = "removing" /\ telling' = {entry[k][t]}
        /\ UNCHANGED <<argVars, publishers, ok, entry, bornVars, runVars, handlerVars,
                       masterVars>>
    BY <2>2 DEF RemoveEntry, BeginTelling
  <2>5. Begins
    BY <1>0, <2>2, <2>3, <2>4 DEF Begins, Sends
  <2> QED
    BY <2>5 DEF Steps
<1>10. ASSUME NEW k \in Kind, NEW t \in Topic, Close(k, t) PROVE Steps
  <2>1. ops' \in 0..MaxOps /\ upc = "idle"
    BY <1>0, <1>10, ConstantTypes DEF Close, Called
  <2>2. entry[k][t] \in Listed
    BY <1>10 DEF Close, Listed
  <2>3. Begins
    BY <1>0, <1>10, <2>1, <2>2 DEF Close, BeginTelling, Begins, Sends
  <2> QED
    BY <2>3 DEF Steps
<1>11. CASE Shutdown
  <2>1. /\ upc = "idle" /\ telling' = Listed
        /\ upc' = IF Listed = {} THEN "waiting" ELSE "telling"
    BY <1>11 DEF Shutdown, BeginTelling, Listed
  <2>2. Begins
    BY <1>0, <1>11, <2>1 DEF Shutdown, Begins, Sends
  <2> QED
    BY <2>2 DEF Steps
<1>12. ASSUME NEW l \in Loop, LoopEnd(l) \/ LoopGone(l) PROVE Steps
  <2>1. Leaves(l)
    BY <1>12 DEF LoopEnd, LoopGone, Leaves
  <2> QED
    BY <2>1 DEF Steps
<1> QED
  BY <1>1, <1>2, <1>3, <1>4, <1>6, <1>7, <1>8, <1>9, <1>10, <1>11, <1>12
  DEF Next, UserCall, UserStep, LoopStep, LoopWorks, HandlerStep, Steps

-----------------------------------------------------------------------------
(* Types *)

\* The types, by what they are about.
UserTypes ==
    /\ program \in Programs /\ resolved \in resolvedMappings(Self, Mapping)
    /\ upc \in Resting \cup Sends
                 \cup {"storing", "sending", "deleting", "serving", "crashed"}
    /\ new \in 0..nloops /\ nloops \in 0..MaxLoops /\ ops \in 0..MaxOps
    /\ telling \subseteq 1..nloops /\ publishers \in 0..MaxChanges
    /\ ok \in BOOLEAN

TableTypes ==
    /\ nloops \in 0..MaxLoops /\ entry \in [Kind -> [Topic -> 1..nloops \cup {NoLoop}]]
    /\ registered \in [Kind -> [Topic -> Loop \cup {NoLoop, Ghost}]]
    /\ current \in [Topic -> 0..MaxChanges] /\ owed \in [Topic -> BOOLEAN]

BornTypes ==
    /\ nloops \in 0..MaxLoops
    /\ kind \in [Loop -> Kind] /\ topic \in [Loop -> Topic]
    /\ early \in [Loop -> SUBSET (0..MaxChanges)]

RunTypes ==
    /\ lpc \in [Loop -> {"unused", "starting", "running", "stopping", "exited", "gone"}]
    /\ tokens \in [Loop -> 0..ChanCap] /\ seen \in [Loop -> 0..MaxChanges]

ListTypes ==
    lists \in [Loop -> Seq(0..MaxChanges)] /\ \A l \in Loop : Len(lists[l]) <= ChanCap

RequestTypes ==
    /\ hpc \in {"idle", "called", "sending"} /\ htopic \in Topic /\ hlist \in 0..MaxChanges
    /\ hsub \in Loop \cup {NoLoop} /\ answer \in Answers

Running == {l \in Loop : lpc[l] \in {"running", "stopping"}}
Counted == wg = Cardinality(Running)

\* The parts make up TypeOK, in a state ...
LEMMA TypeParts ==
    TypeOK <=> /\ UserTypes /\ TableTypes /\ BornTypes /\ RunTypes /\ ListTypes
               /\ RequestTypes /\ Counted
BY DEF TypeOK, UserTypes, TableTypes, BornTypes, RunTypes, ListTypes, RequestTypes,
       Counted, Running, Resting, Sends, Answers

\* ... and in the next one.
LEMMA TypePartsNext ==
    TypeOK' <=> /\ UserTypes' /\ TableTypes' /\ BornTypes' /\ RunTypes' /\ ListTypes'
                /\ RequestTypes' /\ Counted'
BY DEF TypeOK, UserTypes, TableTypes, BornTypes, RunTypes, ListTypes, RequestTypes,
       Counted, Running, Resting, Sends, Answers

\* The user goroutine is at a place it may be at, with a loop that was created.
LEMMA UserTypesStep ==
    ASSUME TypeOK, Telling, Steps
    PROVE  UserTypes'
<1> USE DEF userVars, argVars, bornVars, runVars, handlerVars, masterVars
<1>1. CASE \/ \E t \in Topic : MasterUpdates(t)
           \/ \E t \in Topic : Change(t)
           \/ \E l \in Loop : LoopStart(l)
           \/ \E l \in Loop : LoopList(l)
           \/ \E l \in Loop : LoopToken(l)
           \/ \E l \in Loop : Leaves(l)
           \/ publisherUpdate
           \/ SendUpdate
  <2>1. UNCHANGED <<program, resolved, upc, new, telling, nloops, ops, publishers, ok>>
    BY <1>1
    DEF Change, Leaves, LoopList, LoopStart, LoopToken, MasterUpdates, SendUpdate,
        publisherUpdate
  <2> QED
    BY <2>1, TypeParts DEF UserTypes
<1>2. CASE Elsewhere
  BY <1>2, TypeParts DEF Elsewhere, UserTypes, Resting
<1>3. CASE Begins
  BY <1>3, TypeParts, ListedLoops DEF Begins, UserTypes, Resting
<1>4. CASE Store
  BY <1>4, TypeParts DEF Store, UserTypes, Resting
<1>5. CASE SendFirstList
  BY <1>5, TypeParts DEF SendFirstList, UserTypes, Resting
<1>6. CASE Delete
  BY <1>6, TypeParts DEF Delete, UserTypes, Resting
<1>7. ASSUME NEW k \in Kind, NEW t \in Topic, Creates(k, t) PROVE UserTypes'
  BY <1>7, TypeParts, ConstantTypes DEF Creates, UserTypes, TableTypes
<1>8. ASSUME NEW l \in Loop, SendToken(l) PROVE UserTypes'
  <2>1. upc \in Sends
    BY <1>8 DEF SendToken, Telling
  <2>2. AfterTelling(upc) \in {"idle", "deleting", "serving", "waiting"}
    BY <2>1 DEF AfterTelling, Sends
  <2> QED
    BY <1>8, <2>1, <2>2, TypeParts DEF SendToken, UserTypes, Resting
<1>9. CASE Fails
  BY <1>9, TypeParts DEF Fails, UserTypes, Resting
<1>10. CASE MapRace
  BY <1>10, TypeParts DEF MapRace, UserTypes
<1> QED
  BY <1>1, <1>2, <1>3, <1>4, <1>5, <1>6, <1>7, <1>8, <1>9, <1>10 DEF Steps

\* The node's tables and the master's hold loops.
LEMMA TableTypesStep ==
    ASSUME TypeOK, InCall, Steps
    PROVE  TableTypes'
<1> USE DEF userVars, argVars, bornVars, runVars, handlerVars, masterVars
<1>1. CASE \/ Elsewhere
           \/ SendFirstList
           \/ Begins
           \/ \E l \in Loop : SendToken(l)
           \/ \E l \in Loop : LoopStart(l)
           \/ \E l \in Loop : LoopList(l)
           \/ \E l \in Loop : LoopToken(l)
           \/ publisherUpdate
           \/ SendUpdate
           \/ MapRace
  <2>1. UNCHANGED <<nloops, entry, registered, current, owed>>
    BY <1>1
    DEF Begins, Elsewhere, LoopList, LoopStart, LoopToken, MapRace, SendFirstList,
        SendToken, SendUpdate, publisherUpdate
  <2> QED
    BY <2>1, TypeParts DEF TableTypes
<1>2. CASE Fails
  <2>1. UNCHANGED <<nloops, entry, current, owed>>
    BY <1>2 DEF Fails
  <2>2. registered \in [Kind -> [Topic -> Loop \cup {NoLoop, Ghost}]]
    BY TypeParts DEF TableTypes
  <2>3. ASSUME NEW k \in Kind, NEW t \in Topic, registered' = [registered EXCEPT ![k][t] = Ghost]
        PROVE  registered' \in [Kind -> [Topic -> Loop \cup {NoLoop, Ghost}]]
    BY <2>2, <2>3
  <2>4. registered' \in [Kind -> [Topic -> Loop \cup {NoLoop, Ghost}]]
    BY <1>2, <2>2, <2>3 DEF Fails
  <2> QED
    BY <2>1, <2>4, TypeParts DEF TableTypes
<1>3. CASE Store
  <2>1. new \in 1..nloops /\ kind[new] \in Kind /\ topic[new] \in Topic
    BY <1>3, TypeParts, ConstantTypes DEF Store, InCall, UserTypes, BornTypes, Loop
  <2>2. UNCHANGED <<nloops, registered, current, owed>>
    BY <1>3 DEF Store
  <2>3. entry' = [entry EXCEPT ![kind[new]][topic[new]] = new]
    BY <1>3 DEF Store
  <2> QED
    BY <2>1, <2>2, <2>3, TypeParts DEF TableTypes
<1>4. CASE Delete
  <2>1. new \in Loop /\ kind[new] \in Kind /\ topic[new] \in Topic
    BY <1>4, TypeParts, ConstantTypes DEF Delete, InCall, UserTypes, BornTypes, Loop
  <2> QED
    BY <1>4, <2>1, TypeParts DEF Delete, TableTypes
<1>5. ASSUME NEW k \in Kind, NEW t \in Topic, Creates(k, t) PROVE TableTypes'
  BY <1>5, TypeParts, ConstantTypes DEF Creates, TableTypes, Loop
<1>7. ASSUME NEW t \in Topic, MasterUpdates(t) PROVE TableTypes'
  BY <1>7, TypeParts DEF MasterUpdates, TableTypes
<1>8. ASSUME NEW t \in Topic, Change(t) PROVE TableTypes'
  <2>1. UNCHANGED <<nloops, entry, registered>>
    BY <1>8 DEF Change
  <2>2. current' \in [Topic -> 0..MaxChanges]
    BY <1>8, TypeParts, ConstantTypes DEF Change, TableTypes
  <2>3. PICK b \in BOOLEAN : owed' = [owed EXCEPT ![t] = b]
    BY <1>8, TypeParts DEF Change, TableTypes
  <2>4. owed' \in [Topic -> BOOLEAN]
    BY <2>3, TypeParts DEF TableTypes
  <2> QED
    BY <2>1, <2>2, <2>4, TypeParts DEF TableTypes
<1>9. ASSUME NEW l \in Loop, Leaves(l) PROVE TableTypes'
  <2>1. kind[l] \in Kind /\ topic[l] \in Topic
    BY TypeParts DEF BornTypes
  <2>2. UNCHANGED <<nloops, entry, current, owed>>
    BY <1>9 DEF Leaves
  <2>3. registered \in [Kind -> [Topic -> Loop \cup {NoLoop, Ghost}]]
    BY TypeParts DEF TableTypes
  <2>4. Unregister(l) \in [Kind -> [Topic -> Loop \cup {NoLoop, Ghost}]]
    BY <2>1, <2>3 DEF Unregister
  <2>5. registered' \in [Kind -> [Topic -> Loop \cup {NoLoop, Ghost}]]
    BY <1>9, <2>3, <2>4 DEF Leaves
  <2> QED
    BY <2>2, <2>5, TypeParts DEF TableTypes
<1> QED
  BY <1>1, <1>2, <1>3, <1>4, <1>5, <1>7, <1>8, <1>9 DEF Steps

\* A new loop is of a kind and a name.
LEMMA BornTypesStep ==
    ASSUME TypeOK, Steps
    PROVE  BornTypes'
<1> USE DEF userVars, argVars, bornVars, runVars, handlerVars, masterVars
<1>1. CASE \/ Elsewhere
           \/ Begins
           \/ Fails
           \/ Store
           \/ SendFirstList
           \/ Delete
           \/ \E l \in Loop : SendToken(l)
           \/ \E t \in Topic : MasterUpdates(t)
           \/ \E t \in Topic : Change(t)
           \/ \E l \in Loop : LoopStart(l)
           \/ \E l \in Loop : LoopList(l)
           \/ \E l \in Loop : LoopToken(l)
           \/ \E l \in Loop : Leaves(l)
           \/ publisherUpdate
           \/ SendUpdate
           \/ MapRace
  <2>1. UNCHANGED <<nloops, kind, topic, early>>
    BY <1>1
    DEF Begins, Change, Delete, Elsewhere, Fails, Leaves, LoopList, LoopStart,
        LoopToken, MapRace, MasterUpdates, SendFirstList, SendToken, SendUpdate,
        Store, publisherUpdate
  <2> QED
    BY <2>1, TypeParts DEF BornTypes
<1>2. ASSUME NEW k \in Kind, NEW t \in Topic, Creates(k, t) PROVE BornTypes'
  BY <1>2, TypeParts, ConstantTypes
  DEF Creates, BornTypes, TableTypes, RequestTypes, Loop
<1> QED
  BY <1>1, <1>2 DEF Steps

\* No token is sent beyond the capacity of its channel.
LEMMA RunTypesStep ==
    ASSUME TypeOK, Steps
    PROVE  RunTypes'
<1> USE DEF userVars, argVars, bornVars, runVars, handlerVars, masterVars
<1>1. CASE \/ Elsewhere
           \/ Begins
           \/ Fails
           \/ SendFirstList
           \/ Delete
           \/ \E k \in Kind, t \in Topic : Creates(k, t)
           \/ \E t \in Topic : MasterUpdates(t)
           \/ \E t \in Topic : Change(t)
           \/ publisherUpdate
           \/ SendUpdate
           \/ MapRace
  <2>1. UNCHANGED <<lpc, tokens, seen>>
    BY <1>1
    DEF Begins, Change, Creates, Delete, Elsewhere, Fails, MapRace, MasterUpdates,
        SendFirstList, SendUpdate, publisherUpdate
  <2> QED
    BY <2>1, TypeParts DEF RunTypes
<1>2. ASSUME NEW l \in Loop, SendToken(l) PROVE RunTypes'
  BY <1>2, TypeParts, ConstantTypes DEF SendToken, RunTypes
<1>3. CASE Store
  BY <1>3, TypeParts, ConstantTypes DEF Store, RunTypes, ListTypes
<1>7. ASSUME NEW l \in Loop, LoopStart(l) PROVE RunTypes'
  BY <1>7, TypeParts, ConstantTypes DEF LoopStart, RunTypes, ListTypes
<1>8. ASSUME NEW l \in Loop, LoopList(l) PROVE RunTypes'
  BY <1>8, TypeParts, ConstantTypes DEF LoopList, RunTypes, ListTypes
<1>9. ASSUME NEW l \in Loop, LoopToken(l) PROVE RunTypes'
  BY <1>9, TypeParts, ConstantTypes DEF LoopToken, RunTypes, ListTypes
<1>10. ASSUME NEW l \in Loop, Leaves(l) PROVE RunTypes'
  BY <1>10, TypeParts DEF Leaves, RunTypes
<1> QED
  BY <1>1, <1>2, <1>3, <1>7, <1>8, <1>9, <1>10 DEF Steps

\* A list is sent only when there is room.
LEMMA SendListTypes ==
    ASSUME ListTypes, NEW l \in Loop, NEW v \in 0..MaxChanges, SendList(l, v)
    PROVE  ListTypes'
<1>1. lists \in [Loop -> Seq(0..MaxChanges)] /\ lists[l] \in Seq(0..MaxChanges)
  BY DEF ListTypes
<1>2. Len(lists[l]) \in Nat /\ Len(lists[l]) < ChanCap
  BY <1>1, LenProperties DEF SendList
<1>3. /\ Append(lists[l], v) \in Seq(0..MaxChanges)
      /\ Len(Append(lists[l], v)) = Len(lists[l]) + 1
  BY <1>1, AppendProperties
<1>4. lists' = [lists EXCEPT ![l] = Append(lists[l], v)]
  BY DEF SendList
<1> QED
  BY <1>1, <1>2, <1>3, <1>4, ConstantTypes DEF ListTypes

\* Nor a list of publishers.
LEMMA ListTypesStep ==
    ASSUME TypeOK, InCall, Requests, Steps
    PROVE  ListTypes'
<1> USE DEF userVars, argVars, bornVars, runVars, handlerVars, masterVars
<1>1. CASE \/ Elsewhere
           \/ Begins
           \/ Fails
           \/ Store
           \/ Delete
           \/ \E k \in Kind, t \in Topic : Creates(k, t)
           \/ \E l \in Loop : SendToken(l)
           \/ \E t \in Topic : MasterUpdates(t)
           \/ \E t \in Topic : Change(t)
           \/ \E l \in Loop : LoopStart(l)
           \/ \E l \in Loop : LoopToken(l)
           \/ \E l \in Loop : Leaves(l)
           \/ publisherUpdate
           \/ MapRace
  <2>1. UNCHANGED <<lists>>
    BY <1>1
    DEF Begins, Change, Creates, Delete, Elsewhere, Fails, Leaves, LoopStart,
        LoopToken, MapRace, MasterUpdates, SendToken, Store, publisherUpdate
  <2> QED
    BY <2>1, TypeParts DEF ListTypes
<1>2. CASE SendFirstList
  <2>1. new \in Loop /\ publishers \in 0..MaxChanges
    BY <1>2, TypeParts, ConstantTypes DEF SendFirstList, InCall, UserTypes, Loop
  <2> QED
    BY <1>2, <2>1, TypeParts, SendListTypes DEF SendFirstList
<1>3. ASSUME NEW l \in Loop, LoopList(l) PROVE ListTypes'
  BY <1>3, TypeParts, ConstantTypes DEF LoopList, ListTypes
<1>4. CASE SendUpdate
  <2>1. hsub \in Loop /\ hlist \in 0..MaxChanges
    BY <1>4, TypeParts DEF SendUpdate, Requests, RequestTypes
  <2> QED
    BY <1>4, <2>1, TypeParts, SendListTypes DEF SendUpdate
<1> QED
  BY <1>1, <1>2, <1>3, <1>4 DEF Steps

\* A request is for a topic and a list.
LEMMA RequestTypesStep ==
    ASSUME TypeOK, Steps
    PROVE  RequestTypes'
<1> USE DEF userVars, argVars, bornVars, runVars, handlerVars, masterVars
<1>1. CASE \/ Begins
           \/ Fails
           \/ Store
           \/ SendFirstList
           \/ Delete
           \/ \E k \in Kind, t \in Topic : Creates(k, t)
           \/ \E l \in Loop : SendToken(l)
           \/ \E t \in Topic : Change(t)
           \/ \E l \in Loop : LoopStart(l)
           \/ \E l \in Loop : LoopList(l)
           \/ \E l \in Loop : LoopToken(l)
           \/ \E l \in Loop : Leaves(l)
           \/ MapRace
  <2>1. UNCHANGED <<hpc, htopic, hlist, hsub, answer>>
    BY <1>1
    DEF Begins, Change, Creates, Delete, Fails, Leaves, LoopList, LoopStart, LoopToken,
        MapRace, SendFirstList, SendToken, Store
  <2> QED
    BY <2>1, TypeParts DEF RequestTypes
<1>2. CASE Elsewhere
  BY <1>2, TypeParts DEF Elsewhere, RequestTypes
<1>3. ASSUME NEW t \in Topic, MasterUpdates(t) PROVE RequestTypes'
  BY <1>3, TypeParts DEF MasterUpdates, RequestTypes, TableTypes
<1>4. CASE publisherUpdate
  BY <1>4, TypeParts, ConstantTypes
  DEF publisherUpdate, RequestTypes, TableTypes, Kind, Loop
<1>5. CASE SendUpdate
  BY <1>5, TypeParts DEF SendUpdate, RequestTypes
<1> QED
  BY <1>1, <1>2, <1>3, <1>4, <1>5 DEF Steps

\* The loops that are counted are finitely many.
LEMMA RunningFinite == IsFiniteSet(Running) /\ Cardinality(Running) \in Nat
<1>1. IsFiniteSet(Loop)
  BY FS_Interval, ConstantTypes DEF Loop
<1>2. Running \in SUBSET Loop
  BY DEF Running
<1> QED
  BY <1>1, <1>2, FS_Subset, FS_CardinalityType

\* A loop counts itself in once and out once.
LEMMA CountedStep ==
    ASSUME TypeOK, InCall, Steps
    PROVE  Counted'
<1> USE DEF userVars, argVars, bornVars, runVars, handlerVars, masterVars
<1>1. CASE \/ Elsewhere
           \/ Begins
           \/ Fails
           \/ SendFirstList
           \/ Delete
           \/ \E k \in Kind, t \in Topic : Creates(k, t)
           \/ \E l \in Loop : SendToken(l)
           \/ \E t \in Topic : MasterUpdates(t)
           \/ \E t \in Topic : Change(t)
           \/ \E l \in Loop : LoopList(l)
           \/ publisherUpdate
           \/ SendUpdate
           \/ MapRace
  <2>1. UNCHANGED <<wg, lpc>>
    BY <1>1
    DEF Begins, Change, Creates, Delete, Elsewhere, Fails, LoopList, MapRace,
        MasterUpdates, SendFirstList, SendToken, SendUpdate, publisherUpdate
  <2> QED
    BY <2>1, TypeParts DEF Counted, Running
<1>2. CASE Store
  <2>1. Running' = Running
    BY <1>2, TypeParts DEF Store, InCall, Stored, Running, RunTypes
  <2>2. UNCHANGED wg
    BY <1>2 DEF Store
  <2> QED
    BY <2>1, <2>2, TypeParts DEF Counted
<1>3. ASSUME NEW l \in Loop, LoopStart(l) PROVE Counted'
  <2>1. Running' = Running \cup {l} /\ l \notin Running
    BY <1>3, TypeParts DEF LoopStart, Running, RunTypes
  <2>2. wg' = wg + 1
    BY <1>3 DEF LoopStart
  <2> QED
    BY <2>1, <2>2, TypeParts, RunningFinite, FS_AddElement DEF Counted
<1>4. ASSUME NEW l \in Loop, LoopToken(l) PROVE Counted'
  BY <1>4, TypeParts DEF LoopToken, Counted, Running
<1>5. ASSUME NEW l \in Loop, Leaves(l) PROVE Counted'
  <2>1. Running' = Running \ {l} /\ l \in Running
    BY <1>5, TypeParts DEF Leaves, Running, RunTypes
  <2>2. wg' = wg - 1
    BY <1>5 DEF Leaves
  <2> QED
    BY <2>1, <2>2, TypeParts, RunningFinite, FS_RemoveElement DEF Counted
<1> QED
  BY <1>1, <1>2, <1>3, <1>4, <1>5 DEF Steps

\* Every step keeps the types.
LEMMA TypesStep ==
    ASSUME TypeOK, InCall, Telling, Requests, Steps
    PROVE  TypeOK'
BY UserTypesStep, TableTypesStep, BornTypesStep, RunTypesStep, ListTypesStep,
   RequestTypesStep, CountedStep, TypePartsNext

-----------------------------------------------------------------------------
(* The life of a loop *)

\* The types of what the tables and the loops hold, as the steps need them.
LEMMA LoopTypes ==
    ASSUME TypeOK
    PROVE  /\ nloops \in Nat /\ nloops <= MaxLoops /\ new \in 0..nloops
           /\ \A l \in 1..nloops : l \in Loop
           /\ kind \in [Loop -> Kind] /\ topic \in [Loop -> Topic]
           /\ lpc \in [Loop -> {"unused", "starting", "running", "stopping", "exited", "gone"}]
           /\ tokens \in [Loop -> Nat] /\ early \in [Loop -> SUBSET (0..MaxChanges)]
           /\ entry \in [Kind -> [Topic -> Loop \cup {NoLoop}]]
           /\ registered \in [Kind -> [Topic -> Loop \cup {NoLoop, Ghost}]]
           /\ NoLoop \notin Loop /\ Ghost \notin Loop /\ NoLoop # Ghost
           /\ htopic \in Topic
<1>1. /\ nloops \in Nat /\ nloops <= MaxLoops /\ new \in 0..nloops
      /\ \A l \in 1..nloops : l \in Loop
  BY TypeParts, ConstantTypes DEF UserTypes, Loop
<1>2. 1..nloops \subseteq Loop /\ NoLoop \notin Loop /\ Ghost \notin Loop
  BY <1>1, ConstantTypes DEF Loop
<1>3. entry \in [Kind -> [Topic -> Loop \cup {NoLoop}]]
  BY <1>2, TypeParts DEF TableTypes
<1>4. tokens \in [Loop -> Nat]
  BY TypeParts, ConstantTypes DEF RunTypes
<1> QED
  BY <1>1, <1>2, <1>3, <1>4, ConstantTypes, TypeParts
  DEF BornTypes, RunTypes, TableTypes, RequestTypes

\* What the names lead to does not change while the node is there.
LEMMA MisKeyedFixed ==
    ASSUME Steps
    PROVE  UNCHANGED MisKeyedNames
<1>1. UNCHANGED resolved
  BY DEF Steps, Elsewhere, Begins, Fails, Store, SendFirstList, Delete, Creates,
         SendToken, MasterUpdates, Change, LoopStart, LoopList, LoopToken, Leaves,
         publisherUpdate, SendUpdate, MapRace, userVars, argVars
<1> QED
  BY <1>1 DEF MisKeyedNames, MisKeyed, Remap

\* A loop that was stored stays so, keeps its kind and name, and once told to end
\* it stays told.
Stays(i) ==
    Stored(i)' /\ kind'[i] = kind[i] /\ topic'[i] = topic[i] /\ (Told(i) => Told(i)')

\* Every step leaves a stored loop so.
LEMMA ToldForGood ==
    ASSUME TypeOK, LoopsBorn, InCall, NEW i \in Loop, Stored(i), Steps
    PROVE  Stays(i)
<1> USE DEF userVars, argVars, bornVars, runVars, handlerVars, masterVars
<1>1. CASE \/ Elsewhere
           \/ Begins
           \/ Fails
           \/ SendFirstList
           \/ Delete
           \/ \E t \in Topic : MasterUpdates(t)
           \/ \E t \in Topic : Change(t)
           \/ \E l \in Loop : LoopList(l)
           \/ publisherUpdate
           \/ SendUpdate
           \/ MapRace
  <2>1. UNCHANGED <<lpc, kind, topic, tokens>>
    BY <1>1
    DEF Begins, Change, Delete, Elsewhere, Fails, LoopList, MapRace, MasterUpdates,
        SendFirstList, SendUpdate, publisherUpdate
  <2> QED
    BY <2>1 DEF Stays, Stored, Told
<1>2. ASSUME NEW l \in Loop, SendToken(l)
      PROVE  Stays(i)
  BY <1>2, LoopTypes DEF Stays, SendToken, Stored, Told
<1>3. CASE Store
  BY <1>3, LoopTypes DEF Stays, Store, LoopsBorn, InCall, Stored, Told
<1>4. ASSUME NEW k \in Kind, NEW t \in Topic, Creates(k, t)
      PROVE  Stays(i)
  BY <1>4, LoopTypes DEF Stays, Creates, LoopsBorn, Stored, Told
<1>7. ASSUME NEW l \in Loop, LoopStart(l)
      PROVE  Stays(i)
  BY <1>7, LoopTypes DEF Stays, LoopStart, LoopsBorn, InCall, Stored, Told
<1>8. ASSUME NEW l \in Loop, LoopToken(l)
      PROVE  Stays(i)
  BY <1>8, LoopTypes DEF Stays, LoopToken, LoopsBorn, InCall, Stored, Told
<1>9. ASSUME NEW l \in Loop, Leaves(l)
      PROVE  Stays(i)
  BY <1>9, LoopTypes DEF Stays, Leaves, Stored, Told
<1> QED
  BY <1>1, <1>2, <1>3, <1>4, <1>7, <1>8, <1>9 DEF Stays, Steps

\* A new loop has the next number, and only loops in a table are told to end.
LEMMA LoopsBornStep ==
    ASSUME TypeOK, LoopsBorn, InCall, Telling, Entries, Steps
    PROVE  LoopsBorn'
<1> USE DEF userVars, argVars, bornVars, runVars, handlerVars, masterVars
<1>1. CASE \/ Elsewhere
           \/ Begins
           \/ Fails
           \/ SendFirstList
           \/ Delete
           \/ \E t \in Topic : MasterUpdates(t)
           \/ \E t \in Topic : Change(t)
           \/ \E l \in Loop : LoopList(l)
           \/ publisherUpdate
           \/ SendUpdate
           \/ MapRace
  <2>1. UNCHANGED <<lpc, nloops, tokens>>
    BY <1>1
    DEF Begins, Change, Delete, Elsewhere, Fails, LoopList, MapRace, MasterUpdates,
        SendFirstList, SendUpdate, publisherUpdate
  <2> QED
    BY <2>1 DEF LoopsBorn, Stored
<1>2. ASSUME NEW l \in Loop, SendToken(l) PROVE LoopsBorn'
  <2>1. Stored(l)
    BY <1>2, LoopTypes DEF SendToken, Telling, Entries
  <2>2. /\ UNCHANGED <<lpc, nloops>>
        /\ \A i \in Loop : i # l => tokens'[i] = tokens[i]
    BY <1>2, LoopTypes DEF SendToken
  <2> QED
    BY <2>1, <2>2 DEF LoopsBorn, Stored
<1>3. CASE Store
  BY <1>3, LoopTypes DEF Store, LoopsBorn, Stored
<1>4. ASSUME NEW k \in Kind, NEW t \in Topic, Creates(k, t) PROVE LoopsBorn'
  BY <1>4, LoopTypes DEF Creates, LoopsBorn, Stored, Loop
<1>7. ASSUME NEW l \in Loop, LoopStart(l) PROVE LoopsBorn'
  BY <1>7 DEF LoopStart, LoopsBorn, Stored
<1>8. ASSUME NEW l \in Loop, LoopToken(l) PROVE LoopsBorn'
  BY <1>8 DEF LoopToken, LoopsBorn, Stored
<1>9. ASSUME NEW l \in Loop, Leaves(l) PROVE LoopsBorn'
  <2>1. UNCHANGED <<nloops, tokens>> /\ \A i \in Loop : Stored(i)' <=> Stored(i)
    BY <1>9, LoopTypes DEF Leaves, Stored
  <2> QED
    BY <2>1 DEF LoopsBorn
<1> QED
  BY <1>1, <1>2, <1>3, <1>4, <1>7, <1>8, <1>9 DEF Steps

\* Only Store fills a table, with the loop that was created under that name.
LEMMA EntriesStep ==
    ASSUME TypeOK, LoopsBorn, InCall, Entries, Steps
    PROVE  Entries'
<1> USE DEF userVars, argVars, bornVars, runVars, handlerVars, masterVars
<1>1. CASE \/ Elsewhere
           \/ Begins
           \/ Fails
           \/ SendFirstList
           \/ \E l \in Loop : SendToken(l)
           \/ \E t \in Topic : MasterUpdates(t)
           \/ \E t \in Topic : Change(t)
           \/ \E l \in Loop : LoopList(l)
           \/ publisherUpdate
           \/ SendUpdate
           \/ MapRace
  <2>1. UNCHANGED <<lpc, entry, kind, topic>>
    BY <1>1
    DEF Begins, Change, Elsewhere, Fails, LoopList, MapRace, MasterUpdates,
        SendFirstList, SendToken, SendUpdate, publisherUpdate
  <2> QED
    BY <2>1 DEF Entries, Stored
<1>2. CASE Store
  BY <1>2, LoopTypes DEF Store, LoopsBorn, InCall, Stored, Entries, Kind
<1>3. CASE Delete
  BY <1>3, LoopTypes DEF Delete, LoopsBorn, InCall, Stored, Entries, Kind
<1>4. ASSUME NEW k \in Kind, NEW t \in Topic, Creates(k, t) PROVE Entries'
  BY <1>4, LoopTypes DEF Creates, LoopsBorn, Stored, Entries
<1>6. ASSUME NEW l \in Loop, LoopStart(l) PROVE Entries'
  BY <1>6 DEF LoopStart, Stored, Entries
<1>7. ASSUME NEW l \in Loop, LoopToken(l) PROVE Entries'
  BY <1>7 DEF LoopToken, Stored, Entries
<1>8. ASSUME NEW l \in Loop, Leaves(l) PROVE Entries'
  BY <1>8, LoopTypes DEF Leaves, Stored, Entries
<1> QED
  BY <1>1, <1>2, <1>3, <1>4, <1>6, <1>7, <1>8 DEF Steps

\* What a request looks up is a subscription, and stays one.
LEMMA RequestsStep ==
    ASSUME TypeOK, LoopsBorn, InCall, Entries, Requests, Steps
    PROVE  Requests'
<1> USE DEF userVars, argVars, bornVars, runVars, handlerVars, masterVars
<1>1. CASE \/ Elsewhere
           \/ Begins
           \/ Fails
           \/ SendFirstList
           \/ Delete
           \/ \E l \in Loop : SendToken(l)
           \/ \E t \in Topic : Change(t)
           \/ \E l \in Loop : LoopList(l)
           \/ MapRace
  <2>1. UNCHANGED <<hpc, hsub, htopic, kind, topic, lpc>>
    BY <1>1
    DEF Begins, Change, Delete, Elsewhere, Fails, LoopList, MapRace, SendFirstList,
        SendToken
  <2> QED
    BY <2>1 DEF Requests, Stored
<1>2. CASE Store
  BY <1>2 DEF Store, Stored, Requests
<1>3. ASSUME NEW k \in Kind, NEW t \in Topic, Creates(k, t) PROVE Requests'
  BY <1>3, LoopTypes DEF Creates, LoopsBorn, Stored, Requests
<1>4. ASSUME NEW t \in Topic, MasterUpdates(t) PROVE Requests'
  BY <1>4 DEF MasterUpdates, Requests
<1>5. ASSUME NEW l \in Loop, LoopStart(l) PROVE Requests'
  BY <1>5 DEF LoopStart, Stored, Requests
<1>6. ASSUME NEW l \in Loop, LoopToken(l) PROVE Requests'
  BY <1>6 DEF LoopToken, Stored, Requests
<1>7. ASSUME NEW l \in Loop, Leaves(l) PROVE Requests'
  BY <1>7, LoopTypes DEF Leaves, Stored, Requests
<1>8. CASE publisherUpdate
  BY <1>8, LoopTypes DEF publisherUpdate, Stored, Entries, Requests, Kind
<1>9. CASE SendUpdate
  BY <1>9 DEF SendUpdate, Requests
<1> QED
  BY <1>1, <1>2, <1>3, <1>4, <1>5, <1>6, <1>7, <1>8, <1>9 DEF Steps

\* A loop becomes unreachable only by a publisher that replaces it and was looked
\* for under another name.
LEMMA NewOrphans ==
    ASSUME TypeOK, LoopsBorn, InCall, Entries, NEW i \in Loop, Orphan(i)', Steps
    PROVE  Orphan(i) \/ (kind'[i] = "pub" /\ topic'[i] \in MisKeyedNames)
<1> USE DEF userVars, argVars, bornVars, runVars, handlerVars, masterVars
<1>1. CASE \/ Elsewhere
           \/ Begins
           \/ Fails
           \/ SendFirstList
           \/ \E t \in Topic : MasterUpdates(t)
           \/ \E t \in Topic : Change(t)
           \/ \E l \in Loop : LoopList(l)
           \/ publisherUpdate
           \/ SendUpdate
           \/ MapRace
  <2>1. UNCHANGED <<lpc, tokens, entry, kind, topic>>
    BY <1>1
    DEF Begins, Change, Elsewhere, Fails, LoopList, MapRace, MasterUpdates,
        SendFirstList, SendUpdate, publisherUpdate
  <2> QED
    BY <2>1 DEF Orphan, Told
<1>2. ASSUME NEW l \in Loop, SendToken(l)
      PROVE  Orphan(i) \/ (kind'[i] = "pub" /\ topic'[i] \in MisKeyedNames)
  BY <1>2, LoopTypes DEF SendToken, Orphan, Told
<1>3. CASE Store
  BY <1>3, LoopTypes DEF Store, InCall, MayReplace, Orphan, Told
<1>4. CASE Delete
  BY <1>4, LoopTypes DEF Delete, InCall, Orphan, Told
<1>5. ASSUME NEW k \in Kind, NEW t \in Topic, Creates(k, t)
      PROVE  Orphan(i) \/ (kind'[i] = "pub" /\ topic'[i] \in MisKeyedNames)
  BY <1>5, LoopTypes
  DEF Creates, LoopsBorn, Entries, Orphan, Told, Kind
<1>8. ASSUME NEW l \in Loop, LoopStart(l)
      PROVE  Orphan(i) \/ (kind'[i] = "pub" /\ topic'[i] \in MisKeyedNames)
  BY <1>8 DEF LoopStart, Orphan, Told
<1>9. ASSUME NEW l \in Loop, LoopToken(l)
      PROVE  Orphan(i) \/ (kind'[i] = "pub" /\ topic'[i] \in MisKeyedNames)
  BY <1>9, LoopTypes DEF LoopToken, Orphan, Told
<1>10. ASSUME NEW l \in Loop, Leaves(l)
       PROVE  Orphan(i) \/ (kind'[i] = "pub" /\ topic'[i] \in MisKeyedNames)
  BY <1>10, LoopTypes DEF Leaves, Orphan, Told
<1> QED
  BY <1>1, <1>2, <1>3, <1>4, <1>5, <1>8, <1>9, <1>10 DEF Steps

\* OrphansAreMisKeyed is kept.
LEMMA OrphansStep ==
    ASSUME TypeOK, LoopsBorn, InCall, Entries, OrphansAreMisKeyed, Steps, TypeOK'
    PROVE  OrphansAreMisKeyed'
<1>1. UNCHANGED MisKeyedNames
  BY MisKeyedFixed
<1>2. \A l \in Loop : topic[l] \in Topic
  BY LoopTypes
<1>3. \A l \in Loop : topic'[l] \in Topic
  BY TypePartsNext DEF BornTypes
<1>4. ASSUME NEW i \in Loop, Orphan(i)'
      PROVE  kind'[i] = "pub" /\ topic'[i] \in MisKeyedNames
  <2>1. CASE Orphan(i)
    <3>1. kind[i] = "pub" /\ topic[i] \in MisKeyedNames
      BY <1>2, <2>1 DEF OrphansAreMisKeyed, MisKeyedNames
    <3>2. Stored(i)
      BY <2>1 DEF Orphan, Stored
    <3> QED
      BY <3>1, <3>2, ToldForGood DEF Stays
  <2> QED
    BY <1>4, <2>1, NewOrphans
<1>5. ASSUME NEW i \in Loop, Orphan(i)' PROVE (kind[i] = "pub" /\ MisKeyed(topic[i]))'
  <2>1. topic'[i] \in MisKeyedNames' /\ kind'[i] = "pub"
    BY <1>1, <1>4, <1>5
  <2>2. PICK t \in Topic : t = topic'[i]
    BY <1>3
  <2>3. MisKeyed(t)'
    BY <2>1, <2>2 DEF MisKeyedNames
  <2> QED
    BY <2>1, <2>2, <2>3 DEF MisKeyed
<1> QED
  BY <1>5 DEF OrphansAreMisKeyed

\* While a loop runs or ends the user goroutine stays where it is.
LEMMA InCallKept ==
    ASSUME TypeOK, LoopsBorn, InCall, Entries, Steps, UNCHANGED MisKeyedNames,
           UNCHANGED <<upc, new, kind, topic, entry, publishers, early>>,
           \A k \in Kind, t \in Topic : registered'[k][t] \in {registered[k][t], NoLoop},
           \A i \in Loop : ~Stored(i) => ~Stored(i)'
    PROVE  InCall'
<1>1. CASE upc = "storing"
  <2>1. new \in Loop /\ kind[new] \in Kind /\ topic[new] \in Topic
    BY <1>1, LoopTypes DEF InCall
  <2>2. ~Stored(new)' /\ registered'[kind[new]][topic[new]] \in {new, NoLoop}
    <3>1. ~Stored(new)
      BY <1>1 DEF InCall
    <3>2. PICK i \in Loop : i = new
      BY <2>1
    <3>3. ~Stored(i)'
      BY <3>1, <3>2 DEF Stored
    <3> QED
      BY <1>1, <2>1, <3>2, <3>3 DEF InCall, Stored
  <2>3. MayReplace(new, entry[kind[new]][topic[new]])'
    <3> DEFINE y == entry[kind[new]][topic[new]]
    <3>1. CASE y = NoLoop
      BY <3>1 DEF MayReplace
    <3>2. CASE y # NoLoop
      <4>1. PICK x \in Loop : x = y
        BY <2>1, <3>2, LoopTypes
      <4>2. Told(x) => Told(x)'
        BY <2>1, <3>2, <4>1, ToldForGood DEF Stays, Entries
      <4>3. /\ kind[new] = "srv" => Told(x)
            /\ kind[new] # "srv" => kind[new] = "pub" /\ topic[new] \in MisKeyedNames
        BY <1>1, <3>2, <4>1 DEF InCall, MayReplace
      <4> QED
        BY <4>1, <4>2, <4>3 DEF MayReplace, Told
    <3> QED
      BY <3>1, <3>2
  <2> QED
    BY <1>1, <2>2, <2>3 DEF InCall
<1>2. CASE upc \in {"deleting", "serving"}
  <2>1. PICK i \in Loop : i = new
    BY <1>2, LoopTypes DEF InCall
  <2>2. Stored(i) /\ Told(i)
    <3>1. kind[i] \in Kind /\ topic[i] \in Topic /\ i # NoLoop
      BY LoopTypes
    <3>2. entry[kind[i]][topic[i]] = i /\ Told(i)
      BY <1>2, <2>1 DEF InCall, Told
    <3> QED
      BY <3>1, <3>2 DEF Entries
  <2>3. Told(i)'
    BY <2>2, ToldForGood DEF Stays
  <2> QED
    BY <1>2, <2>1, <2>3 DEF InCall, Told
<1>3. CASE upc \notin {"storing", "deleting", "serving"}
  BY <1>3 DEF InCall
<1> QED
  BY <1>1, <1>2, <1>3

\* What holds inside a call is kept.
LEMMA InCallStep ==
    ASSUME TypeOK, LoopsBorn, InCall, Telling, Entries, Steps
    PROVE  InCall'
<1> USE DEF userVars, argVars, bornVars, runVars, handlerVars, masterVars
<1>0. UNCHANGED MisKeyedNames
  BY MisKeyedFixed
<1>1. CASE \/ \E t \in Topic : MasterUpdates(t)
           \/ \E t \in Topic : Change(t)
           \/ \E l \in Loop : LoopList(l)
           \/ publisherUpdate
           \/ SendUpdate
  <2>1. UNCHANGED <<upc, new, lpc, registered, entry, kind, topic, tokens, publishers, early>>
    BY <1>1 DEF Change, LoopList, MasterUpdates, SendUpdate, publisherUpdate
  <2> QED
    BY <2>1, <1>0 DEF InCall, MayReplace, Stored, Told
<1>2. CASE Elsewhere
  <2>1. UNCHANGED <<new, lpc, registered, entry, kind, topic, tokens, publishers, early>>
    BY <1>2 DEF Elsewhere
  <2>2. upc' \in Sends \cup {"storing", "sending", "deleting", "serving"} => upc' = upc
    BY <1>2 DEF Elsewhere, Sends
  <2> QED
    BY <1>0, <2>1, <2>2 DEF InCall, MayReplace, Stored, Told, Sends
<1>3. CASE Fails
  BY <1>3, <1>0 DEF Fails, InCall
<1>4. CASE Store
  BY <1>4, <1>0 DEF Store, InCall
<1>5. CASE SendFirstList
  BY <1>5, <1>0 DEF SendFirstList, InCall
<1>6. CASE Delete
  BY <1>6, <1>0 DEF Delete, InCall
<1>7. ASSUME NEW k \in Kind, NEW t \in Topic, Creates(k, t) PROVE InCall'
  <2>0. "sub" \in Kind /\ nloops + 1 \in Loop /\ nloops + 1 > nloops /\ nloops + 1 # 0
    BY <1>7, LoopTypes, ConstantTypes DEF Creates, Loop, Kind
  <2>1. /\ upc' = "storing" /\ new' = nloops + 1 /\ kind'[new'] = k /\ topic'[new'] = t
        /\ UNCHANGED <<lpc, entry>>
    BY <1>7, <2>0, LoopTypes DEF Creates
  <2>2. new' # 0 /\ ~Stored(new)'
    BY <1>7, <2>0, <2>1, LoopTypes DEF LoopsBorn, Stored
  <2>3. registered'[k][t] = new'
    BY <1>7, LoopTypes DEF Creates
  <2>4. MayReplace(new, entry[kind[new]][topic[new]])'
    BY <1>0, <1>7, <2>1 DEF MayReplace, Creates, Told
  <2>5. publishers' \in early'[new']
    BY <1>7, <2>0, <2>1, LoopTypes DEF Creates
  <2> QED
    BY <2>1, <2>2, <2>3, <2>4, <2>5 DEF InCall
<1>8. CASE Begins
  <2>1. /\ upc' \in Sends \cup {"waiting"} /\ UNCHANGED <<entry, kind, topic>>
        /\ upc' \in {"removing", "replacing"} => new' \in Listed
        /\ upc' = "replacing" => kind[new'] = "srv"
    BY <1>8 DEF Begins
  <2>2. \A l \in Listed : l # 0 /\ entry[kind[l]][topic[l]] = l
    BY ListedLoops DEF Listed, Entries, Loop
  <2> QED
    BY <2>1, <2>2 DEF InCall, Sends
<1>9. ASSUME NEW l \in Loop, SendToken(l) PROVE InCall'
  <2>1. /\ UNCHANGED <<new, entry, kind, topic>> /\ l \in telling
        /\ upc' = IF telling = {l} THEN AfterTelling(upc) ELSE upc
        /\ tokens'[l] > 0
    BY <1>9, LoopTypes DEF SendToken
  <2>2. upc \in Sends
    BY <2>1 DEF Telling
  <2>3. CASE upc' \in {"deleting", "serving"}
    <3>1. /\ upc \in {"removing", "replacing"} /\ l = new
          /\ upc' = "serving" => upc = "replacing"
      BY <2>1, <2>2, <2>3 DEF AfterTelling, Sends, Telling
    <3>2. Told(new)'
      BY <2>1, <3>1 DEF Told
    <3> QED
      BY <2>1, <2>3, <3>1, <3>2 DEF InCall
  <2>4. CASE upc' \notin {"deleting", "serving"}
    <3>1. upc' = upc \/ upc' \in {"idle", "waiting"}
      BY <2>1, <2>2, <2>4 DEF AfterTelling, Sends
    <3> QED
      BY <2>1, <2>2, <2>4, <3>1 DEF InCall, Sends
  <2> QED
    BY <2>3, <2>4
<1>10. ASSUME NEW l \in Loop, LoopStart(l) PROVE InCall'
  <2>1. UNCHANGED <<upc, new, kind, topic, entry, publishers, early>>
    BY <1>10 DEF LoopStart
  <2>2. \A k \in Kind, t \in Topic : registered'[k][t] \in {registered[k][t], NoLoop}
    BY <1>10, LoopTypes DEF LoopStart, Unregister
  <2>3. \A i \in Loop : ~Stored(i) => ~Stored(i)'
    BY <1>10, LoopTypes DEF LoopStart, Stored
  <2> QED
    BY <1>0, <2>1, <2>2, <2>3, InCallKept
<1>11. ASSUME NEW l \in Loop, LoopToken(l) PROVE InCall'
  <2>1. UNCHANGED <<upc, new, kind, topic, entry, publishers, early>>
    BY <1>11 DEF LoopToken
  <2>2. \A k \in Kind, t \in Topic : registered'[k][t] \in {registered[k][t], NoLoop}
    BY <1>11, LoopTypes DEF LoopToken, Unregister
  <2>3. \A i \in Loop : ~Stored(i) => ~Stored(i)'
    BY <1>11, LoopTypes DEF LoopToken, Stored
  <2> QED
    BY <1>0, <2>1, <2>2, <2>3, InCallKept
<1>12. ASSUME NEW l \in Loop, Leaves(l) PROVE InCall'
  <2>1. UNCHANGED <<upc, new, kind, topic, entry, publishers, early>>
    BY <1>12 DEF Leaves
  <2>2. \A k \in Kind, t \in Topic : registered'[k][t] \in {registered[k][t], NoLoop}
    <3>1. registered' = registered \/ registered' = Unregister(l)
      BY <1>12 DEF Leaves
    <3>2. kind[l] \in Kind /\ topic[l] \in Topic
      BY LoopTypes
    <3>3. \A k \in Kind, t \in Topic : Unregister(l)[k][t] \in {registered[k][t], NoLoop}
      BY <3>2, LoopTypes DEF Unregister
    <3> QED
      BY <3>1, <3>3
  <2>3. \A i \in Loop : ~Stored(i) => ~Stored(i)'
    BY <1>12, LoopTypes DEF Leaves, Stored
  <2> QED
    BY <1>0, <2>1, <2>2, <2>3, InCallKept
<1>13. CASE MapRace
  BY <1>13, <1>0 DEF MapRace, InCall
<1> QED
  BY <1>1, <1>2, <1>3, <1>4, <1>5, <1>6, <1>7, <1>8, <1>9, <1>10, <1>11, <1>12, <1>13
  DEF Steps

\* A call tells the loops it found in the tables, which stay there until it is
\* through.
LEMMA TellingStep ==
    ASSUME TypeOK, LoopsBorn, InCall, Telling, Entries, Steps
    PROVE  Telling'
<1> USE DEF userVars, argVars, bornVars, runVars, handlerVars, masterVars
<1>1. CASE \/ \E t \in Topic : MasterUpdates(t)
           \/ \E t \in Topic : Change(t)
           \/ \E l \in Loop : LoopStart(l)
           \/ \E l \in Loop : LoopList(l)
           \/ \E l \in Loop : LoopToken(l)
           \/ \E l \in Loop : Leaves(l)
           \/ publisherUpdate
           \/ SendUpdate
  <2>1. UNCHANGED <<upc, new, telling, entry, kind, topic>>
    BY <1>1 DEF Change, Leaves, LoopList, LoopStart, LoopToken, MasterUpdates, SendUpdate,
       publisherUpdate
  <2> QED
    BY <2>1 DEF Telling
<1>2. CASE Elsewhere
  <2>1. UNCHANGED <<new, telling, entry, kind, topic>>
    BY <1>2 DEF Elsewhere
  <2>2. upc \in Sends \/ upc' \in Sends => upc' = upc
    BY <1>2 DEF Elsewhere, Sends
  <2> QED
    BY <2>1, <2>2 DEF Telling, Sends
<1>3. CASE Begins
  <2>1. \A l \in Listed : entry[kind[l]][topic[l]] = l
    BY DEF Listed, Entries
  <2> QED
    BY <1>3, <2>1 DEF Begins, Telling
<1>4. CASE \/ Fails \/ Store \/ SendFirstList \/ Delete \/ MapRace
           \/ \E k \in Kind, t \in Topic : Creates(k, t)
  <2>1. telling' = telling /\ upc \notin Sends /\ upc' \notin Sends
    BY <1>4 DEF Fails, Store, SendFirstList, Delete, MapRace, Creates, Sends
  <2> QED
    BY <2>1 DEF Telling, Sends
<1>5. ASSUME NEW l \in Loop, SendToken(l) PROVE Telling'
  <2>1. /\ UNCHANGED <<new, entry, kind, topic>> /\ l \in telling
        /\ telling' = telling \ {l}
        /\ upc' = IF telling = {l} THEN AfterTelling(upc) ELSE upc
    BY <1>5 DEF SendToken
  <2>2. upc \in Sends
    BY <2>1 DEF Telling
  <2>3. CASE telling = {l}
    <3>1. telling' = {} /\ upc' \notin Sends
      BY <2>1, <2>2, <2>3 DEF AfterTelling, Sends
    <3> QED
      BY <3>1 DEF Telling, Sends
  <2>4. CASE telling # {l}
    BY <2>1, <2>2, <2>4 DEF Telling
  <2> QED
    BY <2>3, <2>4
<1> QED
  BY <1>1, <1>2, <1>3, <1>4, <1>5 DEF Steps

\* A registered loop is held until its unregister call returns.
LEMMA RegistrationsStep ==
    ASSUME TypeOK, LoopsBorn, InCall, Telling, Entries, Registrations, Steps
    PROVE  Registrations'
<1> USE DEF userVars, argVars, bornVars, runVars, handlerVars, masterVars
<1>1. CASE \/ \E t \in Topic : MasterUpdates(t)
           \/ \E t \in Topic : Change(t)
           \/ \E l \in Loop : LoopList(l)
           \/ publisherUpdate
           \/ SendUpdate
  <2>1. UNCHANGED <<registered, kind, topic, lpc, upc, new, entry, tokens>>
    BY <1>1 DEF Change, LoopList, MasterUpdates, SendUpdate, publisherUpdate
  <2> QED
    BY <2>1 DEF Registrations, Holds, Stored, Told
<1>2. CASE Elsewhere
  <2>1. UNCHANGED <<registered, kind, topic, lpc, new, entry, tokens>>
    BY <1>2 DEF Elsewhere
  <2>2. upc \in {"storing", "crashed"} => upc' = upc
    BY <1>2 DEF Elsewhere, Resting
  <2> QED
    BY <2>1, <2>2 DEF Registrations, Holds, Stored, Told
<1>3. CASE Fails
  <2>1. UNCHANGED <<kind, topic, lpc, new, entry, tokens>> /\ upc \in {"idle", "serving"}
    BY <1>3 DEF Fails
  <2>2. \A k \in Kind, t \in Topic :
          registered'[k][t] \in Loop => registered'[k][t] = registered[k][t]
    <3>1. CASE UNCHANGED registered
      BY <3>1
    <3>2. ASSUME NEW j \in Kind, NEW u \in Topic,
                 registered' = [registered EXCEPT ![j][u] = Ghost]
          PROVE  \A k \in Kind, t \in Topic :
                   registered'[k][t] \in Loop => registered'[k][t] = registered[k][t]
      BY <3>2, LoopTypes
    <3> QED
      BY <1>3, <3>1, <3>2 DEF Fails
  <2> QED
    BY <2>1, <2>2 DEF Registrations, Holds, Stored, Told
<1>4. CASE Store
  BY <1>4, LoopTypes DEF Store, InCall, Stored, Told, Registrations, Holds
<1>5. CASE SendFirstList
  BY <1>5 DEF SendFirstList, Stored, Told, Registrations, Holds
<1>6. CASE Delete
  BY <1>6, LoopTypes DEF Delete, InCall, Stored, Told, Registrations, Holds
<1>7. ASSUME NEW k \in Kind, NEW t \in Topic, Creates(k, t) PROVE Registrations'
  BY <1>7, LoopTypes
  DEF Creates, LoopsBorn, Stored, Told, Kind, Registrations, Holds
<1>8. CASE Begins
  BY <1>8 DEF Begins, Stored, Told, Registrations, Holds
<1>9. ASSUME NEW l \in Loop, SendToken(l) PROVE Registrations'
  <2>1. /\ UNCHANGED <<registered, kind, topic, lpc, entry>>
        /\ \A i \in Loop : tokens[i] > 0 => tokens'[i] > 0
    BY <1>9, LoopTypes DEF SendToken
  <2>2. upc \notin {"storing", "crashed"}
    BY <1>9 DEF SendToken, Telling, Sends
  <2> QED
    BY <2>1, <2>2 DEF Registrations, Holds, Stored, Told
<1>10. ASSUME NEW l \in Loop, LoopStart(l) PROVE Registrations'
  BY <1>10 DEF LoopStart, Stored, Told, Registrations, Holds
<1>11. ASSUME NEW l \in Loop, LoopToken(l) PROVE Registrations'
  BY <1>11, LoopTypes DEF LoopToken, Stored, Told, Registrations, Holds
<1>12. ASSUME NEW l \in Loop, Leaves(l) PROVE Registrations'
  BY SMTT(30), <1>12, LoopTypes
  DEF Leaves, Unregister, LoopsBorn, InCall, Stored, Entries, Told, Kind, Registrations,
      Holds
<1>13. CASE MapRace
  BY <1>13 DEF MapRace, Stored, Told, Registrations, Holds
<1> QED
  BY <1>1, <1>2, <1>3, <1>4, <1>5, <1>6, <1>7, <1>8, <1>9, <1>10, <1>11, <1>12, <1>13
  DEF Steps

-----------------------------------------------------------------------------
(* Lists of publishers *)

\* The last list sent to a loop is the newest it has, whatever it has taken.
LEMMA NewestSent ==
    ASSUME TypeOK, NEW l \in Loop, NEW v \in 0..MaxChanges, SendList(l, v), UNCHANGED seen
    PROVE  /\ Newest(l)' = v
           /\ \A i \in Loop : i # l => Newest(i)' = Newest(i)
<1>1. lists \in [Loop -> Seq(0..MaxChanges)] /\ lists[l] \in Seq(0..MaxChanges)
  BY TypeParts DEF ListTypes
<1>2. lists'[l] = Append(lists[l], v) /\ \A i \in Loop : i # l => lists'[i] = lists[i]
  BY <1>1 DEF SendList
<1>3. /\ Append(lists[l], v) # <<>>
      /\ Append(lists[l], v)[Len(Append(lists[l], v))] = v
  BY <1>1, AppendProperties, LenProperties
<1> QED
  BY <1>2, <1>3 DEF Newest

\* Taking a list changes none of the newest ones.
LEMMA NewestTaken ==
    ASSUME TypeOK, NEW l \in Loop, LoopList(l), NEW i \in Loop
    PROVE  Newest(i)' = Newest(i)
<1>1. /\ lists \in [Loop -> Seq(0..MaxChanges)] /\ lists[l] \in Seq(0..MaxChanges)
      /\ seen \in [Loop -> 0..MaxChanges]
  BY TypeParts DEF ListTypes, RunTypes
<1>2. /\ lists[l] # <<>> /\ lists'[l] = Tail(lists[l]) /\ seen'[l] = Head(lists[l])
      /\ i # l => lists'[i] = lists[i] /\ seen'[i] = seen[i]
  BY <1>1 DEF LoopList
<1>3. CASE i # l
  BY <1>2, <1>3 DEF Newest
<1>4. CASE i = l
  <2>1. PICK s \in Seq(0..MaxChanges) : s = lists[l]
    BY <1>1
  <2>2. s # <<>> /\ Len(s) \in Nat /\ Len(s) # 0
    BY <1>2, <2>1, EmptySeq, LenProperties
  <2>3. /\ Tail(s) \in Seq(0..MaxChanges) /\ Len(Tail(s)) = Len(s) - 1
        /\ \A j \in 1..Len(Tail(s)) : Tail(s)[j] = s[j + 1]
    BY <2>2, HeadTailProperties
  <2>4. CASE Len(s) = 1
    <3>1. Tail(s) = <<>> /\ Head(s) = s[Len(s)]
      <4>1. \A q \in Seq(0..MaxChanges) : q # <<>> => Len(q) # 0
        BY EmptySeq
      <4>2. Len(Tail(s)) = 0 /\ Tail(s) \in Seq(0..MaxChanges)
        BY <2>3, <2>4
      <4>3. Tail(s) = <<>>
        BY <4>1, <4>2
      <4>4. Head(s) = s[1]
        BY <2>1
      <4> QED
        BY <2>4, <4>3, <4>4
    <3> QED
      BY <1>2, <1>4, <2>1, <2>2, <3>1 DEF Newest
  <2>5. CASE Len(s) # 1
    <3>1. Tail(s) # <<>> /\ Tail(s)[Len(Tail(s))] = s[Len(s)]
      <4>1. PICK n \in Nat : n = Len(s)
        BY <2>2
      <4>2. n - 1 \in 1..(n - 1) /\ n - 1 + 1 = n /\ n - 1 # 0
        BY <2>2, <2>5, <4>1
      <4>3. Len(Tail(s)) = n - 1 /\ Tail(s)[n - 1] = s[n - 1 + 1]
        BY <2>3, <4>1, <4>2
      <4>4. Tail(s) # <<>>
        BY <4>2, <4>3, EmptySeq
      <4> QED
        BY <4>1, <4>2, <4>3, <4>4
    <3> QED
      BY <1>2, <1>4, <2>1, <2>2, <3>1 DEF Newest
  <2> QED
    BY <2>4, <2>5
<1> QED
  BY <1>3, <1>4

\* A subscription becomes known to both only when it is created.
LEMMA LiveBefore ==
    ASSUME TypeOK, LoopsBorn, InCall, Telling, Entries, NEW i \in Loop, Live(i)', Steps
    PROVE  \/ Live(i) /\ topic'[i] = topic[i] /\ early'[i] = early[i]
           \/ \E t \in Topic : Creates("sub", t) /\ i = nloops + 1
<1> USE DEF userVars, argVars, bornVars, runVars, handlerVars, masterVars
<1>1. CASE \/ \E t \in Topic : MasterUpdates(t)
           \/ \E t \in Topic : Change(t)
           \/ \E l \in Loop : LoopStart(l)
           \/ \E l \in Loop : LoopList(l)
           \/ \E l \in Loop : LoopToken(l)
           \/ publisherUpdate
           \/ SendUpdate
  <2>1. UNCHANGED <<kind, topic, early, registered, entry, upc, new>>
    BY <1>1
    DEF Change, LoopList, LoopStart, LoopToken, MasterUpdates, SendUpdate,
        publisherUpdate
  <2> QED
    BY <2>1 DEF Live
<1>2. CASE Elsewhere
  BY <1>2 DEF Elsewhere, Resting, Live
<1>3. CASE Fails
  <2>1. /\ UNCHANGED <<kind, topic, early, entry, new>> /\ upc' # "storing"
        /\ "sub" \in Kind /\ topic[i] \in Topic /\ i # NoLoop
    BY <1>3, LoopTypes DEF Fails, Kind
  <2>2. kind[i] = "sub" /\ entry["sub"][topic[i]] = i
    BY <2>1 DEF Live
  <2>3. ASSUME NEW k \in Kind, NEW t \in Topic,
               registered' = [registered EXCEPT ![k][t] = Ghost], k = "sub" => entry[k][t] = NoLoop
        PROVE  registered'["sub"][topic[i]] = registered["sub"][topic[i]]
    <3>1. k # "sub" \/ t # topic[i]
      BY <2>1, <2>2, <2>3
    <3> QED
      BY <2>1, <2>3, <3>1, LoopTypes
  <2>4. registered'["sub"][topic[i]] = registered["sub"][topic[i]]
    BY <1>3, <2>3 DEF Fails
  <2> QED
    BY <2>1, <2>2, <2>4 DEF Live
<1>4. CASE Store
  BY <1>4 DEF Store, Live
<1>5. CASE SendFirstList
  BY <1>5 DEF SendFirstList, Live
<1>6. CASE Delete
  BY <1>6, LoopTypes DEF Delete, Live
<1>7. ASSUME NEW k \in Kind, NEW t \in Topic, Creates(k, t)
      PROVE  \/ Live(i) /\ topic'[i] = topic[i] /\ early'[i] = early[i]
             \/ \E s \in Topic : Creates("sub", s) /\ i = nloops + 1
  <2>1. /\ kind' = [kind EXCEPT ![nloops + 1] = k] /\ topic' = [topic EXCEPT ![nloops + 1] = t]
        /\ UNCHANGED entry
        /\ \A j \in Loop : j # nloops + 1 => early'[j] = early[j]
        /\ upc' = "storing" /\ new' = nloops + 1
        /\ registered' = [registered EXCEPT ![k][t] = nloops + 1]
        /\ k = "sub" => entry[k][t] = NoLoop
    BY <1>7, LoopTypes DEF Creates
  <2>2. CASE i # nloops + 1
    <3>1. kind'[i] = kind[i] /\ topic'[i] = topic[i] /\ early'[i] = early[i]
      BY <2>1, <2>2, LoopTypes
    <3>2. entry["sub"][topic[i]] = i /\ kind[i] = "sub" /\ topic[i] \in Topic /\ "sub" \in Kind
      BY <2>1, <2>2, <3>1, LoopTypes DEF Live, Kind
    <3>3. ~(k = "sub" /\ t = topic[i])
      BY <2>1, <3>2, LoopTypes
    <3>4. registered'["sub"][topic[i]] = registered["sub"][topic[i]]
      BY <2>1, <3>2, <3>3, LoopTypes
    <3> QED
      BY <3>1, <3>2, <3>4 DEF Live
  <2>3. CASE i = nloops + 1
    <3>1. k = "sub"
      BY <2>1, <2>3, LoopTypes DEF Live
    <3> QED
      BY <1>7, <2>3, <3>1
  <2> QED
    BY <2>2, <2>3
<1>8. CASE Begins
  BY <1>8 DEF Begins, Sends, Live
<1>9. ASSUME NEW l \in Loop, SendToken(l)
      PROVE  \/ Live(i) /\ topic'[i] = topic[i] /\ early'[i] = early[i]
             \/ \E s \in Topic : Creates("sub", s) /\ i = nloops + 1
  <2>1. /\ UNCHANGED <<kind, topic, early, registered, entry, new>>
        /\ upc' = IF telling = {l} THEN AfterTelling(upc) ELSE upc
    BY <1>9 DEF SendToken
  <2>2. upc \in Sends
    BY <1>9 DEF SendToken, Telling
  <2>3. upc' # "storing"
    BY <2>1, <2>2 DEF AfterTelling, Sends
  <2> QED
    BY <2>1, <2>3 DEF Live
<1>10. ASSUME NEW l \in Loop, Leaves(l)
       PROVE  \/ Live(i) /\ topic'[i] = topic[i] /\ early'[i] = early[i]
              \/ \E s \in Topic : Creates("sub", s) /\ i = nloops + 1
  BY <1>10, LoopTypes DEF Leaves, Unregister, Kind, Live
<1>11. CASE MapRace
  BY <1>11 DEF MapRace, Live
<1> QED
  BY <1>1, <1>2, <1>3, <1>4, <1>5, <1>6, <1>7, <1>8, <1>9, <1>10, <1>11 DEF Steps

\* Every later list is sent to a subscription, or the master has still to tell it.
LEMMA UpdatedStays ==
    ASSUME TypeOK, InCall, Telling, Entries, Requests, NEW i \in Loop, Live(i), Updated(i),
           topic'[i] = topic[i], early'[i] = early[i], Live(i)', Steps
    PROVE  Updated(i)'
<1> USE DEF userVars, argVars, bornVars, runVars, handlerVars, masterVars
<1>0. UNCHANGED <<lists, seen>> => Newest(i)' = Newest(i)
  BY DEF Newest
<1>1. CASE \/ \E l \in Loop : LoopStart(l)
           \/ \E l \in Loop : LoopToken(l)
           \/ \E l \in Loop : Leaves(l)
  <2>1. UNCHANGED <<upc, new, hpc, htopic, hlist, hsub, current, owed, lists, seen>>
    BY <1>1 DEF Leaves, LoopStart, LoopToken
  <2> QED
    BY <2>1 DEF Updated, UpToDate, Awaits, Brings, Newest
<1>2. CASE Elsewhere
  BY <1>2, <1>0 DEF Elsewhere, Resting, Updated, UpToDate, Awaits, Brings
<1>3. CASE Begins \/ Fails
  BY <1>3, <1>0 DEF Begins, Fails, Updated, UpToDate, Awaits, Brings
<1>4. CASE Store
  BY <1>4, <1>0 DEF Store, Updated, UpToDate, Awaits, Brings, Live
<1>5. CASE SendFirstList
  <2>1. publishers \in 0..MaxChanges /\ new \in Loop /\ publishers \in early[new]
    BY <1>5, LoopTypes, TypeParts DEF SendFirstList, InCall, UserTypes
  <2>2. UNCHANGED <<hpc, htopic, hlist, hsub, current, early, owed, topic, seen, new>>
    BY <1>5 DEF SendFirstList
  <2>3. CASE i = new
    <3>1. Newest(i)' = publishers
      BY <1>5, <2>1, <2>2, <2>3, NewestSent DEF SendFirstList
    <3>2. UpToDate(i, Newest(i))'
      BY <2>1, <2>2, <2>3, <3>1 DEF UpToDate
    <3> QED
      BY <2>2, <3>2 DEF Updated, UpToDate
  <2>4. CASE i # new
    <3>1. Newest(i)' = Newest(i)
      BY <1>5, <2>1, <2>2, <2>4, NewestSent DEF SendFirstList
    <3> QED
      BY <2>2, <2>4, <3>1 DEF Updated, UpToDate, Awaits, Brings
  <2> QED
    BY <2>3, <2>4
<1>6. CASE Delete
  BY <1>6, <1>0 DEF Delete, Updated, UpToDate, Awaits, Brings
<1>7. ASSUME NEW k \in Kind, NEW t \in Topic, Creates(k, t) PROVE Updated(i)'
  BY <1>7, <1>0 DEF Creates, Updated, UpToDate, Awaits, Brings
<1>8. ASSUME NEW l \in Loop, SendToken(l) PROVE Updated(i)'
  <2>1. ~Awaits(i)
    BY <1>8 DEF SendToken, Telling, Sends, Awaits
  <2>2. UNCHANGED <<hpc, htopic, hlist, hsub, current, early, owed, topic, lists, seen>>
    BY <1>8 DEF SendToken
  <2> QED
    BY <1>0, <2>1, <2>2 DEF Updated, UpToDate, Brings
<1>9. ASSUME NEW t \in Topic, MasterUpdates(t) PROVE Updated(i)'
  BY <1>9, <1>0 DEF MasterUpdates, Updated, UpToDate, Awaits, Brings
<1>10. ASSUME NEW t \in Topic, Change(t) PROVE Updated(i)'
  <2>1. UNCHANGED <<upc, new, hpc, htopic, hlist, hsub, early, topic, lists, seen>>
    BY <1>10 DEF Change
  <2>2. CASE t = topic[i]
    <3>1. owed'[t] = (owed[t] \/ registered["sub"][t] # NoLoop)
      BY <1>10, TypeParts DEF Change, TableTypes
    <3>2. owed'[t]
      BY <2>2, <3>1 DEF Live
    <3>3. UpToDate(i, hlist)' /\ UpToDate(i, Newest(i))'
      BY <2>2, <3>2 DEF UpToDate
    <3> QED
      BY <3>3 DEF Updated
  <2>3. CASE t # topic[i]
    <3>1. current'[topic[i]] = current[topic[i]] /\ owed'[topic[i]] = owed[topic[i]]
      BY <1>10, <2>3, LoopTypes, TypeParts DEF Change, TableTypes
    <3> QED
      BY <1>0, <2>1, <3>1 DEF Updated, UpToDate, Awaits, Brings
  <2> QED
    BY <2>2, <2>3
<1>11. ASSUME NEW l \in Loop, LoopList(l) PROVE Updated(i)'
  <2>1. UNCHANGED <<upc, new, hpc, htopic, hlist, hsub, current, early, owed, topic>>
    BY <1>11 DEF LoopList
  <2>2. Newest(i)' = Newest(i)
    BY <1>11, NewestTaken
  <2> QED
    BY <2>1, <2>2 DEF Updated, UpToDate, Awaits, Brings
<1>12. CASE publisherUpdate
  BY <1>12, <1>0, LoopTypes DEF publisherUpdate, Updated, UpToDate, Awaits, Brings, Live
<1>13. CASE SendUpdate
  <2>1. hlist \in 0..MaxChanges /\ hsub \in Loop /\ topic[hsub] = htopic
    BY <1>13, TypeParts DEF SendUpdate, Requests, RequestTypes
  <2>2. UNCHANGED <<upc, new, hlist, current, early, owed, topic, seen>> /\ hpc' = "idle"
    BY <1>13 DEF SendUpdate
  <2>3. CASE i = hsub
    <3>1. Newest(i)' = hlist
      BY <1>13, <2>1, <2>2, <2>3, NewestSent DEF SendUpdate
    <3>2. UpToDate(i, hlist)
      BY <1>13, <2>1, <2>3 DEF SendUpdate, Updated
    <3> QED
      BY <2>2, <3>1, <3>2 DEF Updated, UpToDate
  <2>4. CASE i # hsub
    <3>1. Newest(i)' = Newest(i)
      BY <1>13, <2>1, <2>2, <2>4, NewestSent DEF SendUpdate
    <3>2. ~Brings(i)
      BY <1>13, <2>4 DEF SendUpdate, Brings
    <3> QED
      BY <2>2, <3>1, <3>2 DEF Updated, UpToDate, Awaits
  <2> QED
    BY <2>3, <2>4
<1>14. CASE MapRace
  <2>1. UNCHANGED <<hpc, htopic, hlist, hsub, current, early, owed, topic, lists, seen,
                    entry>> /\ upc' = "crashed"
    BY <1>14 DEF MapRace
  <2>2. "sub" \in Kind /\ topic[i] \in Topic /\ i # NoLoop /\ entry["sub"][topic[i]] = i
    BY <2>1, LoopTypes DEF Live, Kind
  <2>3. ~Awaits(i)
    BY <1>14, <2>2 DEF MapRace, Awaits, InCall, Entries
  <2> QED
    BY <1>0, <2>1, <2>3 DEF Updated, UpToDate, Brings
<1> QED
  BY <1>1, <1>2, <1>3, <1>4, <1>5, <1>6, <1>7, <1>8, <1>9, <1>10, <1>11, <1>12, <1>13,
     <1>14
  DEF Steps

\* Updates is kept: a new subscription starts with the lists that are on their
\* way.
LEMMA UpdatesStep ==
    ASSUME TypeOK, LoopsBorn, InCall, Telling, Entries, Requests, Updates, Steps
    PROVE  Updates'
<1>1. ASSUME NEW i \in Loop, Live(i)' PROVE Updated(i)'
  <2>1. CASE Live(i) /\ topic'[i] = topic[i] /\ early'[i] = early[i]
    BY <1>1, <2>1, UpdatedStays DEF Updates
  <2>2. ASSUME NEW t \in Topic, Creates("sub", t), i = nloops + 1 PROVE Updated(i)'
    <3>1. /\ topic'[i] = t /\ Awaits(i)' /\ UNCHANGED <<hpc, htopic, hlist>>
          /\ hpc # "idle" /\ htopic = t => hlist \in early'[i]
      BY <2>2, LoopTypes DEF Creates, Awaits, handlerVars
    <3> QED
      BY <3>1 DEF Updated, UpToDate
  <2> QED
    BY <1>1, <2>1, <2>2, LiveBefore
<1> QED
  BY <1>1 DEF Updates

-----------------------------------------------------------------------------
(* The theorems *)

IndInv ==
    /\ TypeOK /\ LoopsBorn /\ Entries /\ InCall /\ Telling /\ Registrations /\ Requests
    /\ Updates /\ OrphansAreMisKeyed

\* A node starts without loops.
LEMMA IndInvInit == Init => IndInv
<1> SUFFICES ASSUME Init PROVE IndInv
  OBVIOUS
<1> USE DEF Init
<1>1. Running = {}
  BY DEF Running
<1>2. Counted
  BY <1>1, FS_EmptySet DEF Counted
<1>3. UserTypes
  BY ConstantTypes DEF UserTypes, Resting
<1>4. TableTypes /\ RequestTypes
  <2>1. TableTypes
    BY ConstantTypes DEF TableTypes
  <2>2. RequestTypes
    <3>1. answer \in Answers
      BY DEF Answers
    <3>2. htopic \in Topic
      BY Topics
    <3> QED
      BY <3>1, <3>2, ConstantTypes DEF RequestTypes
  <2> QED
    BY <2>1, <2>2
<1>5. BornTypes /\ RunTypes
  <2>1. BornTypes
    <3>1. kind \in [Loop -> Kind] /\ nloops \in 0..MaxLoops
      BY ConstantTypes DEF Kind
    <3>2. topic \in [Loop -> Topic]
      BY Topics
    <3>3. early \in [Loop -> SUBSET (0..MaxChanges)]
      OBVIOUS
    <3> QED
      BY <3>1, <3>2, <3>3 DEF BornTypes
  <2>2. RunTypes
    BY ConstantTypes DEF RunTypes
  <2> QED
    BY <2>1, <2>2
<1>6. ListTypes
  <2>1. <<>> \in Seq(0..MaxChanges) /\ Len(<<>>) = 0
    BY EmptySeq
  <2> QED
    BY <2>1, ConstantTypes DEF ListTypes
<1>7. TypeOK
  BY <1>2, <1>3, <1>4, <1>5, <1>6, TypeParts
<1>8. LoopsBorn /\ Entries /\ InCall /\ Telling /\ Requests /\ OrphansAreMisKeyed
  BY DEF LoopsBorn, Entries, InCall, Telling, Requests, OrphansAreMisKeyed, Orphan, Stored
<1>9. Registrations /\ Updates
  BY LoopTypes, <1>7 DEF Registrations, Updates, Live, Kind
<1> QED
  BY <1>7, <1>8, <1>9 DEF IndInv

\* Every step keeps it.
LEMMA IndInvStep == IndInv /\ [Next]_vars => IndInv'
<1> SUFFICES ASSUME IndInv, [Next]_vars PROVE IndInv'
  OBVIOUS
<1> USE DEF IndInv
<1>1. Steps
  BY StepKinds
<1>2. TypeOK'
  BY <1>1, TypesStep
<1>3. LoopsBorn' /\ Entries' /\ InCall' /\ Telling' /\ Requests'
  BY <1>1, LoopsBornStep, EntriesStep, InCallStep, TellingStep, RequestsStep
<1>4. Registrations' /\ Updates'
  BY <1>1, RegistrationsStep, UpdatesStep
<1>5. OrphansAreMisKeyed'
  BY <1>1, <1>2, OrphansStep
<1> QED
  BY <1>2, <1>3, <1>4, <1>5

\* The invariant holds in every state of every behaviour.
LEMMA Invariance == Spec => []IndInv
<1>1. Init => IndInv
  BY IndInvInit
<1>2. IndInv /\ [Next]_vars => IndInv'
  BY IndInvStep
<1> QED
  BY <1>1, <1>2, PTL DEF Spec

\* Every variable keeps its type, the WaitGroup of the node counts exactly the
\* loops between their start and their end, and no channel of a loop holds more
\* than its capacity.
THEOREM TypeCorrect == Spec => []TypeOK
<1>1. IndInv => TypeOK
  BY DEF IndInv
<1> QED
  BY <1>1, Invariance, PTL

\* A loop that no table leads to and that nobody told to end is a publisher's,
\* replaced under a name it was not looked up by.
THEOREM OrphansReplaced == Spec => []OrphansAreMisKeyed
<1>1. IndInv => OrphansAreMisKeyed
  BY DEF IndInv
<1> QED
  BY <1>1, Invariance, PTL

\* A subscription at rest works with the newest list of publishers, or with one
\* that was on its way when it registered.
THEOREM ListsFresh == Spec => []FreshList
<1>1. IndInv => FreshList
  <2> SUFFICES ASSUME IndInv, NEW l \in Loop, AtRest(l)
               PROVE  seen[l] \in {current[topic[l]]} \cup early[l]
    BY DEF FreshList
  <2>1. Live(l)
    BY DEF AtRest, Live
  <2>2. Newest(l) = seen[l] /\ ~Brings(l) /\ ~owed[topic[l]]
    BY DEF AtRest, Newest, Brings
  <2>3. ~Awaits(l)
    <3>1. topic[l] \in Topic /\ "sub" \in Kind /\ lpc[l] = "running" /\ l # NoLoop
      BY LoopTypes DEF IndInv, AtRest, Kind
    <3> QED
      BY <3>1 DEF IndInv, AtRest, Awaits, InCall, Stored
  <2> QED
    BY <2>1, <2>2, <2>3 DEF IndInv, Updates, Updated, UpToDate
<1> QED
  BY <1>1, Invariance, PTL

\* A step that changes the answer is a request for it.
LEMMA Answering ==
    ASSUME [Next]_vars, answer' # answer
    PROVE  \E t \in Topic : requestTopic(t)
<1> USE DEF vars, handlerVars
<1>1. UserStep \/ HandlerStep \/ MapRace \/ Interrupt \/ UNCHANGED vars => UNCHANGED answer
  BY DEF UserStep, SendToken, Serve, Store, SendFirstList, Delete, Waited, Drained,
         SpinReturns, HandlerStep, publisherUpdate, SendUpdate, MapRace, Interrupt
<1>2. ASSUME NEW n \in RawName
      PROVE  NewSubscriber(n) \/ RemoveSubscriber(n) \/ NewServiceServer(n)
               \/ NewPublisher(n) \/ NewPublisherWithCallbacks(n) \/ RemovePublisher(n)
             => UNCHANGED answer
  BY DEF NewSubscriber, RemoveSubscriber, NewServiceServer, NewPublisher,
         NewPublisherWithCallbacks, Advertise, RemovePublisher, RemoveEntry
<1>3. ASSUME NEW k \in Kind, NEW t \in Topic PROVE Close(k, t) => UNCHANGED answer
  BY DEF Close
<1>4. Start \/ Spin \/ Shutdown => UNCHANGED answer
  BY DEF Start, Spin, Shutdown
<1>5. ASSUME NEW l \in Loop PROVE LoopStep(l) => UNCHANGED answer
  BY DEF LoopStep, LoopWorks, LoopStart, LoopList, LoopToken, LoopEnd, LoopGone
<1>6. ASSUME NEW t \in Topic PROVE MasterUpdates(t) \/ Change(t) => UNCHANGED answer
  BY DEF MasterUpdates, Change
<1> QED
  BY <1>1, <1>2, <1>3, <1>4, <1>5, <1>6 DEF Next, UserCall

\* A node turns a subscriber away that has it from the master only while the
\* publisher is being created or withdrawn, or was left behind by a failure.
THEOREM RefusedInGap == Spec => RefusedOnlyInGap
<1> DEFINE Gap == \A t \in Topic :
         answer' # answer /\ answer' = <<t, "No such topic">>
           /\ registered["pub"][t] # NoLoop =>
             \/ upc = "storing" /\ kind[new] = "pub" /\ topic[new] = t
             \/ Withdrawn("pub", t)
<1>1. IndInv /\ [Next]_vars => [Gap]_vars
  <2> SUFFICES ASSUME IndInv, [Next]_vars, NEW t \in Topic,
                      answer' # answer, answer' = <<t, "No such topic">>,
                      registered["pub"][t] # NoLoop
               PROVE  \/ upc = "storing" /\ kind[new] = "pub" /\ topic[new] = t
                      \/ Withdrawn("pub", t)
    OBVIOUS
  <2>1. PICK s \in Topic : requestTopic(s)
    BY Answering
  <2>2. s = t /\ entry["pub"][t] = NoLoop /\ upc # "crashed"
    <3>1. /\ answer' = <<s, IF entry["pub"][s] = NoLoop THEN "No such topic" ELSE "Success">>
          /\ upc # "crashed"
      BY <2>1 DEF requestTopic, Up
    <3>2. "No such topic" # "Success"
      OBVIOUS
    <3>3. PICK v : v = IF entry["pub"][s] = NoLoop THEN "No such topic" ELSE "Success"
      OBVIOUS
    <3>4. <<s, v>> = <<t, "No such topic">>
      BY <3>1, <3>3
    <3>5. s = t /\ v = "No such topic"
      BY <3>4
    <3> QED
      BY <3>1, <3>2, <3>3, <3>5
  <2>3. CASE registered["pub"][t] = Ghost
    BY <2>3 DEF Withdrawn
  <2>4. CASE registered["pub"][t] # Ghost
    <3>1. PICK l \in Loop : l = registered["pub"][t]
      BY <2>4, LoopTypes DEF IndInv, Kind
    <3>2. Holds(l, "pub", t) /\ l # NoLoop
      BY <3>1, LoopTypes DEF IndInv, Registrations, Kind
    <3>3. CASE upc = "storing" /\ new = l
      BY <3>2, <3>3 DEF Holds
    <3>4. CASE ~(upc = "storing" /\ new = l)
      <4>1. Stored(l) /\ Told(l)
        BY <2>2, <3>2, <3>4 DEF Holds
      <4> QED
        BY <3>1, <4>1 DEF Withdrawn
    <3> QED
      BY <3>3, <3>4
  <2> QED
    BY <2>3, <2>4
<1> QED
  BY <1>1, Invariance, PTL DEF Spec, RefusedOnlyInGap

\* When Shutdown has waited for the loops, the master knows the node only by a
\* loop that has not started yet, or because a call or a listener failed.
THEOREM LeftByFailure == Spec => NothingLeft
<1> DEFINE Left == upc = "waiting" /\ upc' = "draining" =>
         \A k \in Kind, t \in Topic :
           registered[k][t] \notin {NoLoop, Ghost} =>
             \E l \in Loop : kind[l] = k /\ topic[l] = t /\ lpc[l] \in {"starting", "gone"}
<1>1. IndInv /\ [Next]_vars => [Left]_vars
  <2> SUFFICES ASSUME IndInv, [Next]_vars, upc = "waiting", upc' = "draining",
                      NEW k \in Kind, NEW t \in Topic,
                      registered[k][t] \notin {NoLoop, Ghost}
               PROVE  \E l \in Loop : kind[l] = k /\ topic[l] = t
                                      /\ lpc[l] \in {"starting", "gone"}
    OBVIOUS
  <2>1. wg = 0
    <3>1. Steps
      BY StepKinds DEF IndInv
    <3>2. ASSUME NEW l \in Loop, SendToken(l) PROVE FALSE
      BY <3>2 DEF IndInv, SendToken, Telling, Sends
    <3> QED
      BY <3>1, <3>2 DEF Steps, Elsewhere, Begins, Fails, Creates, Store, SendFirstList,
         Delete, LoopStart, LoopList, LoopToken, Leaves, MasterUpdates, Change,
         publisherUpdate, SendUpdate, MapRace, userVars
  <2>2. Running = {}
    BY <2>1, TypeParts, RunningFinite, FS_EmptySet DEF IndInv, Counted
  <2>3. PICK l \in Loop : l = registered[k][t]
    BY LoopTypes DEF IndInv
  <2>4. Holds(l, k, t) /\ Stored(l)
    BY <2>3 DEF IndInv, Registrations, Holds
  <2>5. lpc[l] \in {"starting", "gone"}
    BY <2>2, <2>4, LoopTypes DEF IndInv, Running, Holds, Stored
  <2> QED
    BY <2>4, <2>5 DEF Holds
<1> QED
  BY <1>1, Invariance, PTL DEF Spec, NothingLeft
-----------------------------------------------------------------------------
(* What Shutdown waits for *)

\* From its first send on, Shutdown has told every loop in a table to end, or has
\* still to do so.
AllTold ==
    upc \in {"telling", "waiting", "draining", "done"} =>
        \A k \in Kind, t \in Topic, l \in Loop :
            entry[k][t] = l => l \in telling \/ Told(l)

\* The tables stay as they are, and what was told stays told.
LEMMA AllToldStep ==
    ASSUME TypeOK, LoopsBorn, InCall, Telling, Entries, AllTold, Steps
    PROVE  AllTold'
<1> SUFFICES ASSUME upc' \in {"telling", "waiting", "draining", "done"},
                    NEW k \in Kind, NEW t \in Topic, NEW l \in Loop, entry'[k][t] = l
             PROVE  l \in telling' \/ Told(l)'
  BY DEF AllTold
<1> USE DEF userVars, argVars, bornVars, runVars, handlerVars, masterVars
<1>1. CASE Begins
  <2>1. entry[k][t] = l /\ upc' \in {"telling", "waiting"} /\ l # NoLoop
    BY <1>1, LoopTypes DEF Begins, Sends
  <2> QED
    BY <1>1, <2>1 DEF Begins, Listed
<1>2. ASSUME NEW m \in Loop, SendToken(m) PROVE l \in telling' \/ Told(l)'
  <2>1. /\ UNCHANGED <<lpc, entry>> /\ telling' = telling \ {m}
        /\ upc' = IF telling = {m} THEN AfterTelling(upc) ELSE upc
        /\ tokens'[m] > 0 /\ \A i \in Loop : i # m => tokens'[i] = tokens[i]
    BY <1>2, LoopTypes DEF SendToken
  <2>2. upc = "telling"
    <3>1. upc \in Sends
      BY <1>2 DEF SendToken, Telling
    <3> QED
      BY <2>1, <3>1 DEF AfterTelling, Sends
  <2> QED
    BY <2>1, <2>2 DEF AllTold, Told
<1>3. CASE ~Begins /\ ~\E m \in Loop : SendToken(m)
  <2>1. /\ upc \in {"telling", "waiting", "draining", "done"}
        /\ UNCHANGED <<entry, telling>>
    BY <1>3 DEF Steps, Elsewhere, Fails, Store, SendFirstList, Delete, Creates,
       MasterUpdates, Change, LoopStart, LoopList, LoopToken, Leaves, publisherUpdate,
       SendUpdate, MapRace
  <2>2. (l \in telling \/ Told(l)) /\ l # NoLoop /\ entry[k][t] = l
    BY <2>1, LoopTypes DEF AllTold
  <2>3. Stored(l)
    BY <2>2 DEF Entries
  <2> QED
    BY <2>1, <2>2, <2>3, ToldForGood DEF Stays
<1> QED
  BY <1>1, <1>2, <1>3

\* It holds in every reachable state.
LEMMA AllToldInvariance == Spec => [](IndInv /\ AllTold)
<1>1. Init => AllTold
  BY DEF Init, AllTold
<1>2. IndInv /\ AllTold /\ [Next]_vars => AllTold'
  BY StepKinds, AllToldStep DEF IndInv
<1> QED
  BY <1>1, <1>2, Invariance, PTL DEF Spec

\* When Shutdown has sent its tokens and waits for the loops (node.go:582), every
\* loop that has not ended was told to end, or it is a publisher that its table does
\* not lead to, of a name for which the lookup goes wrong.
NoneForgotten ==
    upc \in {"waiting", "draining", "done"} =>
        \A l \in Loop : lpc[l] \in {"starting", "running"} =>
            Told(l) \/ (Orphan(l) /\ kind[l] = "pub" /\ MisKeyed(topic[l]))

\* No order of registrations, removals, replacements, closes and interrupts makes
\* Shutdown forget a loop, except the publishers of finding node.go:413: one that was
\* replaced in the table under a name it was not looked up by.  That a loop was told
\* does not say that it ends: Subscriber, Publisher and Service say when it does.
THEOREM ShutdownForgetsNone == Spec => []NoneForgotten
<1>1. IndInv /\ AllTold => NoneForgotten
  <2> SUFFICES ASSUME IndInv, AllTold, upc \in {"waiting", "draining", "done"},
                      NEW l \in Loop, lpc[l] \in {"starting", "running"}, ~Told(l)
               PROVE  Orphan(l) /\ kind[l] = "pub" /\ MisKeyed(topic[l])
    BY DEF NoneForgotten
  <2>1. kind[l] \in Kind /\ topic[l] \in Topic
    BY LoopTypes DEF IndInv
  <2>2. telling = {}
    BY DEF IndInv, Telling, Sends
  <2>3. entry[kind[l]][topic[l]] # l
    BY <2>1, <2>2 DEF AllTold
  <2> QED
    BY <2>3 DEF IndInv, OrphansAreMisKeyed, Orphan
<1> QED
  BY <1>1, AllToldInvariance, PTL

\* Nobody ever tells an orphan to end: it stays one until its listener fails.
LEMMA OrphanStep ==
    ASSUME TypeOK, LoopsBorn, InCall, Telling, Entries, Steps, NEW i \in Loop, Orphan(i)
    PROVE  /\ Orphan(i)' \/ (lpc'[i] = "gone" /\ lpc[i] = "running" /\ "accept" \in MayFail)
           /\ lpc[i] = "running" => lpc'[i] \in {"running", "gone"}
<1> USE DEF userVars, argVars, bornVars, runVars, handlerVars, masterVars
<1>0. /\ kind[i] \in Kind /\ topic[i] \in Topic /\ i # NoLoop /\ tokens[i] = 0
      /\ lpc[i] \in {"starting", "running"} /\ entry[kind[i]][topic[i]] # i
  BY LoopTypes DEF Orphan, Told
<1>1. kind'[i] = kind[i] /\ topic'[i] = topic[i]
  BY <1>0, ToldForGood DEF Stays, Stored
<1>2. tokens'[i] = 0
  <2>1. ASSUME NEW l \in Loop, SendToken(l) PROVE tokens'[i] = 0
    <3>1. l # i
      BY <1>0, <2>1 DEF SendToken, Telling
    <3> QED
      BY <1>0, <2>1, <3>1, LoopTypes DEF SendToken
  <2>3. ASSUME NEW l \in Loop, LoopToken(l) PROVE tokens'[i] = 0
    BY <1>0, <2>3, LoopTypes DEF LoopToken
  <2>4. CASE UNCHANGED tokens
    BY <1>0, <2>4
  <2> QED
    BY <2>1, <2>3, <2>4
    DEF Steps, Elsewhere, Begins, Fails, Store, SendFirstList, Delete, Creates,
        MasterUpdates, Change, LoopStart, LoopList, Leaves, publisherUpdate, SendUpdate,
        MapRace
<1>3. entry'[kind[i]][topic[i]] # i
  <2>1. CASE Store
    BY <1>0, <2>1, LoopTypes DEF Store, InCall, Stored
  <2>2. CASE Delete
    BY <1>0, <2>2, LoopTypes DEF Delete
  <2>3. CASE UNCHANGED entry
    BY <1>0, <2>3
  <2>4. entry' = entry \/ Store \/ Delete
    BY DEF Steps, Elsewhere, Begins, Fails, SendFirstList, Creates, SendToken,
       MasterUpdates, Change, LoopStart, LoopList, LoopToken, Leaves, publisherUpdate,
       SendUpdate, MapRace
  <2> QED
    BY <1>1, <2>1, <2>2, <2>3, <2>4
<1>4. /\ \/ lpc'[i] \in {"starting", "running"}
         \/ lpc'[i] = "gone" /\ lpc[i] = "running" /\ "accept" \in MayFail
      /\ lpc[i] = "running" => lpc'[i] \in {"running", "gone"}
  <2>1. CASE Store
    BY <1>0, <2>1, LoopTypes DEF Store, InCall, Stored
  <2>2. ASSUME NEW l \in Loop, LoopStart(l)
        PROVE  lpc'[i] \in {"starting", "running"} /\ (lpc[i] = "running" => lpc'[i] = "running")
    BY <1>0, <2>2, LoopTypes DEF LoopStart
  <2>3. ASSUME NEW l \in Loop, LoopToken(l) PROVE lpc'[i] = lpc[i]
    BY <1>0, <2>3, LoopTypes DEF LoopToken
  <2>4. ASSUME NEW l \in Loop, Leaves(l)
        PROVE  /\ \/ lpc'[i] = lpc[i]
                  \/ lpc'[i] = "gone" /\ lpc[i] = "running" /\ "accept" \in MayFail
    BY <1>0, <2>4, LoopTypes DEF Leaves
  <2>5. CASE UNCHANGED lpc
    BY <1>0, <2>5
  <2> QED
    BY <1>0, <2>1, <2>2, <2>3, <2>4, <2>5
    DEF Steps, Elsewhere, Begins, Fails, SendFirstList, Delete, Creates, SendToken,
        MasterUpdates, Change, LoopList, publisherUpdate, SendUpdate, MapRace
<1> QED
  BY <1>1, <1>2, <1>3, <1>4 DEF Orphan, Told

\* What has ended stays so, with or without a word to the master.
LEMMA EndedForGood ==
    ASSUME TypeOK, InCall, Steps, NEW i \in Loop, lpc[i] \in {"exited", "gone"}
    PROVE  lpc'[i] = lpc[i]
<1> USE DEF userVars, argVars, bornVars, runVars, handlerVars, masterVars
<1>1. CASE Store
  BY <1>1, LoopTypes DEF Store, InCall, Stored
<1>2. ASSUME NEW l \in Loop, LoopStart(l) \/ LoopToken(l) \/ Leaves(l)
      PROVE  lpc'[i] = lpc[i]
  BY <1>2, LoopTypes DEF LoopStart, LoopToken, Leaves
<1>3. CASE UNCHANGED lpc
  BY <1>3
<1> QED
  BY <1>1, <1>2, <1>3
  DEF Steps, Elsewhere, Begins, Fails, SendFirstList, Delete, Creates, SendToken,
      MasterUpdates, Change, LoopList, publisherUpdate, SendUpdate, MapRace

\* An orphan is out of reach for good (node.go:413): no Remove, no second
\* registration and no Shutdown ever tells it to end.
THEOREM OrphanForGood ==
    ASSUME NEW l \in Loop
    PROVE  Spec => [](Orphan(l) => [](Orphan(l) \/ lpc[l] = "gone"))
<1>1. IndInv /\ (Orphan(l) \/ lpc[l] = "gone") /\ [Next]_vars
        => (Orphan(l) \/ lpc[l] = "gone")'
  BY StepKinds, OrphanStep, EndedForGood DEF IndInv
<1> QED
  BY <1>1, Invariance, PTL DEF Spec

\* Shutdown waits for an orphan that runs.
HeldByOrphan(l) == upc = "waiting" /\ Orphan(l) /\ lpc[l] = "running"

\* It waits for good (node.go:582), unless the orphan's listener fails: the
\* exception for orphans in ShutdownReturns.
THEOREM OrphanHoldsShutdown ==
    ASSUME NEW l \in Loop, "accept" \notin MayFail
    PROVE  Spec => [](HeldByOrphan(l) => []HeldByOrphan(l))
<1>1. IndInv /\ HeldByOrphan(l) /\ [Next]_vars => HeldByOrphan(l)'
  <2> SUFFICES ASSUME IndInv, HeldByOrphan(l), [Next]_vars PROVE HeldByOrphan(l)'
    OBVIOUS
  <2>1. Steps
    BY StepKinds DEF IndInv
  <2>2. Orphan(l)' /\ lpc'[l] \in {"running", "gone"}
    BY <2>1, OrphanStep DEF IndInv, HeldByOrphan
  <2>3. lpc'[l] = "running"
    BY <2>2 DEF Orphan
  <2>4. wg # 0
    <3>1. Running # {}
      BY DEF Running, HeldByOrphan
    <3>2. Cardinality(Running) # 0
      BY <3>1, RunningFinite, FS_EmptySet
    <3> QED
      BY <3>2, TypeParts DEF IndInv, Counted
  <2>5. upc' = "waiting"
    <3>1. ~\E m \in Loop : SendToken(m)
      BY DEF HeldByOrphan, IndInv, SendToken, Telling, Sends
    <3> QED
      BY <2>1, <2>4, <3>1 DEF HeldByOrphan, Steps, Elsewhere, Begins, Fails, Store,
         SendFirstList, Delete, Creates, MasterUpdates, Change, LoopStart, LoopList,
         LoopToken, Leaves, publisherUpdate, SendUpdate, MapRace, userVars
  <2> QED
    BY <2>2, <2>3, <2>5 DEF HeldByOrphan
<1> QED
  BY <1>1, Invariance, PTL DEF Spec

\* A call at place sends a token to a loop that has ended and whose channel is full.
HeldBySend(place, l) ==
    upc = place /\ l \in telling /\ lpc[l] \in {"exited", "gone"} /\ tokens[l] = ChanCap

\* It does so for good, Shutdown (node.go:566-579) as well as Close, RemoveSubscriber,
\* RemovePublisher and NewServiceServer: the exception SendStuck in ShutdownReturns.
THEOREM SendHoldsCall ==
    ASSUME NEW place, NEW l \in Loop
    PROVE  Spec => [](HeldBySend(place, l) => []HeldBySend(place, l))
<1>1. IndInv /\ HeldBySend(place, l) /\ [Next]_vars => HeldBySend(place, l)'
  <2> SUFFICES ASSUME IndInv, HeldBySend(place, l), [Next]_vars
               PROVE  HeldBySend(place, l)'
    OBVIOUS
  <2> USE DEF userVars, argVars, bornVars, runVars, handlerVars, masterVars
  <2>1. Steps
    BY StepKinds DEF IndInv
  <2>2. /\ upc = place /\ upc \in Sends /\ l \in telling
        /\ lpc[l] \in {"exited", "gone"} /\ tokens[l] = ChanCap /\ ChanCap \in Nat
    BY ConstantTypes DEF IndInv, HeldBySend, Telling
  <2>3. lpc'[l] = lpc[l]
    BY <2>1, <2>2, EndedForGood DEF IndInv
  <2>4. ASSUME NEW m \in Loop, SendToken(m)
        PROVE  upc' = upc /\ l \in telling' /\ tokens'[l] = tokens[l]
    <3>1. m # l
      BY <2>2, <2>4 DEF SendToken
    <3> QED
      BY <2>2, <2>4, <3>1, LoopTypes DEF IndInv, SendToken
  <2>5. ASSUME NEW m \in Loop, LoopToken(m)
        PROVE  upc' = upc /\ l \in telling' /\ tokens'[l] = tokens[l]
    BY <2>2, <2>5, LoopTypes DEF IndInv, LoopToken
  <2>6. upc' = upc /\ l \in telling' /\ tokens'[l] = tokens[l]
    BY <2>1, <2>2, <2>4, <2>5
    DEF Steps, Elsewhere, Begins, Fails, Store, SendFirstList, Delete, Creates,
        MasterUpdates, Change, LoopStart, LoopList, Leaves, publisherUpdate, SendUpdate,
        MapRace, Sends
  <2> QED
    BY <2>2, <2>3, <2>6 DEF HeldBySend
<1> QED
  BY <1>1, Invariance, PTL DEF Spec

\* A request sends to a loop that has ended, whose channel has no room.
HeldByRequest == HandlerStuck /\ Len(lists[hsub]) = ChanCap /\ upc # "done"

\* It does so for good (node.go:359), and a Shutdown waits for it for good: the
\* exception HandlerStuck in ShutdownReturns.
THEOREM RequestHoldsShutdown == Spec => [](HeldByRequest => []HeldByRequest)
<1>1. IndInv /\ HeldByRequest /\ [Next]_vars => HeldByRequest'
  <2> SUFFICES ASSUME IndInv, HeldByRequest, [Next]_vars PROVE HeldByRequest'
    OBVIOUS
  <2> USE DEF userVars, argVars, bornVars, runVars, handlerVars, masterVars
  <2>1. Steps
    BY StepKinds DEF IndInv
  <2>2. /\ hpc = "sending" /\ hsub \in Loop /\ lpc[hsub] \in {"exited", "gone"}
        /\ Len(lists[hsub]) = ChanCap /\ ChanCap \in Nat /\ upc # "done"
    BY ConstantTypes DEF IndInv, HeldByRequest, HandlerStuck, Requests
  <2>4. lists \in [Loop -> Seq(0..MaxChanges)]
    BY DEF IndInv, TypeOK
  <2>5. ~SendUpdate
    BY <2>2 DEF SendUpdate, SendList
  <2>6. UNCHANGED <<hpc, hsub>> /\ upc' # "done"
    <3>1. ASSUME NEW m \in Loop, SendToken(m) PROVE UNCHANGED <<hpc, hsub>> /\ upc' # "done"
      <4>1. upc \in Sends
        BY <3>1 DEF IndInv, SendToken, Telling
      <4> QED
        BY <3>1, <4>1 DEF SendToken, AfterTelling, Sends
    <3> QED
      BY <2>1, <2>2, <2>5, <3>1 DEF Steps, Elsewhere, Begins, Fails, Store, SendFirstList,
         Delete, Creates, MasterUpdates, Change, LoopStart, LoopList, LoopToken, Leaves,
         publisherUpdate, MapRace, Sends
  <2>7. lpc'[hsub] \in {"exited", "gone"}
    BY <2>1, <2>2, EndedForGood DEF IndInv
  <2>8. lists'[hsub] = lists[hsub]
    <3>1. CASE SendFirstList
      BY <2>2, <2>4, <3>1 DEF SendFirstList, SendList
    <3>2. ASSUME NEW l \in Loop, LoopList(l) PROVE lists'[hsub] = lists[hsub]
      BY <2>2, <2>4, <3>2 DEF LoopList
    <3>3. CASE UNCHANGED lists
      BY <3>3
    <3> QED
      BY <2>1, <2>5, <3>1, <3>2, <3>3
      DEF Steps, Elsewhere, Begins, Fails, Store, Delete, Creates, SendToken,
          MasterUpdates, Change, LoopStart, LoopToken, Leaves, publisherUpdate, MapRace
  <2> QED
    BY <2>2, <2>6, <2>7, <2>8 DEF HeldByRequest, HandlerStuck
<1> QED
  BY <1>1, Invariance, PTL DEF Spec
-----------------------------------------------------------------------------
(* The loops as Subscriber, Publisher and Service spell them out *)

\* What a step is to loop l.
LEMMA LoopStepKinds ==
    ASSUME IndInv, Steps, NEW l \in Loop
    PROVE  [LoopOf(l)!Next]_(LoopOf(l)!vars)
<1> USE DEF userVars, argVars, bornVars, runVars, handlerVars, masterVars
<1>0. /\ lpc \in [Loop -> {"unused", "starting", "running", "stopping", "exited", "gone"}]
      /\ tokens \in [Loop -> Nat] /\ lists \in [Loop -> Seq(0..MaxChanges)]
      /\ seen \in [Loop -> 0..MaxChanges]
      /\ publishers \in 0..MaxChanges /\ hlist \in 0..MaxChanges
      /\ (new # 0 => new \in Loop)
  <2>1. TypeOK
    BY DEF IndInv
  <2>2. /\ lists \in [Loop -> Seq(0..MaxChanges)] /\ seen \in [Loop -> 0..MaxChanges]
        /\ publishers \in 0..MaxChanges /\ hlist \in 0..MaxChanges
    BY <2>1 DEF TypeOK
  <2> QED
    BY <2>1, <2>2, LoopTypes
<1> DEFINE Same == UNCHANGED <<State(l), tokens[l], lists[l], seen[l]>>
           Goal == [LoopOf(l)!Next]_(LoopOf(l)!vars)
<1>1. Same => Goal
  BY DEF LoopOf!vars
<1>2. ASSUME NEW m \in Loop, SendToken(m) PROVE Goal
  <2>1. CASE m = l
    <3>1. LoopOf(l)!Tell
      BY <1>0, <1>2, <2>1 DEF SendToken, State, LoopOf!Tell
    <3> QED
      BY <3>1 DEF LoopOf!Next
  <2>2. CASE m # l
    BY <1>0, <1>1, <1>2, <2>2 DEF SendToken, State
  <2> QED
    BY <2>1, <2>2
<1>3. CASE Store
  <2>1. Same
    BY <1>0, <1>3 DEF Store, IndInv, InCall, Stored, State
  <2> QED
    BY <1>1, <2>1
<1>4. ASSUME NEW m \in Loop, NEW v \in 0..MaxChanges, SendList(m, v),
             UNCHANGED <<lpc, tokens, seen>>
      PROVE  Goal
  <2>1. CASE m = l
    <3>1. LoopOf(l)!Send
      BY <1>0, <1>4, <2>1 DEF SendList, State, LoopOf!Send
    <3> QED
      BY <3>1 DEF LoopOf!Next
  <2>2. CASE m # l
    BY <1>0, <1>1, <1>4, <2>2 DEF SendList, State
  <2> QED
    BY <2>1, <2>2
<1>5. ASSUME NEW m \in Loop, LoopStart(m) PROVE Goal
  <2>1. Same
    BY <1>0, <1>5 DEF LoopStart, State
  <2> QED
    BY <1>1, <2>1
<1>6. ASSUME NEW m \in Loop, LoopList(m) PROVE Goal
  <2>1. CASE m = l
    <3>1. LoopOf(l)!Receive
      BY <1>0, <1>6, <2>1 DEF LoopList, State, LoopOf!Receive
    <3> QED
      BY <3>1 DEF LoopOf!Next
  <2>2. CASE m # l
    BY <1>0, <1>1, <1>6, <2>2 DEF LoopList, State
  <2> QED
    BY <2>1, <2>2
<1>7. ASSUME NEW m \in Loop, LoopToken(m) PROVE Goal
  <2>1. CASE m = l
    <3>1. LoopOf(l)!Stop
      BY <1>0, <1>7, <2>1 DEF LoopToken, State, LoopOf!Stop
    <3> QED
      BY <3>1 DEF LoopOf!Next
  <2>2. CASE m # l
    BY <1>0, <1>1, <1>7, <2>2 DEF LoopToken, State
  <2> QED
    BY <2>1, <2>2
<1>8. ASSUME NEW m \in Loop, Leaves(m) PROVE Goal
  <2>1. CASE m = l
    <3>1. LoopOf(l)!End \/ LoopOf(l)!Fail
      BY <1>0, <1>8, <2>1 DEF Leaves, State, LoopOf!End, LoopOf!Fail
    <3> QED
      BY <3>1 DEF LoopOf!Next
  <2>2. CASE m # l
    BY <1>0, <1>1, <1>8, <2>2 DEF Leaves, State
  <2> QED
    BY <2>1, <2>2
<1>9. CASE UNCHANGED <<lpc, tokens, lists, seen>>
  <2>1. Same
    BY <1>9 DEF State
  <2> QED
    BY <1>1, <2>1
<1>10. CASE SendFirstList \/ SendUpdate
  <2>1. PICK m \in Loop, v \in 0..MaxChanges :
          SendList(m, v) /\ UNCHANGED <<lpc, tokens, seen>>
    <3>1. CASE SendFirstList
      BY <1>0, <3>1 DEF SendFirstList, IndInv, InCall
    <3>2. CASE SendUpdate
      BY <1>0, <3>2 DEF SendUpdate, IndInv, Requests
    <3> QED
      BY <1>10, <3>1, <3>2
  <2> QED
    BY <1>4, <2>1
<1>11. CASE \/ Elsewhere \/ Begins \/ Fails \/ Delete \/ publisherUpdate \/ MapRace
            \/ \E k \in Kind, t \in Topic : Creates(k, t)
            \/ \E t \in Topic : MasterUpdates(t)
            \/ \E t \in Topic : Change(t)
  <2>1. UNCHANGED <<lpc, tokens, lists, seen>>
    BY <1>11 DEF Elsewhere, Begins, Fails, Delete, publisherUpdate, MapRace, Creates,
       MasterUpdates, Change
  <2> QED
    BY <1>9, <2>1
<1> QED
  BY <1>2, <1>3, <1>5, <1>6, <1>7, <1>8, <1>10, <1>11 DEF Steps

\* Each loop of a node is a NodeLoop, as those of Subscriber, Publisher and
\* Service are: no call of the user, of the master or of a request does to a loop
\* anything its own module does not know.
THEOREM LoopsAreNodeLoops == Spec => LoopsRunAsLoops
<1>1. Init => \A l \in Loop : LoopOf(l)!Init
  BY DEF Init, LoopOf!Init, State
<1>2. IndInv /\ [Next]_vars => \A l \in Loop : [LoopOf(l)!Next]_(LoopOf(l)!vars)
  BY StepKinds, LoopStepKinds DEF IndInv
<1> QED
  BY <1>1, <1>2, Invariance, PTL DEF Spec, LoopsRunAsLoops
=============================================================================
