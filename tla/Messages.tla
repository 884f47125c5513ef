------------------------------ MODULE Messages ------------------------------
(***************************************************************************)
(* A program that publishes and subscribes one topic with dynamic message  *)
(* types: it loads the type of each side, makes a message, changes it from *)
(* JSON documents, publishes it and spins (as libtest_dynamic_message      *)
(* does); its callback keeps the message it gets, to change and publish it *)
(* in turn.  Between any two calls the package path may be set anew.       *)
(*                                                                         *)
(* The two sides meet when their MD5 sums are equal (publisher.go:263,     *)
(* subscriber.go:210).  The transport delivers whole payloads in order     *)
(* (modules Publisher and Subscriber), so one message in flight will do.   *)
(*                                                                         *)
(* Assumed: the files of a directory do not change while it is the path,   *)
(* and definitions are not cyclic (LoadMsg would not return).              *)
(***************************************************************************)
EXTENDS DynamicMessage

CONSTANTS
    Paths,      \* values of the package path
    DefsOn,     \* what each holds: a function from names to texts
    Topic,      \* the full name of the topic's type
    Documents,  \* JSON objects a message may be changed from
    MaxPaths,   \* bound on calls of SetRuntimePackagePath
    MaxEdits    \* bound on calls of UnmarshalJSON

VARIABLES
    rosPkgPath, \* the context is made from what it holds, when it is first needed
    pubType, subType,   \* each side's type, and the path it was loaded from
    msg,        \* the program's message, made by it or last got by its callback
    wire,       \* the payload in flight, if any, and the message it was written from
    outcome,    \* the result of the last call
    paths, edits

vars == <<rosPkgPath, pubType, subType, msg, wire, outcome, paths, edits>>

Contexts == [path \in Paths |-> NewMsgContext(DefsOn[path])]
context == Contexts[rosPkgPath]

NoType == [spec |-> NoSpec, loaded |-> CHOOSE path \in Paths : TRUE]

Init ==
    /\ rosPkgPath \in Paths
    /\ pubType = NoType /\ subType = NoType
    /\ msg = NilMessage
    /\ wire = << >>
    /\ outcome = "ok"
    /\ paths = 0 /\ edits = 0

\* A panic ends the program, and a garbled read ends what is modelled.
Running == outcome \in {"ok", "error"}

\* SetRuntimePackagePath drops the context; types and messages stay as they are.
SetRuntimePackagePath(path) ==
    /\ Running /\ paths < MaxPaths /\ path # rosPkgPath
    /\ rosPkgPath' = path
    /\ paths' = paths + 1
    /\ outcome' = "ok"
    /\ UNCHANGED <<pubType, subType, msg, wire, edits>>

NewDynamicMessageType == [spec |-> LoadMsg(context, Topic), loaded |-> rosPkgPath]

\* A publisher or a subscriber with a newly loaded type.
NewPublisher ==
    /\ Running /\ NewDynamicMessageType.spec # NoSpec
    /\ pubType' = NewDynamicMessageType
    /\ msg' = NilMessage
    /\ wire' = << >>
    /\ outcome' = "ok"
    /\ UNCHANGED <<rosPkgPath, subType, paths, edits>>

NewSubscriber ==
    /\ Running /\ NewDynamicMessageType.spec # NoSpec
    /\ subType' = NewDynamicMessageType
    /\ wire' = << >>
    /\ outcome' = "ok"
    /\ UNCHANGED <<rosPkgPath, pubType, msg, paths, edits>>

MakeMessage ==
    /\ Running /\ pubType # NoType /\ wire = << >>
    /\ msg' = NewMessage(context, pubType.spec)
    /\ outcome' = "ok"
    /\ UNCHANGED <<rosPkgPath, pubType, subType, wire, paths, edits>>

Edit(document) ==
    /\ Running /\ msg # NilMessage /\ wire = << >> /\ edits < MaxEdits
    /\ \E r \in {UnmarshalJSON(context, msg[2], document)} :
          /\ msg' = <<"Message", r.m>>
          /\ outcome' = r.outcome
    /\ edits' = edits + 1
    /\ UNCHANGED <<rosPkgPath, pubType, subType, wire, paths>>

Connected == pubType # NoType /\ subType # NoType /\ pubType.spec.sum = subType.spec.sum

\* The error of Serialize is dropped and what was written until then is sent.
Publish ==
    /\ Running /\ Connected /\ msg # NilMessage /\ wire = << >>
    /\ \E r \in {Serialize(msg[2])} :
       /\ wire' = IF r.outcome = "panic" THEN << >>
                  ELSE << [stream |-> r.stream, sent |-> msg, whole |-> r.outcome = "ok"] >>
       /\ outcome' = IF r.outcome = "panic" THEN "panic" ELSE "ok"
    /\ UNCHANGED <<rosPkgPath, pubType, subType, msg, paths, edits>>

\* The job of a received message: its error is logged, and the callbacks get
\* the message all the same, then with nil data.
Receive ==
    /\ Running /\ wire # << >>
    /\ IF NewMessage(context, subType.spec) = NilMessage
       THEN outcome' = "panic" /\ UNCHANGED msg
       ELSE \E r \in {Deserialize(context, subType.spec, wire[1].stream)} :
            /\ msg' = IF r.outcome \in {"ok", "error"} THEN r.value ELSE msg
            /\ outcome' = r.outcome
    /\ wire' = << >>
    /\ UNCHANGED <<rosPkgPath, pubType, subType, paths, edits>>

Next ==
    \/ \E path \in Paths : SetRuntimePackagePath(path)
    \/ NewPublisher
    \/ NewSubscriber
    \/ MakeMessage
    \/ \E document \in Documents : Edit(document)
    \/ Publish
    \/ Receive

Spec == Init /\ [][Next]_vars

-----------------------------------------------------------------------------
(***************************************************************************)
(* What the properties say of a value.                                     *)
(***************************************************************************)

\* Every value has its field's type in the definitions d and nested messages
\* are of the nested types; with `sized', fixed arrays have their length too.
RECURSIVE WellTyped(_, _, _)
WellTypedItem(d, f, v, sized) ==
    /\ v[1] = ToGoType(f.type)
    /\ v[1] = "Message" => v[2].spec = Nested(d, f) /\ WellTyped(d, v[2], sized)
WellTyped(d, m, sized) ==
    /\ ~m.isNil
    /\ DOMAIN m.data = FieldNames(m.spec.fields)
    /\ \A n \in DOMAIN m.data :
          LET f == FieldNamed(m.spec.fields, n)
              v == m.data[n]
          IN IF f.isArray
             THEN /\ v[1] = "[]" /\ v[2] = ToGoType(f.type)
                  /\ sized /\ f.arrayLen >= 0 => Len(v[3]) = f.arrayLen
                  /\ \A i \in DOMAIN v[3] : WellTypedItem(d, f, v[3][i], sized)
             ELSE WellTypedItem(d, f, v, sized)

\* Nested messages have the types of the definitions d.
RECURSIVE Current(_, _)
Current(d, v) ==
    CASE v[1] = "Message" -> /\ v[2].spec = LoadMsg(d, v[2].spec.full)
                             /\ \A n \in DOMAIN v[2].data : Current(d, v[2].data[n])
      [] v[1] = "[]" -> \A i \in DOMAIN v[3] : Current(d, v[3][i])
      [] OTHER -> TRUE

\* A value without the types of its messages.
RECURSIVE Contents(_)
Contents(v) ==
    CASE v[1] = "Message" -> <<v[1], [n \in DOMAIN v[2].data |-> Contents(v[2].data[n])]>>
      [] v[1] = "[]" -> <<v[1], v[2], [i \in DOMAIN v[3] |-> Contents(v[3][i])]>>
      [] OTHER -> v

\* v is as sent, or an array of primitive zeros, or a message of such fields.
RECURSIVE ZeroPadded(_, _)
ZeroPadded(v, sent) ==
    CASE v[1] = "[]" -> \/ v = sent
                        \/ v[2] \in PrimitiveTypes /\ \A i \in DOMAIN v[3] : v[3][i] = Zero(v[2])
      [] v[1] = "Message" -> /\ sent[1] = "Message"
                             /\ \A n \in DOMAIN v[2].data :
                                   ZeroPadded(v[2].data[n], sent[2].data[n])
      [] OTHER -> v = sent

\* All nested definitions can be loaded, none is an array, and none is a
\* Header of a package that is not std_msgs.
RECURSIVE Plain(_, _)
Plain(d, spec) ==
    \A i \in DOMAIN spec.fields :
        LET f == spec.fields[i] IN
        f.pkg # "" => /\ ~f.isArray
                      /\ <<f.pkg, f.type>> \in DOMAIN d
                      /\ f.type = Header => f.pkg = HeaderFullName[1]
                      /\ Plain(d, Nested(d, f))

\* What JSON keeps of a value: bools in arrays come back false, texts with
\* characters to escape come back escaped, large array elements are cut.
RECURSIVE JSONImage(_)
JSONImage(v) ==
    CASE v[1] = "Message" -> <<v[1], [n \in DOMAIN v[2].data |-> JSONImage(v[2].data[n])]>>
      [] v[1] = "[]" ->
            <<v[1], v[2],
              [i \in DOMAIN v[3] |->
                  CASE v[2] = "bool" -> Zero("bool")
                    [] v[2] = "uint64" -> <<v[2], Narrow(v[2], ParseInt(<<"int", v[3][i][2]>>))>>
                    [] OTHER -> JSONImage(v[3][i])]>>
      [] v[1] = "string" -> <<v[1], Escaped(v[2])>>
      [] OTHER -> v

\* A uint64 field holds more than an int64 can.
RECURSIVE HoldsBig(_)
HoldsBig(v) ==
    CASE v[1] = "Message" -> \E n \in DOMAIN v[2].data : HoldsBig(v[2].data[n])
      [] v[1] = "[]" -> v[2] = "Message" /\ \E i \in DOMAIN v[3] : HoldsBig(v[3][i])
      [] OTHER -> v[1] = "uint64" /\ v[2] > MaxInt64

\* An array of messages that is not empty, at any depth.
RECURSIVE HoldsMessages(_)
HoldsMessages(v) ==
    CASE v[1] = "Message" -> \E n \in DOMAIN v[2].data : HoldsMessages(v[2].data[n])
      [] v[1] = "[]" -> v[2] = "Message" /\ v[3] # << >>
      [] OTHER -> FALSE

\* The JSON value follows the schema, but for the keys of a time, which the
\* schema has in small letters, and for special floats, which are strings.  No
\* value follows a schema with a schema for its kind, unless it is read as the
\* one that was meant.
RECURSIVE Conforms(_, _, _)
SchemaKey(k) == CASE k = "Sec" -> "sec" [] k = "NSec" -> "nsec" [] OTHER -> k
Conforms(json, schema, asMeant) ==
    CASE schema[1] = "object" ->
            /\ json[1] = "object"
            /\ \A i \in DOMAIN json[2] :
                  /\ SchemaKey(json[2][i][1]) \in DOMAIN schema[2]
                  /\ Conforms(json[2][i][2], schema[2][SchemaKey(json[2][i][1])], asMeant)
      [] schema[1] = "array" ->
            /\ json[1] = "array"
            /\ \A i \in DOMAIN json[2] : Conforms(json[2][i], schema[2], asMeant)
      [] schema[1] = "kind is a schema" -> asMeant /\ Conforms(json, schema[2], asMeant)
      [] schema[1] = "integer" -> json[1] = "number" /\ json[2][1] = "int"
      [] schema[1] = "number" ->
            json[1] = "number" \/ (json[1] = "string" /\ IsFloat(json[2]))
      [] schema[1] = "bool" -> json[1] = "boolean"
      [] OTHER -> json[1] = "string"

RECURSIVE InRange(_)
InRange(v) ==
    CASE v[1] = "Message" -> \A n \in DOMAIN v[2].data : InRange(v[2].data[n])
      [] v[1] = "[]" -> \A i \in DOMAIN v[3] : InRange(v[3][i])
      [] v[1] \in Signed -> v[2] \in -(2^(Bits[v[1]] - 1))..(2^(Bits[v[1]] - 1) - 1)
      [] v[1] \in IntTypes -> v[2] \in 0..(2^Bits[v[1]] - 1)
      [] OTHER -> TRUE

-----------------------------------------------------------------------------
(***************************************************************************)
(* Properties                                                              *)
(***************************************************************************)

\* Integers stay in the range of their Go type through JSON and the wire, and
\* a message without data holds none.
TypeOK ==
    /\ rosPkgPath \in Paths
    /\ \A t \in {pubType, subType} : t = NoType \/ (t.loaded \in Paths /\ t.spec.full = Topic)
    /\ outcome \in {"ok", "error", "panic", "garbled"}
    /\ paths \in 0..MaxPaths /\ edits \in 0..MaxEdits
    /\ Len(wire) <= 1
    /\ InRange(msg)
    /\ msg # NilMessage /\ msg[2].isNil => msg[2].data = << >>

\* Equal MD5 sums are enough to understand each other: a message well typed by
\* its publisher's definitions arrives as it was, if the subscriber's nested
\* definitions are those its type was loaded from.  For two sides with
\* different definitions this takes plain ones: the sum does not tell a nested
\* array from a single message, a foreign Header from the standard one, nor
\* one definition with a missing part from another (context.go:297-308).
ReceivedAsSent ==
    [][Len(wire') < Len(wire) /\ Receive
               /\ subType.loaded = rosPkgPath
               /\ wire[1].sent[2].spec = pubType.spec
               /\ WellTyped(Contexts[pubType.loaded], wire[1].sent[2], TRUE)
               /\ \/ pubType.loaded = subType.loaded
                  \/ Plain(Contexts[pubType.loaded], pubType.spec) /\ Plain(context, subType.spec)
          => outcome' = "ok" /\ Contents(msg') = Contents(wire[1].sent)]_vars

\* A message that could only be written in part is refused by its reader, or
\* what was not written reads as primitive arrays of zeros: the reads of their
\* elements are the only ones whose errors are dropped (dynamic_message.go:1153).
CutIsNoticed ==
    [][Len(wire') < Len(wire) /\ Receive
               /\ ~wire[1].whole /\ pubType.loaded = rosPkgPath /\ subType.loaded = rosPkgPath
               /\ Current(context, wire[1].sent)
          => outcome' \in {"error", "panic"} \/ ZeroPadded(msg', wire[1].sent)]_vars

\* A new message set from the JSON of a well-typed one holds what JSON keeps
\* of it, for every type, nesting and value but a uint64 beyond int64.
JSONRoundTrip ==
    (/\ msg # NilMessage
     /\ msg[2].spec = LoadMsg(context, Topic)
     /\ WellTyped(context, msg[2], TRUE)
     /\ ~HoldsBig(msg)) =>
        \E r \in {UnmarshalJSON(context, NewMessage(context, msg[2].spec)[2], MarshalJSON(msg[2])[2])} :
           r.outcome = "ok" /\ Contents(<<"Message", r.m>>) = JSONImage(msg)

\* The JSON of a well-typed message follows the schema generated for its type,
\* as MarshalJSON's comment asks (dynamic_message.go:342), but for the keys of
\* times and for special floats, exactly when no array of messages in it has an
\* element: the schema's items for those have an object for their "type"
\* (dynamic_message.go:263) and describe nothing.
JSONFollowsSchema ==
    (/\ msg # NilMessage
     /\ msg[2].spec = LoadMsg(context, Topic)
     /\ WellTyped(context, msg[2], FALSE)) =>
        (Conforms(MarshalJSON(msg[2]), <<"object", Properties(context, msg[2].spec)>>, FALSE)
            <=> ~HoldsMessages(msg))

\* A document that follows the schema, read as it was meant, leaves a
\* well-typed message well typed, the lengths of fixed arrays excepted, whether
\* or not it was taken in full.
SchemaKeepsTypes ==
    [][\A document \in Documents :
          /\ edits' # edits
          /\ msg # NilMessage
          /\ msg[2].spec = LoadMsg(context, Topic)
          /\ WellTyped(context, msg[2], FALSE)
          /\ Conforms(<<"object", document>>, <<"object", Properties(context, msg[2].spec)>>, TRUE)
          /\ Edit(document)
          => outcome' # "panic" /\ WellTyped(context, msg'[2], FALSE)]_vars
=============================================================================
