--------------------------- MODULE DynamicMessage ---------------------------
(***************************************************************************)
(* Messages whose type is loaded at run time (ros/dynamic_message.go).     *)
(*                                                                         *)
(* A Go value is tagged with its type: <<goType, v>> for a scalar,         *)
(* <<"[]", goType, items>> for a slice, <<"Message", m>> for a nested      *)
(* message, NilMessage for a nil one.  A message m is                      *)
(* [spec, isNil, data]: isNil says that the data map is nil.               *)
(*                                                                         *)
(* Abstractions: a text is <<form, content>>, and of its length only       *)
(* empty or not is kept; a float is a literal, never rounded; integers     *)
(* have Bits[goType] bits, which an instance may scale down in order.      *)
(* The call results: "ok"; "error"; "panic", which ends the program; and   *)
(* "garbled", a read of bytes that were written as another type, which the *)
(* model does not follow further.                                          *)
(***************************************************************************)
EXTENDS MsgContext, SequencesExt, FiniteSetsExt

CONSTANT Bits

ASSUME BitsAssumption ==
    /\ Bits \in [IntTypes -> Nat \ {0}]
    /\ \A w \in {<<"int8", "uint8">>, <<"int16", "uint16">>, <<"int32", "uint32">>,
                 <<"int64", "uint64">>} : Bits[w[1]] = Bits[w[2]]
    /\ Bits["int8"] < Bits["int16"] /\ Bits["int16"] < Bits["int32"]
    /\ Bits["int32"] < Bits["int64"]

EmptyText == <<"plain", "">>
NilMessage == <<"nil", 0>>
Signed == {"int8", "int16", "int32", "int64"}
MaxInt64 == 2^(Bits["int64"] - 1) - 1

\* Mutant: the conversion is the identity.
Bug_Narrow_Wide(go, n) == n

\* Go's conversion from int64 to a narrower or an unsigned type.
Narrow(go, n) ==
    LET size == 2^Bits[go]
        half == IF go \in Signed THEN size \div 2 ELSE 0
    IN ((n + half) % size) - half

Zero(go) ==
    <<go, CASE go \in IntTypes -> 0
            [] go \in FloatTypes -> <<"int", 0>>
            [] go \in TimeTypes -> <<0, 0>>
            [] go = "bool" -> FALSE
            [] go = "string" -> EmptyText>>

FieldNames(fields) == {fields[i].name : i \in DOMAIN fields}
FieldNamed(fields, n) == fields[CHOOSE i \in DOMAIN fields : fields[i].name = n]

(***************************************************************************)
(* New messages.  The data follows the definition found NOW under the      *)
(* type's name, which need not be the type's own.                          *)
(***************************************************************************)
RECURSIVE NewMessage(_, _)

NeedsNested(f) == ~isBuiltinType(f.type) /\ (~f.isArray \/ f.arrayLen > 0)

ZeroField(f, item) ==
    IF f.isArray THEN <<"[]", ToGoType(f.type), [i \in 1..f.arrayLen |-> item]>> ELSE item

zeroValueData(context, fields) ==
    [n \in FieldNames(fields) |->
        LET f == FieldNamed(fields, n) IN
        ZeroField(f, IF isBuiltinType(f.type) THEN Zero(ToGoType(f.type))
                     ELSE NewMessage(context, Nested(context, f)))]

CanZero(context, fields) ==
    \A i \in DOMAIN fields : NeedsNested(fields[i]) => Nested(context, fields[i]) # NoSpec

NewMessage(context, spec) ==
    LET now == LoadMsg(context, spec.full) IN
    IF now = NoSpec \/ ~CanZero(context, now.fields) THEN NilMessage
    ELSE <<"Message", [spec |-> spec, isNil |-> FALSE, data |-> zeroValueData(context, now.fields)]>>

(***************************************************************************)
(* Writing: a result is [outcome, stream], and a stream keeps what was     *)
(* written before a failure.  A stream is a sequence of tagged values.     *)
(***************************************************************************)
Wrote(stream) == [outcome |-> "ok", stream |-> stream]
Fails(outcome) == [outcome |-> outcome, stream |-> << >>]

\* One result after the other, up to the first that fails.
InTurn(results) ==
    LET Join(r, next) == IF r.outcome # "ok" THEN r
                         ELSE [outcome |-> next.outcome, stream |-> r.stream \o next.stream]
    IN FoldLeft(Join, Wrote(<< >>), results)

WriteBuiltin(item) ==
    CASE item[1] = "string" ->
            IF item[2] = EmptyText THEN Wrote(<< <<"uint32", 0>> >>)
            ELSE Wrote(<< <<"uint32", 1>>, <<"bytes", item[2]>> >>)
      [] item[1] \in TimeTypes ->
            Wrote(<< <<"uint32", item[2][1]>>, <<"uint32", item[2][2]>> >>)
      [] OTHER -> Wrote(<< item >>)

RECURSIVE Serialize(_)

\* An item must have the field's own type; the error message of a nil one panics.
WriteItem(f, item) ==
    CASE item = NilMessage -> Fails("panic")
      [] item[1] # ToGoType(f.type) -> Fails("error")
      [] isBuiltinType(f.type) -> WriteBuiltin(item)
      [] OTHER -> IF item[2].spec.full[2] # f.type THEN Fails("error")
                  ELSE Serialize(item[2])

\* reflect indexes slices and strings, whose elements are bytes; all else panics.
WriteArray(f, array) ==
    LET items == CASE array[1] = "[]" -> array[3]
                   [] array[1] = "string" ->
                        IF array[2] = EmptyText THEN << >> ELSE << Zero("uint8") >>
                   [] OTHER -> << >>
        size == IF f.arrayLen < 0 THEN Len(items) ELSE f.arrayLen
        length == IF f.arrayLen < 0 THEN << Wrote(<< <<"uint32", size>> >>) >> ELSE << >>
    IN IF array[1] \notin {"[]", "string"} /\ f.arrayLen # 0 THEN Fails("panic")
       ELSE InTurn(length \o [i \in 1..size |-> IF i \in DOMAIN items THEN WriteItem(f, items[i])
                                                ELSE Fails("panic")])

Serialize(m) ==
    InTurn([i \in DOMAIN m.spec.fields |->
              LET f == m.spec.fields[i] IN
              IF m.isNil \/ f.name \notin DOMAIN m.data THEN Fails("error")
              ELSE IF f.isArray THEN WriteArray(f, m.data[f.name])
              ELSE WriteItem(f, m.data[f.name])])

(***************************************************************************)
(* Reading: a result is [outcome, rest, value], and a reader takes the     *)
(* result before it, so that reads are chained by folds.                   *)
(***************************************************************************)
Refused(r, outcome) == [r EXCEPT !.outcome = outcome]

\* One fixed-size value, as binary.Read.
Read(go, rest) ==
    IF rest = << >> THEN [outcome |-> "error", rest |-> << >>, value |-> Zero(go)]
    ELSE [outcome |-> IF Head(rest)[1] = go THEN "ok" ELSE "garbled",
          rest |-> Tail(rest), value |-> Head(rest)]

\* A primitive element of an array: the error of the read is not looked at.
ReadElement(go, rest) ==
    IF rest = << >> THEN Refused(Read(go, rest), "ok") ELSE Read(go, rest)

ReadString(rest) ==
    LET size == Read("uint32", rest) IN
    IF size.outcome # "ok" THEN size
    ELSE IF size.value[2] = 0 THEN [size EXCEPT !.value = Zero("string")]
    ELSE IF size.rest = << >> THEN Refused(size, "error")
    ELSE [outcome |-> IF Head(size.rest)[1] = "bytes" THEN "ok" ELSE "garbled",
          rest |-> Tail(size.rest), value |-> <<"string", Head(size.rest)[2]>>]

\* Mutant: the two halves of a time are read in the other order.
Bug_ReadTime_Swapped(go, rest) ==
    LET nsec == Read("uint32", rest)
        sec == Read("uint32", nsec.rest)
    IN IF nsec.outcome # "ok" THEN nsec
       ELSE [sec EXCEPT !.value = <<go, <<sec.value[2], nsec.value[2]>>>>]

ReadTime(go, rest) ==
    LET sec == Read("uint32", rest)
        nsec == Read("uint32", sec.rest)
    IN IF sec.outcome # "ok" THEN sec
       ELSE [nsec EXCEPT !.value = <<go, <<sec.value[2], nsec.value[2]>>>>]

RECURSIVE Deserialize(_, _, _)

\* A message of the type that the nested definition has NOW.
ReadNested(context, spec, rest) ==
    LET failed == [outcome |-> "error", rest |-> rest, value |-> NilMessage] IN
    IF spec = NoSpec THEN failed
    ELSE IF NewMessage(context, spec) = NilMessage THEN Refused(failed, "panic")
    ELSE Deserialize(context, spec, rest)

\* Mutant: the error of reading a scalar is not looked at.
Bug_ReadItem_Lenient(context, f, rest) ==
    LET go == ToGoType(f.type) IN
    CASE go = "Message" -> ReadNested(context, Nested(context, f), rest)
      [] go = "string" -> ReadString(rest)
      [] go \in TimeTypes -> ReadTime(go, rest)
      [] OTHER -> ReadElement(go, rest)

ReadItem(context, f, rest) ==
    LET go == ToGoType(f.type) IN
    CASE go = "Message" -> ReadNested(context, Nested(context, f), rest)
      [] go = "string" -> ReadString(rest)
      [] go \in TimeTypes -> ReadTime(go, rest)
      [] OTHER -> Read(go, rest)

ReadArrayItem(context, f, rest) ==
    IF ToGoType(f.type) \in PrimitiveTypes THEN ReadElement(ToGoType(f.type), rest)
    ELSE ReadItem(context, f, rest)

ReadLength(f, rest) ==
    IF f.arrayLen < 0 THEN Read("uint32", rest)
    ELSE [outcome |-> "ok", rest |-> rest, value |-> <<"uint32", f.arrayLen>>]

ReadItems(context, f, size) ==
    LET AddItem(r, item) == [item EXCEPT !.value = <<r[1], r[2], Append(r[3], item.value)>>]
        NextItem(r, i) == IF r.outcome # "ok" THEN r
                          ELSE AddItem(r.value, ReadArrayItem(context, f, r.rest))
    IN FoldLeft(NextItem, [size EXCEPT !.value = <<"[]", ToGoType(f.type), << >>>>],
                [i \in 1..size.value[2] |-> i])

ReadArray(context, f, size) ==
    IF size.outcome # "ok" THEN size ELSE ReadItems(context, f, size)

ReadField(context, f, rest) ==
    IF f.isArray THEN ReadArray(context, f, ReadLength(f, rest)) ELSE ReadItem(context, f, rest)

\* The data is set only when every field has been read.
SetData(spec, last) ==
    LET set == last.outcome = "ok"
    IN [last EXCEPT !.value = <<"Message", [spec |-> spec, isNil |-> ~set,
                                            data |-> IF set THEN last.value ELSE << >>]>>]

Deserialize(context, spec, stream) ==
    LET AddField(data, n, read) == [read EXCEPT !.value = (n :> read.value) @@ data]
        NextField(r, f) == IF r.outcome # "ok" THEN r
                           ELSE AddField(r.value, f.name, ReadField(context, f, r.rest))
    IN SetData(spec, FoldLeft(NextField, [outcome |-> "ok", rest |-> stream, value |-> << >>],
                              spec.fields))

(***************************************************************************)
(* JSON.  A JSON value is <<kind, v>>: a number's v is a literal           *)
(* <<"int", n>> or <<"frac", n>>, an object's a sequence of <<key, value>>.*)
(***************************************************************************)
Escaped(text) == IF text[1] = "quoted" THEN <<"escaped", text[2]>> ELSE text
Base64(bytes) == IF bytes = << >> THEN EmptyText ELSE <<"base64", bytes>>
NaN == <<"special", "nan">>

RECURSIVE ToJSON(_)
MarshalJSON(m) ==
    IF m.isNil THEN <<"null", 0>>
    ELSE LET AddKey(k, object) == Append(object, <<k, ToJSON(m.data[k])>>)
         IN <<"object", FoldSet(AddKey, << >>, DOMAIN m.data)>>

ToJSON(v) ==
    CASE v = NilMessage -> <<"null", 0>>
      [] v[1] = "Message" -> MarshalJSON(v[2])
      [] v[1] = "[]" -> IF v[2] = "uint8" THEN <<"string", Base64([i \in DOMAIN v[3] |-> v[3][i][2]])>>
                        ELSE <<"array", [i \in DOMAIN v[3] |-> ToJSON(v[3][i])]>>
      [] v[1] \in FloatTypes -> IF v[2] = NaN THEN <<"string", <<"plain", "nan">>>>
                                ELSE <<"number", v[2]>>
      [] v[1] \in IntTypes -> <<"number", <<"int", v[2]>>>>
      [] v[1] \in TimeTypes -> <<"object", << <<"NSec", <<"number", <<"int", v[2][2]>>>>>>,
                                              <<"Sec", <<"number", <<"int", v[2][1]>>>>>> >>>>
      [] v[1] = "bool" -> <<"boolean", v[2]>>
      [] v[1] = "string" -> <<"string", Escaped(v[2])>>

\* jsonparser.GetInt and strconv.ParseInt on a literal, the latter with its
\* error dropped: zero for what is no integer, the nearest for one too large.
IsInt64(literal) == literal[1] = "int" /\ literal[2] \in (-MaxInt64 - 1)..MaxInt64
ParseInt(literal) ==
    IF literal[1] # "int" THEN 0
    ELSE IF literal[2] > MaxInt64 THEN MaxInt64
    ELSE IF literal[2] < -MaxInt64 - 1 THEN -MaxInt64 - 1 ELSE literal[2]
IsFloat(text) == text = <<"plain", "nan">>
ParseFloat(text) == IF IsFloat(text) THEN NaN ELSE <<"int", 0>>

\* Mutant: the two keys of a time are taken for each other.
Bug_TimeOf_Swapped(go, object) ==
    LET Whole(key) == SelectSeq(object, LAMBDA e : /\ e[1] = key /\ e[2][1] = "number"
                                                   /\ IsInt64(e[2][2]))
        Value(found) == IF found = << >> THEN 0 ELSE Narrow("uint32", found[1][2][2][2])
    IN <<go, IF Whole("NSec") = << >> THEN <<0, 0>> ELSE <<Value(Whole("NSec")), Value(Whole("Sec"))>>>>

\* Only a missing or wrong NSec is noticed: then both are left zero.
TimeOf(go, object) ==
    LET Whole(key) == SelectSeq(object, LAMBDA e : /\ e[1] = key /\ e[2][1] = "number"
                                                   /\ IsInt64(e[2][2]))
        Value(found) == IF found = << >> THEN 0 ELSE Narrow("uint32", found[1][2][2][2])
    IN <<go, IF Whole("NSec") = << >> THEN <<0, 0>> ELSE <<Value(Whole("Sec")), Value(Whole("NSec"))>>>>

RECURSIVE UnmarshalJSON(_, _, _)

\* A new nested message set from an object: [outcome, m].
NewFromJSON(context, spec, object) ==
    LET Set(new) == IF new = NilMessage THEN Fails("panic")
                    ELSE UnmarshalJSON(context, new[2], object)
    IN IF spec = NoSpec THEN Fails("missing") ELSE Set(NewMessage(context, spec))

\* An element of an array of messages is appended whatever its unmarshalling
\* came to; if the type is not found, making the element panics.
ElementMessage(r) ==
    IF r.outcome \in {"panic", "missing"} THEN Fails("panic")
    ELSE Wrote(<< <<"Message", r.m>> >>)

\* One element of a JSON array: [outcome, stream], the stream being what is
\* appended.  Appending to a slice of another type panics.
ArrayElement(context, f, v) ==
    LET go == ToGoType(f.type) IN
    CASE v[1] = "string" ->
            IF go \in FloatTypes THEN Wrote(<< <<go, ParseFloat(v[2])>> >>)
            ELSE IF go = "string" THEN Wrote(<< <<go, v[2]>> >>) ELSE Fails("panic")
      [] v[1] = "number" ->
            CASE go \in FloatTypes -> Wrote(<< <<go, v[2]>> >>)
              [] go \in IntTypes -> Wrote(<< <<go, Narrow(go, ParseInt(v[2]))>> >>)
              [] OTHER -> Wrote(<< >>)
      [] v[1] = "boolean" ->
            IF go = "bool" THEN Wrote(<< <<go, FALSE>> >>) ELSE Fails("panic")
      [] v[1] = "object" ->
            IF go \in TimeTypes THEN Wrote(<< TimeOf(go, v[2]) >>)
            ELSE ElementMessage(NewFromJSON(context, Nested(context, f), v[2]))
      [] OTHER -> Wrote(<< >>)

\* One key of an object: [outcome, stored], where stored holds the values put
\* into the field: none or one, and one even on the error of a bad float.
Stored(v) == [outcome |-> "ok", stored |-> << v >>]
Untouched(outcome) == [outcome |-> outcome, stored |-> << >>]

\* Mutant: byte arrays are not told from other strings.
Bug_StringField_Raw(go, text) ==
    IF go \in FloatTypes
    THEN [Stored(<<go, ParseFloat(text)>>) EXCEPT !.outcome = IF IsFloat(text) THEN "ok" ELSE "error"]
    ELSE Stored(<<"string", text>>)

\* A string is Base64 for bytes, a special float, or a text for all else.
StringField(go, text) ==
    CASE go = "uint8" ->
            CASE text = EmptyText -> Stored(<<"[]", go, << >>>>)
              [] text[1] = "base64" -> Stored(<<"[]", go, [i \in DOMAIN text[2] |-> <<go, text[2][i]>>]>>)
              [] OTHER -> Untouched("error")
      [] go \in FloatTypes ->
            [Stored(<<go, ParseFloat(text)>>) EXCEPT !.outcome = IF IsFloat(text) THEN "ok" ELSE "error"]
      [] OTHER -> Stored(<<"string", text>>)

NumberField(go, literal) ==
    CASE go \in FloatTypes -> Stored(<<go, literal>>)
      [] ~IsInt64(literal) -> Untouched("error")
      [] go \in IntTypes -> Stored(<<go, Narrow(go, literal[2])>>)
      [] OTHER -> Untouched("ok")

MessageField(r) ==
    CASE r.outcome = "ok" -> Stored(<<"Message", r.m>>)
      [] r.outcome = "missing" -> Untouched("error")
      [] OTHER -> Untouched(r.outcome)

ArrayField(go, all) == [outcome |-> all.outcome, stored |-> << <<"[]", go, all.stream>> >>]

ObjectField(context, f, v) ==
    LET go == ToGoType(f.type) IN
    CASE v[1] = "string" -> StringField(go, v[2])
      [] v[1] = "number" -> NumberField(go, v[2])
      [] v[1] = "boolean" -> Stored(<<"bool", v[2]>>)
      [] v[1] = "object" ->
            IF go \in TimeTypes THEN Stored(TimeOf(go, v[2]))
            ELSE MessageField(NewFromJSON(context, Nested(context, f), v[2]))
      [] v[1] = "array" ->
            ArrayField(go, InTurn([i \in DOMAIN v[2] |-> ArrayElement(context, f, v[2][i])]))
      [] OTHER -> Untouched("ok")

StoreField(m, n, set) ==
    CASE set.stored = << >> -> [outcome |-> set.outcome, m |-> m]
      [] m.isNil -> [outcome |-> "panic", m |-> m]
      [] OTHER -> [outcome |-> set.outcome, m |-> [m EXCEPT !.data = (n :> set.stored[1]) @@ @]]

\* Keys are taken in turn up to the first error: those before it stay changed.
UnmarshalJSON(context, m, object) ==
    LET NextKey(r, entry) ==
            IF r.outcome # "ok" THEN r
            ELSE IF entry[1] \notin FieldNames(m.spec.fields) THEN [r EXCEPT !.outcome = "error"]
            ELSE StoreField(r.m, entry[1],
                            ObjectField(context, FieldNamed(m.spec.fields, entry[1]), entry[2]))
    IN FoldLeft(NextKey, [outcome |-> "ok", m |-> m], object)

(***************************************************************************)
(* The JSON schema of a type: a function from keys to <<kind>> or          *)
(* <<kind, inner>>, when all nested definitions are found.  The items of   *)
(* an array of messages get no such schema: theirs has the schema of the   *)
(* messages where the name of a kind belongs (dynamic_message.go:263).     *)
(***************************************************************************)
RECURSIVE Properties(_, _)

BuiltinSchema(go) ==
    CASE go \in IntTypes -> <<"integer">>
      [] go \in FloatTypes -> <<"number">>
      [] go \in TimeTypes -> <<"object", [k \in {"sec", "nsec"} |-> <<"integer">>]>>
      [] OTHER -> <<go>>

NestedSchema(context, f) == <<"object", Properties(context, Nested(context, f))>>
IsNested(f) == ToGoType(f.type) = "Message"

ItemSchema(context, f) ==
    IF IsNested(f) THEN <<"kind is a schema", NestedSchema(context, f)>>
    ELSE BuiltinSchema(ToGoType(f.type))

ScalarSchema(context, f) ==
    IF IsNested(f) THEN NestedSchema(context, f) ELSE BuiltinSchema(ToGoType(f.type))

\* Mutant: byte arrays are not told from other arrays.
Bug_FieldSchema_Bytes(context, f) ==
    IF f.isArray THEN <<"array", ItemSchema(context, f)>> ELSE ScalarSchema(context, f)

FieldSchema(context, f) ==
    CASE f.isArray /\ ToGoType(f.type) = "uint8" -> <<"string">>
      [] f.isArray -> <<"array", ItemSchema(context, f)>>
      [] OTHER -> ScalarSchema(context, f)

Properties(context, spec) ==
    [n \in FieldNames(spec.fields) |-> FieldSchema(context, FieldNamed(spec.fields, n))]
=============================================================================
