----------------------------- MODULE MsgContext -----------------------------
(***************************************************************************)
(* Message definitions (libgengo/context.go, msgs.go, parser.go).          *)
(*                                                                         *)
(* A full name is a pair <<package, base>>.  What the package path holds   *)
(* is a function `defs' from full names to texts; a text is a sequence of  *)
(* field lines [pkg, base, isArray, arrayLen, name], where pkg is "" if    *)
(* the line does not write one and base is "" if the line is not legal.    *)
(* Constants are left out: they only make MD5 sums differ.  The registry   *)
(* of a context is a cache of what is loaded from files that do not change *)
(* under it, so loading is a function of defs.                             *)
(***************************************************************************)
EXTENDS Integers, Sequences

IntTypes == {"int8", "int16", "int32", "int64", "uint8", "uint16", "uint32", "uint64"}
FloatTypes == {"float32", "float64"}
TimeTypes == {"ros.Time", "ros.Duration"}
PrimitiveTypes == IntTypes \cup FloatTypes \cup {"bool"}

isBuiltinType(base) ==
    base \in PrimitiveTypes \cup {"string", "char", "byte", "time", "duration"}

\* The Go type of a field; every message type is "Message" here.
ToGoType(base) ==
    CASE base \in {"char", "byte"} -> "uint8"
      [] base = "time" -> "ros.Time"
      [] base = "duration" -> "ros.Duration"
      [] base \in PrimitiveTypes \cup {"string"} -> base
      [] OTHER -> "Message"

Header == "Header"
HeaderFullName == <<"std_msgs", Header>>

\* A line's type gets the package of its message, but for builtin types and
\* for Header, which is std_msgs' one; "Header[]" is not taken for Header.
loadFieldLine(line, package) ==
    LET pkg == IF line.pkg # "" \/ isBuiltinType(line.base) THEN line.pkg
               ELSE IF line.base = Header /\ ~line.isArray THEN HeaderFullName[1]
               ELSE package
    IN [pkg |-> pkg, type |-> line.base, name |-> line.name,
        isArray |-> line.isArray, arrayLen |-> IF line.isArray THEN line.arrayLen ELSE 0]

Loads(defs, full) ==
    full \in DOMAIN defs /\ \A i \in DOMAIN defs[full] : defs[full][i].base # ""

Fields(defs, full) == [i \in DOMAIN defs[full] |-> loadFieldLine(defs[full][i], full[1])]

\* Mutant: the array suffix does not reach the hash.
Bug_FieldText_NoSuffix(f) == <<f.type, f.name>>

\* What a builtin field adds to the text that is hashed.
FieldText(f) == <<f.type, f.isArray, f.arrayLen, f.name>>

\* The text that is hashed, which stands for the sum: the hash is taken to be
\* injective.  A nested definition counts by its own sum, without the array
\* suffix; if one cannot be loaded, the empty text is hashed and no error told.
RECURSIVE ComputeMD5Text(_, _)
ComputeMD5Text(defs, fields) ==
    IF \E i \in DOMAIN fields :
          fields[i].pkg # "" /\ ~Loads(defs, <<fields[i].pkg, fields[i].type>>)
    THEN << >>
    ELSE [i \in DOMAIN fields |->
             LET f == fields[i] IN
             IF f.pkg = "" THEN FieldText(f)
             ELSE <<ComputeMD5Text(defs, Fields(defs, <<f.pkg, f.type>>)), f.name>>]

NoSpec == [full |-> <<"", "">>, fields |-> << >>, sum |-> << >>]

\* The specifications a context can come to hold.
NewMsgContext(defs) ==
    [full \in {n \in DOMAIN defs : Loads(defs, n)} |->
        [full |-> full, fields |-> Fields(defs, full),
         sum |-> ComputeMD5Text(defs, Fields(defs, full))]]

\* The specification of a message type; NoSpec stands for an error.
LoadMsg(context, full) == IF full \in DOMAIN context THEN context[full] ELSE NoSpec

\* The type of a nested field: any type called Header is std_msgs' one.
Nested(context, f) ==
    LoadMsg(context, IF f.type = Header THEN HeaderFullName ELSE <<f.pkg, f.type>>)
=============================================================================
