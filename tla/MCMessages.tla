----------------------------- MODULE MCMessages -----------------------------
(* A small instance of Messages: one type with a field of each kind, and the *)
(* ways in which another directory may define it.                            *)
EXTENDS Messages

Line(pkg, base, name) ==
    [pkg |-> pkg, base |-> base, isArray |-> FALSE, arrayLen |-> 0, name |-> name]
Array(base, len, name) ==
    [pkg |-> "", base |-> base, isArray |-> TRUE, arrayLen |-> len, name |-> name]

\* The 64-bit types have 12 bits and the others fewer, in order.
MCBits ==
    [go \in IntTypes |-> CASE go \in {"int8", "uint8"} -> 3
                           [] go \in {"int16", "uint16"} -> 5
                           [] go \in {"int32", "uint32"} -> 8
                           [] OTHER -> 12]

MCTopic == <<"p", "Top">>
Leaf == << Line("", "int8", "n"), Array("bool", 2, "flags") >>
TopWith(leaf) ==
    << Line("", Header, "header"), Line("", "uint64", "count"), Line("", "string", "text"),
       Array("byte", -1, "raw"), Line("", "float64", "ratio"), Array("uint64", -1, "counts"),
       leaf, Array("bool", 2, "flags") >>
Package(top, leaf) ==
    (MCTopic :> top) @@ (<<"p", "Leaf">> :> leaf) @@ (<<"q", "Leaf">> :> leaf)
        @@ (HeaderFullName :> << Line("", "time", "stamp") >>)

Base == Package(TopWith(Line("", "Leaf", "leaf")), Leaf)
MCDefsOn ==
    [base |-> Base,
     \* the same, from another package
     moved |-> Package(TopWith(Line("q", "Leaf", "leaf")), Leaf),
     \* a nested array, which leaves the sum as it is
     array |-> Package(TopWith(Array("Leaf", -1, "leaf")), Leaf),
     \* a fixed array that has become a dynamic one
     loose |-> Package(TopWith(Line("", "Leaf", "leaf")),
                       << Line("", "int8", "n"), Array("bool", -1, "flags") >>),
     \* a nested definition missing
     torn |-> [n \in DOMAIN Base \ {<<"p", "Leaf">>} |-> Base[n]]]
MCPaths == DOMAIN MCDefsOn

Int1(n) == <<"number", <<"int", n>>>>
Text(t) == <<"string", <<"plain", t>>>>
Stamp(sec, nsec) == <<"object", << <<sec, Int1(3)>>, <<nsec, Int1(4)>> >>>>
LeafDoc(v) == <<"object", << <<"n", v>> >>>>
Bools == <<"array", << <<"boolean", TRUE>>, <<"boolean", FALSE>> >>>>

MCDocuments ==
    { << <<"count", Int1(5)>>, <<"text", Text("abc")>>, <<"flags", Bools>> >>,
      << <<"count", Int1(-1)>> >>, << <<"count", <<"number", <<"frac", 1>>>>>> >>,
      << <<"header", <<"object", << <<"stamp", Stamp("Sec", "NSec")>> >>>>>>,
         <<"ratio", <<"number", <<"frac", 1>>>>>>, <<"leaf", LeafDoc(Int1(5))>> >>,
      << <<"header", <<"object", << <<"stamp", Stamp("sec", "nsec")>> >>>>>>,
         <<"ratio", Text("nan")>> >>,
      << <<"text", <<"string", <<"quoted", "q">>>>>>, <<"leaf", LeafDoc(<<"boolean", TRUE>>)>> >>,
      << <<"raw", <<"string", <<"base64", <<1, 2>>>>>>>> >>,
      << <<"text", Text("")>>, <<"nope", Int1(1)>>, <<"count", Int1(2)>> >>,
      << <<"raw", <<"array", <<Int1(9), Int1(1)>>>>>>, <<"counts", <<"array", <<Int1(-1), Int1(4)>>>>>> >>,
      << <<"leaf", <<"array", <<LeafDoc(Int1(1)), LeafDoc(Text("x"))>>>>>> >>,
      << <<"leaf", <<"array", <<LeafDoc(Int1(2))>>>>>>, <<"count", Int1(6)>> >>,
      << <<"flags", Text("abc")>> >>, << <<"text", Int1(1)>>, <<"ratio", Text("abc")>> >>,
      << <<"text", <<"boolean", TRUE>>>> >>, << <<"flags", <<"array", << <<"boolean", TRUE>> >>>>>> >>,
      << <<"counts", <<"array", << Text("abc") >>>>>> >>, << <<"leaf", <<"null", 0>>>> >>,
      << <<"leaf", LeafDoc(Int1(-1))>>, <<"counts", Text("abc")>> >> }
=============================================================================
