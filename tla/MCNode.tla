------------------------------- MODULE MCNode --------------------------------
(* Node for TLC: the names of the runs.  The node is /ns/rosgo. *)
EXTENDS Node

RosgoWords == <<"ns", "rosgo">>

\* "chatter" and "/other" swapped on the command line.
SwapMapping ==
    {<<Relative(<<"chatter">>), Global(<<"other">>)>>,
     <<Global(<<"other">>), Relative(<<"chatter">>)>>}
SwapNames == {Relative(<<"chatter">>)}
=============================================================================
