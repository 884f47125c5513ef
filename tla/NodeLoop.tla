------------------------------ MODULE NodeLoop -------------------------------
(***************************************************************************)
(* What a node relies on of a loop goroutine it has started, be it a       *)
(* subscription's, a publisher's or a service server's.  The node sends    *)
(* it lists of publishers and tokens to end.  The loop takes the lists in  *)
(* their order, and one token: from then on it takes nothing, withdraws    *)
(* its registration, and returns.  Subscriber, Publisher and Service       *)
(* implement it, and Node's loops are built on it.                         *)
(***************************************************************************)
EXTENDS Naturals, Sequences

CONSTANTS
    List,      \* lists of publishers
    NoList,    \* what the loop works with before it has a list
    ListCap,   \* capacity of the channel of lists
    TokenCap,  \* capacity of the channel of tokens
    MayFail    \* the loop's listener may fail

VARIABLES
    state,     \* "running", "stopping" or "ended"
    tokens,    \* tokens in its shutdownChan
    lists,     \* its pubListChan
    seen       \* the list it works with

vars == <<state, tokens, lists, seen>>

Init == state = "running" /\ tokens = 0 /\ lists = <<>> /\ seen = NoList

Tell ==
    /\ tokens < TokenCap /\ tokens' = tokens + 1
    /\ UNCHANGED <<state, lists, seen>>

Send ==
    /\ Len(lists) < ListCap
    /\ \E v \in List : lists' = Append(lists, v)
    /\ UNCHANGED <<state, tokens, seen>>

Receive ==
    /\ state = "running" /\ lists # <<>>
    /\ seen' = Head(lists) /\ lists' = Tail(lists)
    /\ UNCHANGED <<state, tokens>>

Stop ==
    /\ state = "running" /\ tokens > 0
    /\ tokens' = tokens - 1 /\ state' = "stopping"
    /\ UNCHANGED <<lists, seen>>

\* The registration is withdrawn, or that failed.
End ==
    /\ state = "stopping" /\ state' = "ended"
    /\ UNCHANGED <<tokens, lists, seen>>

\* The loop's listener failed.
Fail ==
    /\ MayFail /\ state = "running" /\ state' = "ended"
    /\ UNCHANGED <<tokens, lists, seen>>

Next == Tell \/ Send \/ Receive \/ Stop \/ End \/ Fail

Spec == Init /\ [][Next]_vars
=============================================================================
