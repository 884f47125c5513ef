-------------------------------- MODULE Topic --------------------------------
(***************************************************************************)
(* A topic from Publish to the callbacks of its subscribers.  A message    *)
(* goes through the session of a publisher, the TCP connection of that     *)
(* session, and the reader of a subscription at its other end.  Each of    *)
(* the three stretches is a LossyFifo with one feed per connection:        *)
(* Publisher and Subscriber implement the first and the third.  The        *)
(* connection is external: it keeps order and repeats nothing, and what it *)
(* holds is lost when it breaks.                                           *)
(*                                                                         *)
(* Subscriber counts the messages of a connection as they are read,        *)
(* Publisher those of the topic as they are published.  Only the order of  *)
(* numbers matters to a LossyFifo, so Topic gives a message the            *)
(* publisher's number all the way.                                         *)
(***************************************************************************)
EXTENDS Naturals

CONSTANT Connection

VARIABLES
    published,   \* number of the last message fanned out to each connection
    queued,      \* numbers of the messages a session holds
    written,     \* number of the last message written to each connection
    underway,    \* numbers of the messages on each connection
    read,        \* number of the last message read from each connection
    held,        \* numbers of the messages on their way through the subscription
    handled      \* number of the last message its callbacks were called with

vars == <<published, queued, written, underway, read, held, handled>>

Session == INSTANCE LossyFifo WITH
    Feed <- Connection, offered <- published, transit <- queued, taken <- written

Wire == INSTANCE LossyFifo WITH
    Feed <- Connection, offered <- written, transit <- underway, taken <- read

Reader == INSTANCE LossyFifo WITH
    Feed <- Connection, offered <- read, transit <- held, taken <- handled

Init == Session!Init /\ Wire!Init /\ Reader!Init

\* A message leaves one stretch and enters the next, or is lost between them.
Write(c) ==
    /\ Session!Take(c)
    /\ Wire!Offer(c) \/ Wire!Skip
    /\ UNCHANGED <<read, held, handled>>

Read(c) ==
    /\ Wire!Take(c)
    /\ Reader!Offer(c) \/ Reader!Skip
    /\ UNCHANGED <<published, queued, written>>

\* A step inside one stretch, or at one end of the way.
Publish == Session!Next /\ UNCHANGED <<written, underway, read, held, handled>>
Break == Wire!Next /\ UNCHANGED <<published, queued, written, read, held, handled>>
Handle == Reader!Next /\ UNCHANGED <<published, queued, written, underway, read>>

Next == Publish \/ Break \/ Handle \/ \E c \in Connection : Write(c) \/ Read(c)

Spec == Init /\ [][Next]_vars

-----------------------------------------------------------------------------
(* What a topic promises *)

\* Published, and neither lost nor handed to the callbacks.
InTransit(c) == queued[c] \cup underway[c] \cup held[c]

Feeds == INSTANCE LossyFifo WITH
    Feed <- Connection, offered <- published, taken <- handled,
    transit <- [c \in Connection |-> InTransit(c)]

\* The whole way is one lossy feed per connection: callbacks get what was
\* published in that order, nothing twice and nothing that was not published.
DeliversFeed == Feeds!Spec
=============================================================================
