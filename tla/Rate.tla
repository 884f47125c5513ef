-------------------------------- MODULE Rate --------------------------------
(***************************************************************************)
(* A Rate (src/ros/rate.go): a loop that calls Sleep once per cycle, and   *)
(* the wall clock it reads.  Nanoseconds are counted one by one.  A sleep  *)
(* is measured by the monotonic clock, start and end by the wall clock,    *)
(* which may be stepped back.  stepped is a history variable.              *)
(***************************************************************************)
EXTENDS Temporal

CONSTANTS
    Periods,    \* expected cycle times, in nanoseconds
    MaxClock    \* bound: the largest reading of the wall clock

ASSUME RateAssumption ==
    /\ Periods \subseteq Nat
    /\ \A n \in Periods : n \div Giga <= MaxUint32
    /\ MaxClock \in Nat /\ MaxClock \div Giga <= MaxUint32

VARIABLES
    phase,      \* the loop body runs, Sleep sleeps, or Sleep panicked
    clock,      \* the wall clock
    stepped,    \* the clock was stepped back in the current cycle
    left,       \* time left to sleep
    start, expected, actual     \* the fields of the Rate

vars == <<phase, clock, stepped, left, start, expected, actual>>

\* Readings of the wall clock: any time after the first second of 1970.
Clock == (Giga + 1)..MaxClock

Now == FromNSec(clock)
Zero == [sec |-> 0, nsec |-> 0]

\* NewRate and CycleTime: a cycle starts now.
Init ==
    /\ phase = "body" /\ clock \in Clock /\ stepped = FALSE /\ left = 0
    /\ start = FromNSec(clock)
    /\ expected \in {FromNSec(n) : n \in Periods}
    /\ actual = Zero

Tick ==
    /\ phase # "panic" /\ clock < MaxClock
    /\ clock' = clock + 1
    /\ left' = IF left > 0 THEN left - 1 ELSE 0
    /\ UNCHANGED <<phase, stepped, start, expected, actual>>

StepBack ==
    /\ phase # "panic"
    /\ \E t \in Clock : t < clock /\ clock' = t
    /\ stepped' = TRUE
    /\ UNCHANGED <<phase, left, start, expected, actual>>

Reset ==
    /\ phase = "body"
    /\ actual' = Zero /\ start' = Now /\ stepped' = FALSE
    /\ UNCHANGED <<phase, clock, left, expected>>

\* Mutant: a body that took too long is not considered.
Bug_Remaining_Unguarded(diff) == Sub(expected, diff)

\* Mutant: the two durations swapped.
Bug_Remaining_Swapped(diff) ==
    IF AtLeast(diff, expected) THEN Sub(diff, expected) ELSE Zero

\* What Sleep has to wait for after a body that took diff.
Remaining(diff) == IF AtLeast(expected, diff) THEN Sub(expected, diff) ELSE Zero

\* Sleep up to its wait.
SleepStart ==
    /\ phase = "body"
    /\ LET diff == Diff(Now, start) IN
         IF diff = Panic \/ Remaining(diff) = Panic
           THEN phase' = "panic" /\ UNCHANGED left
           ELSE phase' = "sleep" /\ left' = ToNSec(Remaining(diff))
    /\ UNCHANGED <<clock, stepped, start, expected, actual>>

\* The wait is over; the cycle is measured and the next one starts.
SleepEnd ==
    /\ phase = "sleep" /\ left = 0
    /\ IF Diff(Now, start) = Panic
         THEN phase' = "panic" /\ UNCHANGED <<stepped, start, actual>>
         ELSE /\ phase' = "body" /\ stepped' = FALSE
              /\ actual' = Diff(Now, start) /\ start' = Now
    /\ UNCHANGED <<clock, left, expected>>

Next == Tick \/ StepBack \/ Reset \/ SleepStart \/ SleepEnd

Spec == Init /\ [][Next]_vars

-----------------------------------------------------------------------------
(* Properties *)

\* Types of all variables.
TypeOK ==
    /\ phase \in {"body", "sleep", "panic"} /\ clock \in Clock
    /\ stepped \in BOOLEAN /\ left \in Nat
    /\ start \in Temporals /\ expected \in Temporals /\ actual \in Temporals

\* A Sleep that returns ends a cycle in which the clock was stepped, or one at
\* least as long as expected, of which it reports exactly how long it was.
KeepsPeriod ==
    [][phase = "sleep" /\ phase' = "body" /\ ~stepped =>
         /\ ToNSec(actual') = ToNSec(start') - ToNSec(start)
         /\ ToNSec(start') >= ToNSec(start) + ToNSec(expected)]_vars

\* A Sleep never lasts longer than the expected cycle time.
SleepBounded == phase = "sleep" => left <= ToNSec(expected)

\* Sleep panics only when the wall clock was stepped back behind the start of the
\* cycle and has not caught up.
PanicsOnlyOnStep == phase = "panic" => stepped /\ clock < ToNSec(start)
=============================================================================
