------------------------------ MODULE Temporal ------------------------------
(***************************************************************************)
(* Time and Duration arithmetic (src/ros/temporal.go, time.go and          *)
(* duration.go): seconds and nanoseconds kept apart in two uint32.  The    *)
(* types Time and Duration share the representation and the operations.    *)
(***************************************************************************)
EXTENDS Integers

CONSTANTS
    Giga,       \* nanoseconds in a second (1000000000 in the code)
    MaxUint32   \* largest value of a field (2^32 - 1 in the code)

ASSUME TemporalAssumption ==
    Giga \in Nat /\ Giga > 1 /\ MaxUint32 \in Nat /\ Giga <= MaxUint32

\* What Go's / and % by Giga yield: the quotient is truncated towards zero.
Quo(a) == IF a >= 0 THEN a \div Giga ELSE -((-a) \div Giga)
Rem(a) == IF a >= 0 THEN a % Giga ELSE -((-a) % Giga)

\* The panic "Time is out of range".
Panic == [sec |-> -1, nsec |-> -1]

Fields(sec, nsec) ==
    IF sec < 0 \/ sec > MaxUint32 THEN Panic ELSE [sec |-> sec, nsec |-> nsec]

\* Mutant: the negative remainder is not moved above zero.
Bug_normalizeTemporal(sec, nsec) ==
    IF nsec > Giga THEN Fields(sec + Quo(nsec), Rem(nsec))
    ELSE IF nsec < 0 THEN Fields(sec + Quo(nsec) - 1, Rem(nsec))
    ELSE Fields(sec, nsec)

normalizeTemporal(sec, nsec) ==
    IF nsec > Giga THEN Fields(sec + Quo(nsec), Rem(nsec))
    ELSE IF nsec < 0 THEN Fields(sec + Quo(nsec) - 1, Rem(nsec) + Giga)
    ELSE Fields(sec, nsec)

\* Nanoseconds of a value; the product fits 64 bits for all uint32 fields.
ToNSec(t) == t.sec * Giga + t.nsec

\* For counts below 2^63, where the conversion to int64 changes nothing.
FromNSec(n) == normalizeTemporal(0, n)

Add(t, d) == normalizeTemporal(t.sec + d.sec, t.nsec + d.nsec)
Sub(t, d) == normalizeTemporal(t.sec - d.sec, t.nsec - d.nsec)
Diff(t, from) == Sub(t, from)

\* Cmp, as the order it decides.
AtLeast(t, u) == ToNSec(t) >= ToNSec(u)

\* Values whose fields normalizeTemporal may return, and the proper ones: a
\* whole second of nanoseconds is left where it is.
Temporals == [sec : 0..MaxUint32, nsec : 0..Giga]
Proper == [sec : 0..MaxUint32, nsec : 0..(Giga - 1)]
=============================================================================
