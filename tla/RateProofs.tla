----------------------------- MODULE RateProofs -----------------------------
(***************************************************************************)
(* What the Time and Duration arithmetic computes, for every length of a   *)
(* second and every width of a field; and proofs about Rate: types for     *)
(* every clock and every expected cycle time, the rest for every one that  *)
(* is not one second exactly.                                              *)
(***************************************************************************)
EXTENDS Rate, TLAPS

-----------------------------------------------------------------------------
(* Arithmetic *)

\* Division of a natural number by Giga.
LEMMA DivMod ==
    ASSUME NEW a \in Nat
    PROVE  /\ a \div Giga \in Nat /\ a % Giga \in 0..(Giga - 1)
           /\ a = (a \div Giga) * Giga + (a % Giga)
BY TemporalAssumption

\* Go's quotient and remainder give the number back; the remainder lies on the
\* number's side of zero.
LEMMA QuoRem ==
    ASSUME NEW a \in Int
    PROVE  /\ Quo(a) \in Int /\ Rem(a) \in Int
           /\ a = Quo(a) * Giga + Rem(a)
           /\ a >= 0 => Rem(a) \in 0..(Giga - 1)
           /\ a < 0 => Rem(a) \in (-(Giga - 1))..0
<1>1. CASE a >= 0
  BY <1>1, DivMod, TemporalAssumption DEF Quo, Rem
<1>2. CASE a < 0
  <2>1. -a \in Nat
    BY <1>2
  <2> DEFINE q == (-a) \div Giga
             r == (-a) % Giga
  <2>2. q \in Nat /\ r \in 0..(Giga - 1) /\ -a = q * Giga + r
    BY <2>1, DivMod
  <2>3. Quo(a) = -q /\ Rem(a) = -r
    BY <1>2 DEF Quo, Rem
  <2> HIDE DEF q, r
  <2>4. (-q) * Giga = -(q * Giga)
    BY <2>2, TemporalAssumption
  <2> QED
    BY <1>2, <2>2, <2>3, <2>4, TemporalAssumption
<1> QED
  BY <1>1, <1>2

\* Nanoseconds as an integer expression, for values that need not be in range.
Value(sec, nsec) == sec * Giga + nsec

\* Whole seconds move between the fields without changing the value.
LEMMA Carry ==
    ASSUME NEW s \in Int, NEW q \in Int, NEW n \in Int
    PROVE  /\ Value(s + q, n) = Value(s, q * Giga + n)
           /\ Value(s + q - 1, n + Giga) = Value(s, q * Giga + n)
<1>1. (s + q) * Giga = s * Giga + q * Giga
  BY TemporalAssumption
<1>2. (s + q - 1) * Giga = s * Giga + q * Giga - Giga
  BY TemporalAssumption
<1>3. s * Giga \in Int /\ q * Giga \in Int
  BY TemporalAssumption
<1> QED
  BY <1>1, <1>2, <1>3, TemporalAssumption DEF Value

\* Seconds and nanoseconds normalizeTemporal checks and returns.
LEMMA Normalized ==
    ASSUME NEW sec \in Int, NEW nsec \in Int
    PROVE  \E s \in Int, n \in 0..Giga :
             /\ normalizeTemporal(sec, nsec) = Fields(s, n)
             /\ Value(s, n) = Value(sec, nsec)
             /\ nsec > -Giga /\ nsec # Giga => n < Giga
<1>1. /\ Quo(nsec) \in Int /\ Rem(nsec) \in Int
      /\ nsec = Quo(nsec) * Giga + Rem(nsec)
      /\ nsec >= 0 => Rem(nsec) \in 0..(Giga - 1)
      /\ nsec < 0 => Rem(nsec) \in (-(Giga - 1))..0
  BY QuoRem
<1>2. CASE nsec > Giga
  <2>1. Value(sec + Quo(nsec), Rem(nsec)) = Value(sec, nsec)
    BY <1>1, Carry
  <2>2. Rem(nsec) \in 0..Giga /\ Rem(nsec) < Giga
    BY <1>1, <1>2, TemporalAssumption
  <2>3. normalizeTemporal(sec, nsec) = Fields(sec + Quo(nsec), Rem(nsec))
    BY <1>2 DEF normalizeTemporal
  <2>4. sec + Quo(nsec) \in Int
    BY <1>1
  <2> QED
    BY <2>1, <2>2, <2>3, <2>4
<1>3. CASE nsec < 0
  <2>1. Value(sec + Quo(nsec) - 1, Rem(nsec) + Giga) = Value(sec, nsec)
    <3>1. PICK q \in Int, r \in Int :
            q = Quo(nsec) /\ r = Rem(nsec) /\ nsec = q * Giga + r
      BY <1>1
    <3>2. Value(sec + q - 1, r + Giga) = Value(sec, q * Giga + r)
      BY Carry
    <3> QED
      BY <3>1, <3>2
  <2>2. Rem(nsec) + Giga \in 0..Giga
    BY <1>1, <1>3, TemporalAssumption
  <2>3. normalizeTemporal(sec, nsec) = Fields(sec + Quo(nsec) - 1, Rem(nsec) + Giga)
    BY <1>3, TemporalAssumption DEF normalizeTemporal
  <2>4. sec + Quo(nsec) - 1 \in Int
    BY <1>1
  <2>5. nsec > -Giga => Rem(nsec) + Giga < Giga
    <3>1. SUFFICES ASSUME nsec > -Giga PROVE Rem(nsec) < 0
      BY <1>1, TemporalAssumption
    <3>2. CASE Rem(nsec) = 0
      <4>1. PICK q \in Int : nsec = q * Giga
        <5>1. PICK q \in Int, r \in Int : r = 0 /\ nsec = q * Giga + r
          BY <1>1, <3>2
        <5>2. q * Giga + 0 = q * Giga
          BY TemporalAssumption
        <5> QED
          BY <5>1, <5>2
      <4>2. ~(q >= 0)
        BY <1>3, <4>1, TemporalAssumption
      <4>3. q * Giga <= -Giga
        BY <4>2, TemporalAssumption
      <4> QED
        BY <3>1, <4>1, <4>3, TemporalAssumption
    <3> QED
      BY <1>1, <1>3, <3>2, TemporalAssumption
  <2> QED
    BY <2>1, <2>2, <2>3, <2>4, <2>5
<1>4. CASE nsec \in 0..Giga
  <2>1. normalizeTemporal(sec, nsec) = Fields(sec, nsec)
    BY <1>4, TemporalAssumption DEF normalizeTemporal
  <2> QED
    BY <1>4, <2>1, TemporalAssumption
<1> QED
  BY <1>2, <1>3, <1>4, TemporalAssumption

\* normalizeTemporal keeps the value: unless it panics, it returns fields in
\* range that count as many nanoseconds as its arguments.
THEOREM NormalizeKeepsValue ==
    ASSUME NEW sec \in Int, NEW nsec \in Int, normalizeTemporal(sec, nsec) # Panic
    PROVE  /\ normalizeTemporal(sec, nsec) \in Temporals
           /\ ToNSec(normalizeTemporal(sec, nsec)) = Value(sec, nsec)
<1>1. PICK s \in Int, n \in 0..Giga :
        /\ normalizeTemporal(sec, nsec) = Fields(s, n)
        /\ Value(s, n) = Value(sec, nsec)
  BY Normalized
<1>2. s \in 0..MaxUint32 /\ normalizeTemporal(sec, nsec) = [sec |-> s, nsec |-> n]
  BY <1>1, TemporalAssumption DEF Fields
<1> QED
  BY <1>1, <1>2 DEF Temporals, ToNSec, Value

\* Add (time.go, duration.go) counts the nanoseconds of both operands exactly,
\* unless the sum is out of range and it panics.
THEOREM AddExact ==
    ASSUME NEW t \in Temporals, NEW d \in Temporals, Add(t, d) # Panic
    PROVE  Add(t, d) \in Temporals /\ ToNSec(Add(t, d)) = ToNSec(t) + ToNSec(d)
<1>1. t.sec \in Int /\ t.nsec \in Int /\ d.sec \in Int /\ d.nsec \in Int
  BY TemporalAssumption DEF Temporals
<1>2. t.sec + d.sec \in Int /\ t.nsec + d.nsec \in Int
  BY <1>1
<1>3. /\ Add(t, d) \in Temporals
      /\ ToNSec(Add(t, d)) = Value(t.sec + d.sec, t.nsec + d.nsec)
  BY <1>2, NormalizeKeepsValue DEF Add
<1>4. (t.sec + d.sec) * Giga = t.sec * Giga + d.sec * Giga
  BY <1>1, TemporalAssumption
<1>5. t.sec * Giga \in Int /\ d.sec * Giga \in Int
  BY <1>1, TemporalAssumption
<1> QED
  BY <1>1, <1>3, <1>4, <1>5 DEF Value, ToNSec

\* The difference of two proper values, the larger first, is exact, proper and
\* computed without a panic.
THEOREM SubExact ==
    ASSUME NEW t \in Proper, NEW u \in Proper, AtLeast(t, u)
    PROVE  /\ Sub(t, u) \in Proper
           /\ ToNSec(Sub(t, u)) = ToNSec(t) - ToNSec(u)
<1> DEFINE ds == t.sec - u.sec
           dn == t.nsec - u.nsec
<1>1. /\ t.sec \in 0..MaxUint32 /\ u.sec \in 0..MaxUint32
      /\ t.nsec \in 0..(Giga - 1) /\ u.nsec \in 0..(Giga - 1)
  BY DEF Proper
<1>2. ds \in Int /\ dn \in (-(Giga - 1))..(Giga - 1) /\ dn \in Int
  BY <1>1, TemporalAssumption
<1>3. /\ Value(ds, dn) = ToNSec(t) - ToNSec(u)
      /\ Value(ds, dn) >= 0 /\ Value(ds, dn) <= ToNSec(t)
  <2>1. ds * Giga = t.sec * Giga - u.sec * Giga
    BY <1>1, TemporalAssumption
  <2>2. t.sec * Giga \in Int /\ u.sec * Giga \in Nat
    BY <1>1, TemporalAssumption
  <2> QED
    BY <1>1, <2>1, <2>2, TemporalAssumption DEF Value, ToNSec, AtLeast
<1>4. PICK s \in Int, n \in 0..Giga :
        /\ Sub(t, u) = Fields(s, n) /\ Value(s, n) = Value(ds, dn) /\ n < Giga
  <2>1. dn > -Giga /\ dn # Giga
    BY <1>2, TemporalAssumption
  <2> QED
    BY <1>2, <2>1, Normalized DEF Sub
<1>5. s >= 0
  <2>1. CASE s <= -1
    <3>1. s * Giga <= -Giga
      BY <2>1, TemporalAssumption
    <3> QED
      BY <1>3, <1>4, <3>1, TemporalAssumption DEF Value
  <2> QED
    BY <2>1
<1>6. s <= t.sec
  <2>1. CASE s >= t.sec + 1
    <3>1. s * Giga >= t.sec * Giga + Giga
      BY <1>1, <2>1, TemporalAssumption
    <3>2. t.sec * Giga \in Int /\ s * Giga \in Int
      BY <1>1, TemporalAssumption
    <3> QED
      BY <1>1, <1>3, <1>4, <3>1, <3>2, TemporalAssumption DEF Value, ToNSec
  <2> QED
    BY <1>1, <2>1
<1>7. Sub(t, u) = [sec |-> s, nsec |-> n] /\ s \in 0..MaxUint32 /\ n \in 0..(Giga - 1)
  BY <1>1, <1>4, <1>5, <1>6, TemporalAssumption DEF Fields
<1> QED
  BY <1>3, <1>4, <1>7 DEF Proper, ToNSec, Value

\* The difference of two proper values panics when the second is the larger.
THEOREM SubPanics ==
    ASSUME NEW t \in Proper, NEW u \in Proper, ~AtLeast(t, u)
    PROVE  Sub(t, u) = Panic
<1> DEFINE ds == t.sec - u.sec
           dn == t.nsec - u.nsec
<1>1. /\ t.sec \in 0..MaxUint32 /\ u.sec \in 0..MaxUint32
      /\ t.nsec \in 0..(Giga - 1) /\ u.nsec \in 0..(Giga - 1)
  BY DEF Proper
<1>2. ds \in Int /\ dn \in Int
  BY <1>1, TemporalAssumption
<1>3. Value(ds, dn) < 0
  <2>1. ds * Giga = t.sec * Giga - u.sec * Giga
    BY <1>1, TemporalAssumption
  <2>2. t.sec * Giga \in Int /\ u.sec * Giga \in Int
    BY <1>1, TemporalAssumption
  <2> QED
    BY <1>1, <2>1, <2>2, TemporalAssumption DEF Value, ToNSec, AtLeast
<1>4. PICK s \in Int, n \in 0..Giga :
        Sub(t, u) = Fields(s, n) /\ Value(s, n) = Value(ds, dn)
  BY <1>2, Normalized DEF Sub
<1>5. s < 0
  <2>1. CASE s >= 0
    <3>1. s * Giga >= 0 /\ s * Giga \in Int
      BY <2>1, TemporalAssumption
    <3> QED
      BY <1>3, <1>4, <3>1, TemporalAssumption DEF Value
  <2> QED
    BY <2>1
<1> QED
  BY <1>4, <1>5 DEF Fields

\* FromNSec is exact, and proper but for a count of one second exactly, which it
\* leaves in the nanoseconds.
THEOREM FromNSecExact ==
    ASSUME NEW n \in Nat, n \div Giga <= MaxUint32, n # Giga
    PROVE  FromNSec(n) \in Proper /\ ToNSec(FromNSec(n)) = n
<1>1. n > -Giga /\ n \in Int
  BY TemporalAssumption
<1>2. PICK s \in Int, m \in 0..Giga :
        /\ FromNSec(n) = Fields(s, m) /\ Value(s, m) = Value(0, n) /\ m < Giga
  <2>1. \E s \in Int, m \in 0..Giga :
          /\ normalizeTemporal(0, n) = Fields(s, m)
          /\ Value(s, m) = Value(0, n)
          /\ n > -Giga /\ n # Giga => m < Giga
    <3>1. PICK z \in Int : z = 0
      OBVIOUS
    <3>2. \E s \in Int, m \in 0..Giga :
            /\ normalizeTemporal(z, n) = Fields(s, m)
            /\ Value(s, m) = Value(z, n)
            /\ n > -Giga /\ n # Giga => m < Giga
      BY <1>1, Normalized
    <3> QED
      BY <3>1, <3>2
  <2> QED
    BY <1>1, <2>1 DEF FromNSec
<1>3. s * Giga + m = n
  BY <1>2, TemporalAssumption DEF Value
<1>4. s >= 0
  <2>1. CASE s <= -1
    <3>1. s * Giga <= -Giga
      BY <2>1, TemporalAssumption
    <3> QED
      BY <1>2, <1>3, <3>1, TemporalAssumption
  <2> QED
    BY <2>1
<1>5. s <= MaxUint32
  <2>1. PICK q \in Nat, r \in 0..(Giga - 1) : n = q * Giga + r /\ q <= MaxUint32
    BY DivMod
  <2>2. CASE s >= q + 1
    <3>1. s * Giga >= q * Giga + Giga
      BY <2>2, TemporalAssumption
    <3>2. s * Giga \in Int /\ q * Giga \in Int
      BY TemporalAssumption
    <3> QED
      BY <1>2, <1>3, <2>1, <3>1, <3>2, TemporalAssumption
  <2> QED
    BY <2>1, <2>2, TemporalAssumption
<1>6. FromNSec(n) = [sec |-> s, nsec |-> m] /\ s \in 0..MaxUint32 /\ m \in 0..(Giga - 1)
  BY <1>2, <1>4, <1>5, TemporalAssumption DEF Fields
<1> QED
  BY <1>3, <1>6 DEF Proper, ToNSec

\* Proper values that count alike are the same, field by field.
LEMMA CountedAlike ==
    ASSUME NEW t \in Proper, NEW u \in Proper, ToNSec(t) = ToNSec(u)
    PROVE  t = u
<1>1. /\ t.sec \in 0..MaxUint32 /\ u.sec \in 0..MaxUint32
      /\ t.nsec \in 0..(Giga - 1) /\ u.nsec \in 0..(Giga - 1)
      /\ t = [sec |-> t.sec, nsec |-> t.nsec] /\ u = [sec |-> u.sec, nsec |-> u.nsec]
  BY DEF Proper
<1>2. t.sec * Giga + t.nsec = u.sec * Giga + u.nsec
  BY DEF ToNSec
<1>3. ASSUME NEW a \in Nat, NEW b \in Nat, a >= b + 1
      PROVE  a * Giga >= b * Giga + Giga /\ a * Giga \in Int /\ b * Giga \in Int
  BY <1>3, TemporalAssumption
<1>4. ~(t.sec >= u.sec + 1)
  <2> SUFFICES ASSUME t.sec >= u.sec + 1 PROVE FALSE
    OBVIOUS
  <2>1. t.sec \in Nat /\ u.sec \in Nat
    BY <1>1, TemporalAssumption
  <2>2. t.sec * Giga >= u.sec * Giga + Giga /\ t.sec * Giga \in Int /\ u.sec * Giga \in Int
    BY <1>3, <2>1
  <2> QED
    BY <1>1, <1>2, <2>2, TemporalAssumption
<1>5. ~(u.sec >= t.sec + 1)
  <2> SUFFICES ASSUME u.sec >= t.sec + 1 PROVE FALSE
    OBVIOUS
  <2>1. t.sec \in Nat /\ u.sec \in Nat
    BY <1>1, TemporalAssumption
  <2>2. u.sec * Giga >= t.sec * Giga + Giga /\ t.sec * Giga \in Int /\ u.sec * Giga \in Int
    BY <1>3, <2>1
  <2> QED
    BY <1>1, <1>2, <2>2, TemporalAssumption
<1>6. t.sec = u.sec
  BY <1>1, <1>4, <1>5, TemporalAssumption
<1>7. t.sec * Giga \in Int
  BY <1>1, TemporalAssumption
<1>8. t.nsec = u.nsec
  <2>1. ASSUME NEW p \in Int, NEW m \in Int, NEW n \in Int, p + m = p + n PROVE m = n
    BY <2>1
  <2>2. t.nsec \in Int /\ u.nsec \in Int /\ t.sec * Giga + t.nsec = t.sec * Giga + u.nsec
    BY <1>1, <1>2, <1>6
  <2> QED
    BY <1>7, <2>1, <2>2
<1> QED
  BY <1>1, <1>6, <1>8

\* A sum of proper values that does not panic is proper, unless the nanoseconds
\* add up to a second exactly: the comparison in normalizeTemporal (temporal.go:7)
\* leaves them then.
THEOREM AddProper ==
    ASSUME NEW t \in Proper, NEW d \in Proper, Add(t, d) # Panic
    PROVE  Add(t, d) \in Proper <=> t.nsec + d.nsec # Giga
<1>1. /\ t.sec \in 0..MaxUint32 /\ d.sec \in 0..MaxUint32
      /\ t.nsec \in 0..(Giga - 1) /\ d.nsec \in 0..(Giga - 1)
  BY DEF Proper
<1>2. t.sec + d.sec \in Int /\ t.nsec + d.nsec \in Int /\ t.nsec + d.nsec > -Giga
  BY <1>1, TemporalAssumption
<1>3. PICK s \in Int, n \in 0..Giga :
        Add(t, d) = Fields(s, n) /\ (t.nsec + d.nsec # Giga => n < Giga)
  BY <1>2, Normalized DEF Add
<1>4. Add(t, d) = [sec |-> s, nsec |-> n] /\ s \in 0..MaxUint32
  BY <1>3, TemporalAssumption DEF Fields
<1>5. ASSUME t.nsec + d.nsec = Giga
      PROVE  Add(t, d).nsec = Giga
  <2>1. normalizeTemporal(t.sec + d.sec, Giga) = Fields(t.sec + d.sec, Giga)
    BY TemporalAssumption DEF normalizeTemporal
  <2>2. Add(t, d) = Fields(t.sec + d.sec, Giga)
    BY <1>5, <2>1 DEF Add
  <2> QED
    BY <2>2 DEF Fields
<1>6. ASSUME t.nsec + d.nsec = Giga PROVE Add(t, d) \notin Proper
  BY <1>5, <1>6, TemporalAssumption DEF Proper
<1>7. ASSUME t.nsec + d.nsec # Giga PROVE Add(t, d) \in Proper
  <2>1. n \in 0..(Giga - 1)
    BY <1>3, <1>7, TemporalAssumption
  <2> QED
    BY <1>4, <2>1 DEF Proper
<1> QED
  BY <1>6, <1>7

\* What is added can be taken off again: the same fields come back, unless the
\* sum panics or has a second in its nanoseconds.
THEOREM SubUndoesAdd ==
    ASSUME NEW t \in Proper, NEW d \in Proper,
           Add(t, d) # Panic, t.nsec + d.nsec # Giga
    PROVE  Sub(Add(t, d), d) = t
<1>1. Add(t, d) \in Proper
  BY AddProper
<1>2. t \in Temporals /\ d \in Temporals
  BY TemporalAssumption DEF Proper, Temporals
<1>3. ToNSec(Add(t, d)) = ToNSec(t) + ToNSec(d)
  BY <1>2, AddExact
<1>4. ToNSec(t) \in Nat /\ ToNSec(d) \in Nat
  <2>1. ASSUME NEW u \in Proper PROVE ToNSec(u) \in Nat
    <3>1. u.sec \in Nat /\ u.nsec \in Nat
      BY TemporalAssumption DEF Proper
    <3>2. u.sec * Giga \in Nat
      BY <3>1, TemporalAssumption
    <3> QED
      BY <3>1, <3>2 DEF ToNSec
  <2> QED
    BY <2>1
<1>5. AtLeast(Add(t, d), d)
  BY <1>3, <1>4 DEF AtLeast
<1>6. /\ Sub(Add(t, d), d) \in Proper
      /\ ToNSec(Sub(Add(t, d), d)) = ToNSec(Add(t, d)) - ToNSec(d)
  BY <1>1, <1>5, SubExact
<1>7. ToNSec(Sub(Add(t, d), d)) = ToNSec(t)
  BY <1>3, <1>4, <1>6
<1> QED
  BY <1>6, <1>7, CountedAlike

-----------------------------------------------------------------------------
(* The rate loop *)

\* Everything Rate computes with is proper; Sleep waits no longer than the
\* expected cycle time and panicked only on a stepped clock.
RateInv ==
    /\ phase \in {"body", "sleep", "panic"}
    /\ clock \in Clock /\ stepped \in BOOLEAN /\ left \in Nat
    /\ start \in Proper /\ expected \in Proper /\ actual \in Proper
    /\ SleepBounded /\ PanicsOnlyOnStep

\* Unless the clock was stepped, the current cycle started in the past, Sleep has
\* not panicked, and what is left to sleep completes the cycle.
CycleInv ==
    ~stepped =>
      /\ phase # "panic" /\ ToNSec(start) <= clock
      /\ phase = "sleep" => ToNSec(start) + ToNSec(expected) <= clock + left

\* Reading the clock is exact.
LEMMA NowExact ==
    ASSUME clock \in Clock
    PROVE  Now \in Proper /\ ToNSec(Now) = clock
<1>1. clock \in Nat /\ clock # Giga /\ clock <= MaxClock /\ MaxClock \in Nat
  BY TemporalAssumption, RateAssumption DEF Clock
<1>2. clock \div Giga <= MaxUint32
  <2>1. PICK q \in Nat, r \in 0..(Giga - 1) :
          q = clock \div Giga /\ clock = q * Giga + r
    BY <1>1, DivMod
  <2>2. PICK p \in Nat, o \in 0..(Giga - 1) :
          p = MaxClock \div Giga /\ MaxClock = p * Giga + o
    BY <1>1, DivMod
  <2>3. CASE q >= p + 1
    <3>1. q * Giga >= p * Giga + Giga
      BY <2>3, TemporalAssumption
    <3>2. q * Giga \in Int /\ p * Giga \in Int
      BY TemporalAssumption
    <3> QED
      BY <1>1, <2>1, <2>2, <3>1, <3>2, TemporalAssumption
  <2> QED
    BY <2>1, <2>2, <2>3, RateAssumption, TemporalAssumption
<1> QED
  BY <1>1, <1>2, FromNSecExact DEF Now

\* A duration is a natural number of nanoseconds, zero is none.
LEMMA ProperNat == \A t \in Proper : ToNSec(t) \in Nat
BY TemporalAssumption DEF Proper, ToNSec

\* The zero duration.
LEMMA ZeroProper == Zero \in Proper /\ ToNSec(Zero) = 0
BY TemporalAssumption DEF Zero, Proper, ToNSec

\* A panic is no value.
LEMMA PanicImproper == Panic \notin Proper
BY TemporalAssumption DEF Panic, Proper

\* The remaining time is exact, proper and at most the expected time.
LEMMA RemainingExact ==
    ASSUME NEW diff \in Proper, expected \in Proper
    PROVE  /\ Remaining(diff) \in Proper
           /\ ToNSec(Remaining(diff)) <= ToNSec(expected)
           /\ ToNSec(Remaining(diff)) + ToNSec(diff) >= ToNSec(expected)
<1>1. ToNSec(diff) \in Nat /\ ToNSec(expected) \in Nat
  BY ProperNat
<1>2. CASE AtLeast(expected, diff)
  <2>1. Sub(expected, diff) \in Proper
        /\ ToNSec(Sub(expected, diff)) = ToNSec(expected) - ToNSec(diff)
    BY <1>2, SubExact
  <2> QED
    BY <1>1, <1>2, <2>1 DEF Remaining
<1>3. CASE ~AtLeast(expected, diff)
  BY <1>1, <1>3, ZeroProper DEF Remaining, AtLeast
<1> QED
  BY <1>2, <1>3

\* The difference of a later reading and the cycle's start is exact.
LEMMA DiffExact ==
    ASSUME clock \in Clock, start \in Proper, clock >= ToNSec(start)
    PROVE  Diff(Now, start) \in Proper /\ ToNSec(Diff(Now, start)) = clock - ToNSec(start)
BY NowExact, SubExact DEF Diff, AtLeast

\* On a clock behind the cycle's start there is no difference.
LEMMA DiffPanics ==
    ASSUME clock \in Clock, start \in Proper, clock < ToNSec(start)
    PROVE  Diff(Now, start) = Panic
<1>1. Now \in Proper /\ ToNSec(Now) = clock
  BY NowExact
<1>2. clock \in Nat /\ ToNSec(start) \in Nat
  BY ProperNat, TemporalAssumption DEF Clock
<1>3. ~AtLeast(Now, start)
  BY <1>1, <1>2 DEF AtLeast
<1> QED
  BY <1>1, <1>3, SubPanics DEF Diff

\* A difference that does not panic is a value whose fields are in range.
LEMMA SubTyped ==
    ASSUME NEW t \in Temporals, NEW u \in Temporals, Sub(t, u) # Panic
    PROVE  Sub(t, u) \in Temporals
<1>1. t.sec - u.sec \in Int /\ t.nsec - u.nsec \in Int
  BY TemporalAssumption DEF Temporals
<1> QED
  BY <1>1, NormalizeKeepsValue DEF Sub

\* A value whose fields are in range counts a natural number of nanoseconds.
LEMMA TemporalNat == \A t \in Temporals : ToNSec(t) \in Nat
BY TemporalAssumption DEF Temporals, ToNSec

\* Expected cycle times have fields in range, one second exactly among them.
LEMMA ExpectedTyped ==
    ASSUME NEW n \in Periods
    PROVE  FromNSec(n) \in Temporals
<1>1. CASE n = Giga
  BY <1>1, TemporalAssumption DEF FromNSec, normalizeTemporal, Fields, Temporals
<1>2. CASE n # Giga
  <2>1. FromNSec(n) \in Proper
    BY <1>2, FromNSecExact, RateAssumption
  <2> QED
    BY <2>1, TemporalAssumption DEF Proper, Temporals
<1> QED
  BY <1>1, <1>2

\* A reading of the clock and the zero duration have fields in range.
LEMMA ReadingTyped == Zero \in Temporals /\ (clock \in Clock => Now \in Temporals)
BY NowExact, ZeroProper, TemporalAssumption DEF Proper, Temporals

\* No step takes a variable out of its type.
LEMMA TypeStep == TypeOK /\ [Next]_vars => TypeOK'
<1> SUFFICES ASSUME TypeOK, [Next]_vars PROVE TypeOK'
  OBVIOUS
<1> USE DEF TypeOK
<1>0. clock \in Nat /\ MaxClock \in Nat /\ Now \in Temporals /\ Zero \in Temporals
  BY ReadingTyped, TemporalAssumption, RateAssumption DEF Clock
<1>1. CASE Tick
  BY <1>0, <1>1, TemporalAssumption DEF Tick, Clock
<1>2. CASE StepBack
  BY <1>2 DEF StepBack
<1>3. CASE Reset
  BY <1>0, <1>3 DEF Reset
<1>4. CASE SleepStart
  <2> DEFINE diff == Diff(Now, start)
  <2>1. CASE diff = Panic \/ Remaining(diff) = Panic
    BY <1>4, <2>1 DEF SleepStart
  <2>2. CASE diff # Panic /\ Remaining(diff) # Panic
    <3>1. diff \in Temporals
      BY <1>0, <2>2, SubTyped DEF Diff
    <3> HIDE DEF diff
    <3>2. Remaining(diff) \in Temporals
      BY <1>0, <2>2, <3>1, SubTyped DEF Remaining
    <3>3. ToNSec(Remaining(diff)) \in Nat
      BY <3>2, TemporalNat
    <3>4. /\ phase' = "sleep" /\ left' = ToNSec(Remaining(diff))
          /\ UNCHANGED <<clock, stepped, start, expected, actual>>
      BY <1>4, <2>2 DEF SleepStart, diff
    <3> QED
      BY <3>3, <3>4
  <2> QED
    BY <2>1, <2>2
<1>5. CASE SleepEnd
  <2>1. CASE Diff(Now, start) = Panic
    BY <1>5, <2>1 DEF SleepEnd
  <2>2. CASE Diff(Now, start) # Panic
    <3>1. Diff(Now, start) \in Temporals
      BY <1>0, <2>2, SubTyped DEF Diff
    <3> QED
      BY <1>0, <1>5, <2>2, <3>1 DEF SleepEnd
  <2> QED
    BY <2>1, <2>2
<1>6. CASE UNCHANGED vars
  BY <1>6 DEF vars
<1> QED
  BY <1>1, <1>2, <1>3, <1>4, <1>5, <1>6 DEF Next

\* The fields of a Rate stay in range for every expected cycle time, one second
\* exactly included: a difference out of range panics and is never stored.
THEOREM TypeCorrect == Spec => []TypeOK
<1>1. Init => TypeOK
  <2> SUFFICES ASSUME Init PROVE TypeOK
    OBVIOUS
  <2>1. expected \in Temporals
    BY ExpectedTyped DEF Init
  <2>2. start \in Temporals /\ actual \in Temporals
    BY ReadingTyped DEF Init, Now
  <2> QED
    BY <2>1, <2>2 DEF Init, TypeOK
<1> QED
  BY <1>1, TypeStep, PTL DEF Spec

\* The invariants hold when a Rate is made.
LEMMA RateInit == Giga \notin Periods => (Init => RateInv /\ CycleInv)
<1> SUFFICES ASSUME Giga \notin Periods, Init PROVE RateInv /\ CycleInv
  OBVIOUS
<1>1. start \in Proper /\ ToNSec(start) = clock
  BY NowExact DEF Init, Now
<1>2. expected \in Proper
  <2>1. PICK n \in Periods : expected = FromNSec(n)
    BY DEF Init
  <2> QED
    BY <2>1, FromNSecExact, RateAssumption
<1>3. clock \in Int
  BY TemporalAssumption DEF Init, Clock
<1>4. stepped \in BOOLEAN /\ phase = "body" /\ clock \in Clock /\ left = 0 /\ actual = Zero
  BY DEF Init
<1>5. RateInv
  BY <1>1, <1>2, <1>4, ZeroProper DEF RateInv, SleepBounded, PanicsOnlyOnStep
<1>6. CycleInv
  BY <1>1, <1>3, <1>4 DEF CycleInv
<1> QED
  BY <1>5, <1>6

\* No step breaks RateInv.
LEMMA RateStep == RateInv /\ CycleInv /\ [Next]_vars => RateInv'
<1> SUFFICES ASSUME RateInv, CycleInv, [Next]_vars PROVE RateInv'
  OBVIOUS
<1> USE DEF RateInv, SleepBounded, PanicsOnlyOnStep
<1>0. /\ ToNSec(start) \in Nat /\ ToNSec(expected) \in Nat
      /\ clock \in Nat /\ Now \in Proper /\ ToNSec(Now) = clock
      /\ clock < ToNSec(start) => stepped
  BY ProperNat, NowExact, TemporalAssumption DEF Clock, CycleInv
<1>1. CASE Tick
  BY <1>0, <1>1, RateAssumption, TemporalAssumption DEF Tick, Clock
<1>2. CASE StepBack
  BY <1>2 DEF StepBack
<1>3. CASE Reset
  BY <1>0, <1>3, ZeroProper DEF Reset
<1>4. CASE SleepStart
  <2> DEFINE diff == Diff(Now, start)
  <2>1. CASE clock < ToNSec(start)
    <3>1. diff = Panic
      BY <2>1, DiffPanics
    <3>2. phase' = "panic" /\ UNCHANGED <<clock, stepped, left, start, expected, actual>>
      BY <1>4, <3>1 DEF SleepStart
    <3> QED
      BY <1>0, <2>1, <3>2
  <2>2. CASE clock >= ToNSec(start)
    <3>1. diff \in Proper
      BY <1>0, <2>2, DiffExact
    <3>2. /\ Remaining(diff) \in Proper
          /\ ToNSec(Remaining(diff)) <= ToNSec(expected)
          /\ ToNSec(Remaining(diff)) \in Nat
      BY <3>1, RemainingExact, ProperNat
    <3> HIDE DEF diff
    <3>3. diff # Panic /\ Remaining(diff) # Panic
      BY <3>1, <3>2, PanicImproper
    <3>4. /\ phase' = "sleep" /\ left' = ToNSec(Remaining(diff))
          /\ UNCHANGED <<clock, stepped, start, expected, actual>>
      BY <1>4, <3>3 DEF SleepStart, diff
    <3> QED
      BY <3>2, <3>4
  <2> QED
    BY <1>0, <2>1, <2>2
<1>5. CASE SleepEnd
  <2> DEFINE diff == Diff(Now, start)
  <2>1. CASE clock < ToNSec(start)
    <3>1. diff = Panic
      BY <2>1, DiffPanics
    <3>2. phase' = "panic" /\ UNCHANGED <<clock, stepped, left, start, expected, actual>>
      BY <1>5, <3>1 DEF SleepEnd
    <3> QED
      BY <1>0, <2>1, <3>2
  <2>2. CASE clock >= ToNSec(start)
    <3>1. diff \in Proper
      BY <1>0, <2>2, DiffExact
    <3> HIDE DEF diff
    <3>2. diff # Panic
      BY <3>1, PanicImproper
    <3>3. /\ phase' = "body" /\ actual' = diff /\ start' = Now
          /\ UNCHANGED <<clock, left, expected>>
      BY <1>5, <3>2 DEF SleepEnd, diff
    <3>4. stepped' \in BOOLEAN
      BY <1>5, <3>2 DEF SleepEnd, diff
    <3> QED
      BY <1>0, <3>1, <3>3, <3>4
  <2> QED
    BY <1>0, <2>1, <2>2
<1>6. CASE UNCHANGED vars
  BY <1>6 DEF vars
<1> QED
  BY <1>1, <1>2, <1>3, <1>4, <1>5, <1>6 DEF Next

\* A cycle in which the clock was not stepped stays on course.
LEMMA CycleStep == RateInv /\ CycleInv /\ [Next]_vars => CycleInv'
<1> SUFFICES ASSUME RateInv, CycleInv, [Next]_vars, ~stepped'
             PROVE  /\ phase' # "panic" /\ ToNSec(start') <= clock'
                    /\ phase' = "sleep" =>
                         ToNSec(start') + ToNSec(expected') <= clock' + left'
  BY DEF CycleInv
<1>0. /\ ToNSec(start) \in Nat /\ ToNSec(expected) \in Nat /\ left \in Nat
      /\ clock \in Nat /\ clock \in Clock
      /\ start \in Proper /\ expected \in Proper
      /\ Now \in Proper /\ ToNSec(Now) = clock
  BY ProperNat, NowExact, TemporalAssumption DEF Clock, RateInv
<1>1. CASE Tick
  BY <1>0, <1>1 DEF Tick, CycleInv
<1>2. CASE StepBack
  BY <1>2 DEF StepBack
<1>3. CASE Reset
  BY <1>0, <1>3 DEF Reset
<1>4. CASE SleepStart
  <2> DEFINE diff == Diff(Now, start)
  <2>1. ~stepped /\ ToNSec(start) <= clock
    BY <1>4 DEF SleepStart, CycleInv
  <2>2. diff \in Proper /\ ToNSec(diff) = clock - ToNSec(start)
    BY <1>0, <2>1, DiffExact
  <2>3. /\ ToNSec(Remaining(diff)) + ToNSec(diff) >= ToNSec(expected)
        /\ ToNSec(Remaining(diff)) \in Nat /\ Remaining(diff) \in Proper
    BY <1>0, <2>2, RemainingExact, ProperNat
  <2> HIDE DEF diff
  <2>4. diff # Panic /\ Remaining(diff) # Panic
    BY <2>2, <2>3, PanicImproper
  <2>5. /\ phase' = "sleep" /\ left' = ToNSec(Remaining(diff))
        /\ UNCHANGED <<clock, start, expected>>
    BY <1>4, <2>4 DEF SleepStart, diff
  <2> QED
    BY <1>0, <2>1, <2>2, <2>3, <2>5
<1>5. CASE SleepEnd
  <2>1. CASE Diff(Now, start) = Panic
    <3>1. ~stepped
      BY <1>5, <2>1 DEF SleepEnd
    <3>2. Diff(Now, start) \in Proper
      BY <1>0, <3>1, DiffExact DEF CycleInv
    <3> QED
      BY <2>1, <3>2, PanicImproper
  <2>2. CASE Diff(Now, start) # Panic
    <3>1. phase' = "body" /\ start' = Now /\ UNCHANGED clock
      BY <1>5, <2>2 DEF SleepEnd
    <3> QED
      BY <1>0, <3>1
  <2> QED
    BY <2>1, <2>2
<1>6. CASE UNCHANGED vars
  BY <1>6 DEF vars, CycleInv
<1> QED
  BY <1>1, <1>2, <1>3, <1>4, <1>5, <1>6 DEF Next

\* Both invariants hold in every reachable state.
LEMMA RateInvariant == Giga \notin Periods => (Spec => [](RateInv /\ CycleInv))
<1> SUFFICES ASSUME Giga \notin Periods PROVE Spec => [](RateInv /\ CycleInv)
  OBVIOUS
<1>1. Init => RateInv /\ CycleInv
  BY RateInit
<1> QED
  BY <1>1, RateStep, CycleStep, PTL DEF Spec

\* Rate.Sleep (rate.go) panics only when the wall clock was stepped back behind
\* the start of the cycle, for every expected cycle time but one second.
THEOREM NoPanicWithoutStep == Giga \notin Periods => (Spec => []PanicsOnlyOnStep)
<1>1. RateInv => PanicsOnlyOnStep
  BY DEF RateInv
<1> QED
  BY <1>1, RateInvariant, PTL

\* Sleep never lasts longer than the expected cycle time, stepped clock or not.
THEOREM SleepIsBounded == Giga \notin Periods => (Spec => []SleepBounded)
<1>1. RateInv => SleepBounded
  BY DEF RateInv
<1> QED
  BY <1>1, RateInvariant, PTL

\* A cycle in which the clock is not stepped is as long as expected or longer,
\* and CycleTime reports exactly how long it was.
THEOREM PeriodKept == Giga \notin Periods => (Spec => KeepsPeriod)
<1> SUFFICES ASSUME Giga \notin Periods PROVE Spec => KeepsPeriod
  OBVIOUS
<1> DEFINE Kept == phase = "sleep" /\ phase' = "body" /\ ~stepped =>
                     /\ ToNSec(actual') = ToNSec(start') - ToNSec(start)
                     /\ ToNSec(start') >= ToNSec(start) + ToNSec(expected)
<1>1. RateInv /\ CycleInv /\ [Next]_vars => [Kept]_vars
  <2> SUFFICES ASSUME RateInv, CycleInv, [Next]_vars,
                      phase = "sleep", phase' = "body", ~stepped
               PROVE  /\ ToNSec(actual') = ToNSec(start') - ToNSec(start)
                      /\ ToNSec(start') >= ToNSec(start) + ToNSec(expected)
    OBVIOUS
  <2>1. SleepEnd
    BY DEF Next, Tick, StepBack, Reset, SleepStart, vars
  <2>2. clock \in Nat /\ clock \in Clock /\ start \in Proper /\ clock >= ToNSec(start)
    BY ProperNat, TemporalAssumption DEF RateInv, CycleInv, Clock
  <2>3. ToNSec(Now) = clock /\ ToNSec(Diff(Now, start)) = clock - ToNSec(start)
    BY <2>2, NowExact, DiffExact
  <2>4. actual' = Diff(Now, start) /\ start' = Now /\ left = 0
    BY <2>1 DEF SleepEnd
  <2>5. ToNSec(start) + ToNSec(expected) <= clock + 0
    BY <2>4 DEF CycleInv
  <2>6. ToNSec(actual') = clock - ToNSec(start) /\ ToNSec(start') = clock
    BY <2>3, <2>4
  <2> QED
    BY <2>2, <2>5, <2>6
<1> QED
  BY <1>1, RateInvariant, PTL DEF Spec, KeepsPeriod
=============================================================================
