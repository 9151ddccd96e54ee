----------------------------- MODULE PhaseControl -----------------------------
(***************************************************************************)
(* The control law of the phase-locked loop: the filter of the phase        *)
(* error, the proportional and the integral term, and their limits.  Each   *)
(* pulse measures the error and changes the divisor, which moves the error  *)
(* until the next pulse.  The correction is computed in 16 bits; the word   *)
(* and the gains are parameters.                                           *)
(***************************************************************************)
EXTENDS Integers, Sequences, SequencesExt

CONSTANTS
  Word,               \* the values of an int16_t
  ProportionalDiv, IntegralDiv,   \* PLL_PROPORTIONAL_DIV, PLL_INTEGRAL_DIV
  IntegratorLimit, MaxEffort,     \* PLL_INTEGRATOR_LIMIT, PLL_MAX_CTRL_EFFORT
  FilterRange,        \* the 50 us within which the phase error is filtered
  ValidRange,         \* the 16 ms within which it is corrected
  FirstError,         \* the errors of the first pulse
  ImpulseResponse,    \* half of the filter's, in powers of two
  OutputShift         \* the filter's output is divided by this power of two

VARIABLES
  error,        \* phase_error_ns
  integrator,
  x, fill       \* pllClockFilter: the last inputs, newest first, and how many

vars == <<error, integrator, x, fill>>

Taps == 2 * Len(ImpulseResponse)

Init ==
  /\ error \in FirstError
  /\ integrator = 0
  /\ x = [i \in 1 .. Taps |-> 0] /\ fill = 0

-----------------------------------------------------------------------------
Abs(n) == IF n < 0 THEN -n ELSE n

(* A division of the code, which rounds to zero. *)
Quotient(n, d) == IF n < 0 THEN -((-n) \div d) ELSE n \div d

MutantLimited(n, limit) == n   \* no limit

Limited(n, limit) == IF n < -limit THEN -limit ELSE IF n > limit THEN limit ELSE n

Int16(n) == ((n + Word \div 2) % Word) - Word \div 2

(* The response is symmetric, so that its taps go in pairs; the output is rounded. *)
FirStep(inputs) ==
  LET pair(i) == ImpulseResponse[i] * (inputs[i] + inputs[Taps + 1 - i])
      sum == FoldLeftDomain(LAMBDA acc, i : acc + pair(i), 0, ImpulseResponse)
  IN  (sum + OutputShift \div 2) \div OutputShift

InFilterRange == Abs(error) <= FilterRange

Shifted == <<error>> \o SubSeq(x, 1, Taps - 1)

(* The filter counts its inputs, and is used when it is full of them. *)
Filter ==
  IF InFilterRange
    THEN x' = Shifted /\ fill' = (IF fill < Taps THEN fill + 1 ELSE fill)
    ELSE fill' = 0 /\ UNCHANGED x

Filtered == IF InFilterRange /\ fill' >= Taps THEN FirStep(x') ELSE error

Correction ==
  Int16(Int16(Quotient(Filtered, ProportionalDiv)) + Quotient(integrator', IntegralDiv))

(* A pulse in range: what the divisor is changed by moves the error. *)
Correct ==
  /\ Abs(error) <= ValidRange
  /\ Filter
  /\ integrator' = Limited(integrator + Filtered, IntegratorLimit)
  /\ error' = error - Limited(Correction, MaxEffort)

(* A pulse out of range: the loop starts again where the next pulse is. *)
Slew ==
  /\ Abs(error) > ValidRange
  /\ error' = 0 /\ integrator' = 0 /\ fill' = 0
  /\ UNCHANGED x

Next == Correct \/ Slew

Spec == Init /\ [][Next]_vars /\ WF_vars(Next)

-----------------------------------------------------------------------------
TypeOK ==
  /\ error \in Int /\ integrator \in -IntegratorLimit .. IntegratorLimit
  /\ x \in [1 .. Taps -> -FilterRange .. FilterRange] /\ fill \in 0 .. Taps

(* "If situations occur where phase errors get larger than this, ... lock-up    *)
(* may take too long to occur" (NtpConfigUndisciplined.h:139-142): but it       *)
(* occurs.  Whatever error of a pulse it starts with, the loop brings it down  *)
(* to where it is filtered and keeps it there.                                *)
Converges == <>[](InFilterRange)
=============================================================================
