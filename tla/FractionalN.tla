------------------------------ MODULE FractionalN ------------------------------
(***************************************************************************)
(* The timer of the build whose processor clock is not disciplined: timers *)
(* 4 and 5 count to an interval that is stretched by a tick in some cycles, *)
(* so that Mod cycles last Mod * m + k ticks.  The interval is changed from *)
(* the main program (SetDivisor) while the compare-match interrupt routine  *)
(* distributes the odd ticks.                                              *)
(*                                                                         *)
(* The unit of time is a tick of the timers.                               *)
(***************************************************************************)
EXTENDS Integers

CONSTANTS
  Nominal,    \* nominalDivisor
  Mod,        \* fractionalMod
  Divisors,   \* the corrections SetDivisor is called with, in 1/Mod ticks
  Latency,    \* ticks an interrupt routine may be late
  SetLimit    \* the count by which a call of SetDivisor is over

Whole(n) == n \div Mod       \* an arithmetic shift, rounding down
Fraction(n) == n % Mod

ASSUME DividerAssumption ==
  /\ Nominal \in Nat /\ Mod \in Nat \ {0}
  /\ Divisors \subseteq Int
  /\ Latency \in Nat /\ SetLimit \in Nat
  /\ \A n \in Divisors : Nominal + Whole(n) > SetLimit /\ Nominal + Whole(n) > Latency
  /\ Nominal > SetLimit /\ Nominal > Latency
  /\ Nominal \div 2 <= SetLimit

VARIABLES
  count, top, match,          \* TCNT4 = TCNT5, OCR4A = OCR5A, OCF4A
  m, k, s, bump,              \* the divider's state
  subCycle, cycle, totalTicks,
  interruptCount,
  setting, divisor, interval, \* where SetDivisor is, its argument, the interval it will store
  elapsed,                    \* history: ticks of the hardware since totalTicks was zeroed
  ideal                       \* history: the same by the divisors, in 1/Mod ticks

hwVars == <<count, top, match>>
dividerVars == <<m, k, s, bump, subCycle, cycle, totalTicks, interruptCount>>
settingVars == <<setting, divisor, interval>>
historyVars == <<elapsed, ideal>>
fracNVars == <<hwVars, dividerVars, settingVars, historyVars>>

FracNInit ==
  /\ count = 0 /\ top = Nominal - 1 /\ match = FALSE
  /\ m = Nominal /\ k = 0 /\ s = 0 /\ bump = 0
  /\ subCycle = 0 /\ cycle = 0 /\ totalTicks = 0
  /\ interruptCount = 0
  /\ setting = "idle" /\ divisor = 0 /\ interval = Nominal
  /\ elapsed = 0 /\ ideal = 0

-----------------------------------------------------------------------------
(* The hardware: a match restarts the count.  The interrupt routine starts   *)
(* within Latency of it, and SetDivisor, called after a PPS in the middle of  *)
(* a cycle, is done by SetLimit.                                             *)
Tick ==
  /\ match => count < Latency
  /\ setting # "idle" => count < SetLimit
  /\ count' = IF count = top THEN 0 ELSE count + 1
  /\ match' = (match \/ count = top)
  /\ elapsed' = elapsed + 1
  /\ UNCHANGED <<top, dividerVars, settingVars, ideal>>

(* The sum is reduced only after the extra tick it stands for was counted. *)
SumAfter == (IF bump = 1 THEN s - Mod ELSE s) + k

MutantBumpOf(sum) == IF sum > Mod THEN 1 ELSE 0   \* off by one

BumpOf(sum) == IF sum >= Mod THEN 1 ELSE 0

MutantCycleLength == m   \* the extra tick is not counted

CycleLength == m + bump

FracNMatchIsr ==
  /\ match /\ match' = FALSE
  /\ totalTicks' = totalTicks + CycleLength
  /\ IF subCycle + 1 >= Mod
       THEN subCycle' = 0 /\ cycle' = cycle + 1
       ELSE subCycle' = subCycle + 1 /\ UNCHANGED cycle
  /\ s' = SumAfter
  /\ bump' = BumpOf(SumAfter)
  /\ top' = m + BumpOf(SumAfter) - 1
  /\ interruptCount' = interruptCount + 1
  /\ ideal' = ideal + Mod * m + k
  /\ UNCHANGED <<count, m, k, settingVars, elapsed>>

(* InterruptCount, called by the loop until it returns zero. *)
ServiceInterrupt ==
  /\ interruptCount > 0
  /\ interruptCount' = interruptCount - 1
  /\ UNCHANGED <<hwVars, m, k, s, bump, subCycle, cycle, totalTicks, settingVars, historyVars>>

(* SetDivisor stores the fraction, then the whole part, then the interval it  *)
(* has made of the whole part and the bump.                                   *)
SetFraction ==
  /\ setting = "idle" /\ ~match /\ count < SetLimit
  /\ \E n \in Divisors : divisor' = n /\ k' = Fraction(n)
  /\ setting' = "whole"
  /\ UNCHANGED <<hwVars, m, s, bump, subCycle, cycle, totalTicks, interruptCount, interval, historyVars>>

MutantSetWhole ==   \* forgets the tick that is added to this cycle
  /\ setting = "whole" /\ setting' = "interval"
  /\ m' = Nominal + Whole(divisor)
  /\ interval' = m'
  /\ UNCHANGED <<hwVars, k, s, bump, subCycle, cycle, totalTicks, interruptCount, divisor, historyVars>>

SetWhole ==
  /\ setting = "whole" /\ setting' = "interval"
  /\ m' = Nominal + Whole(divisor)
  /\ interval' = m' + bump
  /\ UNCHANGED <<hwVars, k, s, bump, subCycle, cycle, totalTicks, interruptCount, divisor, historyVars>>

SetInterval ==
  /\ setting = "interval" /\ setting' = "idle"
  /\ top' = interval - 1
  /\ UNCHANGED <<count, match, dividerVars, divisor, interval, historyVars>>

SetDivisor == SetFraction \/ SetWhole \/ SetInterval

(* The PLL asks to count the cycles anew from a cycle near the end. *)
SlewToCycle(number) ==
  /\ setting = "idle"
  /\ subCycle' = number /\ cycle' = 0 /\ totalTicks' = 0
  /\ elapsed' = count + (IF match THEN top + 1 ELSE 0)
  /\ ideal' = s
  /\ UNCHANGED <<hwVars, m, k, s, bump, interruptCount, settingVars>>

(* SET_TIMERS_COUNT: the first PPS that follows puts the count half-way. *)
SetTimersCount ==
  /\ count' = Nominal \div 2
  /\ elapsed' = elapsed + count' - count
  /\ UNCHANGED <<top, match, dividerVars, settingVars, ideal>>

-----------------------------------------------------------------------------
FracNTypeOK ==
  /\ count \in 0 .. top /\ top \in Nat /\ match \in BOOLEAN
  /\ m \in Nat /\ k \in 0 .. Mod - 1 /\ s \in 0 .. 2 * Mod - 1 /\ bump \in 0 .. 1
  /\ subCycle \in 0 .. Mod - 1 /\ cycle \in Nat /\ totalTicks \in Nat
  /\ interruptCount \in Nat
  /\ setting \in {"idle", "whole", "interval"}
  /\ divisor \in Divisors \cup {0} /\ interval \in Nat
  /\ elapsed \in Int /\ ideal \in Int

(* "To distribute the extra counts": after any number of cycles, with any     *)
(* divisors, the ticks counted and those owed are those of the divisors, and  *)
(* fewer than two are owed (FractionalN.cpp:118-142).                         *)
TicksOwed ==
  /\ Mod * totalTicks + s = ideal
  /\ bump = 1 <=> s >= Mod

(* "Incremented by actual timer count every timer cycle" (FractionalN.h:88):  *)
(* GetTotalTicks and the count make the ticks that have elapsed, however the  *)
(* divisor changes; the PLL measures the frequency by them.                   *)
TicksCounted == totalTicks + count + (IF match THEN top + 1 ELSE 0) = elapsed
=============================================================================
