-------------------------- MODULE UndisciplinedProofs --------------------------
(***************************************************************************)
(* The build without a disciplined clock, for every value of the constants. *)
(*                                                                         *)
(* What FractionalN counts is right for every interval, modulus and        *)
(* sequence of divisors: the odd ticks are distributed without loss        *)
(* (TicksOwed), and the total is that of the hardware (TicksCounted).      *)
(* The total is right because the interval that is running is the one the  *)
(* match routine will add, which SetDivisor breaks between its stores: so   *)
(* the invariant says that no match falls in that time, and that the stores *)
(* never put the top below the count.                                      *)
(*                                                                         *)
(* The NTP time made of those counts is true to a tick (StampExact), if the *)
(* divisors are far from the length of a cycle: the phase is rounded at    *)
(* three places, and the fraction of a tick per cycle is added late.       *)
(*                                                                         *)
(* What the loop of NtpPhaseLockedLoop takes for a second is one: at the   *)
(* end of a holdover (LeavesHoldover) and in its filters (MeasuresSeconds); *)
(* and it locks only after pulses in tolerance (LockEarned).               *)
(***************************************************************************)
EXTENDS MCUndisciplined, TLAPS

-----------------------------------------------------------------------------
(* The divider. *)

Ranges ==
  /\ count \in Nat /\ top \in Nat /\ match \in BOOLEAN
  /\ m \in Nat /\ k \in 0 .. Mod - 1 /\ s \in 0 .. 2 * Mod - 1 /\ bump \in 0 .. 1
  /\ subCycle \in 0 .. Mod - 1 /\ cycle \in Nat /\ totalTicks \in Nat
  /\ interruptCount \in Nat
  /\ setting \in {"idle", "whole", "interval"}
  /\ divisor \in Divisors \cup {0} /\ interval \in Nat
  /\ elapsed \in Int /\ ideal \in Int

(* Every interval leaves room for an interrupt routine and for SetDivisor. *)
RoomInCycle ==
  /\ count <= top
  /\ top >= Latency /\ top >= SetLimit
  /\ m > Latency /\ m > SetLimit
  /\ match => count <= Latency

SettingApart ==
  /\ setting # "idle" => ~match /\ count <= SetLimit /\ divisor \in Divisors
  /\ setting # "interval" => top + 1 = m + bump
  /\ setting = "interval" => interval = m + bump

DividerInv == Ranges /\ RoomInCycle /\ SettingApart /\ TicksOwed /\ TicksCounted

(* The steps that concern the divider, and where the others call them. *)
DividerNext ==
  \/ Tick
  \/ FracNMatchIsr
  \/ ServiceInterrupt
  \/ SetDivisor
  \/ SlewToCycle(Mod - 1) /\ ~match
  \/ SetTimersCount /\ ~match /\ setting = "idle"

(* Every step of the larger module is one of the divider's, or leaves it alone. *)
LEMMA NextIsDividerNext ==
  ASSUME [Next]_vars
  PROVE  [DividerNext]_fracNVars
<1>1. CASE Time \/ Edge \/ TimerMatchIsr \/ Service
  BY <1>1 DEF Time, Edge, TimerMatchIsr, Service, DividerNext
<1>2. CASE ChangeDivisor \/ Slew \/ Align
  BY <1>2 DEF ChangeDivisor, Slew, Align, DividerNext
<1>3. CASE SetNtpSeconds \/ ReadCount \/ GetCurrentNtpTime \/ CopyState \/ GetCapturedNtpTime
  BY <1>3 DEF SetNtpSeconds, ReadCount, GetCurrentNtpTime, CopyState, GetCapturedNtpTime
<1>4. CASE UNCHANGED vars
  BY <1>4 DEF vars
<1> QED BY <1>1, <1>2, <1>3, <1>4 DEF Next

(* The reset starts a cycle of the nominal length, with nothing owed. *)
LEMMA InitDivider == Init => DividerInv
<1> SUFFICES ASSUME Init PROVE DividerInv
  OBVIOUS
<1> USE DividerAssumption DEF Init, FracNInit
<1>1. Ranges
  <2>1. Nominal - 1 \in Nat /\ 0 \in 0 .. Mod - 1 /\ 0 \in 0 .. 2 * Mod - 1
    OBVIOUS
  <2>2. /\ count \in Nat /\ top \in Nat
        /\ m \in Nat /\ k \in 0 .. Mod - 1 /\ s \in 0 .. 2 * Mod - 1 /\ bump \in 0 .. 1
    BY <2>1
  <2>3. match = FALSE
    OBVIOUS
  <2>4. match \in BOOLEAN
    BY <2>3
  <2>5. /\ subCycle \in 0 .. Mod - 1 /\ cycle \in Nat /\ totalTicks \in Nat
        /\ interruptCount \in Nat /\ interval \in Nat
        /\ elapsed \in Int /\ ideal \in Int
    BY <2>1
  <2>6. setting \in {"idle", "whole", "interval"} /\ divisor \in Divisors \cup {0}
    OBVIOUS
  <2> HIDE DEF Init, FracNInit
  <2> QED BY <2>2, <2>5, <2>6, <2>4 DEF Ranges
<1>2. RoomInCycle /\ SettingApart
  BY DEF RoomInCycle, SettingApart
<1>3. TicksOwed
  <2>1. Mod * 0 + 0 = 0
    OBVIOUS
  <2> QED BY <2>1 DEF TicksOwed
<1>4. TicksCounted
  BY DEF TicksCounted
<1> QED BY <1>1, <1>2, <1>3, <1>4 DEF DividerInv

(* The match routine pays a tick that is owed, and owes the fraction of the    *)
(* cycle that begins.                                                         *)
LEMMA MatchStep ==
  ASSUME DividerInv, FracNMatchIsr
  PROVE  DividerInv'
<1> USE DividerAssumption DEF DividerInv, FracNMatchIsr
<1>1. SumAfter \in 0 .. 2 * Mod - 1 /\ BumpOf(SumAfter) \in 0 .. 1
  <2>1. CASE bump = 1
    BY <2>1 DEF Ranges, TicksOwed, SumAfter, BumpOf
  <2>2. CASE bump = 0
    BY <2>2 DEF Ranges, TicksOwed, SumAfter, BumpOf
  <2> QED BY <2>1, <2>2 DEF Ranges
<1>2. setting = "idle" /\ top + 1 = m + bump
  BY DEF SettingApart, Ranges
<1>3. Ranges'
  <2>1. totalTicks' \in Nat /\ top' \in Nat
    <3>1. m \in Nat \ {0}
      BY DEF Ranges, RoomInCycle
    <3>2. totalTicks' = totalTicks + (m + bump) /\ top' = m + BumpOf(SumAfter) - 1
      BY DEF CycleLength
    <3>3. totalTicks \in Nat /\ bump \in Nat /\ BumpOf(SumAfter) \in Nat
      BY <1>1 DEF Ranges
    <3> QED BY <3>1, <3>2, <3>3
  <2>2. ideal' \in Int
    BY DEF Ranges
  <2>3. subCycle' \in 0 .. Mod - 1 /\ cycle' \in Nat
    BY DEF Ranges
  <2>4. match' = FALSE
    OBVIOUS
  <2>5. interruptCount' \in Nat
    <3>1. interruptCount' = interruptCount + 1
      OBVIOUS
    <3>2. interruptCount \in Nat
      BY DEF Ranges
    <3> HIDE DEF DividerInv, FracNMatchIsr
    <3> QED BY <3>1, <3>2
  <2>6. UNCHANGED <<count, m, k, setting, divisor, interval, elapsed>>
    BY DEF settingVars
  <2>7. match' \in BOOLEAN
    BY <2>4
  <2> QED BY <1>1, <2>1, <2>2, <2>3, <2>5, <2>6, <2>7 DEF Ranges
<1>4. RoomInCycle'
  BY <1>1 DEF RoomInCycle, Ranges
<1>5. SettingApart'
  BY <1>1, <1>2 DEF SettingApart, settingVars, Ranges
<1>6. TicksOwed'
  <2> DEFINE a == Mod * totalTicks
             b == Mod * m
  <2>1. a \in Int /\ b \in Int /\ Mod * bump \in Int
    BY DEF Ranges
  <2>2. Mod * (totalTicks + (m + bump)) = a + b + Mod * bump
    BY DEF Ranges
  <2>3. Mod * bump + SumAfter = s + k
    <3>1. CASE bump = 1
      BY <3>1 DEF SumAfter, Ranges
    <3>2. CASE bump = 0
      BY <3>2 DEF SumAfter, Ranges
    <3> QED BY <3>1, <3>2 DEF Ranges
  <2>4. Mod * totalTicks' + s' = a + b + Mod * bump + SumAfter
    BY <2>2 DEF CycleLength
  <2>5. ideal' = a + s + b + k
    BY DEF TicksOwed
  <2>6. Mod * totalTicks' + s' = ideal'
    <3> HIDE DEF a, b
    <3> QED BY <2>1, <2>3, <2>4, <2>5, <1>1 DEF Ranges
  <2>7. bump' = 1 <=> s' >= Mod
    BY <1>1 DEF BumpOf
  <2> QED BY <2>6, <2>7 DEF TicksOwed
<1>7. TicksCounted'
  BY <1>2 DEF TicksCounted, CycleLength, Ranges
<1> QED BY <1>3, <1>4, <1>5, <1>6, <1>7

(* No store of SetDivisor, and no tick between them, is a match. *)
LEMMA SettingStep ==
  ASSUME DividerInv, SetDivisor
  PROVE  DividerInv'
<1> USE DividerAssumption DEF DividerInv, hwVars, historyVars
<1>1. CASE SetFraction
  <2>1. PICK n \in Divisors : divisor' = n /\ k' = Fraction(n)
    BY <1>1 DEF SetFraction
  <2>2. k' \in 0 .. Mod - 1
    BY <2>1 DEF Fraction
  <2>3. Ranges'
    BY <1>1, <2>1, <2>2 DEF SetFraction, Ranges
  <2>4. RoomInCycle' /\ SettingApart'
    BY <1>1, <2>1 DEF SetFraction, RoomInCycle, SettingApart, Ranges
  <2>5. TicksOwed' /\ TicksCounted'
    BY <1>1 DEF SetFraction, TicksOwed, TicksCounted
  <2> QED BY <2>3, <2>4, <2>5
<1>2. CASE SetWhole
  <2>1. divisor \in Divisors
    BY <1>2 DEF SetWhole, SettingApart
  <2>2. Whole(divisor) \in Int
    BY <2>1 DEF Whole
  <2>3. m' \in Nat /\ m' > Latency /\ m' > SetLimit
    BY <1>2, <2>1, <2>2 DEF SetWhole
  <2>4. Ranges'
    BY <1>2, <2>3 DEF SetWhole, Ranges
  <2>5. RoomInCycle' /\ SettingApart'
    BY <1>2, <2>1, <2>3 DEF SetWhole, RoomInCycle, SettingApart, Ranges
  <2>6. TicksOwed' /\ TicksCounted'
    BY <1>2 DEF SetWhole, TicksOwed, TicksCounted
  <2> QED BY <2>4, <2>5, <2>6
<1>3. CASE SetInterval
  <2>1. interval = m + bump /\ ~match /\ count <= SetLimit
    BY <1>3 DEF SetInterval, SettingApart
  <2>2. Ranges'
    BY <1>3, <2>1 DEF SetInterval, Ranges, RoomInCycle, dividerVars
  <2>3. RoomInCycle' /\ SettingApart'
    BY <1>3, <2>1 DEF SetInterval, RoomInCycle, SettingApart, Ranges, dividerVars
  <2>4. TicksOwed' /\ TicksCounted'
    BY <1>3, <2>1 DEF SetInterval, TicksOwed, TicksCounted, dividerVars
  <2> QED BY <2>2, <2>3, <2>4
<1> QED BY <1>1, <1>2, <1>3 DEF SetDivisor

(* A tick is counted, and makes a match only at the end of the interval. *)
LEMMA TickStep ==
  ASSUME DividerInv, Tick
  PROVE  DividerInv'
<1> USE DividerAssumption DEF DividerInv, Tick, dividerVars, settingVars
<1>1. Ranges'
  <2>1. count' \in Nat /\ match' \in BOOLEAN /\ elapsed' \in Int
    BY DEF Ranges
  <2> QED BY <2>1 DEF Ranges
<1>2. setting # "idle" => count # top
  BY DEF RoomInCycle, Ranges
<1>3. RoomInCycle' /\ SettingApart'
  BY <1>2 DEF RoomInCycle, SettingApart, Ranges
<1>4. match => count # top
  BY DEF RoomInCycle, Ranges
<1>5. TicksCounted'
  <2>1. CASE count = top
    <3>1. count' = 0 /\ match' = TRUE /\ match = FALSE
      BY <2>1, <1>4 DEF Ranges
    <3> QED BY <2>1, <3>1 DEF TicksCounted, Ranges
  <2>2. CASE count # top
    <3>1. count' = count + 1 /\ match' = match
      BY <2>2 DEF Ranges
    <3> QED BY <3>1 DEF TicksCounted, Ranges
  <2> QED BY <2>1, <2>2
<1>6. TicksOwed'
  BY DEF TicksOwed
<1> QED BY <1>1, <1>3, <1>5, <1>6

(* What the PLL does to the counts, outside of a match and of SetDivisor. *)
LEMMA PllStep ==
  ASSUME DividerInv,
         SlewToCycle(Mod - 1) \/ SetTimersCount,
         ~match, setting = "idle"
  PROVE  DividerInv'
<1> USE DividerAssumption DEF DividerInv
<1>1. CASE SlewToCycle(Mod - 1)
  <2> USE <1>1 DEF SlewToCycle, hwVars, settingVars
  <2>1. Ranges' /\ RoomInCycle' /\ SettingApart'
    BY DEF Ranges, RoomInCycle, SettingApart
  <2>2. Mod * 0 = 0
    OBVIOUS
  <2>3. TicksOwed' /\ TicksCounted'
    BY <2>2 DEF TicksOwed, TicksCounted, Ranges
  <2> QED BY <2>1, <2>3
<1>2. CASE SetTimersCount
  <2> USE <1>2 DEF SetTimersCount, dividerVars, settingVars
  <2>1. count' \in Nat /\ count' <= top
    BY DEF RoomInCycle, Ranges
  <2>2. Ranges' /\ RoomInCycle' /\ SettingApart'
    BY <2>1 DEF Ranges, RoomInCycle, SettingApart
  <2>3. TicksOwed' /\ TicksCounted'
    BY <2>1 DEF TicksOwed, TicksCounted, Ranges
  <2> QED BY <2>2, <2>3
<1> QED BY <1>1, <1>2

(* So every step keeps the invariant. *)
LEMMA DividerKept ==
  ASSUME DividerInv, [DividerNext]_fracNVars
  PROVE  DividerInv'
<1>1. CASE Tick
  BY <1>1, TickStep
<1>2. CASE FracNMatchIsr
  BY <1>2, MatchStep
<1>3. CASE ServiceInterrupt
  BY <1>3 DEF ServiceInterrupt, DividerInv, Ranges, RoomInCycle, SettingApart, TicksOwed,
              TicksCounted,
              hwVars, settingVars, historyVars
<1>4. CASE SetDivisor
  BY <1>4, SettingStep
<1>5. CASE SlewToCycle(Mod - 1) /\ ~match
  BY <1>5, PllStep DEF SlewToCycle
<1>6. CASE SetTimersCount /\ ~match /\ setting = "idle"
  BY <1>6, PllStep
<1>7. CASE UNCHANGED fracNVars
  BY <1>7 DEF DividerInv, Ranges, RoomInCycle, SettingApart, TicksOwed, TicksCounted,
              fracNVars, hwVars, dividerVars, settingVars, historyVars
<1> QED BY <1>1, <1>2, <1>3, <1>4, <1>5, <1>6, <1>7 DEF DividerNext

(* The invariant of the divider holds for ever. *)
LEMMA DividerCorrect == Spec => []DividerInv
<1>1. DividerInv /\ [Next]_vars => DividerInv'
  BY NextIsDividerNext, DividerKept
<1> QED BY InitDivider, <1>1, PTL DEF Spec

(* The ticks counted and those owed are the ones the divisors ask for, to the  *)
(* 1/Mod of a tick and for ever (FractionalN.cpp:118-142).                     *)
THEOREM OwedCorrect == Spec => []TicksOwed
<1>1. DividerInv => TicksOwed
  BY DEF DividerInv
<1> QED BY DividerCorrect, <1>1, PTL

(* GetTotalTicks and the count are the time of the hardware, as long as        *)
(* SetDivisor is done before the match of its cycle (FractionalN.h:88).        *)
THEOREM CountedCorrect == Spec => []TicksCounted
<1>1. DividerInv => TicksCounted
  BY DEF DividerInv
<1> QED BY DividerCorrect, <1>1, PTL

-----------------------------------------------------------------------------
(* The NTP time that the divider makes.  First the arithmetic of a phase: mm and kk are *)
(* the divider's, ss the ticks it owes, c the count, M and Cy are Mod and Cycle.        *)

(* Division rounds down. *)
LEMMA Quotient ==
  ASSUME NEW n \in Int, NEW d \in Nat \ {0}
  PROVE  /\ n \div d \in Int /\ n % d \in 0 .. d - 1
         /\ n = d * (n \div d) + (n % d)
  OBVIOUS

(* Products by a positive number. *)
LEMMA Products ==
  ASSUME NEW d \in Nat \ {0}, NEW a \in Int, NEW b \in Int
  PROVE  /\ d * (a + b) = d * a + d * b /\ d * (a - b) = d * a - d * b
         /\ d * a \in Int /\ d * (a + 1) = d * a + d /\ d * (a - 1) = d * a - d
         /\ a <= b => d * a <= d * b
         /\ a < b => d * a + d <= d * b
         /\ d * a < d * b => a < b
  OBVIOUS
(* How far the phase that is computed, A - ss - B, and the true one, T, are apart: the *)
(* difference times both denominators is n * (c * kk + mm * ss) and the roundings.    *)
LEMMA PhaseError ==
  ASSUME NEW mm \in Nat \ {0}, NEW kk \in Nat, NEW c \in Nat, NEW ss \in Nat, NEW n \in Int,
         NEW M \in Nat, NEW Cy \in Int, NEW DD \in Nat \ {0},
         DD = M * mm + kk, DD = Cy + n, 4 * n <= DD, -4 * n <= DD, kk < M,
         ss <= 2 * M - 2, c <= mm, M >= 3,
         NEW A \in Int, NEW B \in Int, NEW T \in Int,
         2 * (mm * A) <= 2 * (c * Cy) + mm, 2 * (c * Cy) - mm < 2 * (mm * A),
         mm * B <= c * kk, c * kk < mm * B + mm,
         DD * T <= (M * c - ss) * Cy, (M * c - ss) * Cy < DD * T + DD
  PROVE  A - ss - B - T <= M /\ -(A - ss - B - T) <= M
<1> DEFINE e == A - ss - B - T
           u == c * kk + mm * ss
<1>1. c * Cy - c * kk = M * (c * mm) - c * n
  <2>1. Cy - kk = M * mm - n
    OBVIOUS
  <2>2. c * Cy - c * kk = c * (Cy - kk)
    OBVIOUS
  <2>3. c * (M * mm - n) = M * (c * mm) - c * n
    OBVIOUS
  <2> QED BY <2>1, <2>2, <2>3
<1>2. (M * c - ss) * Cy = (M * c - ss) * DD - (M * c - ss) * n
  OBVIOUS
<1>3. u \in Nat /\ u <= mm * (3 * M - 3)
  <2>1. c * kk <= mm * kk
    OBVIOUS
  <2>2. mm * kk + mm * ss = mm * (kk + ss)
    OBVIOUS
  <2>3. mm * (kk + ss) <= mm * (3 * M - 3)
    OBVIOUS
  <2> QED BY <2>1, <2>2, <2>3
<1> DEFINE p == mm * DD
           g == A - B - M * c
           h == T - (M * c - ss)
<1>4. e = g - h /\ e \in Int /\ g \in Int /\ h \in Int /\ p \in Nat \ {0}
  OBVIOUS
<1>5. 2 * (mm * g) < 3 * mm - 2 * (c * n) /\ 2 * (mm * g) > -2 * (c * n) - mm
  <2>1. mm * g = mm * A - mm * B - M * (c * mm)
    OBVIOUS
  <2> QED BY <1>1, <2>1
<1>6. DD * h <= -((M * c - ss) * n) /\ DD * h > -((M * c - ss) * n) - DD
  <2>1. DD * h = DD * T - (M * c - ss) * DD
    OBVIOUS
  <2> QED BY <1>2, <2>1
<1>7. 2 * (DD * (mm * g)) - 2 * (mm * (DD * h)) = 2 * (p * e)
  BY <1>4
<1>8. /\ 2 * (DD * (mm * g)) < 3 * p - 2 * (DD * (c * n))
      /\ 2 * (DD * (mm * g)) > -2 * (DD * (c * n)) - p
  <2>1. DD * (2 * (mm * g)) < DD * (3 * mm - 2 * (c * n))
    BY <1>4, <1>5
  <2>2. DD * (2 * (mm * g)) > DD * (-2 * (c * n) - mm)
    BY <1>4, <1>5
  <2> QED BY <2>1, <2>2
<1>9. /\ mm * (DD * h) <= -(mm * ((M * c - ss) * n))
      /\ mm * (DD * h) > -(mm * ((M * c - ss) * n)) - p
  <2>1. mm * (DD * h) <= mm * (-((M * c - ss) * n))
    BY <1>4, <1>6
  <2>2. mm * (DD * h) > mm * (-((M * c - ss) * n) - DD)
    BY <1>4, <1>6
  <2> QED BY <2>1, <2>2
<1>10. DD * (c * n) - mm * ((M * c - ss) * n) = n * u
  OBVIOUS
<1>11. 2 * (p * e) < 5 * p - 2 * (n * u) /\ 2 * (p * e) > -2 * (n * u) - p
  <2> DEFINE a == DD * (mm * g)
             b == mm * (DD * h)
             v == DD * (c * n)
             w == mm * ((M * c - ss) * n)
  <2>1. a \in Int /\ b \in Int /\ v \in Int /\ w \in Int /\ p * e \in Int /\ n * u \in Int
    BY <1>4
  <2> HIDE DEF p, e, u, g, h, a, b, v, w
  <2>2. 2 * a - 2 * b = 2 * (p * e)
    BY <1>7 DEF a, b
  <2>3. 2 * a < 3 * p - 2 * v /\ 2 * a > -2 * v - p
    BY <1>8 DEF a, v
  <2>4. b <= -w /\ b > -w - p
    BY <1>9 DEF b, w
  <2>5. v - w = n * u
    BY <1>10 DEF v, w
  <2> QED BY <1>4, <2>1, <2>2, <2>3, <2>4, <2>5
<1>12. 4 * (n * u) <= p * (3 * M - 3) /\ -4 * (n * u) <= p * (3 * M - 3)
  <2> HIDE DEF u
  <2>1. 4 * (n * u) <= DD * u /\ -4 * (n * u) <= DD * u
    BY <1>3
  <2>2. DD * u <= DD * (mm * (3 * M - 3))
    BY <1>3
  <2>3. DD * (mm * (3 * M - 3)) = p * (3 * M - 3)
    OBVIOUS
  <2>4. n * u \in Int /\ DD * u \in Int /\ p * (3 * M - 3) \in Int
    BY <1>3, <1>4
  <2> QED BY <2>1, <2>2, <2>3, <2>4
<1>13. p * (4 * e) < p * (3 * M + 7) /\ p * (4 * e) > p * (-3 * M + 1)
  <2> HIDE DEF p, e, u
  <2>1. p * (4 * e) = 4 * (p * e) /\ p * (3 * M + 7) = p * (3 * M - 3) + 10 * p
        /\ p * (-3 * M + 1) = -(p * (3 * M - 3)) - 2 * p
    BY <1>4
  <2>2. n * u \in Int /\ p * e \in Int /\ p * (3 * M - 3) \in Int
    BY <1>3, <1>4
  <2> QED BY <1>4, <1>11, <1>12, <2>1, <2>2
<1>14. 4 * e < 3 * M + 7 /\ 4 * e > -3 * M + 1
  <2> HIDE DEF p, e
  <2>1. 3 * M + 7 \in Int /\ -3 * M + 1 \in Int /\ 4 * e \in Int
    BY <1>4
  <2> QED BY <1>4, <1>13, <2>1, Products
<1> HIDE DEF e
<1>15. e <= M /\ -e <= M
  BY <1>4, <1>14
<1> QED BY <1>15 DEF e

(* The phase that is computed, A - ss - B, and the true one, T, are in the cycle. *)
LEMMA PhaseRange ==
  ASSUME NEW mm \in Nat \ {0}, NEW kk \in Nat, NEW c \in Nat, NEW ss \in Nat, NEW n \in Int,
         NEW M \in Nat, NEW Cy \in Nat \ {0}, NEW DD \in Nat \ {0},
         DD = M * mm + kk, DD = Cy + n, n <= mm, kk < M,
         ss <= 2 * M - 2, M >= 3, c >= 2 \/ ss = 0, c < mm \/ (c = mm /\ ss >= M),
         NEW A \in Int, NEW B \in Int, NEW T \in Int,
         2 * (mm * A) <= 2 * (c * Cy) + mm, 2 * (c * Cy) - mm < 2 * (mm * A),
         mm * B <= c * kk, c * kk < mm * B + mm,
         DD * T <= (M * c - ss) * Cy, (M * c - ss) * Cy < DD * T + DD
  PROVE  A - ss - B \in 0 .. Cy - 1 /\ T \in 0 .. Cy - 1
<1> DEFINE P == A - ss - B
           g == M * mm - n
           X == M * c - ss
<1>1. g = Cy - kk /\ g \in Nat /\ g >= mm * (M - 1)
  <2>1. mm * (M - 1) = M * mm - mm
    OBVIOUS
  <2>2. mm * (M - 1) \in Nat
    OBVIOUS
  <2>3. M * mm \in Int
    OBVIOUS
  <2> QED BY <2>1, <2>2, <2>3
<1>2. c * g = c * Cy - c * kk /\ c * g \in Nat /\ mm * g \in Nat /\ P \in Int
  BY <1>1
<1>3. mm * g <= mm * Cy /\ mm * Cy \in Nat
  BY <1>1
<1>4. 2 * (mm * P) = 2 * (mm * A) - 2 * (mm * ss) - 2 * (mm * B)
  OBVIOUS
<1>5. /\ 2 * (mm * P) > 2 * (c * g) - mm - 2 * (mm * ss)
      /\ 2 * (mm * P) < 2 * (c * g) + 3 * mm - 2 * (mm * ss)
  <2>1. mm * A \in Int /\ mm * B \in Int /\ mm * ss \in Nat /\ c * Cy \in Nat /\ c * kk \in Nat
    OBVIOUS
  <2> HIDE DEF P, g
  <2> QED BY <1>2, <1>4, <2>1
<1>6. mm * P \in Int /\ mm * ss \in Nat /\ mm * M \in Nat
  BY <1>2
<1>7. 2 * (mm * P) > -mm
  <2>1. CASE ss = 0
    BY <1>2, <1>5, <1>6, <2>1
  <2>2. CASE c >= 2
    <3>1. c * g >= 2 * g
      BY <1>1, <2>2
    <3>2. mm * ss <= mm * (2 * M - 2)
      OBVIOUS
    <3>3. mm * (2 * M - 2) = 2 * (mm * (M - 1))
      OBVIOUS
    <3>4. mm * (M - 1) \in Nat
      OBVIOUS
    <3> HIDE DEF g, P
    <3> QED BY <1>1, <1>2, <1>5, <1>6, <3>1, <3>2, <3>3, <3>4
  <2> QED BY <2>1, <2>2
<1>8. 2 * (mm * P) < 2 * (mm * Cy)
  <2>1. CASE c < mm
    <3>1. c * g <= (mm - 1) * g
      BY <1>1, <2>1
    <3>2. (mm - 1) * g = mm * g - g
      BY <1>1
    <3>3. mm * (M - 1) >= 2 * mm
      OBVIOUS
    <3>4. mm * (M - 1) \in Nat
      OBVIOUS
    <3> HIDE DEF g, P
    <3> QED BY <1>1, <1>2, <1>3, <1>5, <1>6, <3>1, <3>2, <3>3, <3>4
  <2>2. CASE c = mm /\ ss >= M
    <3>1. mm * ss >= mm * M
      BY <2>2
    <3>2. mm * M >= 3 * mm
      OBVIOUS
    <3> HIDE DEF g, P
    <3> QED BY <1>2, <1>3, <1>5, <1>6, <2>2, <3>1, <3>2
  <2> QED BY <2>1, <2>2
<1>9. P >= 0
  <2> HIDE DEF P
  <2>1. SUFFICES ASSUME P <= -1 PROVE FALSE
    BY <1>2
  <2>2. mm * P <= mm * (-1)
    BY <1>2, <2>1
  <2> QED BY <1>6, <1>7, <2>2
<1>10. P < Cy
  <2> HIDE DEF P
  <2>1. SUFFICES ASSUME P >= Cy PROVE FALSE
    BY <1>2
  <2>2. mm * P >= mm * Cy
    BY <1>2, <2>1
  <2> QED BY <1>3, <1>6, <1>8, <2>2
<1>11. X \in Nat /\ X < DD
  <2>1. M * c \in Nat /\ M * mm \in Nat
    OBVIOUS
  <2>2. X >= 0
    <3>1. CASE ss = 0
      BY <2>1, <3>1
    <3>2. CASE c >= 2
      <4>1. M * c >= M * 2
        BY <3>2
      <4> QED BY <2>1, <4>1
    <3> QED BY <3>1, <3>2
  <2>3. X < DD
    <3>1. CASE c < mm
      <4>1. M * c <= M * (mm - 1)
        BY <3>1
      <4>2. M * (mm - 1) = M * mm - M
        OBVIOUS
      <4> QED BY <2>1, <4>1, <4>2
    <3>2. CASE c = mm /\ ss >= M
      BY <2>1, <3>2
    <3> QED BY <3>1, <3>2
  <2> QED BY <2>1, <2>2, <2>3
<1>12. X * Cy \in Nat /\ X * Cy < DD * Cy /\ DD * Cy \in Nat
  <2>1. X * Cy <= (DD - 1) * Cy
    BY <1>11
  <2>2. (DD - 1) * Cy = DD * Cy - Cy
    OBVIOUS
  <2>3. X * Cy \in Nat /\ DD * Cy \in Nat
    BY <1>11
  <2> QED BY <2>1, <2>2, <2>3
<1>13. T >= 0
  <2> HIDE DEF X
  <2>1. SUFFICES ASSUME T <= -1 PROVE FALSE
    OBVIOUS
  <2>2. DD * T <= DD * (-1)
    BY <2>1
  <2>3. X * Cy < DD * T + DD
    BY DEF X
  <2>4. DD * T \in Int
    OBVIOUS
  <2> QED BY <1>12, <2>2, <2>3, <2>4
<1>14. T < Cy
  <2> HIDE DEF X
  <2>1. SUFFICES ASSUME T >= Cy PROVE FALSE
    OBVIOUS
  <2>2. DD * T >= DD * Cy
    BY <2>1
  <2>3. DD * T <= X * Cy
    BY DEF X
  <2>4. DD * T \in Int
    OBVIOUS
  <2> QED BY <1>12, <2>2, <2>3, <2>4
<1> QED BY <1>2, <1>9, <1>10, <1>13, <1>14

(* A quotient, rounded down. *)
LEMMA Floor ==
  \A y \in Int, d \in Nat \ {0} :
    y \div d \in Int /\ d * (y \div d) <= y /\ y < d * (y \div d) + d
BY Quotient

(* Half of a number, rounded down. *)
LEMMA Half == \A y \in Nat : y \div 2 \in Nat /\ 2 * (y \div 2) <= y /\ 2 * (y \div 2) >= y - 1
OBVIOUS

(* The quotient and the remainder of a cycle by m make a product rounded to the nearest. *)
LEMMA Rounded ==
  ASSUME NEW mm \in Nat \ {0}, NEW c \in Nat, NEW Cy \in Nat,
         NEW d \in Int, NEW r \in Int, r = Cy - d * mm,
         NEW A \in Int, A = c * d + (c * r + mm \div 2) \div mm
  PROVE  2 * (mm * A) <= 2 * (c * Cy) + mm /\ 2 * (c * Cy) - mm < 2 * (mm * A)
<1> DEFINE h == mm \div 2
           w == c * r + h
           q == w \div mm
<1>1. 2 * h <= mm /\ 2 * h >= mm - 1 /\ h \in Int
  BY Half
<1>2. w \in Int /\ q \in Int /\ mm * q <= w /\ w < mm * q + mm /\ mm * q \in Int
  <2>1. w \in Int
    BY <1>1
  <2> HIDE DEF w
  <2>2. q \in Int /\ mm * q <= w /\ w < mm * q + mm
    BY <2>1, Floor
  <2> HIDE DEF q
  <2> QED BY <2>1, <2>2
<1>3. mm * A = c * (d * mm) + mm * q
  <2>1. A = c * d + q
    OBVIOUS
  <2> HIDE DEF q
  <2>2. mm * (c * d + q) = mm * (c * d) + mm * q
    BY <1>2
  <2>3. mm * (c * d) = c * (d * mm)
    OBVIOUS
  <2>4. mm * A = mm * (c * d + q)
    BY <2>1, Zenon
  <2> QED BY <2>2, <2>3, <2>4, Zenon
<1>4. c * Cy = c * (d * mm) + c * r
  OBVIOUS
<1>5. c * (d * mm) \in Int /\ c * r \in Int
  OBVIOUS
<1>6. w = c * r + h
  OBVIOUS
<1> HIDE DEF h, w, q
<1> QED BY <1>1, <1>2, <1>3, <1>4, <1>5, <1>6

(* The phase that is computed is in the cycle, and within a tick of the true one. *)
LEMMA PhaseNumbers ==
  ASSUME NEW mm \in Nat \ {0}, NEW kk \in Nat, NEW c \in Nat, NEW ss \in Nat, NEW n \in Int,
         NEW M \in Nat, NEW Cy \in Nat \ {0}, NEW DD \in Nat \ {0},
         DD = M * mm + kk, DD = Cy + n, n <= mm, kk < M, 4 * n <= DD, -4 * n <= DD,
         ss <= 2 * M - 2, M >= 3, c >= 2 \/ ss = 0, c < mm \/ (c = mm /\ ss >= M),
         NEW A \in Int, NEW B \in Int, NEW T \in Int,
         2 * (mm * A) <= 2 * (c * Cy) + mm, 2 * (c * Cy) - mm < 2 * (mm * A),
         mm * B <= c * kk, c * kk < mm * B + mm,
         DD * T <= (M * c - ss) * Cy, (M * c - ss) * Cy < DD * T + DD
  PROVE  /\ A - ss - B \in 0 .. Cy - 1 /\ T \in 0 .. Cy - 1
         /\ A - ss - B - T <= M /\ -(A - ss - B - T) <= M
<1>1. A - ss - B \in 0 .. Cy - 1 /\ T \in 0 .. Cy - 1
  BY PhaseRange, Zenon
<1>2. c <= mm
  OBVIOUS
<1>3. A - ss - B - T <= M /\ -(A - ss - B - T) <= M
  BY <1>2, PhaseError
<1> QED BY <1>1, <1>3

(* The divisor that m and k stand for. *)
OfDivisor(mm, kk) == \E n \in Divisors \cup {0} : mm = Nominal + Whole(n) /\ kk = Fraction(n)

(* A state of the divider, and a count in its cycle that no interrupt can be late for. *)
Good(state, c) ==
  /\ state.m \in Nat /\ state.k \in Nat /\ state.s \in 0 .. 2 * Mod - 2
  /\ state.subCycle \in 0 .. Mod - 1 /\ state.cycle \in Nat /\ c \in Nat
  /\ OfDivisor(state.m, state.k)
  /\ c >= 2 \/ state.s = 0
  /\ c < state.m \/ (c = state.m /\ state.s >= Mod)

(* The true phase of a count. *)
Phase(state, c) == ((Mod * c - state.s) * Cycle) \div (Mod * state.m + state.k)

(* What the assumptions say of a divisor. *)
LEMMA Divisor ==
  ASSUME NEW mm, NEW kk, OfDivisor(mm, kk)
  PROVE  \E n \in Int :
           /\ mm \in Nat \ {0} /\ kk \in 0 .. Mod - 1 /\ mm > ReadLimit
           /\ mm > SetLimit /\ mm > Latency
           /\ Mod * mm + kk = Cycle + n /\ n <= mm
           /\ 4 * n <= Cycle + n /\ -4 * n <= Cycle + n
           /\ Mod * mm + kk \in Nat \ {0}
<1> USE DividerAssumption, SecondsAssumption, NearNominal
<1>1. PICK n \in Divisors \cup {0} : mm = Nominal + Whole(n) /\ kk = Fraction(n)
  BY DEF OfDivisor
<1>2. n \in Int /\ Cycle \in Nat
  BY DEF Cycle
<1>3. /\ Whole(n) \in Int /\ Fraction(n) \in 0 .. Mod - 1
      /\ n = Mod * Whole(n) + Fraction(n)
  BY <1>2, Quotient DEF Whole, Fraction
<1>4. n = 0 => Whole(n) = 0
  BY DEF Whole
<1>5. /\ n <= mm /\ 4 * n <= Cycle + n /\ -4 * n <= Cycle + n
      /\ mm > ReadLimit /\ mm > SetLimit /\ mm > Latency
  <2>1. CASE n \in Divisors
    BY <1>1, <2>1
  <2>2. CASE n = 0
    BY <1>1, <1>2, <1>4, <2>2
  <2> QED BY <2>1, <2>2
<1>6. mm \in Nat \ {0} /\ kk \in 0 .. Mod - 1
  BY <1>1, <1>3, <1>5
<1>7. Mod * mm + kk = Cycle + n
  <2>1. Mod * (Nominal + Whole(n)) = Mod * Nominal + Mod * Whole(n)
    BY <1>3
  <2>2. Cycle = Mod * Nominal
    BY DEF Cycle
  <2>3. Mod * Nominal \in Int /\ Mod * Whole(n) \in Int
    BY <1>3
  <2> QED BY <1>1, <1>3, <2>1, <2>2, <2>3
<1>8. Mod * mm + kk \in Nat \ {0}
  <2>1. Mod * mm >= Mod
    BY <1>6
  <2>2. Mod * mm \in Nat
    BY <1>6
  <2> QED BY <1>6, <2>1, <2>2
<1> QED BY <1>2, <1>5, <1>6, <1>7, <1>8

(* Half of the divisor is rounded off. *)
LEMMA Nearest ==
  ASSUME NEW d \in Nat \ {0}, NEW y \in Int
  PROVE  (d * y + d \div 2) \div d = y
<1> DEFINE h == d \div 2
           z == d * y + h
           q == z \div d
<1>1. h \in Nat /\ h < d
  BY Half
<1>2. z \in Int /\ d * y \in Int /\ z = d * y + h
  BY <1>1
<1> HIDE DEF h, z
<1>3. q \in Int /\ d * q <= z /\ z < d * q + d /\ d * q \in Int
  <2>1. q \in Int /\ d * q <= z /\ z < d * q + d
    BY <1>2, Floor
  <2> HIDE DEF q
  <2> QED BY <2>1
<1> HIDE DEF q
<1>4. d * y < d * (q + 1) /\ d * q < d * (y + 1)
  BY <1>1, <1>2, <1>3, Products
<1>5. y < q + 1 /\ q < y + 1
  BY <1>3, <1>4, Products
<1>6. q = y
  BY <1>3, <1>5
<1> QED BY <1>6, Zenon DEF q, h, z

(* The phase that ComputePhase makes of a count. *)
LEMMA ComputedPhase ==
  ASSUME NEW state, NEW c, Good(state, c)
  PROVE  /\ ComputePhase(state, c) \in 0 .. Cycle - 1 /\ Phase(state, c) \in 0 .. Cycle - 1
         /\ ComputePhase(state, c) - Phase(state, c) <= Mod
         /\ Phase(state, c) - ComputePhase(state, c) <= Mod
<1> DEFINE mm == state.m
           kk == state.k
           ss == state.s
           DD == Mod * mm + kk
           d == Cycle \div mm
           r == Cycle - d * mm
           A == c * d + (c * r + mm \div 2) \div mm
           B == (kk * c) \div mm
           X == (Mod * c - ss) * Cycle
           T == X \div DD
<1>1. /\ Mod \in Nat /\ Mod >= 3 /\ Cycle \in Nat \ {0}
  BY DividerAssumption, NearNominal DEF Cycle
<1>2. PICK n \in Int :
           /\ mm \in Nat \ {0} /\ kk \in 0 .. Mod - 1
           /\ DD = Cycle + n /\ n <= mm
           /\ 4 * n <= Cycle + n /\ -4 * n <= Cycle + n
           /\ DD \in Nat \ {0}
  BY Divisor DEF Good
<1>3. ss \in 0 .. 2 * Mod - 2 /\ c \in Nat
      /\ (c >= 2 \/ ss = 0) /\ (c < mm \/ (c = mm /\ ss >= Mod))
  BY DEF Good
<1>4. d \in Int /\ r \in Int /\ A \in Int /\ B \in Int /\ T \in Int
  <2>1. d \in Int
    BY <1>1, <1>2
  <2> HIDE DEF d
  <2>2. r \in Int
    BY <1>1, <1>2, <2>1
  <2> HIDE DEF r
  <2>3. c * r + mm \div 2 \in Int
    BY <1>2, <1>3, <2>2
  <2>4. (c * r + mm \div 2) \div mm \in Int
    BY <1>2, <2>3, Quotient
  <2>5. A \in Int
    BY <1>3, <2>1, <2>4
  <2>6. kk * c \in Int /\ X \in Int
    BY <1>1, <1>2, <1>3
  <2>7. B \in Int /\ T \in Int
    <3> HIDE DEF DD, X
    <3> QED BY <1>2, <2>6, Quotient
  <2> QED BY <2>1, <2>2, <2>5, <2>7
<1>5. 2 * (mm * A) <= 2 * (c * Cycle) + mm /\ 2 * (c * Cycle) - mm < 2 * (mm * A)
  BY <1>1, <1>2, <1>3, <1>4, Rounded
<1>6. mm * B <= c * kk /\ c * kk < mm * B + mm
  <2>1. kk * c \in Int /\ kk * c = c * kk
    BY <1>2, <1>3
  <2>2. mm * B <= kk * c /\ kk * c < mm * B + mm
    <3> DEFINE y == kk * c
    <3>1. y \in Int
      BY <2>1
    <3> HIDE DEF y
    <3>2. mm * (y \div mm) <= y /\ y < mm * (y \div mm) + mm
      BY <1>2, <3>1, Floor
    <3> QED BY <3>2, Zenon DEF y
  <2> QED BY <2>1, <2>2
<1>7. DD * T <= X /\ X < DD * T + DD
  <2>1. X \in Int
    BY <1>1, <1>3
  <2> HIDE DEF DD, X
  <2> QED BY <1>2, <2>1, Floor
<1>8. ComputePhase(state, c) = A - ss - B
  <2>1. ss + B \in Int
    BY <1>3, <1>4
  <2>2. (Mod * (ss + B) + Mod \div 2) \div Mod = ss + B
    BY <1>1, <2>1, Nearest
  <2> QED BY <1>4, <1>3, <2>2 DEF ComputePhase
<1>9. Phase(state, c) = T
  BY DEF Phase
<1>10. DD = Mod * mm + kk /\ X = (Mod * c - ss) * Cycle
  OBVIOUS
<1>11. kk \in Nat /\ kk < Mod /\ ss \in Nat /\ ss <= 2 * Mod - 2
  BY <1>1, <1>2, <1>3
<1> HIDE DEF mm, kk, ss, d, r, A, B, T, DD, X
<1>12. 4 * n <= DD /\ -4 * n <= DD /\ mm * B <= c * kk /\ c * kk < mm * B + mm
  BY <1>2, <1>6
<1>13. DD * T <= (Mod * c - ss) * Cycle /\ (Mod * c - ss) * Cycle < DD * T + DD
  BY <1>7, <1>10
<1>14. /\ A - ss - B \in 0 .. Cycle - 1 /\ T \in 0 .. Cycle - 1
       /\ A - ss - B - T <= Mod /\ -(A - ss - B - T) <= Mod
  BY <1>1, <1>2, <1>3, <1>4, <1>5, <1>10, <1>11, <1>12, <1>13, PhaseNumbers
<1> QED BY <1>1, <1>11, <1>4, <1>8, <1>9, <1>14

(* The cycle that the divider counts from, and the cycle of one of its states. *)
Origin == cycles - (cycle * Mod + subCycle)
CycleOf(origin, state) == origin + (state.cycle * Mod + state.subCycle)

(* The true time of a count, and a count that was taken at the time at. *)
Moment(origin, state, c) ==
  Seconds * PerSecond + CycleOf(origin, state) * Cycle + Phase(state, c) + Cycle \div 2

Exact(origin, state, c, at) == Good(state, c) /\ at = Moment(origin, state, c)

(* The divider has counted whole seconds since its origin, and the offset is from there. *)
Aligned == \E q \in Int : Origin = CyclesPerSecond * q /\ (synced => ntpSecondsOffset = Seconds + q)

(* The cycles are those of whole seconds and the ones of this second. *)
LEMMA CyclesSplit ==
  ASSUME NEW y \in Nat, NEW j \in Nat
  PROVE  /\ y * Mod + j =
              CyclesPerSecond * ((j \div CyclesPerSecond) + y * (Mod \div CyclesPerSecond))
                + (j % CyclesPerSecond)
         /\ (j \div CyclesPerSecond) + y * (Mod \div CyclesPerSecond) \in Int
         /\ j % CyclesPerSecond \in 0 .. CyclesPerSecond - 1
<1> DEFINE C == CyclesPerSecond
           a == j \div C
           b == Mod \div C
<1>1. C \in Nat \ {0} /\ Mod \in Nat /\ Mod % C = 0
  BY DividerAssumption, SecondsAssumption
<1>2. a \in Int /\ j % C \in 0 .. C - 1 /\ j = C * a + (j % C)
  BY <1>1, Quotient
<1>3. b \in Int /\ Mod = C * b
  BY <1>1, Quotient
<1> HIDE DEF a, b, C
<1>4. C * (a + y * b) = C * a + C * (y * b)
  BY <1>1, <1>2, <1>3
<1>5. C * (y * b) = y * Mod
  BY <1>1, <1>3
<1>6. C * a \in Int /\ y * Mod \in Int /\ a + y * b \in Int
  BY <1>1, <1>2, <1>3
<1>7. y * Mod + j = C * (a + y * b) + (j % C) /\ j % C \in 0 .. C - 1
  BY <1>2, <1>4, <1>5, <1>6
<1> QED BY <1>6, <1>7 DEF a, b, C

(* A timestamp is the time that the cycles make, with the half cycle added once. *)
LEMMA NtpTimeOf ==
  ASSUME NEW state, NEW c, Good(state, c), ntpSecondsOffset \in Int
  PROVE  NtpTime(state, c) = (WholeSeconds(state) + ntpSecondsOffset) * PerSecond
           + Cycle * (state.subCycle % CyclesPerSecond) + ComputePhase(state, c) + Cycle \div 2
<1> DEFINE j == state.subCycle % CyclesPerSecond
           P == ComputePhase(state, c)
           o == Cycle \div 2
           f == (P + Cycle * j) % PerSecond
           w == (WholeSeconds(state) + ntpSecondsOffset) * PerSecond
           z == WholeSeconds(state) + ntpSecondsOffset
<1>1. /\ Cycle \in Nat /\ Cycle >= 2 /\ CyclesPerSecond \in Nat \ {0}
      /\ PerSecond = CyclesPerSecond * Cycle /\ PerSecond \in Nat /\ PerSecond >= Cycle
  <2>1. Cycle >= 4 * Mod /\ Cycle \in Nat /\ Mod >= 3
    BY DividerAssumption, NearNominal DEF Cycle
  <2>2. CyclesPerSecond \in Nat \ {0}
    BY SecondsAssumption
  <2>3. CyclesPerSecond * Cycle >= Cycle /\ CyclesPerSecond * Cycle \in Nat
    BY <2>1, <2>2
  <2> QED BY <2>1, <2>2, <2>3, DividerAssumption DEF PerSecond
<1>2. P \in 0 .. Cycle - 1
  BY ComputedPhase
<1>3. /\ j \in 0 .. CyclesPerSecond - 1
      /\ WholeSeconds(state) \in Int
  <2>1. state.subCycle \in Nat /\ state.cycle \in Nat
    BY DividerAssumption DEF Good
  <2> QED BY <2>1, CyclesSplit DEF WholeSeconds
<1>4. o \in Nat /\ o < Cycle /\ o >= 1
  BY <1>1, Half
<1>5. P + Cycle * j \in 0 .. PerSecond - 1
  <2>1. Cycle * j \in Nat
    BY <1>1, <1>3
  <2>2. Cycle * j <= Cycle * (CyclesPerSecond - 1)
    BY <1>1, <1>3
  <2>3. Cycle * (CyclesPerSecond - 1) = PerSecond - Cycle
    BY <1>1
  <2> QED BY <1>1, <1>2, <2>1, <2>2, <2>3
<1>6. f = P + Cycle * j
  BY <1>1, <1>5
<1> HIDE DEF P, j, o, f, z
<1>7. /\ f \in 0 .. PerSecond - 1 /\ Cycle * j \in Int /\ z * PerSecond \in Int
      /\ (z + 1) * PerSecond = z * PerSecond + PerSecond
  BY <1>1, <1>3, <1>5, <1>6 DEF z
<1>8. NtpTime(state, c) = (z + Carry(f, o)) * PerSecond + ((f + o) % PerSecond)
  BY DEF NtpTime, z, f, P, j, o
<1>9. NtpTime(state, c) = z * PerSecond + (f + o)
  <2>1. CASE f + o < PerSecond
    <3>1. (f + o) % PerSecond = f + o
      BY <1>1, <1>4, <1>7, <2>1
    <3>2. Carry(f, o) = 0
      BY <1>4, <1>7, <3>1 DEF Carry
    <3>3. z \in Int
      BY <1>3 DEF z
    <3> QED BY <1>8, <3>1, <3>2, <3>3
  <2>2. CASE f + o >= PerSecond
    <3>1. (f + o) % PerSecond = f + o - PerSecond
      BY <1>1, <1>4, <1>7, <2>2
    <3>2. Carry(f, o) = 1
      BY <1>1, <1>4, <1>7, <3>1 DEF Carry
    <3> QED BY <1>1, <1>4, <1>7, <1>8, <3>1, <3>2
  <2> QED BY <1>1, <1>4, <1>7, <2>1, <2>2
<1>10. NtpTime(state, c) = z * PerSecond + Cycle * j + P + o
  BY <1>2, <1>4, <1>6, <1>7, <1>9 DEF P
<1> QED BY <1>10, Zenon DEF z, P, j, o

(* A multiple of the modulus changes no remainder. *)
LEMMA Remainder ==
  ASSUME NEW d \in Nat \ {0}, NEW y \in Int, NEW r \in 0 .. d - 1
  PROVE  (d * y + r) % d = r /\ (d * y + r) \div d = y
<1> DEFINE z == d * y + r
           q == z \div d
<1>1. z \in Int /\ d * y \in Int /\ z = d * y + r
  OBVIOUS
<1> HIDE DEF z
<1>2. q \in Int /\ z % d \in 0 .. d - 1 /\ z = d * q + (z % d)
  BY <1>1, Quotient
<1> HIDE DEF q
<1>3. d * q \in Int /\ d * q < d * (y + 1) /\ d * y < d * (q + 1)
  BY <1>1, <1>2, Products
<1>4. q < y + 1 /\ y < q + 1
  BY <1>2, <1>3, Products
<1>5. q = y
  BY <1>2, <1>4
<1>6. z % d = r
  BY <1>1, <1>2, <1>5
<1> QED BY <1>5, <1>6, Zenon DEF q, z

(* A timestamp of an exact count is within a tick of its time, and in its second if the *)
(* time of day has been set.                                                           *)
LEMMA StampOf ==
  ASSUME NEW state, NEW c, NEW at, Exact(Origin, state, c, at), Aligned,
         ntpSecondsOffset \in Int, cycles \in Int, subCycle \in Int, cycle \in Int
  PROVE  LET off == NtpTime(state, c) - at
             fraction == ((off + PerSecond \div 2) % PerSecond) - PerSecond \div 2
         IN  Abs(IF synced THEN off ELSE fraction) <= Mod
<1> DEFINE W == WholeSeconds(state)
           j == state.subCycle % CyclesPerSecond
           P == ComputePhase(state, c)
           T == Phase(state, c)
           o == Cycle \div 2
           e == P - T
           off == NtpTime(state, c) - at
           h == PerSecond \div 2
           fraction == ((off + h) % PerSecond) - h
<1>1. Good(state, c) /\ at = Moment(Origin, state, c)
  BY DEF Exact
<1>2. PICK q \in Int : Origin = CyclesPerSecond * q /\ (synced => ntpSecondsOffset = Seconds + q)
  BY DEF Aligned
<1>3. /\ Mod \in Nat /\ Cycle \in Nat /\ CyclesPerSecond \in Nat \ {0} /\ Seconds \in Nat
      /\ PerSecond = CyclesPerSecond * Cycle /\ PerSecond \in Nat /\ PerSecond >= 4 * Mod
  <2>1. Cycle >= 4 * Mod /\ Cycle \in Nat /\ Mod \in Nat
    BY DividerAssumption, NearNominal DEF Cycle
  <2>2. CyclesPerSecond \in Nat \ {0} /\ Seconds \in Nat
    BY SecondsAssumption
  <2>3. CyclesPerSecond * Cycle >= Cycle /\ CyclesPerSecond * Cycle \in Nat
    BY <2>1, <2>2
  <2> QED BY <2>1, <2>2, <2>3 DEF PerSecond
<1>4. P \in Int /\ T \in Int /\ e \in Int /\ e <= Mod /\ -e <= Mod /\ o \in Int
  <2>1. P \in Int /\ T \in Int /\ P - T <= Mod /\ T - P <= Mod
    BY <1>1, <1>3, ComputedPhase
  <2>2. o \in Int
    BY <1>3, Half
  <2> HIDE DEF P, T, o
  <2> QED BY <1>3, <2>1, <2>2
<1>5. W \in Int /\ j \in Int /\ CycleOf(Origin, state) = CyclesPerSecond * (q + W) + j
  <2>1. state.subCycle \in Nat /\ state.cycle \in Nat
    BY <1>1, DividerAssumption DEF Good
  <2>2. /\ state.cycle * Mod + state.subCycle = CyclesPerSecond * W + j
        /\ W \in Int /\ j \in 0 .. CyclesPerSecond - 1
    BY <2>1, CyclesSplit DEF WholeSeconds
  <2> HIDE DEF W, j
  <2>3. CyclesPerSecond * (q + W) = CyclesPerSecond * q + CyclesPerSecond * W
    BY <1>3, <2>2
  <2>4. CyclesPerSecond * q \in Int /\ CyclesPerSecond * W \in Int /\ j \in Int
    BY <1>3, <2>2
  <2> QED BY <1>2, <2>2, <2>3, <2>4 DEF CycleOf
<1>6. NtpTime(state, c) = (W + ntpSecondsOffset) * PerSecond + Cycle * j + P + o
  BY <1>1, NtpTimeOf
<1>7. at = Seconds * PerSecond + CycleOf(Origin, state) * Cycle + T + o
  BY <1>1 DEF Moment
<1> DEFINE y == ntpSecondsOffset - Seconds - q
<1>8. off = y * PerSecond + e /\ y \in Int /\ y * PerSecond \in Int
  <2> HIDE DEF W, j, P, T, o
  <2>1. CycleOf(Origin, state) * Cycle = (q + W) * PerSecond + Cycle * j
    <3>1. (CyclesPerSecond * (q + W) + j) * Cycle = CyclesPerSecond * ((q + W) * Cycle) + Cycle * j
      BY <1>3, <1>5
    <3>2. CyclesPerSecond * ((q + W) * Cycle) = (q + W) * PerSecond
      BY <1>3, <1>5
    <3> QED BY <1>5, <3>1, <3>2
  <2>2. (W + ntpSecondsOffset) * PerSecond - Seconds * PerSecond - (q + W) * PerSecond
          = y * PerSecond
    BY <1>3, <1>5
  <2>3. /\ (W + ntpSecondsOffset) * PerSecond \in Int /\ Seconds * PerSecond \in Int
        /\ (q + W) * PerSecond \in Int /\ y \in Int /\ y * PerSecond \in Int /\ Cycle * j \in Int
    BY <1>3, <1>5
  <2> HIDE DEF y
  <2> QED BY <1>4, <1>6, <1>7, <2>1, <2>2, <2>3 DEF e
<1>9. synced => off = e
  <2>1. synced => y = 0
    BY <1>2, <1>3
  <2>2. 0 * PerSecond = 0
    BY <1>3
  <2> HIDE DEF y, off, e
  <2> QED BY <1>4, <1>8, <2>1, <2>2
<1>10. h \in Nat /\ h > Mod /\ h < PerSecond /\ 2 * h <= PerSecond
  BY <1>3, Half, NearNominal
<1>11. fraction = e
  <2> HIDE DEF y, e, h, off
  <2>1. off + h = PerSecond * y + (e + h) /\ e + h \in 0 .. PerSecond - 1
    BY <1>3, <1>4, <1>8, <1>10
  <2>2. (PerSecond * y + (e + h)) % PerSecond = e + h
    <3>1. PerSecond \in Nat \ {0}
      BY <1>3, <1>10
    <3>2. y \in Int
      BY <1>8
    <3> QED BY <2>1, <3>1, <3>2, Remainder, Zenon
  <2> QED BY <1>4, <1>10, <2>1, <2>2
<1> HIDE DEF y, e, h, off, fraction
<1>12. Abs(IF synced THEN off ELSE fraction) <= Mod
  BY <1>3, <1>4, <1>9, <1>11 DEF Abs
<1> QED BY <1>12 DEF off, h, fraction

(* What is owed, and the divisor that m and k are of when SetDivisor is not between them. *)
DivisorInv ==
  /\ s <= 2 * Mod - 2
  /\ ~match => count >= 2 \/ s = 0
  /\ setting = "whole" => k = Fraction(divisor)
  /\ setting # "whole" => OfDivisor(m, k)

IsEdge(e) == e \in [is : {"edge"}, c : {e.c}, at : {e.at}, sure : BOOLEAN]

(* A count that was saved with the state that it belongs to. *)
IsCapture(origin, e) ==
  /\ e.is = "capture"
  /\ e.edge.sure => Exact(origin, e.of, e.edge.c, e.edge.at)

(* The seconds, and what a timestamp can be made from. *)
OffsetInv == cycles \in Nat /\ ntpSecondsOffset \in Int /\ Aligned

EdgeInv ==
  /\ icr5 = None \/ IsEdge(icr5)
  /\ icf5 => IsEdge(icr5) /\ (icr5.sure => Exact(Origin, DividerState, icr5.c, icr5.at))

CaptureInv == udpCapture # None => IsCapture(Origin, udpCapture)

(* Nothing changes the divider while a timestamp is made. *)
ReadingInv ==
  reading # None =>
    /\ ~match /\ setting = "idle" /\ count <= ReadLimit
    /\ \/ IsCapture(Origin, reading)
       \/ reading.is = "count" /\ Exact(Origin, DividerState, reading.c, reading.at)

StampInv == OffsetInv /\ EdgeInv /\ CaptureInv /\ ReadingInv /\ StampExact

(* The reset is of the nominal divisor. *)
LEMMA InitStamp == Init => DivisorInv /\ StampInv
<1> SUFFICES ASSUME Init PROVE DivisorInv /\ StampInv
  OBVIOUS
<1> USE DividerAssumption, SecondsAssumption, NearNominal DEF Init, FracNInit
<1>1. OfDivisor(m, k)
  <2>1. 0 \in Divisors \cup {0} /\ m = Nominal + Whole(0) /\ k = Fraction(0)
    BY DEF Whole, Fraction
  <2> QED BY <2>1 DEF OfDivisor
<1>2. DivisorInv
  BY <1>1 DEF DivisorInv
<1>3. Aligned
  <2>1. Origin = CyclesPerSecond * 0
    BY DEF Origin
  <2>2. synced = FALSE
    OBVIOUS
  <2> QED BY <2>1, <2>2 DEF Aligned
<1>4. OffsetInv
  BY <1>3 DEF OffsetInv
<1>5. EdgeInv /\ CaptureInv /\ ReadingInv /\ StampExact
  BY DEF EdgeInv, CaptureInv, ReadingInv, StampExact
<1> QED BY <1>2, <1>4, <1>5 DEF StampInv

(* Two ticks are owed no longer when the interrupt routine is done. *)
LEMMA DivisorKept ==
  ASSUME DividerInv, DivisorInv, [Next]_vars
  PROVE  DivisorInv'
<1> USE DividerAssumption, SecondsAssumption, NearNominal
<1>1. Ranges /\ RoomInCycle /\ SettingApart /\ TicksOwed
  BY DEF DividerInv
<1>2. CASE Time
  <2>1. UNCHANGED <<s, setting, divisor, m, k>>
    BY <1>2 DEF Time, Tick, dividerVars, settingVars
  <2>2. ~match' => count' >= 2 \/ s = 0
    <3>1. CASE count = top
      <4>1. match' = TRUE
        BY <1>2, <3>1 DEF Time, Tick
      <4> QED BY <4>1
    <3>2. CASE count # top
      <4>1. count' = count + 1 /\ match' = match /\ count \in Nat
        BY <1>1, <1>2, <3>2 DEF Time, Tick, Ranges
      <4> QED BY <4>1 DEF DivisorInv
    <3> QED BY <3>1, <3>2
  <2> QED BY <2>1, <2>2 DEF DivisorInv
<1>3. CASE TimerMatchIsr
  <2>1. SumAfter \in 0 .. 2 * Mod - 2
    <3>1. CASE bump = 1
      BY <1>1, <3>1 DEF Ranges, TicksOwed, SumAfter, DivisorInv
    <3>2. CASE bump = 0
      BY <1>1, <3>2 DEF Ranges, TicksOwed, SumAfter, DivisorInv
    <3> QED BY <1>1, <3>1, <3>2 DEF Ranges
  <2>2. count' >= 2
    BY <1>1, <1>3 DEF TimerMatchIsr, FracNMatchIsr, Ranges
  <2>3. UNCHANGED <<setting, divisor, m, k>> /\ s' = SumAfter
    BY <1>3 DEF TimerMatchIsr, FracNMatchIsr, settingVars
  <2> QED BY <2>1, <2>2, <2>3 DEF DivisorInv
<1>4. CASE ChangeDivisor
  <2>1. UNCHANGED <<s, match, count>>
    BY <1>4 DEF ChangeDivisor, SetDivisor, SetFraction, SetWhole, SetInterval, hwVars, dividerVars
  <2>2. CASE SetFraction
    <3>1. PICK n \in Divisors : divisor' = n /\ k' = Fraction(n)
      BY <2>2 DEF SetFraction
    <3>2. setting' = "whole"
      BY <2>2 DEF SetFraction
    <3> QED BY <2>1, <3>1, <3>2 DEF DivisorInv
  <2>3. CASE SetWhole
    <3>1. m' = Nominal + Whole(divisor) /\ k' = Fraction(divisor) /\ divisor \in Divisors
      BY <1>1, <2>3 DEF SetWhole, DivisorInv, SettingApart
    <3>2. setting' = "interval"
      BY <2>3 DEF SetWhole
    <3>3. OfDivisor(m', k')
      BY <3>1 DEF OfDivisor
    <3> QED BY <2>1, <3>2, <3>3 DEF DivisorInv
  <2>4. CASE SetInterval
    <3>1. UNCHANGED <<m, k>> /\ setting = "interval" /\ setting' = "idle"
      BY <2>4 DEF SetInterval, dividerVars
    <3> QED BY <2>1, <3>1 DEF DivisorInv
  <2> QED BY <1>4, <2>2, <2>3, <2>4 DEF ChangeDivisor, SetDivisor
<1>5. CASE Slew
  <2>1. UNCHANGED <<s, match, count, setting, divisor, m, k>>
    BY <1>5 DEF Slew, SlewToCycle, hwVars, settingVars
  <2> QED BY <2>1 DEF DivisorInv
<1>6. CASE Align
  <2>1. UNCHANGED <<s, match, setting, divisor, m, k>> /\ count' >= 2
    BY <1>6 DEF Align, SetTimersCount, dividerVars, settingVars
  <2> QED BY <2>1 DEF DivisorInv
<1>7. CASE \/ Edge \/ Service \/ SetNtpSeconds \/ ReadCount \/ GetCurrentNtpTime \/ CopyState
           \/ GetCapturedNtpTime \/ UNCHANGED vars
  <2>1. UNCHANGED <<s, match, count, setting, divisor, m, k>>
    BY <1>7 DEF Edge, Service, ServiceInterrupt, SetNtpSeconds, ReadCount, GetCurrentNtpTime,
                CopyState, GetCapturedNtpTime, vars, fracNVars, hwVars, dividerVars, settingVars
  <2> QED BY <2>1 DEF DivisorInv
<1> QED BY <1>2, <1>3, <1>4, <1>5, <1>6, <1>7 DEF Next

(* While SetDivisor is not under way the divider's count is that of the true time. *)
LEMMA PresentExact ==
  ASSUME DividerInv, DivisorInv, OffsetInv, ~match, setting = "idle"
  PROVE  Exact(Origin, DividerState, count, TrueTime)
<1> USE DividerAssumption
<1>1. Ranges /\ RoomInCycle /\ SettingApart /\ TicksOwed
  BY DEF DividerInv
<1>2. count \in Nat /\ top + 1 = m + bump /\ count <= top /\ m \in Nat /\ top \in Nat
  BY <1>1 DEF Ranges, RoomInCycle, SettingApart
<1>3. count < m \/ (count = m /\ s >= Mod)
  <2>1. bump = 0 \/ (bump = 1 /\ s >= Mod)
    BY <1>1 DEF Ranges, TicksOwed
  <2> QED BY <1>2, <2>1
<1>4. /\ k \in Nat /\ s \in 0 .. 2 * Mod - 2 /\ subCycle \in 0 .. Mod - 1 /\ cycle \in Nat
      /\ OfDivisor(m, k) /\ (count >= 2 \/ s = 0)
  BY <1>1 DEF Ranges, DivisorInv
<1>5. Good(DividerState, count)
  BY <1>2, <1>3, <1>4 DEF Good, DividerState
<1>6. TrueTime = Moment(Origin, DividerState, count)
  <2>1. CycleOf(Origin, DividerState) = cycles
    <3>1. cycle * Mod \in Int /\ cycles \in Int /\ subCycle \in Int
      BY <1>4 DEF OffsetInv
    <3> QED BY <3>1 DEF CycleOf, Origin, DividerState
  <2>2. Mod * (count + (IF match THEN top + 1 ELSE 0)) - s = Mod * count - s
    BY <1>2
  <2>3. DividerState.s = s /\ DividerState.m = m /\ DividerState.k = k
    BY DEF DividerState
  <2> QED BY <2>1, <2>2, <2>3, Zenon DEF TrueTime, Moment, Phase
<1> QED BY <1>5, <1>6 DEF Exact

(* The steps that leave the divider and its cycles alone keep what was saved. *)
LEMMA SavedKept ==
  ASSUME StampInv, UNCHANGED <<m, k, s, subCycle, cycle, cycles>>
  PROVE  /\ Origin' = Origin /\ DividerState' = DividerState
         /\ UNCHANGED <<icr5, icf5>> => EdgeInv'
         /\ UNCHANGED udpCapture => CaptureInv'
         /\ UNCHANGED <<synced, ntpSecondsOffset>> => OffsetInv'
         /\ UNCHANGED <<reading, match, setting>> /\ count' <= ReadLimit => ReadingInv'
<1>1. Origin' = Origin
  BY DEF Origin
<1>2. DividerState' = DividerState
  BY DEF DividerState
<1>3. EdgeInv /\ UNCHANGED <<icr5, icf5>> => EdgeInv'
  BY <1>1, <1>2 DEF EdgeInv, Exact, IsEdge, None
<1>4. CaptureInv /\ UNCHANGED udpCapture => CaptureInv'
  BY <1>1 DEF CaptureInv, IsCapture, Exact, None
<1>5. OffsetInv /\ UNCHANGED <<synced, ntpSecondsOffset>> => OffsetInv'
  BY <1>1 DEF OffsetInv, Aligned
<1>6. ReadingInv /\ UNCHANGED <<reading, match, setting>> /\ count' <= ReadLimit => ReadingInv'
  BY <1>1, <1>2 DEF ReadingInv, IsCapture, Exact, None
<1> QED BY <1>1, <1>2, <1>3, <1>4, <1>5, <1>6 DEF StampInv

(* A timestamp of the divider's state, or of a saved one, is right. *)
LEMMA StampMade ==
  ASSUME DividerInv, OffsetInv, NEW state, NEW c, NEW at, Exact(Origin, state, c, at),
         UNCHANGED synced,
         stamp' = [is |-> "stamp", time |-> NtpTime(state, c), at |-> at]
  PROVE  StampExact'
<1>1. /\ Aligned /\ ntpSecondsOffset \in Int /\ cycles \in Int /\ subCycle \in Int /\ cycle \in Int
  BY DividerAssumption DEF OffsetInv, DividerInv, Ranges
<1> DEFINE off == NtpTime(state, c) - at
           fraction == ((off + PerSecond \div 2) % PerSecond) - PerSecond \div 2
<1>2. Abs(IF synced THEN off ELSE fraction) <= Mod
  BY <1>1, StampOf
<1>3. stamp'.time - stamp'.at = off /\ synced' = synced
  OBVIOUS
<1> HIDE DEF off
<1>4. Abs(IF synced' THEN stamp'.time - stamp'.at
          ELSE ((stamp'.time - stamp'.at + PerSecond \div 2) % PerSecond) - PerSecond \div 2) <= Mod
  BY <1>2, <1>3
<1> QED BY <1>4, Zenon DEF StampExact

(* The interrupt routine begins the next cycle, and saves an edge with the last one. *)
LEMMA StampMatch ==
  ASSUME DividerInv, DivisorInv, StampInv, TimerMatchIsr
  PROVE  StampInv'
<1>1. /\ Ranges /\ OffsetInv /\ EdgeInv /\ CaptureInv /\ ReadingInv /\ Mod \in Nat \ {0}
  BY DividerAssumption DEF DividerInv, StampInv
<1>2. Origin' = Origin
  <2>1. cycles' = cycles + 1 /\ cycle \in Nat /\ subCycle \in 0 .. Mod - 1 /\ cycles \in Nat
    BY <1>1 DEF TimerMatchIsr, Ranges, OffsetInv
  <2>2. CASE subCycle + 1 >= Mod
    <3>1. subCycle' = 0 /\ cycle' = cycle + 1 /\ subCycle = Mod - 1
      BY <1>1, <2>1, <2>2 DEF TimerMatchIsr, FracNMatchIsr
    <3>2. (cycle + 1) * Mod = cycle * Mod + Mod /\ cycle * Mod \in Int
      BY <1>1, <2>1
    <3> QED BY <1>1, <2>1, <3>1, <3>2 DEF Origin
  <2>3. CASE ~(subCycle + 1 >= Mod)
    <3>1. subCycle' = subCycle + 1 /\ cycle' = cycle
      BY <2>3 DEF TimerMatchIsr, FracNMatchIsr
    <3>2. cycle * Mod \in Int
      BY <1>1, <2>1
    <3> QED BY <2>1, <3>1, <3>2 DEF Origin
  <2> QED BY <2>2, <2>3
<1>3. UNCHANGED <<synced, ntpSecondsOffset, icr5, reading>> /\ cycles' = cycles + 1 /\ stamp' = None
  BY DEF TimerMatchIsr
<1>4. OffsetInv'
  BY <1>1, <1>2, <1>3 DEF OffsetInv, Aligned
<1>5. EdgeInv'
  <2>1. ~icf5'
    BY DEF TimerMatchIsr
  <2> QED BY <1>1, <1>3, <2>1 DEF EdgeInv, IsEdge, None
<1>6. CaptureInv'
  <2>1. CASE icf5
    <3>1. udpCapture' = [is |-> "capture", of |-> DividerState, edge |-> icr5]
      BY <2>1 DEF TimerMatchIsr, Taken
    <3>2. icr5.sure => Exact(Origin, DividerState, icr5.c, icr5.at)
      BY <1>1, <2>1 DEF EdgeInv
    <3> QED BY <1>2, <3>1, <3>2 DEF CaptureInv, IsCapture
  <2>2. CASE ~icf5
    BY <1>1, <1>2, <2>2 DEF TimerMatchIsr, CaptureInv, IsCapture, Exact, None
  <2> QED BY <2>1, <2>2
<1>7. ReadingInv'
  <2>1. reading = None
    BY <1>1 DEF ReadingInv, TimerMatchIsr, FracNMatchIsr
  <2> QED BY <1>3, <2>1 DEF ReadingInv
<1>8. StampExact'
  BY <1>3 DEF StampExact
<1> QED BY <1>4, <1>5, <1>6, <1>7, <1>8 DEF StampInv

(* A tick, within the window while a timestamp is made. *)
LEMMA StampTime ==
  ASSUME DividerInv, DivisorInv, StampInv, Time
  PROVE  StampInv'
<1>1. /\ UNCHANGED <<m, k, s, subCycle, cycle, cycles, icr5, icf5, udpCapture, synced,
                      ntpSecondsOffset, reading, setting>>
      /\ stamp' = None
  BY DEF Time, Tick, dividerVars, settingVars
<1>2. ReadingInv'
  <2>1. CASE reading = None
    BY <1>1, <2>1 DEF ReadingInv
  <2>2. CASE reading # None
    <3>1. count < ReadLimit /\ count \in Nat /\ ReadLimit \in Nat /\ ~match /\ setting = "idle"
      BY <2>2, SecondsAssumption DEF Time, StampInv, ReadingInv, DividerInv, Ranges
    <3>2. top + 1 = m + bump /\ m > ReadLimit /\ bump \in 0 .. 1 /\ m \in Nat /\ top \in Nat
      <4>1. OfDivisor(m, k)
        BY <3>1 DEF DivisorInv
      <4> QED BY <3>1, <4>1, Divisor DEF DividerInv, Ranges, SettingApart
    <3>3. count # top
      BY <3>1, <3>2
    <3>4. count' = count + 1 /\ match' = match
      <4>1. match' = (match \/ FALSE) /\ count' = count + 1
        BY <3>3 DEF Time, Tick
      <4>2. match \in BOOLEAN
        BY DEF DividerInv, Ranges
      <4> QED BY <4>1, <4>2
    <3>5. count' <= ReadLimit
      BY <3>1, <3>4
    <3> QED BY <1>1, <3>4, <3>5, SavedKept
  <2> QED BY <2>1, <2>2
<1>3. EdgeInv' /\ CaptureInv' /\ OffsetInv'
  BY <1>1, SavedKept
<1>4. StampExact'
  BY <1>1 DEF StampExact
<1> QED BY <1>2, <1>3, <1>4 DEF StampInv

(* An edge is saved at the present count, and is sure unless the divisor is being set. *)
LEMMA StampEdge ==
  ASSUME DividerInv, DivisorInv, StampInv, Edge
  PROVE  StampInv'
<1>1. /\ UNCHANGED <<m, k, s, subCycle, cycle, cycles, udpCapture, synced, ntpSecondsOffset,
                      reading, setting, match, count>>
      /\ stamp' = None
  BY DEF Edge, fracNVars, hwVars, dividerVars, settingVars
<1>2. Origin' = Origin /\ DividerState' = DividerState /\ CaptureInv' /\ OffsetInv'
  BY <1>1, SavedKept
<1>3. ReadingInv'
  <2>1. reading # None => count' <= ReadLimit
    BY <1>1 DEF StampInv, ReadingInv
  <2>2. reading = None => ReadingInv'
    BY <1>1 DEF ReadingInv
  <2> QED BY <1>1, <2>1, <2>2, SavedKept
<1>4. EdgeInv'
  <2>1. icr5' = [is |-> "edge", c |-> count, at |-> TrueTime, sure |-> setting = "idle"]
    BY DEF Edge
  <2>2. IsEdge(icr5')
    BY <2>1 DEF IsEdge
  <2>3. setting = "idle" => Exact(Origin, DividerState, count, TrueTime)
    BY PresentExact DEF Edge, StampInv
  <2>4. icr5'.sure => Exact(Origin, DividerState, icr5'.c, icr5'.at)
    BY <2>1, <2>3
  <2> QED BY <1>2, <2>2, <2>4 DEF EdgeInv, IsEdge, Exact
<1>5. StampExact'
  BY <1>1 DEF StampExact
<1> QED BY <1>2, <1>3, <1>4, <1>5 DEF StampInv

(* What the main program does to the divider, it does when no timestamp is made. *)
LEMMA StampSteer ==
  ASSUME DividerInv, DivisorInv, StampInv, ChangeDivisor \/ Slew \/ Align \/ Service
  PROVE  StampInv'
<1>1. /\ reading = None /\ reading' = None /\ stamp' = None
      /\ UNCHANGED <<icf5, udpCapture, ntpSecondsOffset>>
  BY DEF ChangeDivisor, Slew, Align, Service
<1>2. ReadingInv' /\ StampExact'
  BY <1>1 DEF ReadingInv, StampExact
<1>3. CASE ChangeDivisor
  <2>1. UNCHANGED <<subCycle, cycle, cycles, synced>> /\ icr5' = Unsure(icr5)
    BY <1>3 DEF ChangeDivisor, SetDivisor, SetFraction, SetWhole, SetInterval, hwVars, dividerVars
  <2>2. Origin' = Origin
    BY <2>1 DEF Origin
  <2>3. CaptureInv' /\ OffsetInv'
    BY <1>1, <2>1, <2>2 DEF StampInv, CaptureInv, OffsetInv, Aligned, IsCapture, Exact, None
  <2>4. EdgeInv'
    <3>1. CASE icr5 = None
      BY <1>1, <2>1, <3>1 DEF StampInv, EdgeInv, IsEdge, None, Unsure
    <3>2. CASE icr5 # None
      <4>1. icr5 \in [is : {"edge"}, c : {icr5.c}, at : {icr5.at}, sure : BOOLEAN]
        BY <3>2 DEF StampInv, EdgeInv, IsEdge
      <4>2. icr5' = [icr5 EXCEPT !.sure = FALSE]
        BY <2>1, <3>2 DEF Unsure
      <4>3. IsEdge(icr5') /\ ~icr5'.sure
        BY <4>1, <4>2 DEF IsEdge
      <4> QED BY <4>3 DEF EdgeInv, IsEdge
    <3> QED BY <3>1, <3>2
  <2> QED BY <1>2, <2>3, <2>4 DEF StampInv
<1>4. CASE Slew
  <2>1. /\ ~icf5 /\ udpCapture = None /\ icr5' = icr5 /\ synced' = FALSE
        /\ cycles' = (cycles \div CyclesPerSecond) * CyclesPerSecond + CyclesPerSecond - 1
        /\ subCycle' = Mod - 1 /\ cycle' = 0
    BY <1>4 DEF Slew, SlewToCycle
  <2>2. EdgeInv'
    <3>1. ~icf5' /\ icr5' = icr5
      BY <1>1, <2>1
    <3> QED BY <3>1 DEF StampInv, EdgeInv, IsEdge
  <2>3. CaptureInv'
    BY <1>1, <2>1 DEF CaptureInv
  <2>4. OffsetInv'
    <3> DEFINE y == cycles \div CyclesPerSecond
               z == Mod \div CyclesPerSecond
               C == CyclesPerSecond
    <3>1. C \in Nat \ {0} /\ Mod = C * z /\ z \in Int /\ Mod \in Nat
      BY DividerAssumption, SecondsAssumption, Quotient
    <3>2. y \in Nat
      BY <3>1, Floor DEF StampInv, OffsetInv
    <3>3. Origin' = C * (y + 1 - z) /\ y + 1 - z \in Int
      <4>1. cycles' = y * C + C - 1
        BY <2>1
      <4> HIDE DEF y, z, C
      <4>2. C * (y + 1 - z) = y * C + C - C * z /\ y * C \in Int /\ C * z \in Int
        BY <3>1, <3>2
      <4>3. 0 * Mod = 0
        BY <3>1
      <4> QED BY <2>1, <3>1, <3>2, <4>1, <4>2, <4>3 DEF Origin
    <3>4. cycles' \in Nat
      <4> HIDE DEF y, z
      <4>1. y * C \in Nat /\ C >= 1
        BY <3>1, <3>2
      <4> QED BY <2>1, <3>1, <4>1 DEF y
    <3>5. Aligned'
      BY <2>1, <3>3 DEF Aligned
    <3> QED BY <1>1, <3>4, <3>5 DEF StampInv, OffsetInv
  <2> QED BY <1>2, <2>2, <2>3, <2>4 DEF StampInv
<1>5. CASE Align \/ Service
  <2>1. UNCHANGED <<m, k, s, subCycle, cycle, cycles, icr5, synced>>
    BY <1>5 DEF Align, Service, SetTimersCount, ServiceInterrupt, dividerVars
  <2> QED BY <1>1, <1>2, <2>1, SavedKept DEF StampInv
<1> QED BY <1>3, <1>4, <1>5

(* In the cycles that are clear of the PPS true time is in the second that they make. *)
LEMMA SecondsSet ==
  ASSUME DividerInv, DivisorInv, OffsetInv, SetNtpSeconds,
         NEW q \in Int, Origin = CyclesPerSecond * q
  PROVE  ntpSecondsOffset' = Seconds + q
<1> DEFINE W == WholeSeconds(DividerState)
           j == subCycle % CyclesPerSecond
           T == Phase(DividerState, count)
           o == Cycle \div 2
           y == Seconds + q + W
           r == Cycle * j + T + o
           C == CyclesPerSecond
<1>1. /\ C \in Nat \ {0} /\ Seconds \in Nat /\ Cycle \in Nat /\ Cycle >= 1
      /\ PerSecond = C * Cycle /\ PerSecond \in Nat \ {0}
  <2>1. Cycle >= 1 /\ Cycle \in Nat
    BY DividerAssumption, NearNominal DEF Cycle
  <2>2. C \in Nat \ {0} /\ Seconds \in Nat
    BY SecondsAssumption
  <2>3. C * Cycle >= 1 /\ C * Cycle \in Nat
    BY <2>1, <2>2
  <2> QED BY <2>1, <2>2, <2>3 DEF PerSecond
<1>2. Exact(Origin, DividerState, count, TrueTime)
  BY PresentExact DEF SetNtpSeconds
<1>3. TrueTime = Seconds * PerSecond + CycleOf(Origin, DividerState) * Cycle + T + o
  BY <1>2 DEF Exact, Moment
<1>4. T \in 0 .. Cycle - 1
  BY <1>2, ComputedPhase DEF Exact
<1>5. W \in Int /\ j \in 0 .. C - 1 /\ cycle * Mod + subCycle = C * W + j
  <2>1. subCycle \in Nat /\ cycle \in Nat
    BY DividerAssumption DEF DividerInv, Ranges
  <2>2. DividerState.subCycle = subCycle /\ DividerState.cycle = cycle
    BY DEF DividerState
  <2> QED BY <2>1, <2>2, CyclesSplit DEF WholeSeconds
<1>6. j < C - 1
  BY DEF SetNtpSeconds
<1>7. o \in Nat /\ 2 * o <= Cycle
  BY <1>1, Half
<1>8. CycleOf(Origin, DividerState) = C * q + (C * W + j)
  BY <1>5 DEF CycleOf, DividerState
<1> HIDE DEF W, j, T, o, C
<1>9. r \in 0 .. PerSecond - 1
  <2>1. Cycle * j \in Nat
    BY <1>1, <1>5
  <2>2. Cycle * j <= Cycle * (C - 2)
    BY <1>1, <1>5, <1>6
  <2>3. Cycle * (C - 2) = PerSecond - 2 * Cycle
    BY <1>1
  <2> QED BY <1>1, <1>4, <1>7, <2>1, <2>2, <2>3
<1>10. TrueTime = PerSecond * y + r
  <2>1. (C * q + (C * W + j)) * Cycle = PerSecond * q + PerSecond * W + Cycle * j
    <3>1. (C * q + (C * W + j)) * Cycle = (C * q) * Cycle + (C * W) * Cycle + Cycle * j
      BY <1>1, <1>5
    <3>2. (C * q) * Cycle = (C * Cycle) * q /\ (C * W) * Cycle = (C * Cycle) * W
      BY <1>1, <1>5
    <3> QED BY <1>1, <3>1, <3>2
  <2>2. PerSecond * y = Seconds * PerSecond + PerSecond * q + PerSecond * W
    BY <1>1, <1>5
  <2>3. /\ PerSecond * y \in Int /\ Seconds * PerSecond \in Int /\ PerSecond * q \in Int
        /\ PerSecond * W \in Int /\ Cycle * j \in Int
    BY <1>1, <1>5
  <2> HIDE DEF y
  <2> QED BY <1>3, <1>4, <1>7, <1>8, <2>1, <2>2, <2>3
<1>11. y \in Int
  BY <1>1, <1>5
<1>12. TrueTime \div PerSecond = y
  <2> HIDE DEF y, r
  <2> QED BY <1>1, <1>9, <1>10, <1>11, Remainder, Zenon
<1>13. ntpSecondsOffset' = (TrueTime \div PerSecond) - W
  BY DEF SetNtpSeconds, W
<1> QED BY <1>1, <1>5, <1>12, <1>13

(* The time of day, set from true time, is that of the cycles. *)
LEMMA StampSeconds ==
  ASSUME DividerInv, DivisorInv, StampInv, SetNtpSeconds
  PROVE  StampInv'
<1>1. /\ UNCHANGED <<m, k, s, subCycle, cycle, cycles, icr5, icf5, udpCapture, reading, match,
                      setting>>
      /\ reading = None /\ stamp' = None
  BY DEF SetNtpSeconds, fracNVars, hwVars, dividerVars, settingVars
<1>2. Origin' = Origin /\ EdgeInv' /\ CaptureInv'
  BY <1>1, SavedKept
<1>3. ReadingInv' /\ StampExact'
  BY <1>1 DEF ReadingInv, StampExact
<1>4. PICK q \in Int : Origin = CyclesPerSecond * q
  BY DEF StampInv, OffsetInv, Aligned
<1>5. ntpSecondsOffset' = Seconds + q
  BY <1>4, SecondsSet DEF StampInv
<1>6. Aligned'
  BY <1>2, <1>4, <1>5 DEF Aligned
<1>7. OffsetInv'
  <2>1. Seconds + q \in Int /\ cycles' \in Nat
    BY <1>1, SecondsAssumption DEF StampInv, OffsetInv
  <2> QED BY <1>5, <1>6, <2>1 DEF OffsetInv
<1> QED BY <1>2, <1>3, <1>7 DEF StampInv

(* A timestamp is begun with an exact count, and made of one. *)
LEMMA StampRead ==
  ASSUME DividerInv, DivisorInv, StampInv,
         ReadCount \/ GetCurrentNtpTime \/ CopyState \/ GetCapturedNtpTime
  PROVE  StampInv'
<1>1. UNCHANGED <<fracNVars, m, k, s, subCycle, cycle, cycles, icr5, synced, ntpSecondsOffset,
                  match, setting, count>>
  BY DEF ReadCount, GetCurrentNtpTime, CopyState, GetCapturedNtpTime, fracNVars, hwVars,
         dividerVars, settingVars
<1>2. /\ Origin' = Origin /\ DividerState' = DividerState
      /\ (UNCHANGED icf5 => EdgeInv') /\ (UNCHANGED udpCapture => CaptureInv') /\ OffsetInv'
  BY <1>1, SavedKept
<1>3. OffsetInv /\ EdgeInv /\ CaptureInv /\ ReadingInv
  BY DEF StampInv
<1>4. CASE ReadCount
  <2>1. /\ reading' = [is |-> "count", c |-> count, at |-> TrueTime] /\ stamp' = None
        /\ UNCHANGED <<icf5, udpCapture>> /\ ~match /\ setting = "idle" /\ count < ReadLimit
    BY <1>4 DEF ReadCount, InWindow
  <2>2. Exact(Origin, DividerState, count, TrueTime)
    BY <1>3, <2>1, PresentExact
  <2>3. count' <= ReadLimit
    BY <1>1, <2>1, SecondsAssumption DEF DividerInv, Ranges
  <2>4. ReadingInv'
    BY <1>1, <1>2, <2>1, <2>2, <2>3 DEF ReadingInv, Exact
  <2> QED BY <1>2, <2>1, <2>4 DEF StampInv, StampExact
<1>5. CASE GetCurrentNtpTime
  <2>1. /\ reading.is = "count" /\ reading' = None /\ UNCHANGED <<icf5, udpCapture>>
        /\ stamp' = [is |-> "stamp", time |-> NtpTime(DividerState, reading.c), at |-> reading.at]
    BY <1>5 DEF GetCurrentNtpTime
  <2>2. Exact(Origin, DividerState, reading.c, reading.at)
    BY <1>3, <2>1 DEF ReadingInv, IsCapture, None
  <2>3. StampExact'
    BY <1>1, <1>3, <2>1, <2>2, StampMade
  <2>4. ReadingInv'
    BY <2>1 DEF ReadingInv
  <2> QED BY <1>2, <2>1, <2>3, <2>4 DEF StampInv
<1>6. CASE CopyState
  <2>1. /\ stamp' = None /\ UNCHANGED <<icf5, udpCapture>>
        /\ ~match /\ setting = "idle" /\ count < ReadLimit
        /\ icf5 \/ udpCapture # None
        /\ reading' = IF udpCapture # None THEN udpCapture ELSE Taken(icr5)
    BY <1>6 DEF CopyState, InWindow
  <2>2. count' <= ReadLimit
    BY <1>1, <2>1, SecondsAssumption DEF DividerInv, Ranges
  <2>3. IsCapture(Origin, reading')
    <3>1. CASE udpCapture # None
      BY <1>3, <2>1, <3>1 DEF CaptureInv
    <3>2. CASE udpCapture = None
      <4>1. reading' = [is |-> "capture", of |-> DividerState, edge |-> icr5] /\ icf5
        BY <2>1, <3>2 DEF Taken
      <4>2. icr5.sure => Exact(Origin, DividerState, icr5.c, icr5.at)
        BY <1>3, <4>1 DEF EdgeInv
      <4> QED BY <4>1, <4>2 DEF IsCapture
    <3> QED BY <3>1, <3>2
  <2>4. ReadingInv'
    BY <1>1, <1>2, <2>1, <2>2, <2>3 DEF ReadingInv, IsCapture, Exact
  <2> QED BY <1>2, <2>1, <2>4 DEF StampInv, StampExact
<1>7. CASE GetCapturedNtpTime
  <2>1. reading.is = "capture" /\ reading' = None /\ udpCapture' = None /\ icf5' = FALSE
    BY <1>7 DEF GetCapturedNtpTime
  <2>2. EdgeInv'
    <3>1. icr5' = icr5 /\ ~icf5'
      BY <1>1, <2>1
    <3> QED BY <1>3, <3>1 DEF EdgeInv, IsEdge
  <2>3. CaptureInv' /\ ReadingInv'
    BY <2>1 DEF CaptureInv, ReadingInv
  <2>4. StampExact'
    <3>1. CASE reading.edge.sure
      <4>1. stamp' = [is |-> "stamp", time |-> NtpTime(reading.of, reading.edge.c),
                      at |-> reading.edge.at]
        BY <1>7, <3>1 DEF GetCapturedNtpTime
      <4>2. Exact(Origin, reading.of, reading.edge.c, reading.edge.at)
        BY <1>3, <2>1, <3>1 DEF ReadingInv, IsCapture, None
      <4> QED BY <1>1, <1>3, <4>1, <4>2, StampMade
    <3>2. CASE ~reading.edge.sure
      <4>1. stamp' = None
        BY <1>7, <3>2 DEF GetCapturedNtpTime
      <4> QED BY <4>1 DEF StampExact
    <3> QED BY <3>1, <3>2
  <2> QED BY <1>2, <2>2, <2>3, <2>4 DEF StampInv
<1> QED BY <1>4, <1>5, <1>6, <1>7

(* So every step keeps the invariant. *)
LEMMA StampKept ==
  ASSUME DividerInv, DivisorInv, StampInv, [Next]_vars
  PROVE  StampInv'
<1>1. CASE UNCHANGED vars
  <2>1. UNCHANGED <<m, k, s, subCycle, cycle, cycles, icr5, icf5, udpCapture, synced,
                    ntpSecondsOffset, reading, match, setting, count, stamp>>
    BY <1>1 DEF vars, ntpVars, fracNVars, hwVars, dividerVars, settingVars
  <2>2. ReadingInv'
    <3>1. reading # None => count' <= ReadLimit
      BY <2>1 DEF StampInv, ReadingInv
    <3>2. reading = None => ReadingInv'
      BY <2>1 DEF ReadingInv
    <3> QED BY <2>1, <3>1, <3>2, SavedKept
  <2>3. StampExact'
    BY <2>1 DEF StampInv, StampExact
  <2> QED BY <2>1, <2>2, <2>3, SavedKept DEF StampInv
<1> QED BY <1>1, StampTime, StampEdge, StampMatch, StampSteer, StampSeconds, StampRead DEF Next

(* A timestamp is true to a tick: of the present, and of an edge whether the match     *)
(* routine has saved it or not, across the end of the second and of the Mod cycles;    *)
(* to the second once the time of day is set (NtpFractionalN::GetCurrentNtpTime and    *)
(* GetCapturedNtpTime).                                                                *)
THEOREM StampCorrect == Spec => []StampExact
<1> DEFINE Inv == DividerInv /\ DivisorInv /\ StampInv
<1>1. Init => Inv
  BY InitDivider, InitStamp
<1>2. Inv /\ [Next]_vars => Inv'
  BY NextIsDividerNext, DividerKept, DivisorKept, StampKept
<1>3. Inv => StampExact
  BY DEF StampInv
<1> QED BY <1>1, <1>2, <1>3, PTL DEF Spec

-----------------------------------------------------------------------------
(* The loop.  Its invariants. *)

(* Each pulse that settles the loop is one in tolerance. *)
LockInv == /\ settled \in 0 .. SettledMax /\ inTolerance \in 0 .. SettledMax
           /\ settled <= inTolerance

(* The half of the last pulse, if that is not long ago. *)
PulseHalf == IF sincePulse = 1 THEN 1 - half ELSE half

(* The ranges of what the arguments below are about. *)
LoopTypeOK ==
  /\ half \in 0 .. 1 /\ aligned \in 0 .. 1 /\ passed \in BOOLEAN /\ strays \in Nat
  /\ capture_flag \in BOOLEAN /\ phase_initialized \in BOOLEAN
  /\ prev_pps_valid \in BOOLEAN /\ filled \in BOOLEAN
  /\ holdoverCount \in 0 .. HoldoverPulses /\ run \in 0 .. HoldoverPulses + 1
  /\ sincePrev \in 0 .. Pll!Long /\ sincePulse \in 0 .. Pll!Long /\ pps_timeout \in Nat

(* A capture is of the pulse of this half, and the loop has not passed. *)
Captured ==
  capture_flag =>
    /\ phase_initialized /\ ~passed /\ sincePulse = 0 /\ run >= 1
    /\ captured \in {"tolerance", "range"} => half = aligned

(* The count since the previous pulse is that since the last one. *)
Since ==
  /\ prev_pps_valid => phase_initialized
  /\ prev_pps_valid /\ ~capture_flag => sincePrev = sincePulse
  /\ sincePulse < Pll!Long => run >= 1

(* What is left of the holdover has been counted down by a run of pulses. *)
InHoldover ==
  holdoverCount > 0 =>
    /\ ~prev_pps_valid => holdoverCount = HoldoverPulses
    /\ prev_pps_valid /\ ~capture_flag => run >= HoldoverPulses - holdoverCount + 1
    /\ prev_pps_valid /\ capture_flag /\ sincePrev = Pll!Second
         => run >= HoldoverPulses - holdoverCount + 2

(* The inductive invariant of the holdover. *)
HoldoverInv == LoopTypeOK /\ Captured /\ Since /\ InHoldover

(* How many stray pulses there have been: to set the timers by one takes one, and a *)
(* second between two of them takes two.                                            *)
Strays ==
  /\ strays <= MaxStray
  /\ aligned = 1 => strays >= 1
  /\ sincePulse < Pll!Second /\ PulseHalf = 1 => strays >= 1 /\ (run >= 2 => strays >= 2)

(* While the PPS is tracked the pulse before is not given up yet, and was in the half *)
(* the timers expect it in, or was a true one after a stray has set the timers: then  *)
(* the pulse that fits the timers would be another stray.                             *)
Tracking ==
  holdoverCount = 0 =>
    /\ filled => prev_pps_valid
    /\ prev_pps_valid /\ passed => pps_timeout > 0
    /\ prev_pps_valid /\ ~capture_flag =>
         /\ sincePrev + pps_timeout <= Pll!Long
         /\ sincePrev < Pll!Long =>
              LET last == IF sincePrev = 1 THEN 1 - half ELSE half
              IN  last = aligned \/ (last = 0 /\ strays >= 1)
    /\ prev_pps_valid /\ capture_flag /\ captured \in {"tolerance", "range"}
         => sincePrev = Pll!Second

(* With the invariant of the holdover, inductive if strays are rare. *)
MeasureInv == Strays /\ Tracking

(* What the assumption says of the constants of the loop. *)
LEMMA LoopBounds ==
  /\ SettledMax \in Nat /\ HoldoverPulses \in Nat \ {0} /\ PpsTimeout \in 1 .. 3
  /\ SlewTimeout \in Nat /\ StartTimeout \in Nat /\ MaxStray \in Nat
  /\ Pll!Second = 2 /\ Pll!Long = 3
BY UndisciplinedAssumption DEF Pll!LoopConstants, Pll!Long, Pll!Second

(* Every step is one of the loop or leaves it alone. *)
LEMMA LoopSteps ==
  ASSUME [BothNext]_bothVars
  PROVE  Pll!Next \/ UNCHANGED pllVars
BY DEF BothNext, bothVars, DividerStep, InLoop, ControlStep

(* Every step keeps the lock's invariant. *)
LEMMA NextLock ==
  ASSUME LockInv, Pll!Next \/ UNCHANGED pllVars
  PROVE  LockInv'
<1> USE LoopBounds DEF LockInv
<1>1. CASE UNCHANGED <<settled, inTolerance>>
  BY <1>1
<1>2. CASE Pll!Unlock
  BY <1>2 DEF Pll!Unlock
<1>3. CASE Pll!Settle /\ Pll!CountTolerance
  BY <1>3 DEF Pll!Settle, Pll!CountTolerance, Pll!More, Pll!Less
<1>4. CASE Pll!HalfSecond \/ Pll!OutageBegins \/ Pll!OutageEnds \/ UNCHANGED pllVars
  BY <1>1, <1>4 DEF Pll!HalfSecond, Pll!OutageBegins, Pll!OutageEnds, Pll!lockVars,
                    Pll!ghostVars, pllVars
<1>5. CASE Pll!Step
  BY <1>1, <1>2, <1>3, <1>5 DEF Pll!Step, Pll!LosePps, Pll!Idle, Pll!PulseInHoldover, Pll!Slew,
                                Pll!Track,
     Pll!lockVars, Pll!ghostVars
<1> QED BY <1>4, <1>5 DEF Pll!Next

(* The lock is earned anew after a holdover that lasted too long: it shows only after   *)
(* as many pulses in tolerance as make a lock, whatever pulses went missing or astray   *)
(* (StratumTen.ino:521, NtpPhaseLockedLoop.cpp).  It needs no assumption on the pulses. *)
THEOREM LockCorrect == BothSpec => []LockEarned
<1>1. BothInit => LockInv
  BY LoopBounds DEF BothInit, Pll!Init, LockInv
<1>2. LockInv /\ [BothNext]_bothVars => LockInv'
  BY LoopSteps, NextLock
<1>3. LockInv => LockEarned
  BY LoopBounds DEF LockInv, LockEarned, Pll!LockEarned, Pll!Locked
<1> QED BY <1>1, <1>2, <1>3, PTL DEF BothSpec

(* The invariant holds at the start. *)
LEMMA InitHoldover == BothInit => HoldoverInv
<1> SUFFICES ASSUME BothInit PROVE HoldoverInv
  OBVIOUS
<1> USE LoopBounds DEF BothInit, Pll!Init
<1>1. LoopTypeOK
  <2>1. /\ half \in 0 .. 1 /\ aligned \in 0 .. 1 /\ strays \in Nat
        /\ holdoverCount \in 0 .. HoldoverPulses /\ run \in 0 .. HoldoverPulses + 1
        /\ sincePrev \in 0 .. Pll!Long /\ sincePulse \in 0 .. Pll!Long /\ pps_timeout \in Nat
    OBVIOUS
  <2>2. /\ passed = TRUE /\ capture_flag = FALSE /\ phase_initialized = FALSE
        /\ prev_pps_valid = FALSE /\ filled = FALSE
    OBVIOUS
  <2> HIDE DEF BothInit, Pll!Init
  <2> QED BY <2>1, <2>2 DEF LoopTypeOK
<1>2. Captured /\ Since /\ InHoldover
  BY DEF Captured, Since, InHoldover
<1> QED BY <1>1, <1>2 DEF HoldoverInv

-----------------------------------------------------------------------------
(* The steps of the loop. *)

(* Natural numbers add up to one. *)
LEMMA Sum == \A a, b \in Nat : a + b \in Nat
  OBVIOUS

(* What the timers of the model count down and up. *)
LEMMA LessMore ==
  /\ \A n \in Nat : Pll!Less(n) \in Nat /\ (n > 0 => Pll!Less(n) = n - 1)
  /\ \A limit \in Nat : \A n \in 0 .. limit :
       Pll!More(n, limit) \in 0 .. limit /\ (n < limit => Pll!More(n, limit) = n + 1)
                                        /\ (n = limit => Pll!More(n, limit) = limit)
BY DEF Pll!Less, Pll!More

(* What half a second does. *)
LEMMA HalfFacts ==
  ASSUME LoopTypeOK, Pll!HalfSecond
  PROVE  /\ passed = TRUE /\ passed' = FALSE /\ half' = 1 - half /\ half' \in 0 .. 1
         /\ pps_timeout' \in Nat /\ (pps_timeout > 0 => pps_timeout' = pps_timeout - 1)
         /\ UNCHANGED <<settled, holdoverCount, holdover_timed_out, prev_pps_valid, filled>>
         /\ strays' <= MaxStray
         /\ Pll!NoPulse \/ Pll!Pulse
<1> USE DEF Pll!HalfSecond, LoopTypeOK
<1>1. passed = TRUE /\ passed' = FALSE /\ half' = 1 - half /\ half' \in 0 .. 1
  OBVIOUS
<1>2. pps_timeout' \in Nat /\ (pps_timeout > 0 => pps_timeout' = pps_timeout - 1)
  BY LessMore
<1>3. /\ UNCHANGED <<settled, holdoverCount, holdover_timed_out, prev_pps_valid, filled>>
      /\ strays' <= MaxStray
  BY DEF Pll!lockVars
<1>4. Pll!NoPulse \/ Pll!Pulse
  OBVIOUS
<1> QED BY <1>1, <1>2, <1>3, <1>4

(* What a pulse does, and one that does not come. *)
LEMMA PulseFacts ==
  ASSUME LoopTypeOK, half' \in 0 .. 1, Pll!Pulse
  PROVE  /\ strays' = strays + half' /\ strays' \in Nat
         /\ run' = IF sincePulse = 1 THEN Pll!More(run, HoldoverPulses + 1) ELSE 1
         /\ run' \in 1 .. HoldoverPulses + 1
         /\ sincePulse' = 0
         /\ \/ /\ phase_initialized = TRUE /\ capture_flag' = TRUE
               /\ phase_initialized' = TRUE /\ aligned' = aligned
               /\ captured' = "out" <=> half' # aligned
               /\ captured' \in {"tolerance", "range", "out"}
               /\ sincePrev' = Pll!More(sincePrev, Pll!Long)
            \/ /\ phase_initialized = FALSE /\ capture_flag' = FALSE
               /\ phase_initialized' = TRUE /\ aligned' = half'
               /\ sincePrev' = Pll!Long
<1>0. strays' = strays + half'
  BY DEF Pll!Pulse
<1>1. strays' = strays + half' /\ strays' \in Nat
  <2> HIDE DEF Pll!Pulse
  <2>1. strays \in Nat
    BY DEF LoopTypeOK
  <2>2. half' \in Nat
    OBVIOUS
  <2>3. strays + half' \in Nat
    BY <2>1, <2>2, Sum
  <2> QED BY <1>0, <2>3
<1>2. /\ run' = IF sincePulse = 1 THEN Pll!More(run, HoldoverPulses + 1) ELSE 1
      /\ run' \in 1 .. HoldoverPulses + 1
  <2>1. run' = IF sincePulse = 1 THEN Pll!More(run, HoldoverPulses + 1) ELSE 1
    BY DEF Pll!Pulse
  <2>2. run \in 0 .. HoldoverPulses + 1 /\ HoldoverPulses + 1 \in Nat \ {0}
    BY LoopBounds DEF LoopTypeOK
  <2>3. Pll!More(run, HoldoverPulses + 1) \in 1 .. HoldoverPulses + 1
    <3>1. CASE run = HoldoverPulses + 1
      BY <2>2, <3>1, LessMore
    <3>2. CASE run < HoldoverPulses + 1
      BY <2>2, <3>2, LessMore
    <3> QED BY <2>2, <3>1, <3>2
  <2> QED BY <2>1, <2>2, <2>3
<1>3. sincePulse' = 0
  BY DEF Pll!Pulse
<1>4. PICK e \in Pll!ErrorOf(half') : Pll!PhaseCaptureIsr(e)
  BY DEF Pll!Pulse
<1>5. e = "out" <=> half' # aligned
  BY <1>4 DEF Pll!ErrorOf
<1>6. e \in {"tolerance", "range", "out"}
  BY <1>4 DEF Pll!ErrorOf
<1>9. phase_initialized \in BOOLEAN
  BY DEF LoopTypeOK
<1>7. CASE phase_initialized = TRUE
  <2>1. /\ capture_flag' = TRUE /\ captured' = e /\ UNCHANGED <<phase_initialized, aligned>>
        /\ sincePrev' = Pll!More(sincePrev, Pll!Long)
    BY <1>4, <1>7 DEF Pll!PhaseCaptureIsr
  <2> QED BY <1>1, <1>2, <1>3, <1>5, <1>6, <1>7, <2>1
<1>8. CASE phase_initialized = FALSE
  <2>1. /\ capture_flag' = FALSE /\ phase_initialized' = TRUE /\ aligned' = half'
        /\ sincePrev' = Pll!Long
    BY <1>4, <1>8 DEF Pll!PhaseCaptureIsr
  <2> QED BY <1>1, <1>2, <1>3, <1>8, <2>1
<1> QED BY <1>7, <1>8, <1>9

(* Half a second keeps the ranges. *)
LEMMA TypesHalf ==
  ASSUME LoopTypeOK, Pll!HalfSecond
  PROVE  LoopTypeOK'
<1>1. /\ passed' = FALSE /\ half' \in 0 .. 1 /\ pps_timeout' \in Nat
      /\ UNCHANGED <<holdoverCount, prev_pps_valid, filled>>
  BY HalfFacts
<1>2. CASE Pll!NoPulse
  <2>1. UNCHANGED <<strays, phase_initialized, capture_flag, aligned, run>>
    BY <1>2 DEF Pll!NoPulse, Pll!captureVars
  <2>2. sincePulse' \in 0 .. Pll!Long /\ sincePrev' \in 0 .. Pll!Long
    BY <1>2, LessMore, LoopBounds DEF Pll!NoPulse, LoopTypeOK
  <2> QED BY <1>1, <2>1, <2>2 DEF LoopTypeOK
<1>3. CASE Pll!Pulse
  <2>1. /\ strays' \in Nat /\ sincePulse' = 0 /\ run' \in 0 .. HoldoverPulses + 1
        /\ aligned' \in 0 .. 1 /\ sincePrev' \in 0 .. Pll!Long
    <3>1. sincePrev \in 0 .. Pll!Long /\ Pll!Long \in Nat /\ aligned \in 0 .. 1
      BY LoopBounds DEF LoopTypeOK
    <3>2. Pll!More(sincePrev, Pll!Long) \in 0 .. Pll!Long /\ Pll!Long \in 0 .. Pll!Long
      BY <3>1, LessMore, LoopBounds
    <3>3. strays' \in Nat /\ sincePulse' = 0 /\ run' \in 1 .. HoldoverPulses + 1
      BY <1>1, <1>3, PulseFacts
    <3>4. /\ aligned' \in {aligned, half'}
          /\ sincePrev' \in {Pll!More(sincePrev, Pll!Long), Pll!Long}
      BY <1>1, <1>3, PulseFacts
    <3> QED BY <1>1, <3>1, <3>2, <3>3, <3>4, LoopBounds
  <2>2. phase_initialized' = TRUE /\ (capture_flag' = TRUE \/ capture_flag' = FALSE)
    BY <1>1, <1>3, PulseFacts
  <2>3. sincePulse' \in 0 .. Pll!Long
    BY <2>1, LoopBounds
  <2> QED BY <1>1, <2>1, <2>2, <2>3 DEF LoopTypeOK
<1> QED BY HalfFacts, <1>2, <1>3

(* And so does a pass of the loop. *)
LEMMA TypesStep ==
  ASSUME LoopTypeOK, Pll!Step
  PROVE  LoopTypeOK'
<1> USE LoopBounds
<1>1. CASE Pll!LosePps \/ Pll!Idle
  <2>1. /\ UNCHANGED <<half, aligned, strays, capture_flag, phase_initialized, filled, run,
                       sincePrev, sincePulse, pps_timeout>>
        /\ passed' = TRUE
        /\ prev_pps_valid' = FALSE \/ prev_pps_valid' = prev_pps_valid
        /\ holdoverCount' = HoldoverPulses \/ holdoverCount' = holdoverCount
    BY <1>1 DEF Pll!LosePps, Pll!Idle, Pll!captureVars, Pll!ghostVars
  <2>2. HoldoverPulses \in 0 .. HoldoverPulses
    OBVIOUS
  <2> QED BY <2>1, <2>2 DEF LoopTypeOK
<1>2. ASSUME NEW timeout \in {PpsTimeout, SlewTimeout}, Pll!TakeCapture(timeout)
      PROVE  /\ passed' = TRUE /\ capture_flag' = FALSE /\ pps_timeout' \in Nat
             /\ UNCHANGED <<half, strays, sincePulse, run>>
  BY <1>2 DEF Pll!TakeCapture
<1>3. CASE Pll!PulseInHoldover
  <2>1. /\ passed' = TRUE /\ capture_flag' = FALSE /\ pps_timeout' \in Nat
        /\ UNCHANGED <<half, strays, sincePulse, run>>
    BY <1>2, <1>3 DEF Pll!PulseInHoldover
  <2>2. /\ UNCHANGED <<phase_initialized, aligned, filled>> /\ sincePrev' = 0
        /\ prev_pps_valid' \in {TRUE, FALSE, prev_pps_valid}
    BY <1>3 DEF Pll!PulseInHoldover, Pll!CountPulse
  <2>3. holdoverCount' \in 0 .. HoldoverPulses
    BY <1>3 DEF Pll!PulseInHoldover, Pll!CountPulse, LoopTypeOK
  <2>4. sincePrev' \in 0 .. Pll!Long
    BY <2>2
  <2> QED BY <2>1, <2>2, <2>3, <2>4 DEF LoopTypeOK
<1>4. CASE Pll!Slew
  <2>1. /\ passed' = TRUE /\ capture_flag' = FALSE /\ pps_timeout' \in Nat
        /\ UNCHANGED <<half, strays, sincePulse, run>>
    BY <1>2, <1>4 DEF Pll!Slew
  <2>2. /\ UNCHANGED <<aligned, holdoverCount>> /\ filled' = FALSE /\ prev_pps_valid' = FALSE
        /\ phase_initialized' = FALSE /\ sincePrev' = Pll!Long
    BY <1>4 DEF Pll!Slew, Pll!Forget, Pll!Realign
  <2>3. sincePrev' \in 0 .. Pll!Long
    BY <2>2
  <2> QED BY <2>1, <2>2, <2>3 DEF LoopTypeOK
<1>5. CASE Pll!Track
  <2>1. /\ passed' = TRUE /\ capture_flag' = FALSE /\ pps_timeout' \in Nat
        /\ UNCHANGED <<half, strays, sincePulse, run>>
    BY <1>2, <1>5 DEF Pll!Track
  <2>2. /\ UNCHANGED <<phase_initialized, aligned, holdoverCount>> /\ sincePrev' = 0
        /\ filled' = (filled \/ prev_pps_valid) /\ prev_pps_valid' = (prev_pps_valid \/ ~filled)
    BY <1>5 DEF Pll!Track, Pll!Measured
  <2>3. sincePrev' \in 0 .. Pll!Long
    BY <2>2
  <2> QED BY <2>1, <2>2, <2>3 DEF LoopTypeOK
<1> QED BY <1>1, <1>3, <1>4, <1>5 DEF Pll!Step

(* Half a second keeps the invariant: the pulse that comes a second after the last *)
(* one makes the run longer.                                                       *)
LEMMA HoldoverHalf ==
  ASSUME HoldoverInv, Pll!HalfSecond
  PROVE  HoldoverInv'
<1> USE LoopBounds
<1>1. LoopTypeOK /\ LoopTypeOK'
  BY TypesHalf DEF HoldoverInv
<1>2. /\ passed = TRUE /\ passed' = FALSE /\ half' \in 0 .. 1
      /\ UNCHANGED <<holdoverCount, prev_pps_valid>>
  BY <1>1, HalfFacts
<1>3. capture_flag = FALSE
  BY <1>1, <1>2 DEF HoldoverInv, Captured, LoopTypeOK
<1>4. /\ sincePrev \in 0 .. 3 /\ sincePulse \in 0 .. 3 /\ run \in 0 .. HoldoverPulses + 1
      /\ holdoverCount \in 0 .. HoldoverPulses
  BY <1>1 DEF LoopTypeOK
<1>5. /\ prev_pps_valid => phase_initialized /\ sincePrev = sincePulse
      /\ sincePulse < 3 => run >= 1
  BY <1>3 DEF HoldoverInv, Since
<1>6. /\ holdoverCount > 0 /\ ~prev_pps_valid => holdoverCount = HoldoverPulses
      /\ holdoverCount > 0 /\ prev_pps_valid => run >= HoldoverPulses - holdoverCount + 1
  BY <1>3 DEF HoldoverInv, InHoldover
<1>7. CASE Pll!NoPulse
  <2>1. /\ UNCHANGED <<phase_initialized, capture_flag, aligned, run>>
        /\ sincePulse' = Pll!More(sincePulse, 3) /\ sincePrev' = Pll!More(sincePrev, 3)
    BY <1>7 DEF Pll!NoPulse, Pll!captureVars
  <2>2. sincePulse' < 3 => sincePulse < 3
    BY <1>4, <2>1 DEF Pll!More
  <2>3. Captured' /\ Since' /\ InHoldover'
    BY <1>2, <1>3, <1>5, <1>6, <2>1, <2>2 DEF Captured, Since, InHoldover
  <2> QED BY <1>1, <2>3 DEF HoldoverInv
<1>8. CASE Pll!Pulse
  <2>1. /\ run' = IF sincePulse = 1 THEN Pll!More(run, HoldoverPulses + 1) ELSE 1
        /\ run' >= 1 /\ run' \in Nat /\ sincePulse' = 0 /\ phase_initialized' = TRUE
        /\ captured' \in {"tolerance", "range"} /\ capture_flag' => half' = aligned'
        /\ phase_initialized = TRUE => sincePrev' = Pll!More(sincePrev, 3) /\ capture_flag' = TRUE
        /\ phase_initialized = FALSE => capture_flag' = FALSE
    <3>1. /\ run' = IF sincePulse = 1 THEN Pll!More(run, HoldoverPulses + 1) ELSE 1
          /\ run' \in 1 .. HoldoverPulses + 1 /\ sincePulse' = 0
      BY <1>1, <1>2, <1>8, PulseFacts
    <3>2. phase_initialized' = TRUE
      BY <1>1, <1>2, <1>8, PulseFacts
    <3>3. captured' \in {"tolerance", "range"} /\ capture_flag' => half' = aligned'
      BY <1>1, <1>2, <1>8, PulseFacts
    <3>4. /\ phase_initialized = TRUE => sincePrev' = Pll!More(sincePrev, 3) /\ capture_flag' = TRUE
          /\ phase_initialized = FALSE => capture_flag' = FALSE
      BY <1>1, <1>2, <1>8, PulseFacts
    <3>5. run' >= 1 /\ run' \in Nat
      BY <3>1
    <3> QED BY <3>1, <3>2, <3>3, <3>4, <3>5
  <2>2. Captured'
    BY <1>2, <2>1 DEF Captured
  <2>3. Since'
    BY <1>2, <1>5, <2>1 DEF Since
  <2>4. sincePrev' = 2 /\ phase_initialized = TRUE => sincePrev = 1
    BY <1>4, <2>1 DEF Pll!More
  <2>5. InHoldover'
    <3>1. CASE prev_pps_valid /\ holdoverCount > 0
      <4>1. capture_flag' = TRUE
        BY <1>5, <2>1, <3>1
      <4>2. ASSUME sincePrev' = 2 PROVE run' >= HoldoverPulses - holdoverCount + 2
        <5>1. run' = Pll!More(run, HoldoverPulses + 1)
          BY <1>5, <2>1, <2>4, <3>1, <4>2
        <5>2. run >= HoldoverPulses - holdoverCount + 1
          BY <1>6, <3>1
        <5> QED BY <5>1, <5>2, <1>4, <3>1 DEF Pll!More
      <4> QED BY <1>2, <3>1, <4>1, <4>2 DEF InHoldover
    <3>2. CASE ~prev_pps_valid \/ ~(holdoverCount > 0)
      BY <1>2, <1>6, <3>2 DEF InHoldover
    <3> QED BY <3>1, <3>2
  <2> QED BY <1>1, <2>2, <2>3, <2>5 DEF HoldoverInv
<1> QED BY <1>1, HalfFacts, <1>7, <1>8

(* A pass of the loop keeps it, and ends a holdover only after the run. *)
LEMMA HoldoverStep ==
  ASSUME HoldoverInv, Pll!Step
  PROVE  HoldoverInv' /\ (holdoverCount > 0 /\ holdoverCount' = 0 => run > HoldoverPulses)
<1> USE LoopBounds
<1>1. LoopTypeOK /\ LoopTypeOK'
  BY TypesStep DEF HoldoverInv
<1>2. run \in Nat /\ holdoverCount \in 0 .. HoldoverPulses
  BY <1>1 DEF LoopTypeOK
<1>3. CASE Pll!LosePps
  <2>1. /\ holdoverCount = 0 /\ capture_flag = FALSE /\ holdoverCount' = HoldoverPulses
        /\ prev_pps_valid' = FALSE
        /\ capture_flag' = FALSE /\ UNCHANGED <<sincePulse, run>>
    BY <1>1, <1>3 DEF Pll!LosePps, Pll!PpsLost, Pll!captureVars, Pll!ghostVars, LoopTypeOK
  <2>2. Captured' /\ Since' /\ InHoldover'
    BY <2>1 DEF HoldoverInv, Captured, Since, InHoldover
  <2> QED BY <1>1, <2>1, <2>2 DEF HoldoverInv
<1>4. CASE Pll!Idle
  <2>1. /\ capture_flag = FALSE /\ capture_flag' = FALSE
        /\ UNCHANGED <<sincePulse, run, sincePrev, holdoverCount, prev_pps_valid,
                       phase_initialized>>
    BY <1>1, <1>4 DEF Pll!Idle, Pll!captureVars, Pll!ghostVars, LoopTypeOK
  <2>2. Captured' /\ Since' /\ InHoldover'
    BY <2>1 DEF HoldoverInv, Captured, Since, InHoldover
  <2> QED BY <1>1, <2>1, <2>2 DEF HoldoverInv
<1>5. ASSUME NEW timeout, Pll!TakeCapture(timeout)
      PROVE  /\ capture_flag = TRUE /\ capture_flag' = FALSE /\ UNCHANGED <<half, sincePulse,
                                                                            run>>
             /\ sincePulse = 0 /\ run >= 1 /\ phase_initialized
  BY <1>1, <1>5 DEF Pll!TakeCapture, HoldoverInv, Captured, LoopTypeOK
<1>6. CASE Pll!PulseInHoldover
  <2>1. /\ capture_flag = TRUE /\ capture_flag' = FALSE /\ UNCHANGED <<half, sincePulse, run>>
        /\ sincePulse = 0 /\ run >= 1 /\ phase_initialized
        /\ phase_initialized' = phase_initialized
        /\ holdoverCount > 0 /\ sincePrev' = 0
    BY <1>5, <1>6 DEF Pll!PulseInHoldover
  <2>2. Captured' /\ Since'
    BY <2>1 DEF Captured, Since
  <2>3. CASE ~prev_pps_valid
    <3>1. /\ prev_pps_valid' = TRUE /\ holdoverCount' = holdoverCount
          /\ holdoverCount = HoldoverPulses
      BY <1>6, <2>1, <2>3 DEF Pll!PulseInHoldover, Pll!CountPulse, HoldoverInv, InHoldover
    <3>2. InHoldover'
      BY <1>2, <2>1, <3>1 DEF InHoldover
    <3> QED BY <1>1, <2>1, <2>2, <3>1, <3>2 DEF HoldoverInv
  <2>4. CASE prev_pps_valid /\ Pll!SecondPassed
    <3>1. prev_pps_valid' = prev_pps_valid /\ holdoverCount' = holdoverCount - 1
      BY <1>6, <2>4 DEF Pll!PulseInHoldover, Pll!CountPulse
    <3>2. run >= HoldoverPulses - holdoverCount + 2
      BY <2>1, <2>4 DEF Pll!SecondPassed, HoldoverInv, InHoldover
    <3>3. InHoldover' /\ (holdoverCount' = 0 => run > HoldoverPulses)
      <4>1. /\ run >= HoldoverPulses - holdoverCount' + 1
            /\ (holdoverCount' = 0 => run > HoldoverPulses)
        BY <1>2, <3>1, <3>2
      <4> QED BY <2>1, <2>4, <3>1, <4>1 DEF InHoldover
    <3> QED BY <1>1, <2>2, <3>3 DEF HoldoverInv
  <2>5. CASE prev_pps_valid /\ ~Pll!SecondPassed
    <3>1. prev_pps_valid' = FALSE /\ holdoverCount' = HoldoverPulses
      BY <1>6, <2>5 DEF Pll!PulseInHoldover, Pll!CountPulse
    <3>2. InHoldover'
      BY <3>1 DEF InHoldover
    <3> QED BY <1>1, <2>2, <3>1, <3>2 DEF HoldoverInv
  <2> QED BY <2>3, <2>4, <2>5
<1>7. CASE Pll!Slew
  <2>1. /\ capture_flag' = FALSE /\ UNCHANGED <<sincePulse, run>> /\ run >= 1
        /\ holdoverCount = 0 /\ holdoverCount' = 0 /\ prev_pps_valid' = FALSE
    BY <1>5, <1>7 DEF Pll!Slew, Pll!Forget
  <2>2. Captured' /\ Since' /\ InHoldover'
    BY <2>1 DEF Captured, Since, InHoldover
  <2> QED BY <1>1, <2>1, <2>2 DEF HoldoverInv
<1>8. CASE Pll!Track
  <2>1. /\ capture_flag' = FALSE /\ UNCHANGED <<sincePulse, run>> /\ sincePulse = 0 /\ run >= 1
        /\ phase_initialized /\ phase_initialized' = phase_initialized
        /\ holdoverCount = 0 /\ holdoverCount' = 0 /\ sincePrev' = 0
    BY <1>5, <1>8 DEF Pll!Track
  <2>2. Captured' /\ Since' /\ InHoldover'
    BY <2>1 DEF Captured, Since, InHoldover
  <2> QED BY <1>1, <2>1, <2>2 DEF HoldoverInv
<1> QED BY <1>3, <1>4, <1>6, <1>7, <1>8 DEF Pll!Step

(* So every step does. *)
LEMMA NextHoldover ==
  ASSUME HoldoverInv, Pll!Next \/ UNCHANGED pllVars
  PROVE  HoldoverInv' /\ (holdoverCount > 0 /\ holdoverCount' = 0 => run > HoldoverPulses)
<1>1. CASE Pll!HalfSecond
  <2>1. holdoverCount' = holdoverCount
    BY <1>1, HalfFacts DEF HoldoverInv
  <2> QED BY <1>1, <2>1, HoldoverHalf
<1>2. CASE Pll!OutageBegins \/ Pll!OutageEnds \/ UNCHANGED pllVars
  <2>1. UNCHANGED <<half, aligned, passed, strays, capture_flag, captured, phase_initialized,
                    prev_pps_valid, filled, holdoverCount, run, sincePrev, sincePulse, pps_timeout>>
    BY <1>2 DEF Pll!OutageBegins, Pll!OutageEnds, pllVars, Pll!captureVars, Pll!lockVars,
                Pll!ghostVars,
                Pll!timeoutVars
  <2> QED BY <2>1 DEF HoldoverInv, LoopTypeOK, Captured, Since, InHoldover
<1>3. CASE Pll!Step
  BY <1>3, HoldoverStep
<1> QED BY <1>1, <1>2, <1>3 DEF Pll!Next

(* A holdover ends only when HOLDOVER_PULSES intervals of a second have come in a row, *)
(* whatever pulses go missing or come in between (NtpPhaseLockedLoop.cpp:222).         *)
THEOREM HoldoverCorrect == BothSpec => LeavesHoldover
<1>1. HoldoverInv /\ [BothNext]_bothVars => HoldoverInv'
  BY LoopSteps, NextHoldover
<1>2. HoldoverInv /\ [BothNext]_bothVars
        => [(holdoverCount > 0 /\ holdoverCount' = 0) => run > HoldoverPulses]_Pll!vars
  BY LoopSteps, NextHoldover
<1> QED BY InitHoldover, <1>1, <1>2, PTL DEF BothSpec, LeavesHoldover, Pll!LeavesHoldover

-----------------------------------------------------------------------------
(* The seconds it measures. *)

(* The invariant holds at the start. *)
LEMMA InitMeasure == BothInit => MeasureInv
<1> SUFFICES ASSUME BothInit PROVE MeasureInv
  OBVIOUS
<1>1. /\ strays = 0 /\ aligned = 0 /\ sincePulse = 3 /\ filled = FALSE /\ prev_pps_valid = FALSE
  BY LoopBounds DEF BothInit, Pll!Init
<1> QED BY <1>1, LoopBounds DEF MeasureInv, Strays, Tracking, PulseHalf

(* Half a second keeps the count of strays. *)
LEMMA StraysHalf ==
  ASSUME HoldoverInv, Strays, Pll!HalfSecond
  PROVE  Strays' /\ (half' = 1 /\ Pll!Pulse => strays' = strays + 1)
<1> USE LoopBounds
<1>1. LoopTypeOK
  BY DEF HoldoverInv
<1>2. /\ half' = 1 - half /\ half' \in 0 .. 1 /\ half \in 0 .. 1 /\ strays' <= MaxStray
      /\ strays \in Nat /\ aligned \in 0 .. 1
  BY <1>1, HalfFacts DEF LoopTypeOK
<1>3. run \in 0 .. HoldoverPulses + 1 /\ sincePulse \in 0 .. 3
  BY <1>1 DEF LoopTypeOK
<1>4. aligned = 1 => strays >= 1
  BY DEF Strays
<1>5. CASE Pll!NoPulse
  <2>1. UNCHANGED <<strays, aligned, run>> /\ sincePulse' = Pll!More(sincePulse, 3)
    BY <1>5 DEF Pll!NoPulse, Pll!captureVars
  <2>2. ASSUME sincePulse' < 2 PROVE sincePulse' = 1 /\ sincePulse = 0
    BY <1>3, <2>1, <2>2 DEF Pll!More
  <2>3. ASSUME sincePulse' < 2, PulseHalf' = 1 PROVE sincePulse < 2 /\ PulseHalf = 1
    BY <1>2, <2>2, <2>3 DEF PulseHalf
  <2>4. ~Pll!Pulse
    BY <1>3, <2>1 DEF Pll!Pulse, Pll!More
  <2> QED BY <1>2, <1>4, <2>1, <2>3, <2>4 DEF Strays
<1>6. CASE Pll!Pulse
  <2>1. /\ strays' = strays + half' /\ sincePulse' = 0 /\ (sincePulse # 1 => run' = 1)
        /\ aligned' \in {aligned, half'}
    BY <1>1, <1>2, <1>6, PulseFacts
  <2>2. half' = 0 => strays' = strays
    BY <1>2, <2>1
  <2>3. half' = 1 => strays' = strays + 1
    BY <1>2, <2>1
  <2>4. aligned' = 1 => strays' >= 1
    <3>1. CASE half' = 0
      BY <1>4, <2>1, <2>2, <3>1
    <3>2. CASE half' = 1
      BY <1>2, <2>3, <3>2
    <3> QED BY <1>2, <3>1, <3>2
  <2>5. PulseHalf' = half'
    BY <2>1 DEF PulseHalf
  <2>6. ASSUME half' = 1, run' >= 2 PROVE strays' >= 2
    <3>1. sincePulse = 1 /\ half = 0
      BY <1>2, <2>1, <2>6
    <3>2. strays >= 1
      BY <3>1 DEF Strays, PulseHalf
    <3> QED BY <1>2, <2>3, <2>6, <3>2
  <2>7. half' = 1 => strays' >= 1
    BY <1>2, <2>3
  <2> QED BY <1>2, <2>3, <2>4, <2>5, <2>6, <2>7 DEF Strays
<1> QED BY <1>1, HalfFacts, <1>5, <1>6

(* A pass of the loop leaves the pulses alone. *)
LEMMA StraysStep ==
  ASSUME HoldoverInv, Strays, Pll!Step
  PROVE  Strays'
<1>1. UNCHANGED <<strays, sincePulse, run, half, aligned>>
  BY DEF Pll!Step, Pll!LosePps, Pll!Idle, Pll!PulseInHoldover, Pll!Slew, Pll!Track,
         Pll!TakeCapture, Pll!ghostVars
<1> QED BY <1>1 DEF Strays, PulseHalf

(* A pulse that fits the timers comes a second after the one tracked before. *)
LEMMA TrackingHalf ==
  ASSUME HoldoverInv, MeasureInv, MaxStray <= 1, Pll!HalfSecond
  PROVE  Tracking'
<1> USE LoopBounds
<1>1. LoopTypeOK
  BY DEF HoldoverInv
<1>2. /\ half' = 1 - half /\ half' \in 0 .. 1 /\ half \in 0 .. 1 /\ strays \in Nat
      /\ aligned \in 0 .. 1
      /\ strays <= 1 /\ strays' <= 1 /\ passed = TRUE /\ passed' = FALSE
      /\ UNCHANGED <<holdoverCount, prev_pps_valid, filled>>
      /\ pps_timeout \in Nat /\ pps_timeout' \in Nat
      /\ (pps_timeout > 0 => pps_timeout' = pps_timeout - 1)
  <2>1. strays \in Nat /\ strays' <= MaxStray /\ strays <= MaxStray
    BY <1>1, HalfFacts DEF LoopTypeOK, MeasureInv, Strays
  <2>2. strays' \in Nat
    BY TypesHalf, <1>1 DEF LoopTypeOK
  <2>3. strays <= 1 /\ strays' <= 1
    BY <2>1, <2>2
  <2> QED BY <1>1, <2>1, <2>3, HalfFacts DEF LoopTypeOK
<1>3. capture_flag = FALSE
  BY <1>1, <1>2 DEF HoldoverInv, Captured, LoopTypeOK
<1>4. SUFFICES ASSUME holdoverCount = 0, prev_pps_valid PROVE Tracking'
  <2>1. holdoverCount = 0 /\ filled => prev_pps_valid
    BY DEF MeasureInv, Tracking
  <2> QED BY <1>2, <2>1 DEF Tracking
<1>5. /\ phase_initialized /\ sincePrev = sincePulse /\ sincePrev \in 0 .. 3
      /\ sincePrev + pps_timeout <= 3 /\ pps_timeout > 0
      /\ sincePrev < 3 =>
           LET last == IF sincePrev = 1 THEN 1 - half ELSE half
           IN  last = aligned \/ (last = 0 /\ strays >= 1)
  BY <1>1, <1>2, <1>3, <1>4 DEF HoldoverInv, Since, MeasureInv, Tracking, LoopTypeOK
<1>6. CASE Pll!NoPulse
  <2>1. UNCHANGED <<strays, aligned, capture_flag>> /\ sincePrev' = Pll!More(sincePrev, 3)
    BY <1>6 DEF Pll!NoPulse, Pll!captureVars
  <2>2. sincePrev' = sincePrev + 1
    BY <1>2, <1>5, <2>1 DEF Pll!More
  <2>3. sincePrev' + pps_timeout' <= 3
    <3>1. sincePrev + 1 + (pps_timeout - 1) <= 3
      BY <1>2, <1>5
    <3>2. pps_timeout' = pps_timeout - 1
      BY <1>2, <1>5
    <3> QED BY <2>2, <3>1, <3>2
  <2>4. ASSUME sincePrev' < 3
        PROVE  LET last == IF sincePrev' = 1 THEN 1 - half' ELSE half'
               IN  last = aligned \/ (last = 0 /\ strays >= 1)
    <3>1. CASE sincePrev = 0
      BY <1>2, <1>5, <2>2, <3>1
    <3>2. CASE sincePrev = 1
      BY <1>2, <1>5, <2>2, <3>2
    <3>3. CASE sincePrev >= 2
      BY <1>5, <2>2, <2>4, <3>3
    <3> QED BY <1>5, <3>1, <3>2, <3>3
  <2> QED BY <1>2, <1>3, <1>4, <2>1, <2>3, <2>4 DEF Tracking
<1>7. CASE Pll!Pulse
  <2>1. /\ capture_flag' = TRUE /\ aligned' = aligned /\ sincePrev' = Pll!More(sincePrev, 3)
        /\ captured' = "out" <=> half' # aligned
    BY <1>1, <1>2, <1>5, <1>7, PulseFacts
  <2>2. ASSUME captured' \in {"tolerance", "range"} PROVE sincePrev' = 2
    <3>1. half' = aligned
      BY <2>1, <2>2
    <3>2. sincePrev < 3
      BY <1>2, <1>5
    <3>3. ~(half = 0 /\ strays >= 1 /\ aligned = 1)
      <4>1. half = 0 => strays' = strays + 1
        BY <1>2, <1>7, StraysHalf DEF MeasureInv
      <4> QED BY <1>2, <4>1
    <3>4. CASE sincePrev = 1
      BY <2>1, <3>4 DEF Pll!More
    <3>5. CASE sincePrev # 1
      <4>1. half = aligned \/ (half = 0 /\ strays >= 1)
        BY <1>5, <3>2, <3>5
      <4>2. half # aligned
        BY <1>2, <3>1
      <4> QED BY <1>2, <3>3, <4>1, <4>2
    <3> QED BY <3>4, <3>5
  <2> QED BY <1>2, <1>4, <2>1, <2>2 DEF Tracking
<1> QED BY <1>1, HalfFacts, <1>6, <1>7

(* A pass of the loop keeps the invariant, and measures only a second. *)
LEMMA TrackingStep ==
  ASSUME HoldoverInv, MeasureInv, MaxStray <= 1, Pll!Step
  PROVE  Tracking' /\ (Pll!Track /\ Pll!Measured => Pll!SecondPassed)
<1> USE LoopBounds
<1>1. LoopTypeOK
  BY DEF HoldoverInv
<1>2. half \in 0 .. 1 /\ strays \in Nat /\ aligned \in 0 .. 1 /\ strays <= 1
  <2>1. strays \in Nat /\ strays <= MaxStray
    BY <1>1 DEF LoopTypeOK, MeasureInv, Strays
  <2>2. strays <= 1
    BY <2>1
  <2> QED BY <1>1, <2>1, <2>2 DEF LoopTypeOK
<1>3. CASE Pll!LosePps
  <2>1. holdoverCount' = HoldoverPulses
    BY <1>3 DEF Pll!LosePps
  <2>2. ~Pll!Track
    BY <1>1, <1>3 DEF Pll!Track, Pll!TakeCapture, Pll!LosePps
  <2> QED BY <2>1, <2>2 DEF Tracking
<1>4. CASE Pll!Idle
  <2>1. /\ capture_flag = FALSE /\ passed' = TRUE
        /\ UNCHANGED <<half, strays, aligned, capture_flag, captured, sincePrev, holdoverCount,
                       prev_pps_valid, filled, pps_timeout>>
    BY <1>1, <1>4 DEF Pll!Idle, Pll!captureVars, LoopTypeOK
  <2>2. holdoverCount = 0 => pps_timeout > 0
    BY <1>1, <1>4 DEF Pll!Idle, Pll!PpsLost, LoopTypeOK
  <2>3. ~Pll!Track
    BY <2>1 DEF Pll!Track, Pll!TakeCapture
  <2> QED BY <2>1, <2>2, <2>3 DEF Tracking, MeasureInv
<1>5. ASSUME NEW timeout, Pll!TakeCapture(timeout)
      PROVE  /\ capture_flag = TRUE /\ capture_flag' = FALSE /\ UNCHANGED <<half, strays>>
             /\ sincePulse = 0 /\ pps_timeout' = timeout
             /\ captured \in {"tolerance", "range"} => half = aligned
  BY <1>1, <1>5 DEF Pll!TakeCapture, HoldoverInv, Captured, LoopTypeOK
<1>6. CASE Pll!PulseInHoldover
  <2>1. /\ capture_flag' = FALSE /\ UNCHANGED <<half, strays, aligned>> /\ sincePrev' = 0
        /\ pps_timeout' = PpsTimeout /\ sincePulse = 0 /\ holdoverCount > 0
    BY <1>5, <1>6 DEF Pll!PulseInHoldover
  <2>2. ~Pll!Track
    BY <2>1 DEF Pll!Track
  <2>3. ASSUME holdoverCount' = 0 PROVE prev_pps_valid' = TRUE /\ run > HoldoverPulses
    <3>1. prev_pps_valid' = TRUE
      BY <1>1, <1>6, <2>1, <2>3 DEF Pll!PulseInHoldover, Pll!CountPulse, LoopTypeOK
    <3> QED BY <2>1, <2>3, <3>1, HoldoverStep
  <2>4. ASSUME holdoverCount' = 0 PROVE half = aligned \/ (half = 0 /\ strays >= 1)
    <3>1. run \in Nat /\ run >= 2
      BY <1>1, <2>3, <2>4 DEF LoopTypeOK
    <3>2. half # 1
      BY <1>2, <2>1, <3>1 DEF MeasureInv, Strays, PulseHalf
    <3>3. aligned = 1 => strays >= 1
      BY DEF MeasureInv, Strays
    <3> QED BY <1>2, <3>2, <3>3
  <2>5. sincePrev' + pps_timeout' <= 3 /\ pps_timeout' > 0
    BY <2>1
  <2>6. ASSUME holdoverCount' = 0 PROVE half' = aligned' \/ (half' = 0 /\ strays' >= 1)
    BY <2>1, <2>4, <2>6
  <2>7. CASE holdoverCount' = 0
    <3>1. prev_pps_valid' = TRUE
      BY <2>3, <2>7
    <3>2. half' = aligned' \/ (half' = 0 /\ strays' >= 1)
      BY <2>6, <2>7
    <3> QED BY <2>1, <2>2, <2>5, <3>1, <3>2 DEF Tracking
  <2>8. CASE holdoverCount' # 0
    BY <2>2, <2>8 DEF Tracking
  <2> QED BY <2>7, <2>8
<1>7. CASE Pll!Slew
  <2>1. prev_pps_valid' = FALSE /\ filled' = FALSE
    BY <1>7 DEF Pll!Slew, Pll!Forget
  <2>2. ~Pll!Track
    BY <1>7 DEF Pll!Slew, Pll!Track
  <2> QED BY <2>1, <2>2 DEF Tracking
<1>8. CASE Pll!Track
  <2>1. /\ capture_flag = TRUE /\ capture_flag' = FALSE /\ UNCHANGED <<half, strays, aligned>>
        /\ sincePrev' = 0
        /\ pps_timeout' = PpsTimeout /\ half = aligned /\ captured \in {"tolerance", "range"}
        /\ holdoverCount = 0
    BY <1>5, <1>8 DEF Pll!Track
  <2>2. prev_pps_valid' = (prev_pps_valid \/ ~filled) /\ filled' = (filled \/ prev_pps_valid)
    BY <1>8 DEF Pll!Track, Pll!Measured
  <2>3. filled => prev_pps_valid
    BY <2>1 DEF MeasureInv, Tracking
  <2>4. prev_pps_valid => sincePrev = 2
    BY <2>1 DEF MeasureInv, Tracking
  <2>5. Tracking'
    <3>1. sincePrev' + pps_timeout' <= 3 /\ pps_timeout' > 0
      BY <2>1
    <3>2. half' = aligned'
      BY <2>1
    <3>3. filled' => prev_pps_valid'
      BY <2>2, <2>3
    <3> QED BY <2>1, <3>1, <3>2, <3>3 DEF Tracking
  <2>6. Pll!Measured => Pll!SecondPassed
    BY <2>3, <2>4 DEF Pll!Measured, Pll!SecondPassed
  <2> QED BY <2>5, <2>6
<1> QED BY <1>3, <1>4, <1>6, <1>7, <1>8 DEF Pll!Step

(* So every step does. *)
LEMMA NextMeasure ==
  ASSUME HoldoverInv, MeasureInv, MaxStray <= 1, Pll!Next \/ UNCHANGED pllVars
  PROVE  MeasureInv' /\ (Pll!Track /\ Pll!Measured => Pll!SecondPassed)
<1>1. CASE Pll!HalfSecond
  <2>1. ~Pll!Track
    BY <1>1 DEF Pll!HalfSecond, Pll!Track, Pll!TakeCapture
  <2> QED BY <1>1, <2>1, StraysHalf, TrackingHalf DEF MeasureInv
<1>2. CASE Pll!OutageBegins \/ Pll!OutageEnds \/ UNCHANGED pllVars
  <2>1. UNCHANGED <<half, aligned, passed, strays, capture_flag, captured, phase_initialized,
                    prev_pps_valid, filled, holdoverCount, run, sincePrev, sincePulse, pps_timeout>>
    BY <1>2 DEF Pll!OutageBegins, Pll!OutageEnds, pllVars, Pll!captureVars, Pll!lockVars,
                Pll!ghostVars,
                Pll!timeoutVars
  <2>2. ~Pll!Track
    <3>1. Pll!Track => ~passed /\ passed' = TRUE
      BY DEF Pll!Track, Pll!TakeCapture
    <3>2. passed' = passed
      BY <2>1
    <3> QED BY <3>1, <3>2, Zenon
  <2> QED BY <2>1, <2>2 DEF MeasureInv, Strays, Tracking, PulseHalf
<1>3. CASE Pll!Step
  BY <1>3, StraysStep, TrackingStep DEF MeasureInv
<1> QED BY <1>1, <1>2, <1>3 DEF Pll!Next

(* What gets into the frequency filter was measured over one second: no missing pulse, *)
(* no stray one, and no count that was preset in between, as long as two strays do not *)
(* make a second of their own (NtpPhaseLockedLoop::Step, the freqFirFilter).           *)
THEOREM MeasureCorrect ==
  ASSUME MaxStray <= 1
  PROVE  BothSpec => MeasuresSeconds
<1> DEFINE Inv == HoldoverInv /\ MeasureInv
<1>1. BothInit => Inv
  BY InitHoldover, InitMeasure
<1>2. Inv /\ [BothNext]_bothVars => Inv'
  BY LoopSteps, NextHoldover, NextMeasure
<1>3. Inv /\ [BothNext]_bothVars => [(Pll!Track /\ Pll!Measured) => Pll!SecondPassed]_Pll!vars
  BY LoopSteps, NextMeasure
<1> QED BY <1>1, <1>2, <1>3, PTL DEF BothSpec, MeasuresSeconds, Pll!MeasuresSeconds
=============================================================================
