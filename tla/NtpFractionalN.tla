---------------------------- MODULE NtpFractionalN ----------------------------
(***************************************************************************)
(* The NTP time of the build without a disciplined clock: the seconds that *)
(* the cycles of FractionalN make, the captures of the NIC's edges, and    *)
(* the conversion of a count to a timestamp.                               *)
(*                                                                         *)
(* Timestamps are in 1/Mod of a nominal tick, a fraction of PerSecond of   *)
(* them to the second.  The PPS comes half-way through the last cycle of a *)
(* second, so that true time is half a cycle ahead of the cycles.          *)
(***************************************************************************)
EXTENDS FractionalN, FiniteSets

CONSTANTS
  CyclesPerSecond,  \* NOM_CYCLE_PER_SEC, of which the Mod cycles are a whole number of seconds
  ReadLimit,        \* the count by which a timestamp is made: the end of the loop's window
  Entry,            \* ticks an interrupt routine takes at least; it may owe two from the cycle before
  Seconds,          \* the time of day at the start
  MaxCycles,        \* bound: cycles the clock runs
  MaxEdges, MaxSets, MaxSlews   \* bounds: edges of the NIC, calls of SetDivisor, slews

ASSUME SecondsAssumption ==
  /\ CyclesPerSecond \in Nat \ {0} /\ Mod % CyclesPerSecond = 0
  /\ Entry \in 0 .. Latency
  /\ ReadLimit \in Nat /\ Nominal > ReadLimit /\ Seconds \in Nat
  /\ \A n \in Divisors : Nominal + Whole(n) > ReadLimit

VARIABLES
  icf5, icr5,                 \* ICF5, ICR5
  udpCapture,                 \* the divider's state and the count at an edge
  reading,                    \* what a timestamp is being made from
  ntpSecondsOffset,
  stamp,                      \* the timestamp that was just made
  cycles,                     \* history: matches since the start, by which true time goes
  synced,                     \* history: has the time of day been set since the last slew?
  edges, sets, slews          \* edges that came, SetDivisor calls, slews

ntpVars == <<icf5, icr5, udpCapture, reading, ntpSecondsOffset, stamp, cycles, synced, edges, sets, slews>>
vars == <<fracNVars, ntpVars>>

Cycle == Nominal * Mod          \* NOM_CYCLE_NTP
PerSecond == CyclesPerSecond * Cycle

(* A correction is far from a cycle: of 128 million, PLL_MAX_CTRL_EFFORT is 200 and *)
(* a crystal that is 100 ppm off makes 12 800.                                      *)
ASSUME NearNominal ==
  /\ Mod >= 3 /\ Nominal >= 4 /\ Entry >= 2
  /\ \A n \in Divisors : 4 * n <= Cycle + n /\ -4 * n <= Cycle + n /\ n <= Nominal + Whole(n)

(* The history at: the true time of the moment a count was taken, and whether *)
(* the divisor has stayed the same since.                                     *)
None == [is |-> "none"]

DividerState == [m |-> m, k |-> k, s |-> s, subCycle |-> subCycle, cycle |-> cycle]

(* True time: whole cycles, and of this one as much as the divisor makes the   *)
(* ticks since its start, less those that are owed.                            *)
TrueTime ==
  LET ticks == Mod * (count + (IF match THEN top + 1 ELSE 0)) - s
  IN  Seconds * PerSecond + cycles * Cycle + (ticks * Cycle) \div (Mod * m + k) + Cycle \div 2

Init ==
  /\ FracNInit
  /\ icf5 = FALSE /\ icr5 = None
  /\ udpCapture = None
  /\ reading = None
  /\ ntpSecondsOffset = 0
  /\ stamp = None
  /\ cycles = 0 /\ synced = FALSE
  /\ edges = 0 /\ sets = 0 /\ slews = 0

-----------------------------------------------------------------------------
(* The environment.  A timestamp is made within the window. *)
Time ==
  /\ Tick
  /\ cycles < MaxCycles
  /\ reading # None => count < ReadLimit
  /\ stamp' = None
  /\ UNCHANGED <<icf5, icr5, udpCapture, reading, ntpSecondsOffset, cycles, synced, edges, sets, slews>>

(* An edge on the NIC's interrupt line.  (Assumed: none comes between a match   *)
(* and its routine, which would save it with the cycle before.)                *)
Edge ==
  /\ edges < MaxEdges /\ edges' = edges + 1
  /\ ~match
  /\ icf5' = TRUE
  /\ icr5' = [is |-> "edge", c |-> count, at |-> TrueTime, sure |-> setting = "idle"]
  /\ stamp' = None
  /\ UNCHANGED <<fracNVars, udpCapture, reading, ntpSecondsOffset, cycles, synced, sets, slews>>

-----------------------------------------------------------------------------
Taken(edge) == [is |-> "capture", of |-> DividerState, edge |-> edge]

MutantTimerMatchIsr ==   \* the capture is left to GetCapturedNtpTime
  /\ FracNMatchIsr
  /\ count >= Entry
  /\ UNCHANGED <<icf5, udpCapture>>
  /\ cycles' = cycles + 1
  /\ stamp' = None
  /\ UNCHANGED <<icr5, reading, ntpSecondsOffset, synced, edges, sets, slews>>

(* A capture that is not handled is saved with the state its count belongs to. *)
TimerMatchIsr ==
  /\ FracNMatchIsr
  /\ count >= Entry
  /\ IF icf5 THEN udpCapture' = Taken(icr5) /\ icf5' = FALSE
             ELSE UNCHANGED <<icf5, udpCapture>>
  /\ cycles' = cycles + 1
  /\ stamp' = None
  /\ UNCHANGED <<icr5, reading, ntpSecondsOffset, synced, edges, sets, slews>>

Service ==
  /\ reading = None /\ setting = "idle"
  /\ ServiceInterrupt
  /\ stamp' = None
  /\ UNCHANGED <<icf5, icr5, udpCapture, reading, ntpSecondsOffset, cycles, synced, edges, sets, slews>>

Unsure(edge) == IF edge = None THEN None ELSE [edge EXCEPT !.sure = FALSE]

(* The main program does one thing at a time. *)
ChangeDivisor ==
  /\ reading = None
  /\ SetDivisor
  /\ sets' = IF setting = "idle" THEN sets + 1 ELSE sets
  /\ sets' <= MaxSets
  /\ icr5' = Unsure(icr5)
  /\ stamp' = None
  /\ UNCHANGED <<icf5, udpCapture, reading, ntpSecondsOffset, cycles, synced, edges, slews>>

(* A PPS out of range: this cycle becomes the last of its second.  (Bound: the *)
(* captures are gone by then.)                                                *)
Slew ==
  /\ reading = None /\ ~icf5 /\ udpCapture = None /\ ~match
  /\ slews < MaxSlews /\ slews' = slews + 1
  /\ SlewToCycle(Mod - 1)
  /\ cycles' = (cycles \div CyclesPerSecond) * CyclesPerSecond + CyclesPerSecond - 1
  /\ synced' = FALSE
  /\ stamp' = None
  /\ UNCHANGED <<icf5, icr5, udpCapture, reading, ntpSecondsOffset, edges, sets>>

(* The PPS after that; the count it sets is where true time is. *)
Align ==
  /\ ~synced /\ slews > 0 /\ slews' = 0 /\ ~icf5 /\ reading = None /\ ~match /\ setting = "idle"
  /\ SetTimersCount
  /\ stamp' = None
  /\ UNCHANGED <<icf5, icr5, udpCapture, reading, ntpSecondsOffset, cycles, synced, edges, sets>>

-----------------------------------------------------------------------------
WholeSeconds(state) == (state.subCycle \div CyclesPerSecond) + state.cycle * (Mod \div CyclesPerSecond)

(* checkTOD calls it in the cycles that are clear of the PPS. *)
SetNtpSeconds ==
  /\ reading = None /\ setting = "idle" /\ ~match
  /\ subCycle % CyclesPerSecond < CyclesPerSecond - 1
  /\ ntpSecondsOffset' = TrueTime \div PerSecond - WholeSeconds(DividerState)
  /\ synced' = TRUE
  /\ stamp' = None
  /\ UNCHANGED <<fracNVars, icf5, icr5, udpCapture, reading, cycles, edges, sets, slews>>

(* The time a count is into its cycle; one tick lasts Cycle / m, in whole units *)
(* and a remainder, less what the divider owes.                               *)
ComputePhase(state, c) ==
  LET d == Cycle \div state.m
      r == Cycle - d * state.m
      time == c * d + (c * r + state.m \div 2) \div state.m
      sum == state.s + (state.k * c) \div state.m
  IN  time - (Mod * sum + Mod \div 2) \div Mod

MutantCarry(frac, offset) == 0   \* the half cycle that crosses the second

(* The half cycle may cross the second. *)
Carry(frac, offset) == IF (frac + offset) % PerSecond < frac THEN 1 ELSE 0

NtpTime(state, c) ==
  LET frac == (ComputePhase(state, c) + Cycle * (state.subCycle % CyclesPerSecond)) % PerSecond
      offset == Cycle \div 2
  IN  (WholeSeconds(state) + ntpSecondsOffset + Carry(frac, offset)) * PerSecond
        + ((frac + offset) % PerSecond)

InWindow == interruptCount = 0 /\ ~match /\ count < ReadLimit /\ setting = "idle" /\ reading = None

(* GetCurrentNtpTime: the count is read, and then the divider's state. *)
ReadCount ==
  /\ InWindow
  /\ reading' = [is |-> "count", c |-> count, at |-> TrueTime]
  /\ stamp' = None
  /\ UNCHANGED <<fracNVars, icf5, icr5, udpCapture, ntpSecondsOffset, cycles, synced, edges, sets, slews>>

GetCurrentNtpTime ==
  /\ reading.is = "count" /\ reading' = None
  /\ stamp' = [is |-> "stamp", time |-> NtpTime(DividerState, reading.c), at |-> reading.at]
  /\ UNCHANGED <<fracNVars, icf5, icr5, udpCapture, ntpSecondsOffset, cycles, synced, edges, sets, slews>>

(* GetCapturedNtpTime: a saved capture, or else the state now and ICR5. *)
CopyState ==
  /\ InWindow
  /\ icf5 \/ udpCapture # None
  /\ reading' = IF udpCapture # None THEN udpCapture ELSE Taken(icr5)
  /\ stamp' = None
  /\ UNCHANGED <<fracNVars, icf5, icr5, udpCapture, ntpSecondsOffset, cycles, synced, edges, sets, slews>>

GetCapturedNtpTime ==
  /\ reading.is = "capture" /\ reading' = None
  /\ udpCapture' = None /\ icf5' = FALSE
  /\ stamp' = IF reading.edge.sure
                THEN [is |-> "stamp", time |-> NtpTime(reading.of, reading.edge.c), at |-> reading.edge.at]
                ELSE None
  /\ UNCHANGED <<fracNVars, icr5, ntpSecondsOffset, cycles, synced, edges, sets, slews>>

Next ==
  \/ Time \/ Edge \/ TimerMatchIsr \/ Service \/ ChangeDivisor \/ Slew \/ Align \/ SetNtpSeconds
  \/ ReadCount \/ GetCurrentNtpTime \/ CopyState \/ GetCapturedNtpTime

Spec == Init /\ [][Next]_vars

-----------------------------------------------------------------------------
TypeOK ==
  /\ FracNTypeOK
  /\ icf5 \in BOOLEAN
  /\ edges \in 0 .. MaxEdges /\ sets \in 0 .. MaxSets /\ slews \in 0 .. MaxSlews
  /\ synced \in BOOLEAN /\ cycles \in 0 .. MaxCycles
  /\ \A saved \in {icr5, udpCapture, reading, stamp} : saved = None \/ saved.is # "none"

Abs(x) == IF x < 0 THEN -x ELSE x

(* A timestamp is true to a tick: of the present, and of an edge whether the    *)
(* match routine has saved it or not, across the end of the second and of the  *)
(* Mod cycles; to the second once the time of day has been set.                *)
StampExact ==
  stamp # None =>
    LET off == stamp.time - stamp.at
        fraction == ((off + PerSecond \div 2) % PerSecond) - PerSecond \div 2
    IN  Abs(IF synced THEN off ELSE fraction) <= Mod
=============================================================================
