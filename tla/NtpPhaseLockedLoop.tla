-------------------------- MODULE NtpPhaseLockedLoop --------------------------
(***************************************************************************)
(* The loop that locks the cycles of NtpFractionalN to the PPS: its        *)
(* acquisition, its lock indication, and the holdover while the PPS is      *)
(* away.  The filters and the control law are left out: a pulse is in       *)
(* tolerance, in range, or out of range, and what matters of a frequency    *)
(* is whether it was measured over one second.                             *)
(*                                                                         *)
(* Time goes in halves of a second; the loop passes once in each, after    *)
(* the pulse if one comes.  Counters of this module are smaller than the   *)
(* code's, their names are the same.                                       *)
(***************************************************************************)
EXTENDS Integers, Sequences, SequencesExt

CONSTANTS
  SettledMax,         \* the 60 pulses in tolerance that make a lock
  HoldoverPulses,     \* the 5 pulses that end a holdover
  PpsTimeout, SlewTimeout, StartTimeout,   \* halves of a second: 1.5 s, 2.5 s, 10 s
  HoldoverTimeout,    \* the ten minutes a holdover may last
  CorrectionInterval, \* holdoverUpdateIntervalMs
  HistoryLength, HistoryInterval,   \* freqHistoryLength, freqHistoryInterval
  HistoryLag,         \* the pulses before the history begins, after a start or a holdover
  MaxFaults,          \* bound: outages, stray pulses and pulses out of tolerance
  MaxStray            \* bound: stray pulses; two may be taken for a second of their own

VARIABLES
  half,               \* the half of the true second
  outage, faults,     \* no PPS comes; faults so far, and stray pulses among them
  strays,
  passed,             \* has the loop passed in this half?
  aligned,            \* the half in which the timers expect the PPS
  phase_initialized, capture_flag, captured,   \* captured: the phase error
  settled, holdoverCount, holdover_timed_out,
  prev_pps_valid, filled,          \* filled: freqFirFilter.FillCount() > 0
  pps_timeout, holdover_timeout, nextHoldoverCorrection,   \* halves that are left
  freqHistory, freqHistoryTicker,  \* freqHistory: was the frequency measured?
  sincePrev,          \* history: halves the timers have counted since prev_pps_value
  sincePulse, run,    \* history: halves since the last pulse; pulses a second apart
  inTolerance         \* history: pulses in tolerance since the last unlock by timeout

environmentVars == <<half, outage, faults, strays, passed, aligned>>
captureVars  == <<phase_initialized, capture_flag, captured>>
lockVars     == <<settled, holdoverCount, holdover_timed_out, prev_pps_valid, filled>>
timeoutVars  == <<pps_timeout, holdover_timeout, nextHoldoverCorrection>>
historyVars  == <<freqHistory, freqHistoryTicker>>
ghostVars    == <<sincePrev, sincePulse, run, inTolerance>>
vars == <<environmentVars, captureVars, lockVars, timeoutVars, historyVars, ghostVars>>

Second == 2
Long == Second + 1     \* more than a second, or not known

(* The loop gives the PPS up before the pulse after the one it misses. *)
LoopConstants ==
  /\ SettledMax \in Nat /\ HoldoverPulses \in Nat \ {0}
  /\ PpsTimeout \in 1 .. Long /\ {SlewTimeout, StartTimeout, MaxStray} \subseteq Nat

Less(timer) == IF timer > 0 THEN timer - 1 ELSE 0
More(timer, limit) == IF timer < limit THEN timer + 1 ELSE limit

Init ==
  /\ half = 0 /\ outage = FALSE /\ faults = 0 /\ strays = 0 /\ passed = TRUE
  /\ aligned = 0
  /\ phase_initialized = FALSE /\ capture_flag = FALSE /\ captured = "none"
  /\ settled = 0 /\ holdoverCount = 0 /\ holdover_timed_out = FALSE
  /\ prev_pps_valid = FALSE /\ filled = FALSE
  /\ pps_timeout = StartTimeout /\ holdover_timeout = HoldoverTimeout /\ nextHoldoverCorrection = 0
  /\ freqHistory = <<>> /\ freqHistoryTicker = -HistoryLag
  /\ sincePrev = Long /\ sincePulse = Long /\ run = 0 /\ inTolerance = 0

-----------------------------------------------------------------------------
(* The PPS.                                                                  *)

(* The first pulse presets the timers, so that the PPS is where they expect it. *)
PhaseCaptureIsr(error) ==
  IF phase_initialized
    THEN /\ capture_flag' = TRUE /\ captured' = error
         /\ UNCHANGED <<phase_initialized, aligned>>
         /\ sincePrev' = More(sincePrev, Long)
    ELSE /\ capture_flag' = FALSE /\ phase_initialized' = TRUE
         /\ aligned' = half'
         /\ sincePrev' = Long
         /\ UNCHANGED captured

(* The errors a pulse may have, and what they cost. *)
ErrorOf(pulseHalf) == IF pulseHalf = aligned THEN {"tolerance", "range"} ELSE {"out"}

Pulse ==
  /\ \E error \in ErrorOf(half') :
       /\ PhaseCaptureIsr(error)
       /\ strays' = strays + half'
       /\ faults' = faults + half' + (IF error = "range" THEN 1 ELSE 0)
  /\ run' = IF sincePulse = 1 THEN More(run, HoldoverPulses + 1) ELSE 1
  /\ sincePulse' = 0

NoPulse ==
  /\ sincePulse' = More(sincePulse, Long)
  /\ sincePrev' = More(sincePrev, Long)
  /\ UNCHANGED <<faults, strays, captureVars, aligned, run>>

(* Half a second.  The PPS comes in half 0 unless there is an outage, a stray *)
(* pulse at any time.                                                         *)
HalfSecond ==
  /\ passed /\ passed' = FALSE
  /\ half' = 1 - half
  /\ pps_timeout' = Less(pps_timeout)
  /\ holdover_timeout' = Less(holdover_timeout)
  /\ nextHoldoverCorrection' = Less(nextHoldoverCorrection)
  /\ IF half' = 0 THEN IF outage THEN NoPulse ELSE Pulse
                  ELSE NoPulse \/ Pulse
  /\ faults' <= MaxFaults /\ strays' <= MaxStray
  /\ UNCHANGED <<outage, lockVars, historyVars, inTolerance>>

OutageBegins ==
  /\ ~outage /\ outage' = TRUE
  /\ faults < MaxFaults /\ faults' = faults + 1
  /\ UNCHANGED <<half, strays, passed, aligned, captureVars, lockVars, timeoutVars, historyVars, ghostVars>>

OutageEnds ==
  /\ outage /\ outage' = FALSE
  /\ UNCHANGED <<half, faults, strays, passed, aligned, captureVars, lockVars, timeoutVars, historyVars, ghostVars>>

-----------------------------------------------------------------------------
(* Step without a capture.                                                   *)

PpsLost == holdoverCount = 0 /\ pps_timeout = 0

(* A holdover that begins in this pass is not over in it. *)
HoldoverOver == holdoverCount > 0 /\ holdover_timeout = 0 /\ ~holdover_timed_out

MutantUnlock == inTolerance' = 0 /\ UNCHANGED settled   \* the lock outlives the holdover

Unlock == settled' = 0 /\ inTolerance' = 0

(* The divisor follows the history every while, until that is too old. *)
Correct ==
  IF holdoverCount > 0 /\ ~holdover_timed_out' /\ Len(freqHistory) = HistoryLength
     /\ nextHoldoverCorrection = 0
    THEN \/ nextHoldoverCorrection' = CorrectionInterval /\ UNCHANGED freqHistory
         \/ freqHistory' = <<>> /\ UNCHANGED nextHoldoverCorrection
    ELSE UNCHANGED <<nextHoldoverCorrection, freqHistory>>

LosePps ==
  /\ ~passed /\ passed' = TRUE
  /\ ~capture_flag /\ PpsLost
  /\ holdoverCount' = HoldoverPulses
  /\ holdover_timeout' = HoldoverTimeout
  /\ prev_pps_valid' = FALSE
  /\ nextHoldoverCorrection' = CorrectionInterval
  /\ UNCHANGED <<half, outage, faults, strays, aligned, captureVars, settled, holdover_timed_out, filled,
                 pps_timeout, historyVars, ghostVars>>

Idle ==
  /\ ~passed /\ passed' = TRUE
  /\ ~capture_flag /\ ~PpsLost
  /\ holdover_timed_out' = (holdover_timed_out \/ HoldoverOver)
  /\ IF HoldoverOver THEN Unlock ELSE UNCHANGED <<settled, inTolerance>>
  /\ Correct
  /\ UNCHANGED <<half, outage, faults, strays, aligned, captureVars, holdoverCount, prev_pps_valid, filled,
                 pps_timeout, holdover_timeout, freqHistoryTicker, sincePrev, sincePulse, run>>

-----------------------------------------------------------------------------
(* Step with a capture.                                                      *)

TakeCapture(timeout) ==
  /\ ~passed /\ passed' = TRUE
  /\ capture_flag /\ capture_flag' = FALSE /\ captured' = "none"
  /\ pps_timeout' = timeout
  /\ UNCHANGED <<half, outage, faults, strays, holdover_timeout, nextHoldoverCorrection, sincePulse, run>>

(* The ticks since the previous pulse make a second, within 1 ms. *)
SecondPassed == sincePrev = Second

MutantCountPulse ==   \* a pulse out of place does not start the count anew
  IF ~prev_pps_valid THEN prev_pps_valid' = TRUE /\ UNCHANGED holdoverCount
  ELSE holdoverCount' = (IF SecondPassed THEN holdoverCount - 1 ELSE holdoverCount) /\ UNCHANGED prev_pps_valid

CountPulse ==
  IF ~prev_pps_valid THEN prev_pps_valid' = TRUE /\ UNCHANGED holdoverCount
  ELSE IF SecondPassed THEN holdoverCount' = holdoverCount - 1 /\ UNCHANGED prev_pps_valid
  ELSE holdoverCount' = HoldoverPulses /\ prev_pps_valid' = FALSE

(* A pulse in holdover counts towards its end, after which the history begins anew. *)
PulseInHoldover ==
  /\ holdoverCount > 0
  /\ TakeCapture(PpsTimeout)
  /\ CountPulse
  /\ sincePrev' = 0
  /\ IF holdoverCount' = 0
       THEN holdover_timed_out' = FALSE /\ freqHistory' = <<>> /\ freqHistoryTicker' = -HistoryLag
       ELSE UNCHANGED <<holdover_timed_out, historyVars>>
  /\ UNCHANGED <<phase_initialized, aligned, settled, filled, inTolerance>>

Settle ==
  settled' = IF captured = "tolerance" THEN More(settled, SettledMax) ELSE Less(settled)

CountTolerance == inTolerance' = IF captured = "tolerance" THEN More(inTolerance, SettledMax) ELSE inTolerance

MutantForget == UNCHANGED prev_pps_valid   \* the count before the slew is taken for a second's

Forget == prev_pps_valid' = FALSE

MutantRealign == UNCHANGED phase_initialized   \* the timers stay where they are

Realign == phase_initialized' = FALSE

(* Out of range: the cycles are counted anew, and the next pulse presets the timers. *)
Slew ==
  /\ holdoverCount = 0 /\ captured = "out"
  /\ TakeCapture(SlewTimeout)
  /\ Settle /\ CountTolerance
  /\ Forget /\ filled' = FALSE
  /\ sincePrev' = Long
  /\ Realign
  /\ freqHistory' = <<>>
  /\ UNCHANGED <<aligned, holdoverCount, holdover_timed_out, freqHistoryTicker>>

(* Has this pulse a second to measure? *)
Measured == filled \/ prev_pps_valid

SaveHistory ==
  IF freqHistoryTicker >= HistoryInterval - 1
    THEN /\ freqHistory' = SubSeq(<<Measured>> \o freqHistory, 1,
                                  IF Len(freqHistory) < HistoryLength THEN Len(freqHistory) + 1 ELSE HistoryLength)
         /\ freqHistoryTicker' = 0
    ELSE freqHistoryTicker' = freqHistoryTicker + 1 /\ UNCHANGED freqHistory

Track ==
  /\ holdoverCount = 0 /\ captured \in {"tolerance", "range"}
  /\ TakeCapture(PpsTimeout)
  /\ Settle /\ CountTolerance
  /\ filled' = Measured
  /\ prev_pps_valid' = (prev_pps_valid \/ ~filled)
  /\ sincePrev' = 0
  /\ SaveHistory
  /\ UNCHANGED <<phase_initialized, aligned, holdoverCount, holdover_timed_out>>

Step == LosePps \/ Idle \/ PulseInHoldover \/ Slew \/ Track

Next == HalfSecond \/ OutageBegins \/ OutageEnds \/ Step

Spec == Init /\ [][Next]_vars /\ WF_vars(HalfSecond) /\ WF_vars(Step) /\ WF_vars(OutageEnds)

Locked == settled >= SettledMax
Holdover == holdover_timed_out \/ holdoverCount > 0

-----------------------------------------------------------------------------
TypeOK ==
  /\ half \in 0 .. 1 /\ aligned \in 0 .. 1 /\ outage \in BOOLEAN /\ passed \in BOOLEAN
  /\ faults \in 0 .. MaxFaults /\ strays \in 0 .. MaxStray
  /\ phase_initialized \in BOOLEAN /\ capture_flag \in BOOLEAN
  /\ captured \in {"none", "tolerance", "range", "out"} /\ (capture_flag => captured # "none")
  /\ settled \in 0 .. SettledMax /\ holdoverCount \in 0 .. HoldoverPulses
  /\ holdover_timed_out \in BOOLEAN /\ (holdover_timed_out => holdoverCount > 0)
  /\ prev_pps_valid \in BOOLEAN /\ filled \in BOOLEAN
  /\ pps_timeout \in 0 .. StartTimeout /\ holdover_timeout \in 0 .. HoldoverTimeout
  /\ nextHoldoverCorrection \in 0 .. CorrectionInterval
  /\ freqHistory \in UNION {[1 .. n -> BOOLEAN] : n \in 0 .. HistoryLength}
  /\ freqHistoryTicker \in -HistoryLag .. HistoryInterval - 1
  /\ sincePrev \in 0 .. Long /\ sincePulse \in 0 .. Long
  /\ run \in 0 .. HoldoverPulses + 1 /\ inTolerance \in 0 .. SettledMax

(* "See if there have been enough PPS captures to be able to exit holdover     *)
(* mode" (NtpPhaseLockedLoop.cpp:222): a holdover ends with so many intervals  *)
(* of a second in a row, whatever pulses go missing or come in between.        *)
LeavesHoldover == [][(holdoverCount > 0 /\ holdoverCount' = 0) => run > HoldoverPulses]_vars

(* The frequency is measured over a second: no missing or stray pulse, and no  *)
(* count that was preset or zeroed in between, gets into the filters.          *)
MeasuresSeconds == [][(Track /\ Measured) => SecondPassed]_vars

(* "A holdover timeout will force pllLock false" (StratumTen.ino:521): after it *)
(* the lock has to be earned anew.                                             *)
LockEarned == Locked => inTolerance >= SettledMax

(* Whatever the disturbances, once they end the loop locks for good.           *)
Relocks == <>[](Locked /\ ~Holdover)

(* "pllLock will go off when holdover time expires so we don't need to check    *)
(* that separately" (StratumTen.ino:679): the loop's condition for a reply.    *)
RepliesEnd == holdover_timed_out => ~(Locked \/ Holdover)

(* "Save current history once per minute for use in estimation of frequency     *)
(* ramp rate": a history that is complete was measured throughout.             *)
HistoryMeasured == Len(freqHistory) = HistoryLength => \A i \in DOMAIN freqHistory : freqHistory[i]
=============================================================================
