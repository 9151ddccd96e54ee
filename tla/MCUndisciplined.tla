---------------------------- MODULE MCUndisciplined ----------------------------
(***************************************************************************)
(* The build without a disciplined clock: in each behaviour either the     *)
(* divider and the NTP time it makes, tick by tick, or the loop that        *)
(* steers it, pulse by pulse, or the arithmetic of its corrections.         *)
(***************************************************************************)
EXTENDS NtpFractionalN

CONSTANTS
  Parts,
  SettledMax, HoldoverPulses, PpsTimeout, SlewTimeout, StartTimeout, HoldoverTimeout,
  CorrectionInterval, HistoryLength, HistoryInterval, HistoryLag, MaxFaults, MaxStray,
  Word, ProportionalDiv, IntegralDiv, IntegratorLimit, MaxEffort, FilterRange, ValidRange,
  FirstError, ImpulseResponse, OutputShift

VARIABLES
  part,
  half, outage, faults, strays, passed, aligned, phase_initialized, capture_flag, captured,
  settled, holdoverCount, holdover_timed_out, prev_pps_valid, filled,
  pps_timeout, holdover_timeout, nextHoldoverCorrection, freqHistory, freqHistoryTicker,
  sincePrev, sincePulse, run, inTolerance,
  error, integrator, x, fill

Pll == INSTANCE NtpPhaseLockedLoop
Control == INSTANCE PhaseControl

ASSUME UndisciplinedAssumption == Pll!LoopConstants

(* A whole tick less and a fraction, a fraction, and more than a tick more. *)
SomeDivisors == {-3, 1, 6}

(* Four taps; errors whose correction fits the word, and all that are corrected. *)
Response == <<1, 1>>
Small == -27 .. 27
Every == -ValidRange .. ValidRange

pllVars ==
  <<half, outage, faults, strays, passed, aligned, phase_initialized, capture_flag, captured,
    settled, holdoverCount, holdover_timed_out, prev_pps_valid, filled,
    pps_timeout, holdover_timeout, nextHoldoverCorrection, freqHistory, freqHistoryTicker,
    sincePrev, sincePulse, run, inTolerance>>
controlVars == <<error, integrator, x, fill>>
bothVars == <<part, vars, pllVars, controlVars>>

(* The parts that a behaviour does not run have one initial state. *)
BothInit ==
  /\ Init /\ Pll!Init /\ Control!Init /\ part \in Parts
  /\ part # "control" => error = 0

DividerStep == part = "divider" /\ Next /\ UNCHANGED <<part, pllVars, controlVars>>
InLoop(A)   == part = "loop" /\ A /\ UNCHANGED <<part, vars, controlVars>>
ControlStep == part = "control" /\ Control!Next /\ UNCHANGED <<part, vars, pllVars>>

BothNext == DividerStep \/ InLoop(Pll!Next) \/ ControlStep

Fairness ==
  /\ WF_bothVars(InLoop(Pll!HalfSecond))
  /\ WF_bothVars(InLoop(Pll!Step))
  /\ WF_bothVars(InLoop(Pll!OutageEnds))
  /\ WF_bothVars(ControlStep)

BothSpec == BothInit /\ [][BothNext]_bothVars /\ Fairness

-----------------------------------------------------------------------------
BothTypeOK == TypeOK /\ Pll!TypeOK /\ Control!TypeOK

(* See NtpPhaseLockedLoop: the lock is earned anew after a holdover too long.  *)
LockEarned == Pll!LockEarned

(* See NtpPhaseLockedLoop: so many seconds in a row end a holdover. *)
LeavesHoldover == Pll!LeavesHoldover

(* See NtpPhaseLockedLoop: the filters see what was counted in a second. *)
MeasuresSeconds == Pll!MeasuresSeconds

(* See NtpPhaseLockedLoop: after the last disturbance the loop locks for good. *)
Relocks == part = "loop" => Pll!Relocks

(* See PhaseControl: any error of the first pulse is corrected. *)
Converges == part = "control" => Control!Converges

(* See NtpPhaseLockedLoop: no reply after a holdover too long. *)
RepliesEnd == Pll!RepliesEnd
=============================================================================
