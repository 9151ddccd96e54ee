-------------------------- MODULE DisciplinedTimers --------------------------
(***************************************************************************)
(* The clock of the GPS-disciplined build: timers 4 and 5 of the processor *)
(* counting in lockstep, their compare-match and PPS-capture interrupt     *)
(* routines, and the fields those routines share with the main program.    *)
(*                                                                         *)
(* One unit of time is a tick: 1/T of a timer cycle, T = 2 * H standing    *)
(* for NOMINAL_INTEGER_DIVISOR.  A second is N cycles.  True time is the   *)
(* history <<trueSec, trueCyc, trueCnt>>, whose seconds begin at the PPS   *)
(* edges; the timers are half a cycle behind it, as in the code.  Seconds  *)
(* wrap modulo S, as the 32-bit NTP seconds do.                            *)
(***************************************************************************)
EXTENDS Integers

CONSTANTS
  N,              \* NOM_CYCLE_PER_SEC
  H,              \* half a timer cycle in ticks; the PPS falls there
  S,              \* modulus of the seconds count
  AcqTol,         \* tolerance of the first PPS after the preset (the +-200 counts)
  PpsTol,         \* tolerance of every later PPS (the +-1 count)
  CountMod,       \* modulus of interruptCount
  MaxFaults,      \* oscillator slips and missing PPS pulses the environment may cause
  LatencyOverlap, \* may an edge fall between a compare match and its interrupt routine?
  Datagram        \* identities of the datagrams the NIC receives

ASSUME TimersAssumption ==
  /\ N \in Nat /\ N >= 2
  /\ H \in Nat /\ H >= 2
  /\ S \in Nat /\ S >= 2
  /\ AcqTol \in Nat /\ 2 * AcqTol < H
  /\ PpsTol \in 0 .. H - 1
  /\ CountMod \in Nat \ {0}
  /\ MaxFaults \in Nat
  /\ LatencyOverlap \in BOOLEAN
  /\ Datagram \subseteq Nat \ {0}

VARIABLES
  trueSec, trueCyc, trueCnt,  \* history: the time, as the PPS defines it
  faults,                     \* faults the environment may still cause
  skew,                       \* history: ticks the timers lag (> 0) or lead since aligned
  tcnt,                       \* TCNT4 = TCNT5
  timsk4,                     \* are the timer 4 interrupts enabled?
  ocf4a,                      \* compare-match flag of timer 4
  icf4, icr4,                 \* PPS capture flag and register
  icf5, icr5,                 \* NIC capture flag and register (with a history field)
  timersInitialized, subCycleCount, ntpSeconds, ntpSecondsValid,
  timerPpsValue, ntpOffset,
  interruptCount, ppsCaptureFlag,
  udpCaptureFlag, udpCapture

trueVars   == <<trueSec, trueCyc, trueCnt, faults, skew>>
hwVars     == <<tcnt, timsk4, ocf4a, icf4, icr4>>
syncVars   == <<timersInitialized, timerPpsValue, ntpOffset>>
countVars  == <<subCycleCount, ntpSeconds>>
udpVars    == <<icf5, icr5, udpCaptureFlag, udpCapture>>
timersVars == <<trueVars, hwVars, syncVars, countVars, udpVars,
                ntpSecondsValid, interruptCount, ppsCaptureFlag>>

T == 2 * H

(* The skew is followed up to this much; from there the clock is lost until *)
(* the next preset.  Short of it, the offset and the skew together make less *)
(* than a cycle.                                                             *)
Drift == H - AcqTol

Sec   == 0 .. S - 1
Cycle == 0 .. N - 1
Count == 0 .. T - 1
Time  == [sec : Sec, cyc : Cycle, cnt : Count]

Nobody == 0

(* An edge on the NIC's interrupt line: the count it latched, and the history *)
(* of when it came and of which datagram raised it.  Only that it is there is *)
(* kept of an edge that no datagram raised or whose datagram is gone.         *)
Edge    == [cnt : Count, at : Time, of : Datagram \cup {Nobody}]
Capture == [sec : Sec, cyc : Cycle, cnt : Count, at : Time, of : Datagram \cup {Nobody}]

Midnight  == [sec |-> 0, cyc |-> 0, cnt |-> 0]
NoEdge    == [cnt |-> 0, at |-> Midnight, of |-> Nobody]
NoCapture == [sec |-> 0, cyc |-> 0, cnt |-> 0, at |-> Midnight, of |-> Nobody]

TrueTime == [sec |-> trueSec, cyc |-> trueCyc, cnt |-> trueCnt]

NextSec(s) == IF s = S - 1 THEN 0 ELSE s + 1

(* The time that follows a cycle of time t, carrying into the seconds. *)
NextCycle(sec, cyc, cnt) ==
  IF cyc = N - 1 THEN [sec |-> NextSec(sec), cyc |-> 0, cnt |-> cnt]
                 ELSE [sec |-> sec, cyc |-> cyc + 1, cnt |-> cnt]

(* NtpTime: a timer reading plus an offset of less than a cycle, a carry out *)
(* of the fraction going into the seconds.                                   *)
NtpTime(sec, cyc, cnt, offset) ==
  IF cnt + offset >= T THEN NextCycle(sec, cyc, cnt + offset - T)
                       ELSE [sec |-> sec, cyc |-> cyc, cnt |-> cnt + offset]

Abs(x) == IF x < 0 THEN -x ELSE x

Lost == Abs(skew) >= Drift

TimersInit ==
  /\ trueSec = 0 /\ trueCyc = 0 /\ trueCnt = 0
  /\ faults = MaxFaults
  /\ skew = 0
  /\ tcnt = 0
  /\ timsk4 = FALSE /\ ocf4a = FALSE
  /\ icf4 = FALSE /\ icr4 = 0
  /\ icf5 = FALSE /\ icr5 = NoEdge
  /\ timersInitialized = 0 /\ subCycleCount = 0
  /\ ntpSeconds = 0 /\ ntpSecondsValid = FALSE
  /\ timerPpsValue = 0 /\ ntpOffset = H
  /\ interruptCount = 0 /\ ppsCaptureFlag = FALSE
  /\ udpCaptureFlag = FALSE
  /\ udpCapture = NoCapture

-----------------------------------------------------------------------------
(* The hardware.                                                             *)

InterruptPending == timsk4 /\ (ocf4a \/ icf4)

(* A tick of true time and of the timers.  A fault makes one of the two stand *)
(* still, or drops the PPS pulse.  The timers count in CTC mode: a match at   *)
(* the top restarts the count and raises OCF4A.  An interrupt routine starts  *)
(* within a tick of its event, so time waits for a pending one.               *)
Tick ==
  /\ ~InterruptPending
  /\ \E time, count, pulse \in BOOLEAN :
       LET end  == trueCnt = T - 1
           next == NextCycle(trueSec, trueCyc, 0)
           pps  == time /\ end /\ trueCyc = N - 1
           cost == IF time /\ count /\ (pps => pulse) THEN 0 ELSE 1
       IN  /\ time \/ count
           /\ pulse => pps
           /\ cost <= faults
           /\ faults' = faults - cost
           /\ trueSec' = IF time /\ end THEN next.sec ELSE trueSec
           /\ trueCyc' = IF time /\ end THEN next.cyc ELSE trueCyc
           /\ trueCnt' = IF ~time THEN trueCnt ELSE IF end THEN 0 ELSE trueCnt + 1
           /\ skew' = IF Lost \/ (time /\ count) THEN skew
                      ELSE IF time THEN skew + 1 ELSE skew - 1
           /\ tcnt' = IF ~count THEN tcnt ELSE IF tcnt = T - 1 THEN 0 ELSE tcnt + 1
           /\ ocf4a' = (ocf4a \/ (count /\ tcnt = T - 1))
           /\ icf4' = (icf4 \/ pulse)
           /\ icr4' = IF pulse THEN tcnt' ELSE icr4
  /\ UNCHANGED <<timsk4, syncVars, countVars, udpVars, ntpSecondsValid,
                 interruptCount, ppsCaptureFlag>>

(* StartTimers(0): both counts are set, flags of timer 4 are cleared (that of *)
(* the NIC capture is not) and its two interrupts are enabled.                *)
StartTimers ==
  /\ tcnt' = 0
  /\ ocf4a' = FALSE
  /\ icf4' = FALSE
  /\ timsk4' = TRUE
  /\ UNCHANGED <<trueVars, icr4, syncVars, countVars, udpVars, ntpSecondsValid,
                 interruptCount, ppsCaptureFlag>>

(* A falling edge of the NIC's interrupt line: ICR5 takes the count whether or *)
(* not an earlier capture is still flagged.                                    *)
NicEdge(datagram) ==
  /\ icf5' = TRUE
  /\ icr5' = IF datagram = Nobody THEN NoEdge
             ELSE [cnt |-> tcnt, at |-> TrueTime, of |-> datagram]

-----------------------------------------------------------------------------
(* The interrupt routines.  The definitions named Mutant... are plausible     *)
(* slips of the one that follows them; no action uses them.                   *)

MutantLastCycle == subCycleCount >= N

LastCycle == subCycleCount >= N - 1

MutantSavedCapture ==   \* saved after the cycle was counted up
  LET next == NextCycle(ntpSeconds, subCycleCount, icr5.cnt)
  IN  [sec |-> next.sec, cyc |-> next.cyc, cnt |-> icr5.cnt, at |-> icr5.at, of |-> icr5.of]

(* The capture of the NIC, with the cycle and second it was made in. *)
SavedCapture ==
  [sec |-> ntpSeconds, cyc |-> subCycleCount,
   cnt |-> icr5.cnt, at |-> icr5.at, of |-> icr5.of]

TimerMatchIsr ==
  /\ timsk4 /\ ocf4a
  /\ icf4 => ~LatencyOverlap       \* with both pending the capture vector goes first
  /\ ocf4a' = FALSE
  /\ IF timersInitialized = 0
       THEN UNCHANGED <<countVars, udpVars, interruptCount>>
       ELSE /\ IF icf5
                 THEN /\ udpCapture' = SavedCapture
                      /\ udpCaptureFlag' = TRUE
                      /\ icf5' = FALSE /\ icr5' = NoEdge
                 ELSE UNCHANGED udpVars
            /\ IF LastCycle
                 THEN /\ subCycleCount' = 0
                      /\ ntpSeconds' = NextSec(ntpSeconds)
                 ELSE /\ subCycleCount' = subCycleCount + 1
                      /\ UNCHANGED ntpSeconds
            /\ interruptCount' = (interruptCount + 1) % CountMod
  /\ UNCHANGED <<trueVars, tcnt, timsk4, icf4, icr4, syncVars,
                 ntpSecondsValid, ppsCaptureFlag>>

MutantSpurious == FALSE

Spurious == Abs(icr4 - timerPpsValue) > PpsTol

(* A PPS in the tracking state: out of tolerance, everything starts over. *)
PpsTracked ==
  /\ timersInitialized = 2
  /\ IF Spurious
       THEN /\ timersInitialized' = 0
            /\ UNCHANGED ppsCaptureFlag
       ELSE /\ ppsCaptureFlag' = TRUE
            /\ UNCHANGED timersInitialized
  /\ UNCHANGED <<tcnt, subCycleCount, timerPpsValue, ntpOffset, skew>>

MutantPresetCycle == 0

PresetCycle == N - 1

(* The first PPS: the timers are preset to half a cycle in the last cycle. *)
PpsPreset ==
  /\ timersInitialized = 0
  /\ tcnt' = H
  /\ subCycleCount' = PresetCycle
  /\ timersInitialized' = 1
  /\ skew' = 0
  /\ UNCHANGED <<timerPpsValue, ntpOffset, ppsCaptureFlag>>

MutantAcquiredOffset == H

AcquiredOffset == T - icr4

(* The second: where in the cycle it fell becomes the reference and the offset. *)
PpsAcquired ==
  /\ timersInitialized = 1
  /\ timerPpsValue' = icr4
  /\ IF Abs(icr4 - H) > AcqTol
       THEN /\ timersInitialized' = 0
            /\ UNCHANGED <<ntpOffset, skew>>
       ELSE /\ ntpOffset' = AcquiredOffset
            /\ timersInitialized' = 2
            /\ skew' = IF Lost THEN skew ELSE skew + (icr4 - H)
  /\ UNCHANGED <<tcnt, subCycleCount, ppsCaptureFlag>>

PpsCaptureIsr ==
  /\ timsk4 /\ icf4
  /\ ocf4a => LatencyOverlap
  /\ icf4' = FALSE
  /\ PpsTracked \/ PpsPreset \/ PpsAcquired
  /\ UNCHANGED <<trueSec, trueCyc, trueCnt, faults, timsk4, ocf4a, icr4, ntpSeconds,
                 udpVars, ntpSecondsValid, interruptCount>>

Hardware == Tick \/ TimerMatchIsr \/ PpsCaptureIsr

-----------------------------------------------------------------------------
TrueTypeOK ==
  /\ trueSec \in Sec /\ trueCyc \in Cycle /\ trueCnt \in Count
  /\ faults \in 0 .. MaxFaults
  /\ skew \in -H .. H

HwTypeOK ==
  /\ tcnt \in Count
  /\ timsk4 \in BOOLEAN /\ ocf4a \in BOOLEAN
  /\ icf4 \in BOOLEAN /\ icr4 \in Count

SyncTypeOK ==
  /\ timersInitialized \in 0 .. 2
  /\ timerPpsValue \in Count
  /\ ntpOffset \in 0 .. T

CountTypeOK == subCycleCount \in Cycle /\ ntpSeconds \in Sec

UdpTypeOK ==
  /\ icf5 \in BOOLEAN /\ icr5 \in Edge
  /\ udpCaptureFlag \in BOOLEAN /\ udpCapture \in Capture

FlagsTypeOK ==
  /\ ntpSecondsValid \in BOOLEAN
  /\ interruptCount \in 0 .. CountMod - 1
  /\ ppsCaptureFlag \in BOOLEAN

TimersTypeOK ==
  TrueTypeOK /\ HwTypeOK /\ SyncTypeOK /\ CountTypeOK /\ UdpTypeOK /\ FlagsTypeOK

(* The count of cycles and seconds that the compare match has reached: while *)
(* the match is pending its routine has still to advance them.               *)
Reached ==
  IF ocf4a THEN NextCycle(ntpSeconds, subCycleCount, tcnt)
           ELSE [sec |-> ntpSeconds, cyc |-> subCycleCount, cnt |-> tcnt]

(* The offset that takes the timers to true time in the present state. *)
Offset == IF timersInitialized = 1 THEN H ELSE ntpOffset

(* The time the clock shows, with the history of its skew taken out. *)
ClockTime(lag) == NtpTime(Reached.sec, Reached.cyc, Reached.cnt, Offset + lag)

(* From the preset on, and whatever the oscillator does as long as it stays   *)
(* well within half a cycle, the cycle and the count with the offset added    *)
(* show true time within the second, off by exactly the skew: the two         *)
(* interrupt routines of DisciplinedTimers.cpp never lose or double a cycle.  *)
PhaseExact ==
  (timersInitialized # 0 /\ ~Lost) =>
    /\ ClockTime(skew).cyc = trueCyc
    /\ ClockTime(skew).cnt = trueCnt
=============================================================================
