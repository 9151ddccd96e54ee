----------------------- MODULE DisciplinedTimersProofs -----------------------
(***************************************************************************)
(* What the hardware and the interrupt routines of DisciplinedTimers do to *)
(* the clock, whichever main program runs on them.  The argument: a tick   *)
(* takes a reading and the true time it stands for to the times that       *)
(* follow them, a tick that only one of the two sees goes into the skew,   *)
(* the match routine makes up what the pending match has already reached,  *)
(* and a PPS finds the middle of the last cycle.                           *)
(***************************************************************************)
EXTENDS DisciplinedTimers, TLAPS

-----------------------------------------------------------------------------
(* The operators of the clock stay in their ranges.                          *)

LEMMA NextSecType ==
  ASSUME NEW s \in Sec
  PROVE  NextSec(s) \in Sec
BY TimersAssumption DEF NextSec, Sec

LEMMA NextCycleType ==
  ASSUME NEW sec \in Sec, NEW cyc \in Cycle, NEW cnt \in Count
  PROVE  /\ NextCycle(sec, cyc, cnt) \in Time
         /\ NextCycle(sec, cyc, cnt).cnt = cnt
         /\ NextCycle(sec, cyc, cnt).cyc = IF cyc = N - 1 THEN 0 ELSE cyc + 1
         /\ NextCycle(sec, cyc, cnt).sec = IF cyc = N - 1 THEN NextSec(sec) ELSE sec
BY NextSecType, TimersAssumption DEF NextCycle, Time, Cycle, Count

LEMMA ReachedType ==
  ASSUME TimersTypeOK
  PROVE  Reached \in Time
<1> ntpSeconds \in Sec /\ subCycleCount \in Cycle /\ tcnt \in Count
  BY DEF TimersTypeOK, CountTypeOK, HwTypeOK
<1>1. CASE ocf4a
  BY <1>1, NextCycleType DEF Reached
<1>2. CASE ~ocf4a
  BY <1>2 DEF Reached, Time
<1> QED
  BY <1>1, <1>2

-----------------------------------------------------------------------------
(* Type correctness.                                                         *)

LEMMA ZeroType ==
  /\ 0 \in Sec /\ 0 \in Cycle /\ 0 \in Count /\ Midnight \in Time
  /\ NoEdge \in Edge /\ NoCapture \in Capture
<1>1. 0 \in Sec /\ 0 \in Cycle /\ 0 \in Count
  BY TimersAssumption DEF Sec, Cycle, Count, T
<1>2. Midnight \in Time
  BY <1>1 DEF Midnight, Time
<1>3. NoEdge \in Edge /\ NoCapture \in Capture
  BY <1>1, <1>2 DEF NoEdge, Edge, NoCapture, Capture
<1> QED
  BY <1>1, <1>2, <1>3

LEMMA TimersInitType ==
  ASSUME TimersInit
  PROVE  TimersTypeOK
<1> USE DEF TimersInit
<1>1. 0 \in 0 .. CountMod - 1 /\ MaxFaults \in Nat /\ H \in Nat /\ T \in Nat /\ H <= T
  BY TimersAssumption DEF T
<1>2. TrueTypeOK
  BY <1>1, ZeroType DEF TrueTypeOK
<1>3. HwTypeOK
  BY ZeroType DEF HwTypeOK
<1>4. SyncTypeOK
  BY <1>1, ZeroType DEF SyncTypeOK
<1>5. CountTypeOK /\ UdpTypeOK
  BY ZeroType DEF CountTypeOK, UdpTypeOK
<1>6. FlagsTypeOK
  BY <1>1 DEF FlagsTypeOK
<1> QED
  BY <1>2, <1>3, <1>4, <1>5, <1>6 DEF TimersTypeOK

(* A group of variables that a step leaves alone stays in its range. *)
LEMMA UnchangedType ==
  /\ TrueTypeOK /\ UNCHANGED trueVars => TrueTypeOK'
  /\ HwTypeOK /\ UNCHANGED hwVars => HwTypeOK'
  /\ SyncTypeOK /\ UNCHANGED syncVars => SyncTypeOK'
  /\ CountTypeOK /\ UNCHANGED countVars => CountTypeOK'
  /\ UdpTypeOK /\ UNCHANGED udpVars => UdpTypeOK'
  /\ FlagsTypeOK /\ UNCHANGED <<ntpSecondsValid, interruptCount, ppsCaptureFlag>> => FlagsTypeOK'
BY DEF TrueTypeOK, trueVars, HwTypeOK, hwVars, SyncTypeOK, syncVars, CountTypeOK, countVars,
       UdpTypeOK, udpVars, FlagsTypeOK

LEMMA TickType ==
  ASSUME TimersTypeOK, Tick
  PROVE  TimersTypeOK'
<1> USE TimersAssumption
<1>1. PICK time, count, pulse \in BOOLEAN :
        LET end  == trueCnt = T - 1
            next == NextCycle(trueSec, trueCyc, 0)
            pps  == time /\ end /\ trueCyc = N - 1
            cost == IF time /\ count /\ (pps => pulse) THEN 0 ELSE 1
        IN  /\ cost <= faults
            /\ faults' = faults - cost
            /\ trueSec' = IF time /\ end THEN next.sec ELSE trueSec
            /\ trueCyc' = IF time /\ end THEN next.cyc ELSE trueCyc
            /\ trueCnt' = IF ~time THEN trueCnt ELSE IF end THEN 0 ELSE trueCnt + 1
            /\ skew' = IF Lost \/ (time /\ count) THEN skew
                       ELSE IF time THEN skew + 1 ELSE skew - 1
            /\ tcnt' = IF ~count THEN tcnt ELSE IF tcnt = T - 1 THEN 0 ELSE tcnt + 1
            /\ ocf4a' = (ocf4a \/ (count /\ tcnt = T - 1))
            /\ icf4' = (icf4 \/ pulse)
            /\ icr4' = IF pulse THEN tcnt' ELSE icr4
  BY DEF Tick
<1>2. TrueTypeOK /\ HwTypeOK
  BY DEF TimersTypeOK
<1>3. TrueTypeOK'
  <2>1. trueSec' \in Sec /\ trueCyc' \in Cycle
    BY <1>1, <1>2, ZeroType, NextCycleType DEF TrueTypeOK, Time
  <2>2. trueCnt' \in Count
    BY <1>1, <1>2 DEF TrueTypeOK, Count, T
  <2>3. faults' \in 0 .. MaxFaults
    BY <1>1, <1>2 DEF TrueTypeOK
  <2>4. skew' \in -H .. H
    BY <1>1, <1>2 DEF TrueTypeOK, Lost, Abs, Drift
  <2> QED
    BY <2>1, <2>2, <2>3, <2>4 DEF TrueTypeOK
<1>4. HwTypeOK'
  <2>1. tcnt' \in Count
    BY <1>1, <1>2 DEF HwTypeOK, Count, T
  <2>2. ocf4a' \in BOOLEAN /\ icf4' \in BOOLEAN
    BY <1>1
  <2>3. icr4' \in Count
    BY <1>1, <1>2, <2>1 DEF HwTypeOK
  <2>4. timsk4' \in BOOLEAN
    BY <1>2 DEF Tick, HwTypeOK
  <2> QED
    BY <2>1, <2>2, <2>3, <2>4 DEF HwTypeOK
<1>5. SyncTypeOK' /\ CountTypeOK' /\ UdpTypeOK' /\ FlagsTypeOK'
  BY UnchangedType DEF Tick, TimersTypeOK
<1> QED
  BY <1>3, <1>4, <1>5 DEF TimersTypeOK

LEMMA MatchType ==
  ASSUME TimersTypeOK, TimerMatchIsr
  PROVE  TimersTypeOK'
<1>1. HwTypeOK /\ CountTypeOK /\ UdpTypeOK /\ FlagsTypeOK
  BY DEF TimersTypeOK
<1>2. UdpTypeOK'
  <2>1. SavedCapture \in Capture
    BY <1>1 DEF CountTypeOK, UdpTypeOK, SavedCapture, Capture, Edge
  <2> QED
    BY <1>1, <2>1, ZeroType, UnchangedType DEF UdpTypeOK, TimerMatchIsr, udpVars
<1>3. CountTypeOK'
  <2>1. CASE UNCHANGED countVars
    BY <1>1, <2>1, UnchangedType
  <2>2. CASE LastCycle /\ subCycleCount' = 0 /\ ntpSeconds' = NextSec(ntpSeconds)
    BY <1>1, <2>2, NextSecType, ZeroType DEF CountTypeOK
  <2>3. CASE ~LastCycle /\ subCycleCount' = subCycleCount + 1 /\ UNCHANGED ntpSeconds
    BY <1>1, <2>3, TimersAssumption DEF LastCycle, Cycle, CountTypeOK
  <2> QED
    BY <2>1, <2>2, <2>3 DEF TimerMatchIsr
<1>4. FlagsTypeOK'
  <2>1. CountMod \in Nat /\ CountMod > 0
    BY TimersAssumption
  <2>2. (interruptCount + 1) % CountMod \in 0 .. CountMod - 1
    BY <1>1, <2>1 DEF FlagsTypeOK
  <2> QED
    BY <1>1, <2>2 DEF TimerMatchIsr, FlagsTypeOK
<1>5. HwTypeOK'
  BY <1>1 DEF TimerMatchIsr, HwTypeOK
<1>6. TrueTypeOK' /\ SyncTypeOK'
  BY UnchangedType DEF TimerMatchIsr, TimersTypeOK
<1> QED
  BY <1>2, <1>3, <1>4, <1>5, <1>6 DEF TimersTypeOK

LEMMA PpsType ==
  ASSUME TimersTypeOK, PpsCaptureIsr
  PROVE  TimersTypeOK'
<1>1. TrueTypeOK /\ HwTypeOK /\ SyncTypeOK /\ CountTypeOK /\ FlagsTypeOK
  BY DEF TimersTypeOK
<1>2. icr4 \in Count /\ H \in Count /\ N - 1 \in Cycle
  BY <1>1, TimersAssumption DEF HwTypeOK, Count, Cycle, T
<1>3. TrueTypeOK'
  <2>1. skew' \in -H .. H
    <3>1. CASE skew' = skew
      BY <1>1, <3>1 DEF TrueTypeOK
    <3>2. CASE skew' = 0
      BY <3>2, TimersAssumption
    <3>3. CASE ~Lost /\ Abs(icr4 - H) <= AcqTol /\ skew' = skew + (icr4 - H)
      BY <1>1, <1>2, <3>3, TimersAssumption DEF TrueTypeOK, Lost, Abs, Drift, Count, T
    <3>4. Abs(icr4 - H) \in Int /\ AcqTol \in Int
      BY <1>2, TimersAssumption DEF Count, T, Abs
    <3> QED
      BY <3>1, <3>2, <3>3, <3>4 DEF PpsCaptureIsr, PpsTracked, PpsPreset, PpsAcquired
  <2> QED
    BY <1>1, <2>1 DEF PpsCaptureIsr, TrueTypeOK
<1>4. HwTypeOK'
  BY <1>1, <1>2 DEF PpsCaptureIsr, PpsTracked, PpsPreset, PpsAcquired, HwTypeOK
<1>5. SyncTypeOK'
  <2>1. AcquiredOffset \in 0 .. T
    BY <1>2, TimersAssumption DEF AcquiredOffset, Count, T
  <2> QED
    BY <1>1, <1>2, <2>1 DEF PpsCaptureIsr, PpsTracked, PpsPreset, PpsAcquired, SyncTypeOK
<1>6. CountTypeOK'
  BY <1>1, <1>2
     DEF PpsCaptureIsr, PpsTracked, PpsPreset, PpsAcquired, PresetCycle, CountTypeOK
<1>7. FlagsTypeOK'
  BY <1>1 DEF PpsCaptureIsr, PpsTracked, PpsPreset, PpsAcquired, FlagsTypeOK
<1>8. UdpTypeOK'
  BY UnchangedType DEF PpsCaptureIsr, TimersTypeOK
<1> QED
  BY <1>3, <1>4, <1>5, <1>6, <1>7, <1>8 DEF TimersTypeOK

LEMMA UnchangedTimersType ==
  ASSUME TimersTypeOK, UNCHANGED timersVars
  PROVE  TimersTypeOK'
BY UnchangedType DEF timersVars, TimersTypeOK

LEMMA StartType ==
  ASSUME TimersTypeOK, StartTimers
  PROVE  TimersTypeOK'
<1>1. HwTypeOK'
  BY ZeroType DEF StartTimers, TimersTypeOK, HwTypeOK
<1> QED
  BY <1>1, UnchangedType DEF StartTimers, TimersTypeOK

LEMMA ClockTimeType ==
  ASSUME TimersTypeOK
  PROVE  ClockTime(0) \in Time
<1> DEFINE r == Reached
<1>1. r \in Time
  BY ReachedType DEF TimersTypeOK
<1>2. r.sec \in Sec /\ r.cyc \in Cycle /\ r.cnt \in Count
  BY <1>1 DEF Time
<1>3. Offset \in 0 .. T
  BY TimersAssumption DEF TimersTypeOK, SyncTypeOK, Offset, T
<1>4. CASE r.cnt + (Offset + 0) >= T
  <2>1. r.cnt + (Offset + 0) - T \in Count
    BY <1>2, <1>3, <1>4, TimersAssumption DEF Count, T
  <2> QED
    BY <1>2, <1>4, <2>1, NextCycleType DEF ClockTime, NtpTime
<1>5. CASE ~(r.cnt + (Offset + 0) >= T)
  <2>1. r.cnt + (Offset + 0) \in Count
    BY <1>2, <1>3, <1>5, TimersAssumption DEF Count, T
  <2> QED
    BY <1>2, <1>5, <2>1 DEF ClockTime, NtpTime, Time
<1> QED
  BY <1>4, <1>5

-----------------------------------------------------------------------------
(* Arithmetic of readings, true of all of them.                              *)

(* The time one tick later. *)
Advance(t) ==
  IF t.cnt = T - 1 THEN NextCycle(t.sec, t.cyc, 0)
                   ELSE [sec |-> t.sec, cyc |-> t.cyc, cnt |-> t.cnt + 1]

(* The time a reading stands for with an offset of less than a cycle. *)
TimeOf(r, offset) == NtpTime(r.sec, r.cyc, r.cnt, offset)

Within == 1 .. T - 1

LEMMA AdvanceParts ==
  ASSUME NEW t \in Time
  PROVE  /\ Advance(t) \in Time
         /\ Advance(t).cnt = IF t.cnt = T - 1 THEN 0 ELSE t.cnt + 1
         /\ Advance(t).cyc = IF t.cnt # T - 1 THEN t.cyc
                             ELSE IF t.cyc = N - 1 THEN 0 ELSE t.cyc + 1
<1>1. t.sec \in Sec /\ t.cyc \in Cycle /\ t.cnt \in Count
  BY DEF Time
<1>2. CASE t.cnt = T - 1
  BY <1>1, <1>2, NextCycleType, ZeroType DEF Advance
<1>3. CASE t.cnt # T - 1
  <2>1. t.cnt + 1 \in Count
    BY <1>1, <1>3, TimersAssumption DEF Count, T
  <2> QED
    BY <1>1, <1>3, <2>1 DEF Advance, Time
<1> QED
  BY <1>2, <1>3

LEMMA TimeOfParts ==
  ASSUME NEW r \in Time, NEW e \in Within
  PROVE  /\ TimeOf(r, e) \in Time
         /\ r.cnt + e >= T => TimeOf(r, e) = NextCycle(r.sec, r.cyc, r.cnt + e - T)
         /\ r.cnt + e < T => TimeOf(r, e) = [sec |-> r.sec, cyc |-> r.cyc, cnt |-> r.cnt + e]
<1>1. /\ r.sec \in Sec /\ r.cyc \in Cycle /\ r.cnt \in Count
      /\ T \in Nat /\ e \in Int /\ r.cnt \in Int
  BY TimersAssumption DEF Time, Within, Count, T
<1>2. CASE r.cnt + e >= T
  <2>1. r.cnt + e - T \in Count
    BY <1>1, <1>2 DEF Within, Count
  <2> QED
    BY <1>1, <1>2, <2>1, NextCycleType DEF TimeOf, NtpTime
<1>3. CASE r.cnt + e < T
  <2>1. r.cnt + e \in Count
    BY <1>1, <1>3 DEF Within, Count
  <2> QED
    BY <1>1, <1>3, <2>1 DEF TimeOf, NtpTime, Time
<1> QED
  BY <1>1, <1>2, <1>3

(* A tick of the timers and of true time: the offset stays what it was. *)
LEMMA AdvanceBoth ==
  ASSUME NEW r \in Time, NEW e \in Within
  PROVE  TimeOf(Advance(r), e) = Advance(TimeOf(r, e))
<1>1. /\ r.sec \in Sec /\ r.cyc \in Cycle /\ r.cnt \in Count
      /\ T \in Nat /\ e \in Int /\ r.cnt \in Int
  BY TimersAssumption DEF Time, Within, Count, T
<1>2. CASE r.cnt = T - 1
  <2>1. Advance(r) = NextCycle(r.sec, r.cyc, 0) /\ 0 + e < T /\ r.cnt + e - T = e - 1
    BY <1>1, <1>2 DEF Advance, Within
  <2>2. TimeOf(Advance(r), e) = NextCycle(r.sec, r.cyc, e)
    BY <1>1, <2>1 DEF TimeOf, NtpTime, NextCycle
  <2>3. TimeOf(r, e) = NextCycle(r.sec, r.cyc, e - 1)
    BY <1>1, <1>2, <2>1, TimeOfParts DEF Within
  <2> QED
    BY <1>1, <2>2, <2>3 DEF Advance, NextCycle, Within
<1>3. CASE r.cnt # T - 1
  <2>1. Advance(r) = [sec |-> r.sec, cyc |-> r.cyc, cnt |-> r.cnt + 1]
    BY <1>3 DEF Advance
  <2>2. CASE r.cnt + e >= T
    <3>1. TimeOf(r, e) = NextCycle(r.sec, r.cyc, r.cnt + e - T)
      BY <1>1, <2>2, TimeOfParts
    <3>2. TimeOf(Advance(r), e) = NextCycle(r.sec, r.cyc, r.cnt + 1 + e - T)
      BY <1>1, <2>1, <2>2 DEF TimeOf, NtpTime
    <3>3. r.cnt + e - T # T - 1 /\ r.cnt + e - T + 1 = r.cnt + 1 + e - T
      BY <1>1 DEF Within, Count
    <3> QED
      BY <1>1, <3>1, <3>2, <3>3 DEF Advance, NextCycle
  <2>3. CASE r.cnt + e = T - 1
    <3>1. TimeOf(r, e) = [sec |-> r.sec, cyc |-> r.cyc, cnt |-> T - 1]
      BY <1>1, <2>3, TimeOfParts
    <3>2. r.cnt + 1 + e = T
      BY <1>1, <2>3
    <3>3. TimeOf(Advance(r), e) = NextCycle(r.sec, r.cyc, 0)
      BY <1>1, <2>1, <3>2 DEF TimeOf, NtpTime
    <3> QED
      BY <3>1, <3>3 DEF Advance
  <2>4. CASE r.cnt + e < T - 1
    <3>1. TimeOf(r, e) = [sec |-> r.sec, cyc |-> r.cyc, cnt |-> r.cnt + e]
      BY <1>1, <2>4, TimeOfParts
    <3>2. /\ ~(r.cnt + 1 + e >= T) /\ r.cnt + e # T - 1
          /\ r.cnt + e + 1 = r.cnt + 1 + e
      BY <1>1, <2>4
    <3>3. TimeOf(Advance(r), e) = [sec |-> r.sec, cyc |-> r.cyc, cnt |-> r.cnt + 1 + e]
      BY <2>1, <3>2 DEF TimeOf, NtpTime
    <3> QED
      BY <3>1, <3>2, <3>3 DEF Advance
  <2> QED
    BY <1>1, <2>2, <2>3, <2>4
<1> QED
  BY <1>2, <1>3

(* A tick of true time that the timers miss. *)
LEMMA AdvanceOffset ==
  ASSUME NEW r \in Time, NEW e \in Within, e + 1 \in Within
  PROVE  TimeOf(r, e + 1) = Advance(TimeOf(r, e))
<1>1. /\ r.sec \in Sec /\ r.cyc \in Cycle /\ r.cnt \in Count
      /\ T \in Nat /\ e \in Int /\ r.cnt \in Int
  BY TimersAssumption DEF Time, Within, Count, T
<1>2. CASE r.cnt + e >= T
  <2>1. TimeOf(r, e) = NextCycle(r.sec, r.cyc, r.cnt + e - T)
    BY <1>1, <1>2, TimeOfParts
  <2>2. TimeOf(r, e + 1) = NextCycle(r.sec, r.cyc, r.cnt + (e + 1) - T)
    BY <1>1, <1>2, TimeOfParts
  <2>3. r.cnt + e - T # T - 1 /\ r.cnt + e - T + 1 = r.cnt + (e + 1) - T
    BY <1>1 DEF Within, Count
  <2> QED
    BY <1>1, <2>1, <2>2, <2>3 DEF Advance, NextCycle
<1>3. CASE r.cnt + e = T - 1
  <2>1. TimeOf(r, e) = [sec |-> r.sec, cyc |-> r.cyc, cnt |-> T - 1]
    BY <1>1, <1>3, TimeOfParts
  <2>2. r.cnt + (e + 1) = T
    BY <1>1, <1>3
  <2>3. TimeOf(r, e + 1) = NextCycle(r.sec, r.cyc, 0)
    BY <1>1, <2>2 DEF TimeOf, NtpTime
  <2> QED
    BY <2>1, <2>3 DEF Advance
<1>4. CASE r.cnt + e < T - 1
  <2>1. TimeOf(r, e) = [sec |-> r.sec, cyc |-> r.cyc, cnt |-> r.cnt + e]
    BY <1>1, <1>4, TimeOfParts
  <2>2. /\ r.cnt + (e + 1) < T /\ r.cnt + e # T - 1
        /\ r.cnt + e + 1 = r.cnt + (e + 1)
    BY <1>1, <1>4
  <2>3. TimeOf(r, e + 1) = [sec |-> r.sec, cyc |-> r.cyc, cnt |-> r.cnt + (e + 1)]
    BY <2>2, TimeOfParts
  <2> QED
    BY <2>1, <2>2, <2>3 DEF Advance
<1> QED
  BY <1>1, <1>2, <1>3, <1>4

(* A tick of the timers that true time does not see. *)
LEMMA AdvanceReading ==
  ASSUME NEW r \in Time, NEW e \in Within, e - 1 \in Within
  PROVE  TimeOf(Advance(r), e - 1) = TimeOf(r, e)
<1>1. Advance(r) \in Time
  BY AdvanceParts
<1>2. e - 1 + 1 = e /\ e - 1 \in Within
  BY TimersAssumption DEF Within, T
<1>3. TimeOf(Advance(r), e - 1) = Advance(TimeOf(r, e - 1))
  BY AdvanceBoth
<1>4. TimeOf(r, (e - 1) + 1) = Advance(TimeOf(r, e - 1))
  BY <1>2, AdvanceOffset
<1> QED
  BY <1>2, <1>3, <1>4

-----------------------------------------------------------------------------
(* The invariant of the clock.                                               *)

(* A PPS that waits for its routine was captured at the present count. *)
PulsePending == (timsk4 /\ icf4) => icr4 = tcnt /\ trueCyc = 0 /\ trueCnt = 0

(* Only a PPS can synchronise, and it interrupts only started timers. *)
EnabledFirst == timersInitialized # 0 => timsk4

(* What the acquisition accepted as offset. *)
OffsetBounded == timersInitialized = 2 => ntpOffset \in H - AcqTol .. H + AcqTol

ClockInv == TimersTypeOK /\ PulsePending /\ EnabledFirst /\ OffsetBounded /\ PhaseExact

LEMMA InitClock ==
  ASSUME TimersInit
  PROVE  ClockInv
<1>1. timersInitialized = 0 /\ ~timsk4
  BY DEF TimersInit
<1> QED
  BY <1>1, TimersInitType
     DEF ClockInv, PulsePending, EnabledFirst, OffsetBounded, PhaseExact

LEMMA TypeFacts ==
  ASSUME TimersTypeOK
  PROVE  /\ Reached \in Time /\ TrueTime \in Time
         /\ trueSec \in Sec /\ trueCyc \in Cycle /\ trueCnt \in Count
         /\ tcnt \in Count /\ icr4 \in Count /\ subCycleCount \in Cycle /\ ntpSeconds \in Sec
         /\ skew \in Int /\ ntpOffset \in Int /\ timersInitialized \in 0 .. 2
         /\ faults \in 0 .. MaxFaults
BY ReachedType, TimersAssumption
   DEF TimersTypeOK, TrueTypeOK, HwTypeOK, SyncTypeOK, CountTypeOK, TrueTime, Time, T

(* Short of Drift, offset and skew together make less than a cycle. *)
LEMMA OffsetRange ==
  ASSUME NEW state \in 1 .. 2, NEW offset \in Int, NEW lag \in Int,
         state = 2 => offset \in H - AcqTol .. H + AcqTol,
         ~(Abs(lag) >= Drift)
  PROVE  (IF state = 1 THEN H ELSE offset) + lag \in Within
BY TimersAssumption DEF Within, Abs, Drift, T

LEMMA InRange ==
  ASSUME TimersTypeOK, OffsetBounded, timersInitialized # 0, ~Lost
  PROVE  Offset + skew \in Within
BY TypeFacts, OffsetRange DEF OffsetBounded, Lost, Offset

(* Starting from the same cycle and count, a tick leads to the same. *)
LEMMA AdvanceAlike ==
  ASSUME NEW t \in Time, NEW u \in Time, t.cyc = u.cyc, t.cnt = u.cnt
  PROVE  Advance(t).cyc = Advance(u).cyc /\ Advance(t).cnt = Advance(u).cnt
BY AdvanceParts

-----------------------------------------------------------------------------
(* A tick.                                                                   *)

LEMMA TickParts ==
  ASSUME TimersTypeOK, Tick
  PROVE  \E time, count \in BOOLEAN :
           /\ time \/ count
           /\ TrueTime' = IF time THEN Advance(TrueTime) ELSE TrueTime
           /\ skew' = IF Lost \/ (time /\ count) THEN skew
                      ELSE IF time THEN skew + 1 ELSE skew - 1
           /\ (timsk4 => Reached' = IF count THEN Advance(Reached) ELSE Reached)
           /\ (time /\ count) \/ (faults' = faults - 1)
           /\ faults' <= faults
           /\ (timsk4 /\ icf4') => icr4' = tcnt' /\ trueCyc' = 0 /\ trueCnt' = 0
<1>1. PICK time, count, pulse \in BOOLEAN :
        LET end  == trueCnt = T - 1
            next == NextCycle(trueSec, trueCyc, 0)
            pps  == time /\ end /\ trueCyc = N - 1
            cost == IF time /\ count /\ (pps => pulse) THEN 0 ELSE 1
        IN  /\ time \/ count
            /\ pulse => pps
            /\ faults' = faults - cost
            /\ trueSec' = IF time /\ end THEN next.sec ELSE trueSec
            /\ trueCyc' = IF time /\ end THEN next.cyc ELSE trueCyc
            /\ trueCnt' = IF ~time THEN trueCnt ELSE IF end THEN 0 ELSE trueCnt + 1
            /\ skew' = IF Lost \/ (time /\ count) THEN skew
                       ELSE IF time THEN skew + 1 ELSE skew - 1
            /\ tcnt' = IF ~count THEN tcnt ELSE IF tcnt = T - 1 THEN 0 ELSE tcnt + 1
            /\ ocf4a' = (ocf4a \/ (count /\ tcnt = T - 1))
            /\ icf4' = (icf4 \/ pulse)
            /\ icr4' = IF pulse THEN tcnt' ELSE icr4
  BY DEF Tick
<1>2. /\ trueSec \in Sec /\ trueCyc \in Cycle /\ trueCnt \in Count
      /\ tcnt \in Count /\ faults \in Int
  BY TypeFacts
<1>3. /\ timsk4 => ~ocf4a /\ ~icf4
      /\ UNCHANGED <<ntpSeconds, subCycleCount>>
  BY DEF Tick, InterruptPending, countVars
<1>4. TrueTime' = IF time THEN Advance(TrueTime) ELSE TrueTime
  <2>1. CASE time /\ trueCnt = T - 1
    <3>1. trueCnt' = 0 /\ trueSec' = NextCycle(trueSec, trueCyc, 0).sec
          /\ trueCyc' = NextCycle(trueSec, trueCyc, 0).cyc
      BY <1>1, <2>1
    <3> QED
      BY <2>1, <3>1 DEF TrueTime, Advance, NextCycle
  <2>2. CASE time /\ trueCnt # T - 1
    BY <1>1, <2>2 DEF TrueTime, Advance
  <2>3. CASE ~time
    BY <1>1, <2>3 DEF TrueTime
  <2> QED
    BY <2>1, <2>2, <2>3
<1>5. timsk4 => Reached' = IF count THEN Advance(Reached) ELSE Reached
  <2> SUFFICES ASSUME timsk4 PROVE Reached' = IF count THEN Advance(Reached) ELSE Reached
    OBVIOUS
  <2>1. Reached = [sec |-> ntpSeconds, cyc |-> subCycleCount, cnt |-> tcnt]
    BY <1>3 DEF Reached
  <2>2. CASE count /\ tcnt = T - 1
    <3>1. ocf4a' /\ tcnt' = 0
      BY <1>1, <2>2
    <3> QED
      BY <1>3, <2>1, <2>2, <3>1 DEF Reached, Advance, NextCycle
  <2>3. CASE count /\ tcnt # T - 1
    <3>1. ~ocf4a' /\ tcnt' = tcnt + 1
      BY <1>1, <1>3, <2>3
    <3> QED
      BY <1>3, <2>1, <2>3, <3>1 DEF Reached, Advance
  <2>4. CASE ~count
    <3>1. ~ocf4a' /\ tcnt' = tcnt
      BY <1>1, <1>3, <2>4
    <3> QED
      BY <1>3, <2>1, <2>4, <3>1 DEF Reached
  <2> QED
    BY <2>2, <2>3, <2>4
<1>6. (timsk4 /\ icf4') => icr4' = tcnt' /\ trueCyc' = 0 /\ trueCnt' = 0
  <2> SUFFICES ASSUME timsk4, icf4' PROVE icr4' = tcnt' /\ trueCyc' = 0 /\ trueCnt' = 0
    OBVIOUS
  <2>1. pulse /\ time /\ trueCnt = T - 1 /\ trueCyc = N - 1
    BY <1>1, <1>3
  <2> QED
    BY <1>1, <2>1 DEF NextCycle
<1>7. /\ (time /\ count) \/ (faults' = faults - 1)
      /\ faults' <= faults
  BY <1>1, <1>2
<1> QED
  BY <1>1, <1>4, <1>5, <1>6, <1>7

(* As long as the skew is followed, a tick takes the clock and true time the *)
(* same way.                                                                 *)
LEMMA TickExact ==
  ASSUME TimersTypeOK, EnabledFirst, OffsetBounded, Tick, timersInitialized # 0, ~Lost'
  PROVE  /\ ~Lost
         /\ \/ ClockTime(skew)' = ClockTime(skew) /\ TrueTime' = TrueTime
            \/ ClockTime(skew)' = Advance(ClockTime(skew)) /\ TrueTime' = Advance(TrueTime)
<1>1. PICK time, count \in BOOLEAN :
        /\ time \/ count
        /\ TrueTime' = IF time THEN Advance(TrueTime) ELSE TrueTime
        /\ skew' = IF Lost \/ (time /\ count) THEN skew
                   ELSE IF time THEN skew + 1 ELSE skew - 1
        /\ (timsk4 => Reached' = IF count THEN Advance(Reached) ELSE Reached)
  BY TickParts
<1>2. timsk4 /\ UNCHANGED <<timersInitialized, ntpOffset>>
  BY DEF EnabledFirst, Tick, syncVars
<1>3. ~Lost
  BY <1>1 DEF Lost
<1>4. /\ Reached \in Time /\ skew \in Int /\ skew' \in Int
      /\ ntpOffset \in Int /\ timersInitialized \in 1 .. 2
      /\ Offset \in Int /\ H \in Int
  BY <1>1, TypeFacts, TimersAssumption DEF Offset
<1>5. Offset + skew \in Within /\ Offset + skew' \in Within
  BY <1>3, <1>4, OffsetRange DEF OffsetBounded, Lost, Offset
<1>6. /\ ClockTime(skew) = TimeOf(Reached, Offset + skew)
      /\ ClockTime(skew)' = TimeOf(Reached', Offset + skew')
  BY <1>2 DEF ClockTime, TimeOf, Offset
<1>7. CASE time /\ count
  <2>1. /\ skew' = skew /\ Reached' = Advance(Reached)
        /\ TrueTime' = Advance(TrueTime)
    BY <1>1, <1>2, <1>7
  <2>2. TimeOf(Advance(Reached), Offset + skew) = Advance(TimeOf(Reached, Offset + skew))
    BY <1>4, <1>5, AdvanceBoth
  <2> QED
    BY <1>3, <1>6, <2>1, <2>2
<1>8. CASE time /\ ~count
  <2>1. skew' = skew + 1 /\ Offset + skew' = (Offset + skew) + 1 /\ Reached' = Reached
    BY <1>1, <1>2, <1>3, <1>4, <1>8
  <2> QED
    BY <1>1, <1>4, <1>5, <1>6, <1>8, <2>1, AdvanceOffset
<1>9. CASE ~time
  <2>1. /\ skew' = skew - 1 /\ Offset + skew' = (Offset + skew) - 1
        /\ Reached' = Advance(Reached)
    BY <1>1, <1>2, <1>3, <1>4, <1>9
  <2> QED
    BY <1>1, <1>4, <1>5, <1>6, <1>9, <2>1, AdvanceReading
<1> QED
  BY <1>3, <1>7, <1>8, <1>9

-----------------------------------------------------------------------------
(* The interrupt routines.                                                   *)

(* The match routine makes up exactly what the match had reached. *)
LEMMA MatchExact ==
  ASSUME TimersTypeOK, TimerMatchIsr, timersInitialized # 0
  PROVE  Reached' = Reached
<1>1. subCycleCount \in Cycle /\ N \in Nat
  BY TypeFacts, TimersAssumption
<1>2. Reached = NextCycle(ntpSeconds, subCycleCount, tcnt)
  BY DEF TimerMatchIsr, Reached
<1>3. Reached' = [sec |-> ntpSeconds', cyc |-> subCycleCount', cnt |-> tcnt]
  BY DEF TimerMatchIsr, Reached
<1>4. CASE LastCycle
  <2>1. subCycleCount = N - 1 /\ subCycleCount' = 0 /\ ntpSeconds' = NextSec(ntpSeconds)
    BY <1>1, <1>4 DEF TimerMatchIsr, LastCycle, Cycle
  <2> QED
    BY <1>2, <1>3, <2>1 DEF NextCycle
<1>5. CASE ~LastCycle
  <2>1. subCycleCount # N - 1
    BY <1>1, <1>5 DEF LastCycle, Cycle
  <2>2. subCycleCount' = subCycleCount + 1 /\ ntpSeconds' = ntpSeconds
    BY <1>5 DEF TimerMatchIsr
  <2> QED
    BY <1>2, <1>3, <2>1, <2>2 DEF NextCycle
<1> QED
  BY <1>4, <1>5

(* A PPS finds the clock in the last cycle, and offset and skew together are *)
(* what its count is short of the cycle.                                     *)
LEMMA PpsExact ==
  ASSUME TimersTypeOK, PulsePending, EnabledFirst, OffsetBounded, PhaseExact,
         PpsCaptureIsr, ~LatencyOverlap, timersInitialized # 0, ~Lost
  PROVE  icr4 = tcnt /\ tcnt + (Offset + skew) = T /\ subCycleCount = N - 1
<1>1. icr4 = tcnt /\ trueCyc = 0 /\ trueCnt = 0
  BY DEF PulsePending, PpsCaptureIsr
<1>2. Reached = [sec |-> ntpSeconds, cyc |-> subCycleCount, cnt |-> tcnt]
  BY DEF PpsCaptureIsr, Reached
<1>3. /\ Reached \in Time /\ tcnt \in Count /\ subCycleCount \in Cycle
      /\ T \in Nat /\ N \in Nat /\ Reached.cnt = tcnt /\ Reached.cyc = subCycleCount
  BY <1>2, TypeFacts, TimersAssumption DEF T
<1>4. Offset + skew \in Within
  BY InRange
<1>5. TimeOf(Reached, Offset + skew).cyc = 0 /\ TimeOf(Reached, Offset + skew).cnt = 0
  BY <1>1 DEF PhaseExact, ClockTime, TimeOf
<1>6. tcnt + (Offset + skew) >= T
  <2> SUFFICES ASSUME tcnt + (Offset + skew) < T PROVE FALSE
    BY <1>3, <1>4 DEF Count, Within
  <2>1. TimeOf(Reached, Offset + skew).cnt = tcnt + (Offset + skew)
    BY <1>3, <1>4, TimeOfParts
  <2> QED
    BY <1>3, <1>4, <1>5, <2>1 DEF Count, Within
<1>7. TimeOf(Reached, Offset + skew)
        = NextCycle(ntpSeconds, subCycleCount, tcnt + (Offset + skew) - T)
  BY <1>2, <1>3, <1>4, <1>6, TimeOfParts
<1>8. tcnt + (Offset + skew) - T = 0
  BY <1>5, <1>7 DEF NextCycle
<1>9. subCycleCount = N - 1
  BY <1>3, <1>5, <1>7 DEF NextCycle, Cycle
<1> QED
  BY <1>1, <1>3, <1>4, <1>8, <1>9 DEF Within, Count

(* The preset starts the clock with the second. *)
LEMMA PresetExact ==
  ASSUME TimersTypeOK, PulsePending, PpsCaptureIsr, PpsPreset, ~LatencyOverlap
  PROVE  PhaseExact'
<1>1. trueCyc' = 0 /\ trueCnt' = 0
  BY DEF PulsePending, PpsCaptureIsr
<1>2. Reached' = [sec |-> ntpSeconds, cyc |-> N - 1, cnt |-> H]
  BY DEF PpsCaptureIsr, PpsPreset, PresetCycle, Reached
<1>3. Offset' = H /\ skew' = 0
  BY DEF PpsPreset, Offset
<1>4. H + (H + 0) >= T /\ H + (H + 0) - T = 0
  BY TimersAssumption DEF T
<1>5. ClockTime(skew)' = NextCycle(ntpSeconds, N - 1, 0)
  BY <1>2, <1>3, <1>4 DEF ClockTime, NtpTime
<1> QED
  BY <1>1, <1>5 DEF PhaseExact, NextCycle

(* The acquisition turns the skew into the offset. *)
LEMMA AcquiredExact ==
  ASSUME TimersTypeOK, PulsePending, EnabledFirst, OffsetBounded, PhaseExact,
         PpsCaptureIsr, PpsAcquired, ~LatencyOverlap, timersInitialized' # 0, ~Lost
  PROVE  skew' = 0 /\ Offset' + skew' = Offset + skew
<1>1. /\ ntpOffset' = T - icr4 /\ timersInitialized' = 2 /\ skew' = skew + (icr4 - H)
  BY DEF PpsAcquired, AcquiredOffset
<1>2. icr4 = tcnt /\ tcnt + (H + skew) = T
  BY PpsExact DEF PpsAcquired, Offset
<1>3. Offset = H /\ Offset' = T - icr4
  BY <1>1 DEF PpsAcquired, Offset
<1>4. tcnt \in Int /\ skew \in Int /\ H \in Int /\ T = H + H
  BY TypeFacts, TimersAssumption DEF Count, T
<1> QED
  BY <1>1, <1>2, <1>3, <1>4

-----------------------------------------------------------------------------
(* The steps of the hardware, the routines and the start.                    *)

LEMMA TickClock ==
  ASSUME ClockInv, Tick
  PROVE  ClockInv'
<1> USE DEF ClockInv
<1>0. TimersTypeOK'
  BY TickType
<1>1. UNCHANGED <<timsk4, timersInitialized, ntpOffset>>
  BY DEF Tick, syncVars
<1>2. PulsePending'
  BY <1>1, TickParts DEF PulsePending
<1>3. EnabledFirst' /\ OffsetBounded'
  BY <1>1 DEF EnabledFirst, OffsetBounded
<1>4. PhaseExact'
  <2> SUFFICES ASSUME timersInitialized' # 0, ~Lost'
               PROVE  ClockTime(skew)'.cyc = trueCyc' /\ ClockTime(skew)'.cnt = trueCnt'
    BY DEF PhaseExact
  <2>1. /\ ~Lost
        /\ \/ ClockTime(skew)' = ClockTime(skew) /\ TrueTime' = TrueTime
           \/ ClockTime(skew)' = Advance(ClockTime(skew)) /\ TrueTime' = Advance(TrueTime)
    BY <1>1, TickExact
  <2>2. ClockTime(skew).cyc = TrueTime.cyc /\ ClockTime(skew).cnt = TrueTime.cnt
    BY <1>1, <2>1 DEF PhaseExact, TrueTime
  <2>3. ClockTime(skew) \in Time /\ TrueTime \in Time
    BY <1>1, <2>1, TypeFacts, InRange, TimeOfParts DEF ClockTime, TimeOf
  <2>4. ClockTime(skew)'.cyc = TrueTime'.cyc /\ ClockTime(skew)'.cnt = TrueTime'.cnt
    BY <2>1, <2>2, <2>3, AdvanceAlike
  <2> QED
    BY <2>4 DEF TrueTime
<1> QED
  BY <1>0, <1>2, <1>3, <1>4

LEMMA MatchClock ==
  ASSUME ClockInv, TimerMatchIsr
  PROVE  ClockInv'
<1> USE DEF ClockInv
<1>0. TimersTypeOK'
  BY MatchType
<1>1. /\ UNCHANGED <<trueSec, trueCyc, trueCnt, skew, tcnt, timsk4, icf4, icr4,
                     timersInitialized, ntpOffset>>
  BY DEF TimerMatchIsr, trueVars, syncVars
<1>2. PulsePending' /\ EnabledFirst' /\ OffsetBounded'
  BY <1>1 DEF PulsePending, EnabledFirst, OffsetBounded
<1>3. timersInitialized # 0 => UNCHANGED <<ClockTime(skew), Lost>>
  BY <1>1, MatchExact DEF ClockTime, Offset, Lost
<1>4. PhaseExact'
  BY <1>1, <1>3 DEF PhaseExact
<1> QED
  BY <1>0, <1>2, <1>4

LEMMA PpsPhase ==
  ASSUME ClockInv, PpsCaptureIsr, ~LatencyOverlap
  PROVE  PhaseExact'
<1> USE DEF ClockInv
<1>1. CASE PpsTracked
  <2>1. UNCHANGED <<skew, trueCyc, trueCnt, Reached>>
    BY <1>1 DEF PpsCaptureIsr, PpsTracked, Reached
  <2>2. timersInitialized' # 0 => UNCHANGED <<Lost, Offset>> /\ timersInitialized = 2
    BY <1>1, <2>1 DEF PpsTracked, Lost, Offset
  <2> QED
    BY <2>1, <2>2 DEF PhaseExact, ClockTime
<1>2. CASE PpsPreset
  BY <1>2, PresetExact
<1>3. CASE PpsAcquired
  <2> SUFFICES ASSUME timersInitialized' # 0, ~Lost'
               PROVE  ClockTime(skew)'.cyc = trueCyc' /\ ClockTime(skew)'.cnt = trueCnt'
    BY DEF PhaseExact
  <2>1. ~Lost
    BY <1>3 DEF PpsAcquired, Lost
  <2>2. Offset' + skew' = Offset + skew
    BY <1>3, <2>1, AcquiredExact
  <2>3. UNCHANGED <<trueCyc, trueCnt, Reached>>
    BY <1>3 DEF PpsCaptureIsr, PpsAcquired, Reached
  <2>4. ClockTime(skew)' = ClockTime(skew)
    BY <2>2, <2>3 DEF ClockTime
  <2> QED
    BY <1>3, <2>1, <2>3, <2>4 DEF PhaseExact, PpsAcquired
<1> QED
  BY <1>1, <1>2, <1>3 DEF PpsCaptureIsr

LEMMA PpsClock ==
  ASSUME ClockInv, PpsCaptureIsr, ~LatencyOverlap
  PROVE  ClockInv'
<1> USE DEF ClockInv
<1>1. TimersTypeOK' /\ PhaseExact'
  BY PpsType, PpsPhase
<1>2. PulsePending'
  BY DEF PulsePending, PpsCaptureIsr
<1>3. EnabledFirst'
  BY DEF EnabledFirst, PpsCaptureIsr
<1>4. OffsetBounded'
  <2> SUFFICES ASSUME timersInitialized' = 2
               PROVE  ntpOffset' \in H - AcqTol .. H + AcqTol
    BY DEF OffsetBounded
  <2>1. CASE PpsTracked
    BY <2>1 DEF PpsTracked, OffsetBounded
  <2>2. CASE PpsPreset
    BY <2>2 DEF PpsPreset
  <2>3. CASE PpsAcquired
    <3>1. icr4 \in Count
      BY TypeFacts
    <3>2. ~(Abs(icr4 - H) > AcqTol) /\ ntpOffset' = T - icr4
      BY <2>3 DEF PpsAcquired, AcquiredOffset
    <3> QED
      BY <3>1, <3>2, TimersAssumption DEF Abs, Count, T
  <2> QED
    BY <2>1, <2>2, <2>3 DEF PpsCaptureIsr
<1> QED
  BY <1>1, <1>2, <1>3, <1>4

LEMMA StartClock ==
  ASSUME ClockInv, StartTimers, ~timsk4
  PROVE  ClockInv'
<1>1. timersInitialized = 0 /\ UNCHANGED timersInitialized /\ ~icf4'
  BY DEF ClockInv, EnabledFirst, StartTimers, syncVars
<1> QED
  BY <1>1, StartType DEF ClockInv, PulsePending, EnabledFirst, OffsetBounded, PhaseExact

(* Another second shown is the same cycle and count. *)
LEMMA SecondsAside ==
  ASSUME UNCHANGED <<tcnt, ocf4a, timersInitialized, ntpOffset, skew, subCycleCount>>
  PROVE  /\ UNCHANGED <<Offset, Lost>>
         /\ ClockTime(skew)'.cyc = ClockTime(skew).cyc
         /\ ClockTime(skew)'.cnt = ClockTime(skew).cnt
<1>1. UNCHANGED <<Offset, Lost>>
  BY DEF Offset, Lost
<1>2. Reached'.cyc = Reached.cyc /\ Reached'.cnt = Reached.cnt
  BY DEF Reached, NextCycle
<1> QED
  BY <1>1, <1>2 DEF ClockTime, NtpTime, NextCycle

(* The main program leaves the clock right, the seconds aside. *)
LEMMA FrameClock ==
  ASSUME ClockInv, TimersTypeOK',
         UNCHANGED <<trueCyc, trueCnt, skew, tcnt, timsk4, ocf4a, icf4, icr4,
                     timersInitialized, ntpOffset, subCycleCount>>
  PROVE  ClockInv'
<1> USE DEF ClockInv
<1>1. PulsePending' /\ EnabledFirst' /\ OffsetBounded'
  BY DEF PulsePending, EnabledFirst, OffsetBounded
<1>2. PhaseExact'
  BY SecondsAside DEF PhaseExact
<1> QED
  BY <1>1, <1>2
=============================================================================
