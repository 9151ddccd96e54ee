----------------------- MODULE TimekeepingClientProofs -----------------------
(***************************************************************************)
(* Theorems about TimekeepingClient, for every number of cycles, length of *)
(* a cycle, tolerance, number of faults and length of a reading: that its  *)
(* clock keeps true time between the PPS edges, and that GetCurrentNtpTime *)
(* returns the time of one moment.                                         *)
(***************************************************************************)
EXTENDS TimekeepingClient, DisciplinedTimersProofs

-----------------------------------------------------------------------------
(* Type correctness.                                                         *)

(* What the main program keeps of its own. *)
LoadTypeOK ==
  /\ pc \in {"idle", "cycle", "count", "seconds2", "cycle2", "return"}
  /\ first \in [sec : Sec, cyc : Cycle]
  /\ again \in Reading

HistoryTypeOK ==
  /\ elapsed \in 0 .. MaxCall
  /\ tracked \in BOOLEAN /\ confirmed \in BOOLEAN

LEMMA TypeParts == TypeOK <=> TimersTypeOK /\ LoadTypeOK /\ HistoryTypeOK
BY DEF TypeOK, LoadTypeOK, HistoryTypeOK

LEMMA NoneType == NoFirst \in [sec : Sec, cyc : Cycle] /\ NoReading \in Reading
BY ZeroType DEF NoFirst, NoReading, Reading

LEMMA InitType == Init => TypeOK
<1> SUFFICES ASSUME Init PROVE TypeOK
  OBVIOUS
<1> USE DEF Init
<1>1. TimersTypeOK
  BY TimersInitType
<1>2. /\ pc \in {"idle", "cycle", "count", "seconds2", "cycle2", "return"}
      /\ first \in [sec : Sec, cyc : Cycle] /\ again \in Reading
      /\ tracked \in BOOLEAN /\ confirmed \in BOOLEAN
  BY NoneType
<1>3. elapsed \in 0 .. MaxCall
  BY ClientAssumption
<1> QED
  BY <1>1, <1>2, <1>3 DEF TypeOK

LEMMA SetType ==
  ASSUME TypeOK, SetNtpSeconds
  PROVE  TypeOK'
<1>1. CountTypeOK'
  BY DEF TypeOK, TimersTypeOK, TrueTypeOK, CountTypeOK, SetNtpSeconds
<1>2. FlagsTypeOK'
  BY DEF TypeOK, TimersTypeOK, FlagsTypeOK, SetNtpSeconds
<1>3. TimersTypeOK'
  BY <1>1, <1>2, UnchangedType DEF TypeOK, TimersTypeOK, SetNtpSeconds
<1>4. LoadTypeOK'
  BY TypeParts DEF SetNtpSeconds, Main, LoadTypeOK
<1>5. elapsed' \in 0 .. MaxCall
  BY DEF SetNtpSeconds, TypeOK
<1>6. tracked' \in BOOLEAN /\ confirmed' \in BOOLEAN
  BY DEF SetNtpSeconds, TypeOK, Synchronised
<1> QED
  BY <1>3, <1>4, <1>5, <1>6, TypeParts DEF HistoryTypeOK, TypeOK, LoadTypeOK

LEMMA ReadingType ==
  ASSUME TypeOK, GetCurrentNtpTime
  PROVE  TypeOK'
<1> USE DEF Load, Main
<1>1. TimersTypeOK /\ LoadTypeOK /\ HistoryTypeOK
  BY TypeParts
<1>2. TimersTypeOK' /\ HistoryTypeOK'
  <2>1. UNCHANGED <<timersVars, tracked, confirmed>> /\ elapsed' \in {elapsed, 0}
    BY DEF GetCurrentNtpTime, LoadSeconds, LoadCycle, LoadCount, LoadSeconds2, LoadCycle2, Return
  <2> QED
    BY <1>1, <2>1, UnchangedTimersType, ClientAssumption DEF HistoryTypeOK
<1>3. ntpSeconds \in Sec /\ subCycleCount \in Cycle /\ tcnt \in Count
  BY <1>1 DEF TimersTypeOK, CountTypeOK, HwTypeOK
<1>4. LoadTypeOK'
  <2>1. CASE LoadSeconds
    BY <1>1, <1>3, <2>1 DEF LoadSeconds, LoadTypeOK
  <2>2. CASE LoadCycle
    BY <1>1, <1>3, <2>2 DEF LoadCycle, LoadTypeOK
  <2>3. CASE LoadCount
    BY <1>1, <1>3, <2>3, ClockTimeType DEF LoadCount, LoadTypeOK, Reading
  <2>4. CASE LoadSeconds2
    BY <1>1, <1>3, <2>4 DEF LoadSeconds2, LoadTypeOK, Reading
  <2>5. CASE LoadCycle2
    BY <1>1, <1>3, <2>5 DEF LoadCycle2, LoadTypeOK, Reading
  <2>6. CASE Return
    BY <1>1, <2>6, NoneType DEF Return, LoadTypeOK
  <2> QED
    BY <2>1, <2>2, <2>3, <2>4, <2>5, <2>6 DEF GetCurrentNtpTime
<1> QED
  BY <1>2, <1>4, TypeParts DEF TypeOK, LoadTypeOK, HistoryTypeOK

LEMMA NextType == TypeOK /\ [Next]_vars => TypeOK'
<1> SUFFICES ASSUME TypeOK, [Next]_vars PROVE TypeOK'
  OBVIOUS
<1>1. TimersTypeOK /\ LoadTypeOK /\ HistoryTypeOK
  BY TypeParts
<1>2. UNCHANGED callVars => LoadTypeOK'
  BY <1>1 DEF callVars, LoadTypeOK
<1>3. CASE ClientTick
  <2>1. TimersTypeOK'
    BY <1>1, <1>3, TickType DEF ClientTick
  <2>2. elapsed' \in 0 .. MaxCall
    BY <1>1, <1>3, ClientAssumption DEF ClientTick, HistoryTypeOK
  <2> QED
    BY <1>1, <1>2, <1>3, <2>1, <2>2 DEF ClientTick, HistoryTypeOK, TypeOK, LoadTypeOK
<1>4. CASE ClientMatch
  BY <1>1, <1>2, <1>4, MatchType DEF ClientMatch, HistoryTypeOK, TypeOK, LoadTypeOK
<1>5. CASE ClientPps
  <2>1. TimersTypeOK'
    BY <1>1, <1>5, PpsType DEF ClientPps
  <2>2. tracked' \in BOOLEAN /\ UNCHANGED <<callVars, elapsed, confirmed>>
    BY <1>1, <1>5 DEF ClientPps, HistoryTypeOK
  <2> QED
    BY <1>1, <1>2, <2>1, <2>2 DEF HistoryTypeOK, TypeOK, LoadTypeOK
<1>6. CASE Start
  BY <1>1, <1>6, StartType DEF Start, Main, HistoryTypeOK, TypeOK, LoadTypeOK
<1>7. CASE SetNtpSeconds
  BY <1>7, SetType
<1>8. CASE GetCurrentNtpTime
  BY <1>8, ReadingType
<1>9. CASE UNCHANGED vars
  BY <1>1, <1>2, <1>9, UnchangedTimersType DEF vars, HistoryTypeOK, TypeOK, LoadTypeOK, callVars
<1> QED
  BY <1>3, <1>4, <1>5, <1>6, <1>7, <1>8, <1>9 DEF Next

(* Every variable stays in its range, whatever the latency of the interrupt *)
(* routines and however many faults.                                        *)
THEOREM TypeCorrect == Spec => []TypeOK
<1> QED
  BY InitType, NextType, PTL DEF Spec

-----------------------------------------------------------------------------
(* The inductive invariant of the phase and of the seconds.                  *)

(* The seconds count as tracked no longer than the timers do. *)
TrackedSync == tracked => timersInitialized = 2

IInv == TypeOK /\ ClockInv /\ TrackedSync /\ SecondsExact

LEMMA InitInv == Init => IInv
<1> SUFFICES ASSUME Init PROVE IInv
  OBVIOUS
<1>1. TypeOK /\ ClockInv
  BY InitType, InitClock DEF Init
<1>2. ~tracked
  BY DEF Init
<1> QED
  BY <1>1, <1>2 DEF IInv, TrackedSync, SecondsExact

LEMMA TickInv ==
  ASSUME IInv, ClientTick
  PROVE  ClockInv' /\ TrackedSync' /\ SecondsExact'
<1> USE DEF IInv, ClockInv, ClientTick
<1>1. UNCHANGED <<timersInitialized, tracked>>
  BY DEF Tick, syncVars
<1>2. SecondsExact'
  <2> SUFFICES ASSUME tracked', ~Lost' PROVE ClockTime(skew)' = TrueTime'
    BY DEF SecondsExact
  <2>1. tracked /\ timersInitialized # 0
    BY <1>1 DEF TrackedSync
  <2>2. /\ ~Lost
        /\ \/ ClockTime(skew)' = ClockTime(skew) /\ TrueTime' = TrueTime
           \/ ClockTime(skew)' = Advance(ClockTime(skew)) /\ TrueTime' = Advance(TrueTime)
    BY <2>1, TickExact
  <2>3. ClockTime(skew) = TrueTime
    BY <2>1, <2>2 DEF SecondsExact
  <2> QED
    BY <2>2, <2>3
<1> QED
  BY <1>1, <1>2, TickClock DEF TrackedSync

LEMMA MatchInv ==
  ASSUME IInv, ClientMatch
  PROVE  ClockInv' /\ TrackedSync' /\ SecondsExact'
<1> USE DEF IInv, ClockInv, ClientMatch
<1>1. UNCHANGED <<trueSec, trueCyc, trueCnt, skew, timersInitialized, ntpOffset, tracked>>
  BY DEF TimerMatchIsr, trueVars, syncVars
<1>2. timersInitialized # 0 => UNCHANGED <<ClockTime(skew), Lost, TrueTime>>
  BY <1>1, MatchExact DEF ClockTime, Offset, Lost, TrueTime
<1> QED
  BY <1>1, <1>2, MatchClock DEF SecondsExact, TrackedSync

LEMMA PpsInv ==
  ASSUME IInv, ClientPps, ~LatencyOverlap
  PROVE  ClockInv' /\ TrackedSync' /\ SecondsExact'
<1> USE DEF IInv, ClientPps
<1>1. TrackedSync'
  BY DEF TrackedSync
<1>2. SecondsExact'
  <2> SUFFICES ASSUME tracked', ~Lost' PROVE ClockTime(skew)' = TrueTime'
    BY DEF SecondsExact
  <2>1. tracked /\ timersInitialized = 2
    BY DEF TrackedSync
  <2>2. PpsTracked
    BY <2>1 DEF PpsCaptureIsr, PpsPreset, PpsAcquired
  <2>3. UNCHANGED <<ClockTime(skew), TrueTime, Lost>>
    BY <2>1, <2>2 DEF PpsCaptureIsr, PpsTracked, ClockTime, Offset, Reached, TrueTime, Lost
  <2> QED
    BY <2>1, <2>3 DEF SecondsExact
<1> QED
  BY <1>1, <1>2, PpsClock

LEMMA StartInv ==
  ASSUME IInv, Start
  PROVE  ClockInv' /\ TrackedSync' /\ SecondsExact'
<1>1. ClockInv' /\ timersInitialized = 0 /\ UNCHANGED <<timersInitialized, tracked>>
  BY StartClock DEF IInv, ClockInv, EnabledFirst, Start, StartTimers, syncVars
<1> QED
  BY <1>1 DEF IInv, TrackedSync, SecondsExact

(* Within the contract of SetNtpSeconds the offset carries into no other second. *)
LEMMA SetInv ==
  ASSUME IInv, SetNtpSeconds
  PROVE  ClockInv' /\ TrackedSync' /\ SecondsExact'
<1> USE DEF IInv, ClockInv
<1>1. /\ UNCHANGED <<trueSec, trueCyc, trueCnt, skew, tcnt, timsk4, ocf4a, icf4, icr4,
                     timersInitialized, ntpOffset, subCycleCount>>
      /\ tracked' = Synchronised /\ ntpSeconds' = trueSec
  BY DEF SetNtpSeconds, trueVars, hwVars, syncVars
<1>2. ClockInv' /\ TrackedSync'
  <2>1. TypeOK'
    BY SetType
  <2> QED
    BY <1>1, <2>1, FrameClock DEF TypeOK, TrackedSync, Synchronised
<1>3. UNCHANGED <<Offset, Lost>>
  BY <1>1, SecondsAside
<1>4. /\ ClockTime(skew)'.cyc = ClockTime(skew).cyc
      /\ ClockTime(skew)'.cnt = ClockTime(skew).cnt
  BY <1>1, SecondsAside
<1>6. SecondsExact'
  <2> SUFFICES ASSUME tracked' PROVE ClockTime(skew)' = TrueTime'
    BY DEF SecondsExact
  <2>1. timersInitialized = 2 /\ skew = 0 /\ timsk4 /\ ~ocf4a
    <3>1. timersInitialized = 2 /\ skew = 0
      BY <1>1 DEF Synchronised
    <3>2. timsk4
      BY <3>1 DEF EnabledFirst
    <3> QED
      BY <3>1, <3>2 DEF SetNtpSeconds, Main, InterruptPending
  <2>2. ~Lost
    BY <2>1, TimersAssumption DEF Lost, Drift, Abs
  <2>3. ClockTime(skew).cyc = trueCyc /\ ClockTime(skew).cnt = trueCnt
    BY <2>1, <2>2 DEF PhaseExact
  <2>4. ClockTime(skew)' = NtpTime(trueSec, subCycleCount, tcnt, Offset + skew)
    BY <1>1, <1>3, <2>1 DEF ClockTime, Reached
  <2>5. ClockTime(skew) = NtpTime(ntpSeconds, subCycleCount, tcnt, Offset + skew)
    BY <2>1 DEF ClockTime, Reached
  <2>6. CASE tcnt + (Offset + skew) >= T
    <3>1. subCycleCount # N - 1
      BY <2>3, <2>5, <2>6 DEF SetNtpSeconds, MaySetSeconds, NtpTime, NextCycle
    <3> QED
      BY <1>1, <1>4, <2>3, <2>4, <2>6, <3>1 DEF NtpTime, NextCycle, TrueTime
  <2>7. CASE ~(tcnt + (Offset + skew) >= T)
    BY <1>1, <1>4, <2>3, <2>4, <2>7 DEF NtpTime, TrueTime
  <2> QED
    BY <2>6, <2>7
<1> QED
  BY <1>2, <1>6

LEMMA UnchangedInv ==
  ASSUME IInv, UNCHANGED timersVars, UNCHANGED tracked
  PROVE  ClockInv' /\ TrackedSync' /\ SecondsExact'
<1>1. UNCHANGED <<trueSec, trueCyc, trueCnt, skew, tcnt, timsk4, ocf4a, icf4, icr4,
                  timersInitialized, ntpOffset, subCycleCount, ntpSeconds>>
  BY DEF timersVars, trueVars, hwVars, syncVars, countVars
<1>2. ClockInv'
  BY <1>1, UnchangedTimersType, FrameClock DEF IInv, ClockInv
<1>3. UNCHANGED <<Reached, Offset, Lost, TrueTime>>
  BY <1>1 DEF Reached, Offset, Lost, TrueTime
<1> QED
  BY <1>1, <1>2, <1>3 DEF IInv, TrackedSync, SecondsExact, ClockTime

LEMMA NextInv ==
  ASSUME ~LatencyOverlap, IInv, [Next]_vars
  PROVE  IInv'
<1>1. TypeOK'
  BY NextType DEF IInv
<1> SUFFICES ClockInv' /\ TrackedSync' /\ SecondsExact'
  BY <1>1 DEF IInv
<1>2. CASE ClientTick
  BY <1>2, TickInv
<1>3. CASE ClientMatch
  BY <1>3, MatchInv
<1>4. CASE ClientPps
  BY <1>4, PpsInv
<1>5. CASE Start
  BY <1>5, StartInv
<1>6. CASE SetNtpSeconds
  BY <1>6, SetInv
<1>7. CASE GetCurrentNtpTime
  <2>1. UNCHANGED timersVars /\ UNCHANGED tracked
    BY <1>7 DEF GetCurrentNtpTime, LoadSeconds, LoadCycle, LoadCount, LoadSeconds2,
                LoadCycle2, Return, Load
  <2> QED
    BY <2>1, UnchangedInv
<1>8. CASE UNCHANGED vars
  BY <1>8, UnchangedInv DEF vars
<1> QED
  BY <1>2, <1>3, <1>4, <1>5, <1>6, <1>7, <1>8 DEF Next

-----------------------------------------------------------------------------
LEMMA Invariant ==
  ASSUME ~LatencyOverlap
  PROVE  Spec => []IInv
<1>1. Init => IInv
  BY InitInv
<1>2. IInv /\ [Next]_vars => IInv'
  BY NextInv
<1> QED
  BY <1>1, <1>2, PTL DEF Spec

(* As long as an interrupt routine runs within a tick of its event, the cycle *)
(* and the count with the offset added are off true time by the skew and by   *)
(* nothing else: neither routine ever loses or doubles a cycle.               *)
THEOREM PhaseCorrect ==
  ASSUME ~LatencyOverlap
  PROVE  Spec => []PhaseExact
<1>1. IInv => PhaseExact
  BY DEF IInv, ClockInv
<1> QED
  BY <1>1, Invariant, PTL

(* The seconds, once right on synchronised timers, stay right. *)
THEOREM SecondsCorrect ==
  ASSUME ~LatencyOverlap
  PROVE  Spec => []SecondsExact
<1>1. IInv => SecondsExact
  BY DEF IInv
<1> QED
  BY <1>1, Invariant, PTL

-----------------------------------------------------------------------------
(* With so few faults that the skew is always followed, no PPS is accepted    *)
(* but in the last cycle.                                                     *)

(* Each tick of skew has cost a fault. *)
FaultBudget == Abs(skew) <= MaxFaults - faults

LEMMA NeverLost ==
  ASSUME MaxFaults < H - AcqTol, TimersTypeOK, FaultBudget
  PROVE  ~Lost
BY TypeFacts, TimersAssumption DEF FaultBudget, Lost, Drift, Abs

LEMMA InitBudget == Init => FaultBudget
BY TimersAssumption DEF Init, TimersInit, FaultBudget, Abs

LEMMA NextBudget ==
  ASSUME ~LatencyOverlap, MaxFaults < H - AcqTol, IInv, FaultBudget, [Next]_vars
  PROVE  FaultBudget'
<1> USE DEF IInv, ClockInv
<1>1. TypeOK /\ ~Lost /\ skew \in Int /\ faults \in 0 .. MaxFaults /\ MaxFaults \in Nat
  BY NeverLost, TypeFacts, TimersAssumption
<1>2. CASE ClientTick
  <2>1. PICK time, count \in BOOLEAN :
          /\ skew' = IF Lost \/ (time /\ count) THEN skew
                     ELSE IF time THEN skew + 1 ELSE skew - 1
          /\ (time /\ count) \/ (faults' = faults - 1)
          /\ faults' <= faults
    BY <1>2, TickParts DEF ClientTick
  <2>2. faults' \in 0 .. MaxFaults
    <3>1. TypeOK'
      BY <1>2, NextType DEF Next
    <3> QED
      BY <3>1 DEF TypeOK, TimersTypeOK, TrueTypeOK
  <2>3. \/ skew' = skew /\ faults' <= faults
        \/ (skew' = skew + 1 \/ skew' = skew - 1) /\ faults' = faults - 1
    BY <1>1, <2>1
  <2> QED
    BY <1>1, <2>2, <2>3 DEF FaultBudget, Abs
<1>3. CASE ClientPps
  <2>1. UNCHANGED faults
    BY <1>3 DEF ClientPps, PpsCaptureIsr
  <2>2. skew' = skew \/ skew' = 0
    <3>1. CASE PpsAcquired /\ timersInitialized' # 0
      BY <1>1, <1>3, <3>1, AcquiredExact DEF ClientPps
    <3>2. CASE PpsAcquired /\ timersInitialized' = 0
      BY <3>2 DEF PpsAcquired
    <3> QED
      BY <1>3, <3>1, <3>2 DEF ClientPps, PpsCaptureIsr, PpsTracked, PpsPreset
  <2> QED
    BY <1>1, <2>1, <2>2 DEF FaultBudget, Abs
<1>4. CASE UNCHANGED <<skew, faults>>
  BY <1>4 DEF FaultBudget
<1> QED
  BY <1>2, <1>3, <1>4
     DEF Next, ClientMatch, TimerMatchIsr, Start, StartTimers, SetNtpSeconds, trueVars, vars,
         timersVars, GetCurrentNtpTime, LoadSeconds, LoadCycle, LoadCount, LoadSeconds2,
         LoadCycle2, Return, Load

LEMMA AcceptedInLastCycle ==
  ASSUME ~LatencyOverlap, MaxFaults < H - AcqTol, IInv, FaultBudget
  PROVE  (ClientPps /\ timersInitialized' = 2) => subCycleCount = N - 1
<1> SUFFICES ASSUME ClientPps, timersInitialized' = 2 PROVE subCycleCount = N - 1
  OBVIOUS
<1>1. ~Lost
  BY NeverLost DEF IInv, ClockInv
<1>2. timersInitialized # 0
  BY DEF ClientPps, PpsCaptureIsr, PpsTracked, PpsPreset, PpsAcquired
<1> QED
  BY <1>1, <1>2, PpsExact DEF IInv, ClockInv, ClientPps

(* Each second between two accepted PPS edges has exactly N matches. *)
THEOREM PpsCorrect ==
  ASSUME ~LatencyOverlap, MaxFaults < H - AcqTol
  PROVE  Spec => PpsInLastCycle
<1>1. Init => IInv /\ FaultBudget
  BY InitInv, InitBudget
<1>2. IInv /\ FaultBudget /\ [Next]_vars => (IInv /\ FaultBudget)'
  BY NextInv, NextBudget
<1>3. IInv /\ FaultBudget /\ [Next]_vars
        => [(ClientPps /\ timersInitialized' = 2) => subCycleCount = N - 1]_vars
  BY AcceptedInLastCycle
<1> QED
  BY <1>1, <1>2, <1>3, PTL DEF Spec, PpsInLastCycle

-----------------------------------------------------------------------------
(* That GetCurrentNtpTime returns the time of one moment.  A call is too     *)
(* short for the cycle to come round to where it was, so a cycle that reads  *)
(* the same twice was the cycle all the while, and count and seconds, read   *)
(* in between, are of that cycle.  Nothing is asked of the latency of the    *)
(* interrupt routines.                                                       *)

(* How many cycles the timers have reached since they were in this one. *)
CyclesSince(cyc) ==
  IF Reached.cyc >= cyc THEN Reached.cyc - cyc ELSE Reached.cyc - cyc + N

(* Every cycle takes its ticks, and the first cycle loaded may have been under way. *)
CycleLoaded == CyclesSince(first.cyc) * T + Reached.cnt <= elapsed + (T - 1)

CountLoaded ==
  Reached.cyc = first.cyc =>
    again.at = NtpTime(Reached.sec, Reached.cyc, again.cnt, ntpOffset)

SecondsLoaded == Reached.cyc = first.cyc => again.sec = Reached.sec

ReadInv ==
  tracked =>
    /\ pc \in {"count", "seconds2", "cycle2"} => CycleLoaded
    /\ pc \in {"seconds2", "cycle2"} => CountLoaded
    /\ pc = "cycle2" => SecondsLoaded
    /\ pc = "return" => NtpTime(again.sec, again.cyc, again.cnt, ntpOffset) = again.at

CallInv == TypeOK /\ EnabledFirst /\ TrackedSync /\ ReadInv

LEMMA CallFacts ==
  ASSUME TypeOK
  PROVE  /\ Reached.cyc \in Cycle /\ Reached.cnt \in Count /\ Reached.sec \in Sec
         /\ first.cyc \in Cycle /\ elapsed \in Nat
BY TypeFacts, ClientAssumption DEF TypeOK, Time

(* Multiples of a cycle. *)
LEMMA Multiples ==
  ASSUME NEW k \in Nat
  PROVE  /\ k * T \in Nat /\ (k + 1) * T = k * T + T /\ 0 * T = 0
         /\ k = N - 1 => k * T > MaxCall
BY TimersAssumption, ClientAssumption DEF T

(* A tick within a call that has loaded a cycle does not bring that cycle back. *)
LEMMA TickNotRound ==
  ASSUME TypeOK, TypeOK', CycleLoaded, Reached' = Advance(Reached), elapsed < MaxCall,
         elapsed' = elapsed + 1, UNCHANGED first
  PROVE  /\ CycleLoaded'
         /\ Reached'.cyc = first.cyc => UNCHANGED <<Reached.sec, Reached.cyc>>
<1> DEFINE k == CyclesSince(first.cyc)
<1>1. /\ Reached.cyc \in Cycle /\ Reached.cnt \in Count
      /\ first.cyc \in Cycle /\ elapsed \in Nat /\ N \in Nat /\ T \in Nat /\ T > 0 /\ MaxCall \in Nat
  BY CallFacts, TimersAssumption, ClientAssumption DEF T
<1>2. k \in 0 .. N - 1
  BY <1>1 DEF CyclesSince, Cycle
<1>3. Reached \in Time
  BY TypeFacts DEF TypeOK
<1>4. CASE Reached.cnt = T - 1
  <2>1. Reached'.cnt = 0 /\ Reached'.cyc = IF Reached.cyc = N - 1 THEN 0 ELSE Reached.cyc + 1
    BY <1>3, <1>4, AdvanceParts
  <2>2. k # N - 1
    <3>1. k * T <= elapsed
      <4>1. k * T \in Nat
        BY <1>2, Multiples
      <4> QED
        BY <1>1, <1>4, <4>1 DEF CycleLoaded
    <3>2. k = N - 1 => k * T > MaxCall
      BY <1>2, Multiples
    <3>3. k * T \in Nat
      BY <1>2, Multiples
    <3> QED
      BY <1>1, <3>1, <3>2, <3>3
  <2>3. CyclesSince(first.cyc)' = k + 1
    BY <1>1, <1>2, <2>1, <2>2 DEF CyclesSince, Cycle
  <2>4. Reached'.cyc # first.cyc
    BY <1>1, <1>2, <2>1, <2>2 DEF CyclesSince, Cycle
  <2>5. CycleLoaded'
    <3>1. (k + 1) * T = k * T + T /\ k * T \in Nat
      BY <1>2, Multiples
    <3>2. k * T + (T - 1) <= elapsed + (T - 1)
      BY <1>4 DEF CycleLoaded
    <3>3. (k + 1) * T + 0 <= (elapsed + 1) + (T - 1)
      BY <1>1, <3>1, <3>2
    <3> QED
      BY <2>1, <2>3, <3>3 DEF CycleLoaded
  <2> QED
    BY <2>4, <2>5
<1>5. CASE Reached.cnt # T - 1
  <2>1. Reached' = [sec |-> Reached.sec, cyc |-> Reached.cyc, cnt |-> Reached.cnt + 1]
    BY <1>5 DEF Advance
  <2>2. CyclesSince(first.cyc)' = k
    BY <2>1 DEF CyclesSince
  <2>3. CycleLoaded'
    <3>1. k * T \in Nat
      BY <1>2, Multiples
    <3>2. k * T + Reached.cnt <= elapsed + (T - 1)
      BY DEF CycleLoaded
    <3>3. Reached.cnt \in Int
      BY <1>1 DEF Count
    <3>4. k * T + (Reached.cnt + 1) <= (elapsed + 1) + (T - 1)
      BY <1>1, <3>1, <3>2, <3>3
    <3> QED
      BY <2>1, <2>2, <3>4 DEF CycleLoaded
  <2> QED
    BY <2>1, <2>3
<1> QED
  BY <1>4, <1>5

(* What a tick, a match and a PPS leave of the clock that a call relies on. *)
LEMMA ReachedOnly ==
  ASSUME ReadInv, UNCHANGED <<Reached, callVars, ntpOffset>>, elapsed \in Nat, elapsed' = elapsed,
         tracked' => tracked, TypeOK
  PROVE  ReadInv'
<1>1. UNCHANGED <<pc, first, again, CyclesSince(first.cyc), Reached.cnt, Reached.cyc, Reached.sec>>
  BY DEF callVars, CyclesSince
<1> QED
  BY <1>1 DEF ReadInv, CycleLoaded, CountLoaded, SecondsLoaded

LEMMA TickRead ==
  ASSUME CallInv, ClientTick
  PROVE  ReadInv'
<1> USE DEF CallInv
<1> SUFFICES ASSUME tracked, pc # "idle" PROVE ReadInv'
  BY DEF ClientTick, callVars, ReadInv
<1>1. timsk4
  BY DEF TrackedSync, EnabledFirst
<1>2. TypeOK'
  BY NextType DEF Next
<1>3. /\ elapsed < MaxCall /\ elapsed' = elapsed + 1
      /\ UNCHANGED <<pc, first, again, tracked, ntpOffset>>
  BY DEF ClientTick, callVars, Tick, syncVars
<1>4. CASE Reached' = Advance(Reached)
  <2>1. CycleLoaded => /\ CycleLoaded'
                       /\ Reached'.cyc = first.cyc => UNCHANGED <<Reached.sec, Reached.cyc>>
    BY <1>2, <1>3, <1>4, TickNotRound
  <2>2. CycleLoaded /\ CountLoaded => CountLoaded'
    BY <1>3, <2>1 DEF CountLoaded
  <2>3. CycleLoaded /\ SecondsLoaded => SecondsLoaded'
    BY <1>3, <2>1 DEF SecondsLoaded
  <2> QED
    BY <1>3, <2>1, <2>2, <2>3 DEF ReadInv
<1>5. CASE Reached' = Reached
  <2>1. CycleLoaded => CycleLoaded'
    <3>1. /\ elapsed \in Nat /\ Reached.cnt \in Int /\ CyclesSince(first.cyc) \in 0 .. N - 1
          /\ T \in Nat
      BY CallFacts, TimersAssumption DEF Count, Cycle, CyclesSince, T
    <3>2. CyclesSince(first.cyc) * T \in Nat
      BY <3>1, Multiples
    <3>3. UNCHANGED <<CyclesSince(first.cyc), Reached.cnt>>
      BY <1>3, <1>5 DEF CyclesSince
    <3> QED
      BY <1>3, <3>1, <3>2, <3>3 DEF CycleLoaded
  <2>2. (CountLoaded => CountLoaded') /\ (SecondsLoaded => SecondsLoaded')
    BY <1>3, <1>5 DEF CountLoaded, SecondsLoaded
  <2> QED
    BY <1>3, <2>1, <2>2 DEF ReadInv
<1> QED
  BY <1>1, <1>4, <1>5, TickParts DEF ClientTick, TypeOK

LEMMA PpsRead ==
  ASSUME CallInv, ClientPps
  PROVE  ReadInv'
<1> SUFFICES ASSUME tracked' PROVE ReadInv'
  BY DEF ReadInv
<1>1. tracked /\ timersInitialized = 2
  BY DEF ClientPps, CallInv, TrackedSync
<1>2. PpsTracked
  BY <1>1 DEF ClientPps, PpsCaptureIsr, PpsPreset, PpsAcquired
<1>3. UNCHANGED <<Reached, callVars, ntpOffset, elapsed>>
  BY <1>2 DEF ClientPps, PpsCaptureIsr, PpsTracked, Reached
<1> QED
  BY <1>1, <1>3, CallFacts, ReachedOnly DEF CallInv

LEMMA MatchRead ==
  ASSUME CallInv, ClientMatch
  PROVE  ReadInv'
<1> SUFFICES ASSUME tracked PROVE ReadInv'
  BY DEF ClientMatch, ReadInv
<1>1. Reached' = Reached
  BY MatchExact DEF ClientMatch, CallInv, TypeOK, TrackedSync
<1>2. UNCHANGED <<callVars, ntpOffset, elapsed, tracked>>
  BY DEF ClientMatch, TimerMatchIsr, syncVars
<1> QED
  BY <1>1, <1>2, CallFacts, ReachedOnly DEF CallInv

(* The main program sees the fields of a clock with no match pending. *)
LEMMA LoadRead ==
  ASSUME CallInv, GetCurrentNtpTime
  PROVE  ReadInv'
<1> USE DEF CallInv, Load
<1> SUFFICES ASSUME tracked PROVE ReadInv'
  BY DEF GetCurrentNtpTime, LoadSeconds, LoadCycle, LoadCount, LoadSeconds2, LoadCycle2, Return,
         ReadInv
<1>1. timersInitialized = 2 /\ timsk4
  BY DEF TrackedSync, EnabledFirst
<1>2. ~ocf4a
  BY <1>1 DEF GetCurrentNtpTime, LoadSeconds, LoadCycle, LoadCount, LoadSeconds2, LoadCycle2,
              Return, Main, InterruptPending
<1>3. Reached = [sec |-> ntpSeconds, cyc |-> subCycleCount, cnt |-> tcnt]
  BY <1>2 DEF Reached
<1>4. /\ Reached.sec = ntpSeconds /\ Reached.cyc = subCycleCount /\ Reached.cnt = tcnt
      /\ Reached.cnt \in Count /\ Reached.cyc \in Cycle /\ elapsed \in Nat /\ T \in Nat
  BY <1>3, CallFacts, TimersAssumption DEF T
<1>5. UNCHANGED <<Reached, ntpOffset, tracked>>
  <2>1. UNCHANGED timersVars /\ UNCHANGED tracked
    BY DEF GetCurrentNtpTime, LoadSeconds, LoadCycle, LoadCount, LoadSeconds2, LoadCycle2, Return
  <2>2. UNCHANGED <<ntpOffset, ocf4a, tcnt, ntpSeconds, subCycleCount>>
    BY <2>1 DEF timersVars, hwVars, countVars, syncVars
  <2> QED
    BY <2>1, <2>2 DEF Reached
<1>6. first'.cyc = subCycleCount /\ UNCHANGED elapsed => CycleLoaded'
  <2> SUFFICES ASSUME first'.cyc = subCycleCount, UNCHANGED elapsed PROVE CycleLoaded'
    OBVIOUS
  <2>1. CyclesSince(first.cyc)' = 0
    BY <1>4, <1>5 DEF CyclesSince, Cycle
  <2>2. 0 * T = 0
    BY Multiples
  <2>3. 0 + Reached.cnt <= elapsed + (T - 1)
    BY <1>4 DEF Count
  <2> QED
    BY <1>5, <2>1, <2>2, <2>3 DEF CycleLoaded
<1>7. UNCHANGED <<first, elapsed>> => (CycleLoaded => CycleLoaded')
  BY <1>5 DEF CycleLoaded, CyclesSince
<1>8. CASE LoadSeconds \/ Return
  BY <1>8 DEF LoadSeconds, Return, Main, ReadInv
<1>9. CASE LoadCycle
  <2>1. first'.cyc = subCycleCount
    BY <1>9, CallFacts DEF LoadCycle, TypeOK
  <2> QED
    BY <1>6, <1>9, <2>1 DEF LoadCycle, Main, ReadInv
<1>10. CASE LoadCount
  <2>1. pc = "count" /\ pc' = "seconds2" /\ UNCHANGED <<first, elapsed>>
    BY <1>10 DEF LoadCount, Main
  <2>2. again'.cnt = tcnt /\ again'.at = ClockTime(0)
    BY <1>10 DEF LoadCount, TypeOK, Reading
  <2>3. ClockTime(0) = NtpTime(Reached.sec, Reached.cyc, tcnt, ntpOffset)
    <3>1. Offset + 0 = ntpOffset
      BY <1>1, TypeFacts DEF Offset, TypeOK
    <3> QED
      BY <1>4, <3>1 DEF ClockTime
  <2>4. CountLoaded'
    BY <1>5, <2>2, <2>3 DEF CountLoaded
  <2> QED
    BY <1>7, <2>1, <2>4 DEF ReadInv
<1>11. CASE LoadSeconds2
  <2>1. pc = "seconds2" /\ pc' = "cycle2" /\ UNCHANGED <<first, elapsed>>
    BY <1>11 DEF LoadSeconds2, Main
  <2>2. again'.sec = ntpSeconds /\ again'.cnt = again.cnt /\ again'.at = again.at
    BY <1>11 DEF LoadSeconds2, TypeOK, Reading
  <2>3. (CountLoaded => CountLoaded') /\ SecondsLoaded'
    BY <1>4, <1>5, <2>1, <2>2 DEF CountLoaded, SecondsLoaded
  <2> QED
    BY <1>7, <2>1, <2>3 DEF ReadInv
<1>12. CASE LoadCycle2
  <2>1. pc = "cycle2" /\ UNCHANGED elapsed /\ first'.cyc = subCycleCount
    BY <1>12 DEF LoadCycle2, Main
  <2>2. /\ again'.cyc = subCycleCount /\ again'.cnt = again.cnt
        /\ again'.sec = again.sec /\ again'.at = again.at
    BY <1>12 DEF LoadCycle2, TypeOK, Reading
  <2>3. CASE Changed
    BY <1>6, <1>12, <2>1, <2>3 DEF LoadCycle2, Main, ReadInv
  <2>4. CASE ~Changed
    <3>1. pc' = "return" /\ Reached.cyc = first.cyc
      BY <1>4, <1>12, <2>4 DEF LoadCycle2, Main, Changed
    <3>2. /\ again.at = NtpTime(Reached.sec, Reached.cyc, again.cnt, ntpOffset)
          /\ again.sec = Reached.sec
      BY <2>1, <3>1 DEF ReadInv, CountLoaded, SecondsLoaded
    <3> QED
      BY <1>4, <1>5, <2>2, <3>1, <3>2 DEF ReadInv
  <2> QED
    BY <2>3, <2>4
<1> QED
  BY <1>8, <1>9, <1>10, <1>11, <1>12 DEF GetCurrentNtpTime

LEMMA NextCall == CallInv /\ [Next]_vars => CallInv'
<1> SUFFICES ASSUME CallInv, [Next]_vars PROVE CallInv'
  OBVIOUS
<1> USE DEF CallInv
<1>1. TypeOK'
  BY NextType
<1>2. CASE ClientTick
  <2>1. UNCHANGED <<timersInitialized, timsk4, tracked>>
    BY <1>2 DEF ClientTick, Tick, syncVars
  <2> QED
    BY <1>1, <1>2, <2>1, TickRead DEF EnabledFirst, TrackedSync
<1>3. CASE ClientMatch
  <2>1. UNCHANGED <<timersInitialized, timsk4, tracked>>
    BY <1>3 DEF ClientMatch, TimerMatchIsr, syncVars
  <2> QED
    BY <1>1, <1>3, <2>1, MatchRead DEF EnabledFirst, TrackedSync
<1>4. CASE ClientPps
  <2>1. EnabledFirst' /\ TrackedSync'
    BY <1>4 DEF ClientPps, PpsCaptureIsr, EnabledFirst, TrackedSync
  <2> QED
    BY <1>1, <1>4, <2>1, PpsRead
<1>5. CASE Start
  <2>1. timersInitialized' = 0 /\ ~tracked'
    BY <1>5 DEF Start, StartTimers, syncVars, EnabledFirst, TrackedSync
  <2> QED
    BY <1>1, <2>1 DEF EnabledFirst, TrackedSync, ReadInv
<1>6. CASE SetNtpSeconds
  <2>1. EnabledFirst' /\ TrackedSync'
    BY <1>6 DEF SetNtpSeconds, Synchronised, hwVars, syncVars, EnabledFirst, TrackedSync
  <2>2. ReadInv'
    BY <1>6 DEF SetNtpSeconds, Main, ReadInv
  <2> QED
    BY <1>1, <2>1, <2>2
<1>7. CASE GetCurrentNtpTime
  <2>1. UNCHANGED <<timersInitialized, timsk4, tracked>>
    BY <1>7 DEF GetCurrentNtpTime, LoadSeconds, LoadCycle, LoadCount, LoadSeconds2, LoadCycle2,
                Return, Load, timersVars, hwVars, syncVars
  <2> QED
    BY <1>1, <1>7, <2>1, LoadRead DEF EnabledFirst, TrackedSync
<1>8. CASE UNCHANGED vars
  <2>1. UNCHANGED <<timersInitialized, timsk4, tracked, callVars, elapsed, ntpOffset, Reached>>
    BY <1>8 DEF vars, timersVars, hwVars, syncVars, countVars, Reached
  <2> QED
    BY <1>1, <2>1, CallFacts, ReachedOnly DEF EnabledFirst, TrackedSync
<1> QED
  BY <1>2, <1>3, <1>4, <1>5, <1>6, <1>7, <1>8 DEF Next

(* GetCurrentNtpTime returns what the clock showed when the returned count was *)
(* read: a reading, shorter than a second but a cycle, is never torn.          *)
THEOREM CurrentTimeCorrect == Spec => []CurrentTimeExact
<1>1. Init => CallInv
  <2>1. Init => TypeOK
    BY InitType
  <2> QED
    BY <2>1 DEF Init, TimersInit, CallInv, EnabledFirst, TrackedSync, ReadInv
<1>2. CallInv => CurrentTimeExact
  BY DEF CallInv, ReadInv, CurrentTimeExact
<1> QED
  BY <1>1, <1>2, NextCall, PTL DEF Spec
=============================================================================
