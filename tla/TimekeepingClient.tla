-------------------------- MODULE TimekeepingClient --------------------------
(***************************************************************************)
(* The clock of DisciplinedTimers under a main program that starts the     *)
(* timers, sets the seconds from the reference clock and reads the time,   *)
(* each at any moment its contract allows.  A reading is split wherever    *)
(* the match routine can come between two of its loads.                    *)
(***************************************************************************)
EXTENDS DisciplinedTimers

CONSTANT MaxCall   \* ticks that may pass within one reading, less than a second's cycles but one

ASSUME ClientAssumption == MaxCall \in Nat /\ MaxCall < (N - 1) * 2 * H

VARIABLES
  pc,       \* where the main program is in GetCurrentNtpTime
  first,    \* its variables seconds and cycle
  again,    \* seconds2, cycle2 and t2, and the history of what the clock showed at t2
  elapsed,  \* ticks since the call began
  tracked,  \* history: the seconds were set right since the timers last synchronised
  confirmed \* history: the seconds were set right on synchronised timers at least once

callVars == <<pc, first, again>>
vars     == <<timersVars, callVars, elapsed, tracked, confirmed>>

Synchronised == timersInitialized = 2 /\ skew = 0

NoFirst   == [sec |-> 0, cyc |-> 0]
Reading   == [sec : Sec, cyc : Cycle, cnt : Count, at : Time]
NoReading == [sec |-> 0, cyc |-> 0, cnt |-> 0, at |-> Midnight]

Init ==
  /\ TimersInit
  /\ pc = "idle"
  /\ first = NoFirst
  /\ again = NoReading
  /\ elapsed = 0
  /\ tracked = FALSE /\ confirmed = FALSE

(* The timers run on whatever the main program does; a call in progress gets *)
(* its turn before MaxCall ticks have passed.                                *)
ClientTick ==
  /\ Tick
  /\ pc # "idle" => elapsed < MaxCall
  /\ elapsed' = IF pc = "idle" THEN 0 ELSE elapsed + 1
  /\ UNCHANGED <<callVars, tracked, confirmed>>

ClientMatch == TimerMatchIsr /\ UNCHANGED <<callVars, elapsed, tracked, confirmed>>

ClientPps ==
  /\ PpsCaptureIsr
  /\ tracked' = (tracked /\ timersInitialized' = 2)
  /\ UNCHANGED <<callVars, elapsed, confirmed>>

(* The main program makes its steps between interrupts, never during one. *)
Main(from, to) ==
  /\ ~InterruptPending
  /\ pc = from
  /\ pc' = to

(* The loop starts the timers once, when the reference clock is normal. *)
Start ==
  /\ Main("idle", "idle")
  /\ ~timsk4
  /\ StartTimers
  /\ UNCHANGED <<first, again, elapsed, tracked, confirmed>>

MutantMaySetSeconds == TRUE

(* The contract of SetNtpSeconds: not in the last half of the last timer      *)
(* cycle, where the PPS has begun the new second and the match has still to   *)
(* carry into the seconds.                                                    *)
MaySetSeconds == ~(trueCyc = 0 /\ subCycleCount = N - 1)

(* SetNtpSeconds with the right second, whenever its contract allows. *)
SetNtpSeconds ==
  /\ Main("idle", "idle")
  /\ MaySetSeconds
  /\ ntpSeconds' = trueSec
  /\ ntpSecondsValid' = TRUE
  /\ tracked' = Synchronised
  /\ confirmed' = (confirmed \/ Synchronised)
  /\ UNCHANGED <<trueVars, hwVars, syncVars, subCycleCount, udpVars, interruptCount,
                 ppsCaptureFlag, first, again, elapsed>>

Load(from, to) ==
  /\ Main(from, to)
  /\ UNCHANGED <<timersVars, elapsed, tracked, confirmed>>

(* GetCurrentNtpTime: seconds and cycle, then count, seconds and cycle until *)
(* the last two come out the same twice.                                     *)
LoadSeconds ==
  /\ Load("idle", "cycle")
  /\ first' = [first EXCEPT !.sec = ntpSeconds]
  /\ UNCHANGED again

LoadCycle ==
  /\ Load("cycle", "count")
  /\ first' = [first EXCEPT !.cyc = subCycleCount]
  /\ UNCHANGED again

LoadCount ==
  /\ Load("count", "seconds2")
  /\ again' = [again EXCEPT !.cnt = tcnt, !.at = ClockTime(0)]
  /\ UNCHANGED first

LoadSeconds2 ==
  /\ Load("seconds2", "cycle2")
  /\ again' = [again EXCEPT !.sec = ntpSeconds]
  /\ UNCHANGED first

MutantChanged == again.sec # first.sec

Changed == subCycleCount # first.cyc \/ again.sec # first.sec

LoadCycle2 ==
  /\ IF Changed THEN Load("cycle2", "count") ELSE Load("cycle2", "return")
  /\ again' = [again EXCEPT !.cyc = subCycleCount]
  /\ first' = [sec |-> again.sec, cyc |-> subCycleCount]

Return ==
  /\ Main("return", "idle")
  /\ elapsed' = 0
  /\ first' = NoFirst /\ again' = NoReading   \* its variables go out of scope
  /\ UNCHANGED <<timersVars, tracked, confirmed>>

GetCurrentNtpTime ==
  LoadSeconds \/ LoadCycle \/ LoadCount \/ LoadSeconds2 \/ LoadCycle2 \/ Return

Next == ClientTick \/ ClientMatch \/ ClientPps \/ Start \/ SetNtpSeconds \/ GetCurrentNtpTime

(* The hardware never stops, a call that has begun returns, and the loop comes *)
(* by its start of the timers again and again, whatever it does in between;    *)
(* which of the other methods it calls, and when, is up to it.                 *)
Fairness ==
  /\ WF_vars(ClientTick) /\ WF_vars(ClientMatch) /\ WF_vars(ClientPps)
  /\ SF_vars(Start)
  /\ WF_vars(GetCurrentNtpTime /\ pc # "idle")

Spec == Init /\ [][Next]_vars /\ Fairness

-----------------------------------------------------------------------------
(* Every variable stays in its range: no count runs past its modulus. *)
TypeOK ==
  /\ TimersTypeOK
  /\ pc \in {"idle", "cycle", "count", "seconds2", "cycle2", "return"}
  /\ first \in [sec : Sec, cyc : Cycle]
  /\ again \in Reading
  /\ elapsed \in 0 .. MaxCall
  /\ tracked \in BOOLEAN /\ confirmed \in BOOLEAN

(* Once SetNtpSeconds has put the seconds right on synchronised timers, they  *)
(* follow true time through every rollover until the timers are given up.     *)
SecondsExact ==
  (tracked /\ ~Lost) => ClockTime(skew) = TrueTime

(* A PPS is accepted only as the middle of the last cycle, so each second has *)
(* exactly N matches between its PPS edges.                                   *)
PpsInLastCycle ==
  [][(ClientPps /\ timersInitialized' = 2) => subCycleCount = N - 1]_vars

(* GetCurrentNtpTime returns what the clock showed when the returned count    *)
(* was read: the retry loop leaves no interleaving with the match routine in   *)
(* which the cycle or the seconds belong to another moment than the count.     *)
CurrentTimeExact ==
  (pc = "return" /\ tracked) =>
    NtpTime(again.sec, again.cyc, again.cnt, ntpOffset) = again.at

(* However the oscillator slips and whichever pulses are missing, once that   *)
(* ends the timers synchronise again and stay synchronised.                   *)
Resynchronises == <>[](timersInitialized = 2 /\ Abs(skew) <= PpsTol)

(* "returns the current time in integer NTP seconds" (DisciplinedTimers.h:56): *)
(* once the seconds were set right on synchronised timers, a clock that is      *)
(* synchronised shows the right second.                                         *)
SecondsCurrent ==
  (confirmed /\ Synchronised) => ClockTime(0).sec = trueSec
=============================================================================
