------------------------------ MODULE SerialGps ------------------------------
(***************************************************************************)
(* What the sketch relies on of a reference clock, whichever is built in:  *)
(* a step brings at most one report; a report comes only after a query was *)
(* sent; the time it brings, if any, is that of the current second and is  *)
(* handed over once; and the three conditions are consistent.  StratumTen  *)
(* is built on this promise, IcmSmt360 and HP55300A implement it.          *)
(***************************************************************************)
EXTENDS Integers

CONSTANT NoTime   \* 0: no new time of day

VARIABLES
  now,                  \* external: the current second in NTP time
  queried,              \* history: a query has been sent
  ioInProcess,          \* an exchange is under way
  currentTime,          \* the time the last step brought
  locked, holdover, allConditionsNormal

conditions == <<locked, holdover, allConditionsNormal>>
gpsVars == <<now, queried, ioInProcess, currentTime, conditions>>

(* A receiver whose conditions are all normal is locked, and one that is    *)
(* locked is not in holdover.                                               *)
Consistent == /\ allConditionsNormal => locked
              /\ locked => ~holdover

GpsInit ==
  /\ now \in Int
  /\ ~queried /\ ~ioInProcess
  /\ currentTime = NoTime
  /\ locked \in BOOLEAN /\ holdover \in BOOLEAN /\ allConditionsNormal \in BOOLEAN
  /\ Consistent

SecondPasses ==
  /\ now' = now + 1
  /\ currentTime' = NoTime
  /\ UNCHANGED <<queried, ioInProcess, conditions>>

(* A step without a report: a query may be sent, or given up. *)
NoReport ==
  /\ currentTime' = NoTime
  /\ queried' \in {queried, TRUE}
  /\ ioInProcess' \in BOOLEAN
  /\ ioInProcess' => ioInProcess \/ queried'
  /\ UNCHANGED <<now, conditions>>

Report ==
  /\ queried
  /\ currentTime' \in {NoTime, now}
  /\ locked' \in BOOLEAN /\ holdover' \in BOOLEAN /\ allConditionsNormal' \in BOOLEAN
  /\ Consistent'
  /\ ioInProcess' \in BOOLEAN
  /\ UNCHANGED <<now, queried>>

GpsNext == SecondPasses \/ NoReport \/ Report

GpsSpec == GpsInit /\ [][GpsNext]_gpsVars
=============================================================================
