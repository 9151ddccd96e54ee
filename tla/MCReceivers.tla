----------------------------- MODULE MCReceivers -----------------------------
(***************************************************************************)
(* Both reference clocks, of which the build has one (GPS_IS_ICM_SMT_360,   *)
(* GPS_IS_HP55300A), and the promise of SerialGps that either implements.  *)
(***************************************************************************)
EXTENDS NtpTime, FiniteSets

CONSTANTS
  Builds,
  BufferSize, MaxHoldover, FirstSecond, LastSecond, MaxLost, AckAtTimeout,   \* IcmSmt360
  TodBuffer, Seconds, MaxGarbled                                             \* HP55300A

ASSUME HpAssumption == Seconds \in 0 .. SecondsPerDay
ASSUME IcmAssumption == LastSecond \in 1 .. 60 * 60 /\ FirstSecond \in 1 .. LastSecond

VARIABLES
  build,
  now, requests, line, lost, todBuffer, elapsed, ioInProcess, locked, holdover,
  allConditionsNormal, currentTime, queried,
  hunting, som, requestState, initIndex, haveUtcOffset, status,   \* IcmSmt360
  firstDay, todOnRequest                                                     \* HP55300A

Status(mode, hold, alarm, gps, activity) ==
  [mode |-> mode, hold |-> hold, alarm |-> alarm, gps |-> gps, activity |-> activity]

(* Normal; without a fix and recovering from a holdover; a holdover that is too *)
(* long; and alarms that make a SOM, or two, on the line.                      *)
Reports ==
  {Status(0, 0, 0, 0, 0), Status(4, 0, 16, 8, 8), Status(3, 2, 0, 0, 0), Status(0, 0, 4112, 0, 0)}

Day(year, month, day) == [year |-> year, month |-> month, day |-> day]

(* The end of a year, of a month, of February in a leap year, in and a century  *)
(* without a leap day.                                                         *)
FirstDays == {Day(2016, 12, 31), Day(2021, 4, 30), Day(2024, 2, 29), Day(2100, 2, 28)}

Icm == INSTANCE IcmSmt360
Hp  == INSTANCE HP55300A

icmVars == <<hunting, som, requestState, initIndex, haveUtcOffset, status>>
hpVars  == <<firstDay, todOnRequest>>
vars == <<build, now, requests, line, lost, todBuffer, elapsed, ioInProcess, locked, holdover,
          allConditionsNormal, currentTime, queried, icmVars, hpVars>>

NoHp  == firstDay = Day(0, 0, 0) /\ todOnRequest = FALSE
NoIcm == /\ hunting = FALSE /\ som = 0 /\ requestState = "none" /\ initIndex = 0
         /\ haveUtcOffset = FALSE /\ status = Status(0, 0, 0, 0, 0)

Init == /\ build \in Builds
        /\ \/ build = "icm" /\ Icm!Init /\ NoHp
           \/ build = "hp" /\ Hp!Init /\ NoIcm

IcmNext == build = "icm" /\ Icm!Next /\ UNCHANGED <<build, hpVars>>
HpNext  == build = "hp" /\ Hp!Next /\ UNCHANGED <<build, icmVars>>

Next == IcmNext \/ HpNext

Spec ==
  /\ Init
  /\ [][Next]_vars
  /\ WF_vars(build = "icm" /\ Icm!Step /\ UNCHANGED <<build, hpVars>>)
  /\ WF_vars(build = "icm" /\ Icm!Elapse /\ UNCHANGED <<build, hpVars>>)
  /\ WF_vars(build = "hp" /\ Hp!Step /\ UNCHANGED <<build, icmVars>>)
  /\ WF_vars(build = "hp" /\ Hp!Elapse /\ UNCHANGED <<build, icmVars>>)

-----------------------------------------------------------------------------
TypeOK == /\ build = "icm" => Icm!TypeOK
          /\ build = "hp" => Hp!TypeOK

(* See IcmSmt360 and HP55300A: the time that is taken is the current second.  *)
TimeRight == /\ build = "icm" => Icm!TimeRight
             /\ build = "hp" => Hp!TimeRight

(* See IcmSmt360 and HP55300A: whatever is lost, the time is asked for again. *)
AsksAgain == /\ build = "icm" => Icm!AsksForTime
             /\ build = "hp" => Hp!AsksAgain

Promise == INSTANCE SerialGps
             WITH now <- IF build = "hp" THEN Hp!NtpNow ELSE now, NoTime <- -1

(* Either driver does what SerialGps promises the sketch. *)
KeepsPromise == Promise!GpsSpec

(* See IcmSmt360: a status report that was wholly read is the status. *)
ReportHeard == [][build = "icm" => Icm!ReportIsHeard]_vars
=============================================================================
