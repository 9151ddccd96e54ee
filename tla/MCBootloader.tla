------------------------------ MODULE MCBootloader ------------------------------
(***************************************************************************)
(* The bootloader, in each behaviour either byte by byte on the serial     *)
(* line or command by command on the flash.                                  *)
(***************************************************************************)
EXTENDS BootMessage

CONSTANTS
  Parts,
  AppEnd, ImageSize, Resets, MaxResets, MaxLost, MaxLostAnswers, MaxSessions

VARIABLES
  part,
  mode, address, eraseAddress, isLeave, flash, command, step, page, verified, alive,
  resets, lost, lostAnswers, sessions, untouched

Flash == INSTANCE Stk500boot

ASSUME BootloaderAssumption == Flash!BootConstants

(* Bodies of bytes that mean something else elsewhere; MESSAGE_START itself  *)
(* is in no message but at its start.                                          *)
SignOnBody == <<1>>
SomeBodies == {<<5, 5, 5>>, <<1, 4>>, <<2, 3, 0>>}

flashVars ==
  <<mode, address, eraseAddress, isLeave, flash, command, step, page, verified, alive,
    resets, lost, lostAnswers, sessions, untouched>>
bothVars == <<part, vars, flashVars>>

BothInit ==
  /\ Init /\ Flash!Init /\ part \in Parts
  /\ part = "line" => flash = [p \in Flash!Pages |-> {}]

OnLine(A)  == part = "line" /\ A /\ UNCHANGED <<part, flashVars>>
OnFlash(A) == part = "flash" /\ A /\ UNCHANGED <<part, vars>>

BothNext == OnLine(Next) \/ OnFlash(Flash!Next)

(* The host repeats its message; the bootloader goes on with what it has. *)
Fairness ==
  /\ WF_bothVars(OnLine(Host))
  /\ WF_bothVars(OnLine(Process))
  /\ WF_bothVars(OnFlash(Flash!BootTimeout))
  /\ WF_bothVars(OnFlash(Flash!LineSilent))
  /\ WF_bothVars(OnFlash(Flash!Answer))

BothSpec == BothInit /\ [][BothNext]_bothVars /\ Fairness

-----------------------------------------------------------------------------
BothTypeOK == TypeOK /\ Flash!TypeOK

(* See Stk500boot: a programmed page holds what was sent for it, alone. *)
ProgramExact == part = "flash" => Flash!ProgramExact

(* See Stk500boot: without a host the board starts its program. *)
LeavesBoot == part = "flash" => Flash!LeavesBoot

(* See BootMessage: the host that repeats its message is answered. *)
EachAnswered == part = "line" => Answered

(* See Stk500boot: the silence starts no half of a program. *)
ValidWhenStarted == Flash!ValidWhenStarted
=============================================================================
