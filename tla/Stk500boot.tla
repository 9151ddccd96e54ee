------------------------------ MODULE Stk500boot ------------------------------
(***************************************************************************)
(* The bootloader (stk500boot.c): from the reset of the board to the start *)
(* of the application, and the commands that program the flash.  A page    *)
(* of flash holds the and of all that was written since it was erased: it   *)
(* is the set of what was written, empty when erased.  The host is not of  *)
(* this repository: it signs on, asks for an erasure, loads the first       *)
(* address, sends page after page, reads them back and leaves, and repeats *)
(* a command that gets no answer.  BootMessage models how a command         *)
(* arrives.                                                                  *)
(***************************************************************************)
EXTENDS Naturals, Sequences

CONSTANTS
  AppEnd,          \* pages below the bootloader
  ImageSize,       \* pages of the program, from page 0 on
  Resets,          \* what may reset the board
  MaxResets, MaxLost, MaxLostAnswers, MaxSessions

(* No command is carried out twice so often that it passes the end.          *)
BootConstants ==
  /\ {AppEnd, ImageSize, MaxLostAnswers} \subseteq Nat
  /\ ImageSize > 0 /\ ImageSize + MaxLostAnswers <= AppEnd
  /\ Resets \subseteq {"external", "watchdog"}

VARIABLES
  mode,            \* "waiting" for a first byte, "commands", or "app": the application
  address, eraseAddress,
  isLeave,
  flash,           \* what was written to each page since its erasure
  command,         \* the command in msgBuffer, NONE once it is answered
  step,            \* the host's place in its script
  page,            \* what the last CMD_READ_FLASH_ISP answered
  verified,        \* the pages that were read back as they should be
  alive,           \* the host is there
  resets, lost, lostAnswers, sessions,
  untouched        \* no reset and no lost answer since the host signed on

hostVars  == <<step, verified, alive, resets, lost, lostAnswers, sessions, untouched>>
bootVars  == <<mode, address, eraseAddress, isLeave, flash, page>>
vars == <<bootVars, command, hostVars>>

Pages == 0 .. AppEnd - 1
NONE  == <<"none", 0>>

(* Page p of the program the host writes; each page held something before.  *)
New(p) == <<"new", p>>
Old(p) == <<"old", p>>

Init ==
  /\ mode = "waiting" /\ address = 0 /\ eraseAddress = 0 /\ isLeave = FALSE
  /\ flash \in {[p \in Pages |-> {Old(p)}], [p \in Pages |-> {}]}
  /\ command = NONE /\ step = 1 /\ page = {} /\ verified = {} /\ alive = TRUE
  /\ resets = 0 /\ lost = 0 /\ lostAnswers = 0 /\ sessions = 1 /\ untouched = TRUE

-----------------------------------------------------------------------------
(* The start of main: the variables of main are new after any reset; after a *)
(* watchdog reset the application is started at once.                          *)
ResetBoard(why) ==
  /\ mode' = IF why = "watchdog" THEN "app" ELSE "waiting"
  /\ address' = 0 /\ eraseAddress' = 0 /\ isLeave' = FALSE
  /\ command' = NONE
  /\ UNCHANGED <<flash, page>>

(* No byte within boot_timeout: the application is started.                   *)
BootTimeout ==
  /\ mode = "waiting"
  /\ mode' = "app"
  /\ UNCHANGED <<address, eraseAddress, isLeave, flash, page, command, hostVars>>

(* recchar_timeout: the line was silent for MAX_TIME_COUNT.  The first word   *)
(* of the flash decides; a host that is there repeats itself before.           *)
MutantProgrammed(contents) == contents[AppEnd - 1] # {}
Programmed(contents) == contents[0] # {}

LineSilent ==
  /\ mode = "commands" /\ command = NONE /\ ~alive
  /\ Programmed(flash)
  /\ mode' = "app"
  /\ UNCHANGED <<address, eraseAddress, isLeave, flash, page, command, hostVars>>

-----------------------------------------------------------------------------
(* CMD_CHIP_ERASE_ISP erases nothing: pages are erased as they are written.  *)
MutantChipErase == UNCHANGED <<address, eraseAddress, isLeave, flash, page>>

ChipErase ==
  /\ eraseAddress' = 0
  /\ UNCHANGED <<address, isLeave, flash, page>>

LoadAddress(p) ==
  /\ address' = p
  /\ UNCHANGED <<eraseAddress, isLeave, flash, page>>

(* CMD_PROGRAM_FLASH_ISP: one page is erased, the next in turn; the page of   *)
(* the loaded address is written.                                             *)
EraseNext == IF eraseAddress < AppEnd THEN [flash EXCEPT ![eraseAddress] = {}] ELSE flash

ProgramFlash(data) ==
  /\ eraseAddress' = IF eraseAddress < AppEnd THEN eraseAddress + 1 ELSE eraseAddress
  /\ flash' = [EraseNext EXCEPT ![address] = @ \cup {data}]
  /\ address' = address + 1
  /\ UNCHANGED <<isLeave, page>>

ReadFlash ==
  /\ page' = flash[address] /\ address' = address + 1
  /\ UNCHANGED <<eraseAddress, isLeave, flash>>

LeaveProgmode ==
  /\ isLeave' = TRUE
  /\ UNCHANGED <<address, eraseAddress, flash, page>>

(* Sign on, parameters, signature, fuses: an answer and nothing else.         *)
OtherCommand == UNCHANGED <<address, eraseAddress, isLeave, flash, page>>

(* The switch over msgBuffer[0], and the end of the loop. *)
Carry(c) ==
  /\ CASE c[1] = "erase"   -> ChipErase
       [] c[1] = "load"    -> LoadAddress(c[2])
       [] c[1] = "program" -> ProgramFlash(New(c[2]))
       [] c[1] = "read"    -> ReadFlash
       [] c[1] = "leave"   -> LeaveProgmode
       [] OTHER            -> OtherCommand
  /\ mode' = IF isLeave' THEN "app" ELSE "commands"

-----------------------------------------------------------------------------
Script ==
  <<<<"sign on", 0>>, <<"erase", 0>>, <<"load", 0>>>>
  \o [p \in 1 .. ImageSize |-> <<"program", p - 1>>]
  \o <<<<"load", 0>>>>
  \o [p \in 1 .. ImageSize |-> <<"read", p - 1>>]
  \o <<<<"leave", 0>>>>

Written == step > ImageSize + 3        \* every page was sent and answered

(* The host's command reaches the bootloader; the first byte of one ends the  *)
(* wait after a reset.                                                         *)
Request ==
  /\ alive /\ step <= Len(Script) /\ command = NONE /\ mode # "app"
  /\ command' = Script[step] /\ mode' = "commands"
  /\ UNCHANGED <<address, eraseAddress, isLeave, flash, page, hostVars>>

(* A command that is lost, or finds the application running, is sent again. *)
RequestLost ==
  /\ alive /\ step <= Len(Script) /\ command = NONE /\ lost < MaxLost
  /\ lost' = lost + 1
  /\ UNCHANGED <<bootVars, command, step, verified, alive, resets, lostAnswers, sessions,
                 untouched>>

(* The command is carried out and its answer comes; the host compares what    *)
(* it reads back, and gives up when that differs.                              *)
Answer ==
  /\ command # NONE /\ Carry(command) /\ command' = NONE
  /\ step' = step + 1
  /\ alive' = (alive /\ (command[1] = "read" => page' = {New(command[2])}))
  /\ verified' = IF command[1] = "read" /\ alive' THEN verified \cup {command[2]} ELSE verified
  /\ UNCHANGED <<resets, lost, lostAnswers, sessions, untouched>>

AnswerLost ==
  /\ command # NONE /\ Carry(command) /\ command' = NONE
  /\ lostAnswers < MaxLostAnswers /\ lostAnswers' = lostAnswers + 1
  /\ untouched' = FALSE
  /\ UNCHANGED <<step, verified, alive, resets, lost, sessions>>

(* The host starts over; it resets the board first, if that works.            *)
StartOver ==
  /\ alive /\ sessions < MaxSessions /\ sessions' = sessions + 1
  /\ step' = 1 /\ verified' = {} /\ untouched' = TRUE
  /\ \/ ResetBoard("external")
     \/ command = NONE /\ UNCHANGED <<bootVars, command>>
  /\ UNCHANGED <<alive, resets, lost, lostAnswers>>

(* The board is reset and the host does not know. *)
Reset ==
  /\ resets < MaxResets /\ resets' = resets + 1
  /\ \E why \in Resets : ResetBoard(why)
  /\ untouched' = FALSE
  /\ UNCHANGED <<step, verified, alive, lost, lostAnswers, sessions>>

HostGone ==
  /\ alive /\ alive' = FALSE
  /\ UNCHANGED <<bootVars, command, step, verified, resets, lost, lostAnswers, sessions,
                 untouched>>

Next == BootTimeout \/ LineSilent \/ Request \/ RequestLost \/ Answer \/ AnswerLost \/ StartOver
        \/ Reset \/ HostGone

-----------------------------------------------------------------------------
TypeOK ==
  /\ mode \in {"waiting", "commands", "app"}
  /\ address \in 0 .. AppEnd /\ eraseAddress \in 0 .. AppEnd
  /\ isLeave \in BOOLEAN /\ alive \in BOOLEAN /\ untouched \in BOOLEAN
  /\ \A p \in Pages : flash[p] \subseteq {New(q) : q \in Pages} \cup {Old(p)}
  /\ step \in 1 .. Len(Script) + 1 /\ verified \subseteq Pages

(* When the last page is answered, each page holds what was sent for it and   *)
(* nothing else: the page erased was the page written, although the two       *)
(* addresses advance apart.  Commands may be lost and the host may have        *)
(* started over, with or without a reset of the board.                        *)
ProgramExact == Written /\ untouched => \A p \in 0 .. ImageSize - 1 : flash[p] = {New(p)}

(* A board with a program never stays in the bootloader once the host is      *)
(* gone.                                                                       *)
LeavesBoot == (~alive /\ flash[0] # {}) ~> (mode = "app")

(* "make sure its valid before jumping to it" (stk500boot.c:515): the          *)
(* application that the silence starts is a whole one, the old or the new.     *)
ValidWhenStarted ==
  [][mode = "commands" /\ mode' = "app" /\ ~isLeave'
     => \/ \A p \in Pages : flash[p] = {Old(p)}
        \/ \A p \in 0 .. ImageSize - 1 : flash[p] = {New(p)}]_vars
=============================================================================
