------------------------------ MODULE BootMessage ------------------------------
(***************************************************************************)
(* The bootloader's side of the serial line (stk500boot.c): how main()     *)
(* collects the bytes it receives into a message of the STK500v2 protocol, *)
(* and the monitor that three exclamation marks at the start of a session  *)
(* open instead.  A byte is one of ByteSize values; the frame                *)
(*    MESSAGE_START, sequence number, two bytes of length, TOKEN, body,    *)
(*    exclusive or of all before it                                         *)
(* is that of the code.  The host that programs the board is not of this   *)
(* repository: it sends a message, waits for the answer, and sends the     *)
(* message again when none comes.  The line may change or lose bytes.       *)
(***************************************************************************)
EXTENDS Naturals, Sequences, SequencesExt

CONSTANTS
  ByteSize,       \* values of a byte
  MESSAGE_START, TOKEN, Bang,
  SignOn,         \* the body of the first message of any session
  Bodies,         \* the bodies of the other messages
  Noise,          \* what a byte may be changed to
  MaxMessages, MaxNoise,
  CounterSize,    \* values of rcvdCharCntr, an unsigned int
  MonitorChars, MonitorBangs,
  EepromPages, MaxKeys

ASSUME MessageAssumption ==
  /\ ByteSize = 8
  /\ {MESSAGE_START, TOKEN, Bang} \cup Noise \subseteq 0 .. ByteSize - 1
  /\ \A b \in Bodies \cup {SignOn} : Len(b) \in 1 .. ByteSize ^ 2 - 1

VARIABLES
  line,           \* "messages", "monitor", or "leave": the loop is left for the application
  msgParseState, checksum, seqNum, msgLength,
  msgBuffer,      \* the bytes of the body so far: ii is its length
  rcvdCharCntr, exPointCntr,
  monitor,        \* what the monitor waits for: a command, or a key that ends what it does
  gFlashIndex, gEepromIndex,
  seq, body,      \* the message the host sends
  frame,          \* its bytes
  sent,           \* the bytes of it that are on the line
  answered,       \* its answer has come
  noise,          \* bytes changed or lost
  torn,           \* a byte was lost, or one of the header changed, since the last message
  keys,           \* keys the operator has struck
  typed           \* the operator struck the first keys of the session

bufferVars  == <<msgParseState, checksum, seqNum, msgLength, msgBuffer>>
monitorVars == <<monitor, gFlashIndex, gEepromIndex>>
hostVars    == <<seq, body, frame, sent, answered, torn>>
vars == <<line, bufferVars, rcvdCharCntr, exPointCntr, monitorVars, hostVars, noise, keys, typed>>

Bytes == 0 .. ByteSize - 1
ParseStates ==
  {"ST_START", "ST_GET_SEQ_NUM", "ST_MSG_SIZE_1", "ST_MSG_SIZE_2", "ST_GET_TOKEN",
   "ST_GET_DATA", "ST_GET_CHECK", "ST_PROCESS"}

(* Exclusive or of two bytes of three bits. *)
Xor(a, b) ==
  LET bit(n) == n * (((a \div n) + (b \div n)) % 2) IN bit(1) + bit(2) + bit(4)

XorAll(s) == FoldLeft(Xor, 0, s)

Frame(s, b) ==
  LET head == <<MESSAGE_START, s, Len(b) \div ByteSize, Len(b) % ByteSize, TOKEN>>
  IN  (head \o b) \o <<XorAll(head \o b)>>

Init ==
  /\ line = "messages"
  /\ msgParseState = "ST_START" /\ checksum = 0 /\ seqNum = 0 /\ msgLength = 0
  /\ msgBuffer = <<>>
  /\ rcvdCharCntr = 0 /\ exPointCntr = 0
  /\ monitor = "command" /\ gFlashIndex = 0 /\ gEepromIndex = 0
  /\ seq = 1 /\ body = SignOn /\ frame = Frame(1, SignOn) /\ sent = 0 /\ answered = FALSE /\ torn = FALSE
  /\ noise = 0 /\ keys = 0 /\ typed = FALSE

-----------------------------------------------------------------------------
(* A body as long as the length says is followed by the checksum; ii is       *)
(* compared after it is incremented, so no length 0 ends.                     *)
MutantEndOfBody(length) == length = Len(msgBuffer)
EndOfBody(length) == length = Len(msgBuffer) + 1

Goto(state) == msgParseState' = state
Absorb(c)   == checksum' = Xor(checksum, c)

MutantChecked(c) == TRUE
Checked(c) == c = checksum

(* The switch over msgParseState for one byte. *)
Parse(c) ==
  \/ /\ msgParseState = "ST_START"
     /\ IF c = MESSAGE_START THEN Goto("ST_GET_SEQ_NUM") /\ checksum' = MESSAGE_START
        ELSE UNCHANGED <<msgParseState, checksum>>
     /\ UNCHANGED <<seqNum, msgLength, msgBuffer>>
  \/ /\ msgParseState = "ST_GET_SEQ_NUM"
     /\ Goto("ST_MSG_SIZE_1") /\ Absorb(c) /\ seqNum' = c
     /\ UNCHANGED <<msgLength, msgBuffer>>
  \/ /\ msgParseState = "ST_MSG_SIZE_1"
     /\ Goto("ST_MSG_SIZE_2") /\ Absorb(c) /\ msgLength' = c * ByteSize
     /\ UNCHANGED <<seqNum, msgBuffer>>
  \/ /\ msgParseState = "ST_MSG_SIZE_2"
     /\ Goto("ST_GET_TOKEN") /\ Absorb(c) /\ msgLength' = msgLength + c
     /\ UNCHANGED <<seqNum, msgBuffer>>
  \/ /\ msgParseState = "ST_GET_TOKEN"
     /\ IF c = TOKEN THEN Goto("ST_GET_DATA") /\ Absorb(c) /\ msgBuffer' = <<>>
        ELSE Goto("ST_START") /\ UNCHANGED <<checksum, msgBuffer>>
     /\ UNCHANGED <<seqNum, msgLength>>
  \/ /\ msgParseState = "ST_GET_DATA"
     /\ msgBuffer' = Append(msgBuffer, c) /\ Absorb(c)
     /\ Goto(IF EndOfBody(msgLength) THEN "ST_GET_CHECK" ELSE "ST_GET_DATA")
     /\ UNCHANGED <<seqNum, msgLength>>
  \/ /\ msgParseState = "ST_GET_CHECK"
     /\ Goto(IF Checked(c) THEN "ST_PROCESS" ELSE "ST_START")
     /\ UNCHANGED <<checksum, seqNum, msgLength, msgBuffer>>

(* Exclamation marks count while the session is young. *)
MutantYoung(counter) == TRUE
Young(counter) == counter < MonitorChars

(* One pass of the loop that collects a message.  The monitor starts anew  *)
(* each time it is opened.                                                   *)
Receive(c) ==
  LET counter == (rcvdCharCntr + 1) % CounterSize
      marks   == IF c = Bang /\ Young(counter) THEN exPointCntr + 1 ELSE 0
  IN  /\ rcvdCharCntr' = counter
      /\ IF marks = MonitorBangs
         THEN /\ line' = "monitor" /\ exPointCntr' = 0
              /\ monitor' = "command" /\ gFlashIndex' = 0 /\ gEepromIndex' = 0
              /\ UNCHANGED bufferVars
         ELSE exPointCntr' = marks /\ Parse(c) /\ UNCHANGED <<line, monitorVars>>

(* The command of the message is carried out (Stk500boot) and answered.  The *)
(* answer is made in the same variables, which are as good as new after it.  *)
Process ==
  /\ line = "messages" /\ msgParseState = "ST_PROCESS"
  /\ msgParseState' = "ST_START"
  /\ seqNum' = (seqNum + 1) % ByteSize
  /\ checksum' = 0 /\ msgLength' = 0 /\ msgBuffer' = <<>>
  /\ answered' = (answered \/ seqNum = seq) /\ torn' = FALSE
  /\ UNCHANGED <<line, rcvdCharCntr, exPointCntr, monitorVars, seq, body, frame, sent, noise,
                 keys, typed>>

-----------------------------------------------------------------------------
Listening == line = "messages" /\ msgParseState # "ST_PROCESS"

(* The host puts the next byte of its message on the line; the line may      *)
(* change it, or lose it.  A length that is changed is left out: past the    *)
(* 285 bytes of msgBuffer, or with a length of 0, the code has no behaviour   *)
(* to model.                                                                   *)
SendByte ==
  /\ Listening /\ ~answered /\ sent < Len(frame)
  /\ sent' = sent + 1
  /\ LET c == frame[sent + 1]
     IN  \/ Receive(c) /\ UNCHANGED <<noise, torn>>
         \/ /\ noise < MaxNoise /\ noise' = noise + 1
            /\ \/ /\ sent \notin {2, 3}
                  /\ \E d \in Noise \ {c} : Receive(d)
                  /\ torn' = (torn \/ sent \in {0, 4})
               \/ /\ torn' = TRUE
                  /\ UNCHANGED <<line, bufferVars, rcvdCharCntr, exPointCntr, monitorVars>>
  /\ UNCHANGED <<seq, body, frame, answered, keys, typed>>

(* No answer: the host sends the message again.  It has one, or knows from   *)
(* the silence that it will have none, before it goes on.                     *)
SendAgain ==
  /\ Listening /\ ~answered /\ sent = Len(frame)
  /\ sent' = 0
  /\ UNCHANGED <<line, bufferVars, rcvdCharCntr, exPointCntr, monitorVars, seq, body, frame,
                 answered, noise, torn, keys, typed>>

NextMessage ==
  /\ Listening /\ answered /\ seq < MaxMessages
  /\ seq' = seq + 1 /\ body' \in Bodies /\ frame' = Frame(seq', body') /\ sent' = 0 /\ answered' = FALSE
  /\ UNCHANGED <<line, bufferVars, rcvdCharCntr, exPointCntr, monitorVars, noise, torn, keys,
                 typed>>

(* An operator at a terminal opens the session with three exclamation marks. *)
StrikeBang ==
  /\ Listening /\ seq = 1 /\ sent = 0 /\ (typed \/ rcvdCharCntr = 0)
  /\ keys < MaxKeys /\ keys' = keys + 1
  /\ typed' = TRUE /\ Receive(Bang)
  /\ UNCHANGED <<hostVars, noise>>

-----------------------------------------------------------------------------
Strike ==
  /\ line = "monitor" /\ keys < MaxKeys /\ keys' = keys + 1
  /\ UNCHANGED <<bufferVars, rcvdCharCntr, exPointCntr, hostVars, noise, typed>>

(* '0' of RunMonitor. *)
FromTheStart ==
  /\ Strike /\ monitor = "command" /\ gFlashIndex' = 0 /\ gEepromIndex' = 0
  /\ UNCHANGED <<line, monitor>>

(* 'F': sixteen rows of the flash; the index goes on past its end, as that of *)
(* the RAM does ('R').                                                         *)
DumpFlash ==
  /\ Strike /\ monitor = "command" /\ gFlashIndex' = gFlashIndex + 1
  /\ UNCHANGED <<line, monitor, gEepromIndex>>

(* 'E': sixteen rows of the EEPROM, which starts over at its end. *)
DumpEeprom ==
  /\ Strike /\ monitor = "command"
  /\ gEepromIndex' = IF gEepromIndex + 1 > EepromPages - 1 THEN 0 ELSE gEepromIndex + 1
  /\ UNCHANGED <<line, monitor, gFlashIndex>>

(* '?', 'H', 'L', 'V': something is shown, and nothing changes. *)
Show == Strike /\ monitor = "command" /\ UNCHANGED <<line, monitorVars>>

(* '@': the EEPROM is overwritten with a text, which is read back.           *)
TestEeprom ==
  /\ Strike /\ monitor = "command" /\ gEepromIndex' = 0
  /\ UNCHANGED <<line, monitor, gFlashIndex>>

(* 'B' blinks the LED, 'Y' the pins of a port it asks for, till a key. *)
Blink ==
  /\ Strike /\ monitor = "command" /\ monitor' = "any key"
  /\ UNCHANGED <<line, gFlashIndex, gEepromIndex>>

AskPort ==
  /\ Strike /\ monitor = "command" /\ monitor' = "port"
  /\ UNCHANGED <<line, gFlashIndex, gEepromIndex>>

(* A port of the chip is toggled, any other letter or sign is refused.        *)
PortOutput ==
  /\ Strike /\ monitor = "port" /\ monitor' \in {"any key", "command"}
  /\ UNCHANGED <<line, gFlashIndex, gEepromIndex>>

AnyKey ==
  /\ Strike /\ monitor = "any key" /\ monitor' = "command"
  /\ UNCHANGED <<line, gFlashIndex, gEepromIndex>>

(* 'Q': the loop over messages is left as well, after the answer to whatever *)
(* the buffer holds.                                                          *)
Quit ==
  /\ Strike /\ monitor = "command" /\ line' = "leave"
  /\ UNCHANGED monitorVars

Monitor == FromTheStart \/ DumpFlash \/ DumpEeprom \/ Show \/ TestEeprom \/ Blink \/ AskPort
           \/ PortOutput \/ AnyKey \/ Quit

Host == SendByte \/ SendAgain

Next == Host \/ Process \/ NextMessage \/ StrikeBang \/ Monitor

-----------------------------------------------------------------------------
TypeOK ==
  /\ line \in {"messages", "monitor", "leave"}
  /\ msgParseState \in ParseStates /\ checksum \in Bytes /\ seqNum \in Bytes
  /\ msgLength \in 0 .. ByteSize ^ 2 - 1 /\ msgBuffer \in Seq(Bytes)
  /\ rcvdCharCntr \in 0 .. CounterSize - 1 /\ exPointCntr \in 0 .. MonitorBangs - 1
  /\ monitor \in {"command", "port", "any key"}
  /\ gFlashIndex \in Nat /\ gEepromIndex \in 0 .. EepromPages - 1
  /\ seq \in 1 .. MaxMessages /\ body \in Bodies \cup {SignOn} /\ sent \in 0 .. Len(frame)
  /\ answered \in BOOLEAN /\ torn \in BOOLEAN /\ typed \in BOOLEAN
  /\ noise \in 0 .. MaxNoise /\ keys \in 0 .. MaxKeys

(* What the bootloader acts on is what the host sent, whatever bytes of the  *)
(* sequence number, the body and the checksum the line changed: the         *)
(* receiver starts over cleanly after a message it has refused.              *)
OnlySent ==
  msgParseState = "ST_PROCESS" /\ ~torn /\ noise < 2 => msgBuffer = body /\ seqNum = seq

(* The bytes of a program never open the monitor: only an operator does.     *)
(* (stk500boot.c:83, issue 392, is about a program with three of them.)       *)
MonitorByHand == line = "monitor" => typed

(* Whatever the line changed or lost, the host that repeats its message is    *)
(* answered, unless an operator takes the line.                                *)
Answered == ~answered ~> (answered \/ typed)
=============================================================================
