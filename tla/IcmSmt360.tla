------------------------------ MODULE IcmSmt360 ------------------------------
(***************************************************************************)
(* The driver of the ICM SMT 360 receiver: the framing of its TSIP packets, *)
(* the exchange of the init messages and the alternating queries for the   *)
(* time (PTI) and the status (STI).                                        *)
(*                                                                         *)
(* A byte is a number; the packets keep the bytes that matter to the       *)
(* framing (DLE doubled, ETX), to their length and to the driver.  Step is *)
(* called by checkTOD, which takes the time over at once: currentTime is   *)
(* what the last step brought.  The receiver is external: it answers a     *)
(* query at any time until the next or not at all, a packet is read in the *)
(* second it is sent in, and bytes may be lost on the serial line.         *)
(***************************************************************************)
EXTENDS Integers, SequencesExt

CONSTANTS
  BufferSize,         \* sizeof(todBuffer)
  MaxHoldover,        \* maxHoldoverDuration
  Reports,            \* the status reports the receiver sends
  FirstSecond, LastSecond,  \* bound: the seconds of the hour the clock runs through
  MaxLost,            \* bound: bytes lost on the line
  AckAtTimeout        \* may the last init message be acknowledged as its timeout expires?

VARIABLES
  now,
  requests, line,     \* external: queries the receiver has not answered; bytes under way
  lost,               \* bytes lost so far
  todBuffer, hunting, som,    \* todBufPtr is the buffer's length, and -1 while hunting
  requestState, initIndex,
  elapsed,            \* is the timeout the state waits for, or the time of the next query, over?
  ioInProcess,
  haveUtcOffset, status,      \* what PTI and STI last said
  locked, holdover, allConditionsNormal,
  currentTime,
  queried             \* history: a query has been sent

lineVars   == <<requests, line, lost>>
bufferVars == <<todBuffer, hunting, som>>
queryVars  == <<requestState, initIndex, elapsed, ioInProcess>>
statusVars == <<haveUtcOffset, status, locked, holdover, allConditionsNormal>>
vars == <<now, lineVars, bufferVars, queryVars, statusVars, currentTime, queried>>

SOM == 16
EOM == 3
NoTime == -1
TIME_IS_UTC == 3

InitMsgs == <<"broadcast", "survey", "utc", "discipline">>
InitDone == 255

PowerUp == [mode |-> 1, hold |-> MaxHoldover + 1, alarm |-> 65535, gps |-> 8, activity |-> 6]

Init ==
  /\ now = FirstSecond
  /\ requests = {} /\ line = <<>> /\ lost = 0
  /\ todBuffer = <<>> /\ hunting = TRUE /\ som = 0
  /\ requestState = "SEND_INIT" /\ initIndex = 1 /\ elapsed = TRUE /\ ioInProcess = FALSE
  /\ haveUtcOffset = FALSE /\ status = PowerUp
  /\ locked = TRUE /\ holdover = FALSE /\ allConditionsNormal = FALSE
  /\ currentTime = NoTime
  /\ queried = FALSE

-----------------------------------------------------------------------------
(* The receiver and the line.                                                *)

Stuffed(byte) == IF byte = SOM THEN <<SOM, SOM>> ELSE <<byte>>

Packet(bytes) == <<SOM>> \o FlattenSeq([i \in DOMAIN bytes |-> Stuffed(bytes[i])]) \o <<SOM, EOM>>

(* The driver adds the second that the time in a PTI is short of. *)
PTI(time, flag) == <<143, 171, flag, (time - 1) % 60, (time - 1) \div 60, 0>>

STI(report) ==
  <<143, 172, report.mode, report.hold, report.alarm \div 256, report.alarm % 256, report.gps,
    report.activity, 0>>

Ack(k) == CASE k = "broadcast"  -> <<143, 165, 0, 0>>
            [] k = "survey"     -> <<143, 166, 0, 0>>
            [] k = "utc"        -> <<143, 162, 3>>
            [] k = "discipline" -> <<143, 168, 2>>

Lossy(bytes) ==
  {bytes} \cup IF lost < MaxLost THEN {RemoveAt(bytes, i) : i \in DOMAIN bytes} ELSE {}

Send(bytes) ==
  /\ line = <<>>
  /\ line' \in Lossy(Packet(bytes))
  /\ lost' = IF Len(line') < Len(Packet(bytes)) THEN lost + 1 ELSE lost

Answer(query) ==
  /\ requests' = requests \ {query}
  /\ CASE query = "PTI" -> \E flag \in {TIME_IS_UTC, 1} : Send(PTI(now, flag))
       [] query = "STI" -> \E report \in Reports : Send(STI(report))
       [] OTHER         -> Send(Ack(query))
  /\ UNCHANGED <<now, bufferVars, queryVars, statusVars, currentTime, queried>>

SecondPasses ==
  /\ now < LastSecond
  /\ line = <<>>
  /\ now' = now + 1
  /\ currentTime' = NoTime
  /\ UNCHANGED <<lineVars, bufferVars, queryVars, statusVars, queried>>

Elapse ==
  /\ ~elapsed
  /\ elapsed' = TRUE
  /\ currentTime' = NoTime
  /\ UNCHANGED <<now, lineVars, bufferVars, requestState, initIndex, ioInProcess, statusVars,
                 queried>>

-----------------------------------------------------------------------------
(* getReply: bytes are collected from the first SOM to an EOM after an odd    *)
(* number of SOMs.                                                           *)

Repeated(buffer, byte) == byte = SOM /\ buffer # <<>> /\ Last(buffer) = SOM

Full(buffer) == Len(buffer) >= BufferSize

Collect(input, byte) ==
  IF input.complete \/ Full(input.buffer) THEN input
  ELSE IF input.hunting THEN [input EXCEPT !.read = @ + 1, !.hunting = byte # SOM]
  ELSE [input EXCEPT !.read = @ + 1,
                     !.buffer = IF Repeated(@, byte) THEN @ ELSE Append(@, byte),
                     !.som = IF byte = SOM THEN 1 - @ ELSE @,
                     !.complete = byte = EOM /\ input.som = 1]

(* (The sets bind a value once; TLC would evaluate an argument at every use.) *)
GetReply(bytes) ==
  LET start == [read |-> 0, buffer |-> todBuffer, hunting |-> hunting, som |-> som, complete |-> FALSE]
      after[k \in 0 .. Len(bytes)] ==
        IF k = 0 THEN start
        ELSE CHOOSE next \in {Collect(input, bytes[k]) : input \in {after[k - 1]}} : TRUE
  IN  after[Len(bytes)]

(* It reads up to the end of a packet, or until its time is over.  (Bound: then *)
(* it has read one byte.  Where it stops makes no difference to what it reads.) *)
Available == {line, IF line = <<>> THEN <<>> ELSE <<Head(line)>>}

NoMessage == <<>>

(* The bytes of a complete packet.  A full buffer is none. *)
Message(input) ==
  IF input.complete /\ ~Full(input.buffer) /\ Len(input.buffer) > 2
    THEN SubSeq(input.buffer, 1, Len(input.buffer) - 2)
    ELSE NoMessage

(* The buffer starts anew after a packet; one too short is dropped. *)
KeepBuffer(input) ==
  IF input.complete /\ ~Full(input.buffer)
    THEN todBuffer' = <<>> /\ hunting' = TRUE /\ som' = 0
    ELSE todBuffer' = input.buffer /\ hunting' = input.hunting /\ som' = input.som

-----------------------------------------------------------------------------
(* parseReply.                                                               *)

Id(message) == IF Len(message) < 2 THEN <<>> ELSE SubSeq(message, 1, 2)

IsPTI(message) == Id(message) = <<143, 171>> /\ Len(message) = 6
IsSTI(message) == Id(message) = <<143, 172>> /\ Len(message) = 9

(* The acknowledgement of the message that is being sent, and of no other. *)
IsAck(message) == initIndex \in DOMAIN InitMsgs /\ message = Ack(InitMsgs[initIndex])

Alarm(report, bit) == (report.alarm \div bit) % 2 = 1

NOTRACK == 8
NODISCIPLINE == 16
TEST_MODE == 256
POSITION == 512
PPS == 4096

ReportOf(message) ==
  [mode |-> message[3], hold |-> message[4], alarm |-> 256 * message[5] + message[6],
   gps |-> message[7], activity |-> message[8]]

AlmostOk(report) ==
  /\ report.gps = 0 /\ report.mode = 0 /\ report.activity = 0
  /\ ~Alarm(report, NOTRACK) /\ ~Alarm(report, NODISCIPLINE)

TooLong(report) == report.mode \in {2, 3} /\ report.hold > MaxHoldover

MutantUpdateStatus(utc, report) ==   \* the discipline mode is not looked at
  /\ status' = report
  /\ haveUtcOffset' = (utc /\ ~TooLong(report))
  /\ allConditionsNormal' = (utc /\ report.gps = 0)
  /\ locked' = (report.mode = 0 /\ report.activity = 0)
  /\ holdover' = (report.mode \in 2 .. 4 /\ report.hold < MaxHoldover)

(* A holdover that lasts too long ends, and takes the UTC offset with it. *)
UpdateStatus(utc, report) ==
  /\ status' = report
  /\ haveUtcOffset' = (utc /\ ~TooLong(report))
  /\ allConditionsNormal' = (utc /\ AlmostOk(report))
  /\ locked' = (report.mode = 0 /\ report.activity = 0)
  /\ holdover' = /\ report.mode \in 2 .. 4 /\ report.activity \in {0, 8}
                 /\ report.hold < MaxHoldover

TimeIsValid(report) ==
  /\ report.mode # 1 /\ report.mode <= 5
  /\ report.activity \in {0, 8}
  /\ ~TooLong(report)
  /\ \A bit \in {NODISCIPLINE, TEST_MODE, POSITION, PPS} : ~Alarm(report, bit)

ParsePTI(message) ==
  LET utc == message[3] = TIME_IS_UTC
  IN  /\ UpdateStatus(utc, status)
      /\ currentTime' = IF utc /\ TimeIsValid(status) THEN 60 * message[5] + message[4] + 1 ELSE NoTime

ParseSTI(message) ==
  /\ UpdateStatus(haveUtcOffset, ReportOf(message))
  /\ currentTime' = NoTime

Parse(message) ==
  IF IsPTI(message) THEN ParsePTI(message)
  ELSE IF IsSTI(message) THEN ParseSTI(message)
  ELSE currentTime' = NoTime /\ UNCHANGED statusVars

-----------------------------------------------------------------------------
(* The query state machine.                                                  *)

Query(name, next) ==
  /\ requests' = {name}
  /\ queried' = TRUE
  /\ requestState' = next
  /\ ioInProcess' = TRUE
  /\ elapsed' = FALSE

(* The exchange is over; the next message is due in a while. *)
Schedule(next) == requestState' = next /\ elapsed' = FALSE

Send_Init ==
  /\ requestState = "SEND_INIT" /\ elapsed
  /\ Query(InitMsgs[initIndex], "RCV_INIT")
  /\ UNCHANGED initIndex

(* After the last message is acknowledged nothing but queries are sent. *)
AfterAck == IF initIndex = Len(InitMsgs) THEN InitDone ELSE initIndex + 1

(* The setup asks for a survey, so that no message is skipped.  An expired    *)
(* timeout sends the current message again, acknowledged or not.              *)
RcvInit(message) ==
  LET acked == IsAck(message)
      index == IF acked THEN AfterAck ELSE initIndex
  IN  /\ requestState = "RCV_INIT"
      /\ acked \/ elapsed
      /\ initIndex' = index
      /\ ioInProcess' = (ioInProcess /\ ~acked)
      /\ Schedule(IF index = InitDone /\ ~elapsed THEN "RQST_PTI" ELSE "SEND_INIT")
      /\ UNCHANGED <<requests, queried>>

Request(name, from, next) ==
  /\ requestState = from /\ elapsed
  /\ Query(name, next)
  /\ UNCHANGED initIndex

MutantReceive(got, from, next) ==   \* waits for the answer without a timeout
  /\ requestState = from
  /\ got
  /\ Schedule(next)
  /\ ioInProcess' = FALSE
  /\ UNCHANGED <<requests, queried, initIndex>>

Receive(got, from, next) ==
  /\ requestState = from
  /\ got \/ elapsed
  /\ Schedule(next)
  /\ ioInProcess' = FALSE
  /\ UNCHANGED <<requests, queried, initIndex>>

Queries(message) ==
  \/ Send_Init
  \/ RcvInit(message)
  \/ Request("PTI", "RQST_PTI", "RCV_PTI")
  \/ Receive(IsPTI(message), "RCV_PTI", "RQST_STI")
  \/ Request("STI", "RQST_STI", "RCV_STI")
  \/ Receive(IsSTI(message), "RCV_STI", "RQST_PTI")

Got(message) ==
  CASE requestState = "RCV_INIT" -> IsAck(message)
    [] requestState = "RCV_PTI"  -> IsPTI(message)
    [] requestState = "RCV_STI"  -> IsSTI(message)
    [] OTHER                     -> FALSE

(* Bound, unless AckAtTimeout: the last acknowledgement comes before its timeout. *)
InTime(message) ==
  (requestState = "RCV_INIT" /\ elapsed /\ IsAck(message) /\ AfterAck = InitDone) => AckAtTimeout

Step ==
  \E input \in {GetReply(bytes) : bytes \in Available} :
    LET message == Message(input)
    IN  /\ InTime(message)
        /\ line' = SubSeq(line, input.read + 1, Len(line))
        /\ KeepBuffer(input)
        /\ Parse(message)
        /\ IF elapsed \/ Got(message)
             THEN Queries(message)
             ELSE UNCHANGED <<requests, queried, queryVars>>
        /\ UNCHANGED <<now, lost>>

Receiver == \E query \in requests : Answer(query)

Next == Receiver \/ SecondPasses \/ Elapse \/ Step

Spec == Init /\ [][Next]_vars /\ WF_vars(Step) /\ WF_vars(Elapse)

-----------------------------------------------------------------------------
Byte == 0 .. 255

TypeOK ==
  /\ now \in FirstSecond .. LastSecond
  /\ requests \subseteq Range(InitMsgs) \cup {"PTI", "STI"}
  /\ Range(line) \subseteq Byte /\ lost \in 0 .. MaxLost
  /\ Range(todBuffer) \subseteq Byte /\ Len(todBuffer) <= BufferSize
  /\ hunting \in BOOLEAN /\ som \in 0 .. 1
  /\ requestState \in {"SEND_INIT", "RCV_INIT", "RQST_PTI", "RCV_PTI", "RQST_STI", "RCV_STI"}
  /\ initIndex \in IF requestState \in {"SEND_INIT", "RCV_INIT"} THEN DOMAIN InitMsgs ELSE {InitDone}
  /\ elapsed \in BOOLEAN /\ ioInProcess \in BOOLEAN
  /\ haveUtcOffset \in BOOLEAN /\ status \in Reports \cup {PowerUp}
  /\ locked \in BOOLEAN /\ holdover \in BOOLEAN /\ allConditionsNormal \in BOOLEAN
  /\ currentTime \in {NoTime} \cup FirstSecond .. LastSecond
  /\ queried \in BOOLEAN

(* A time that is taken is that of the current second: whatever was lost, none *)
(* is put together from the remains of two packets.                            *)
TimeRight == currentTime # NoTime => currentTime = now

(* Once initialised the driver always asks for the time again, whether the     *)
(* receiver answers or not and whatever the line loses.                        *)
AsksForTime == (initIndex = InitDone) ~> (requestState = "RCV_PTI")

(* "Message header (0x10), trailer (0x10, 0x03) and any repeated 0x10 chars    *)
(* have been removed by this function" (IcmSmt360.cpp:113): a report that has  *)
(* been sent and wholly read is the status from then on.                       *)
ReportIsHeard ==
  \A report \in Reports : (hunting /\ line = Packet(STI(report)) /\ line' = <<>>) => status' = report
=============================================================================
