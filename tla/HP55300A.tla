------------------------------ MODULE HP55300A ------------------------------
(***************************************************************************)
(* The driver of the HP 55300A reference clock: a query for the time of    *)
(* day, the line-by-line parsing of what comes back, and the conversion of *)
(* the date to NTP seconds.                                                *)
(*                                                                         *)
(* The text on the line is a sequence of pieces: the parts of a reply that *)
(* matter, the echo, an error, line feeds.  The receiver is external: it   *)
(* answers a query, at any time or not at all, with the time of the next   *)
(* pulse; the answer is read in the second it comes in; pieces may be      *)
(* garbled on the line.                                                    *)
(***************************************************************************)
EXTENDS NtpTime, FiniteSetsExt, SequencesExt

CONSTANTS
  TodBuffer,   \* sizeof(todBuffer), in pieces
  FirstDays,   \* the dates the clock may start at
  Seconds,     \* bound: seconds the clock runs
  MaxGarbled   \* bound: pieces garbled on the line

VARIABLES
  firstDay, now,              \* the date at the start, and the seconds since
  requests, line, lost,       \* external: unanswered queries; text under way; pieces garbled
  todBuffer,                  \* the line read so far
  todOnRequest, elapsed,      \* a query is under way; its timeout, or the next query's time, is over
  ioInProcess,
  locked, holdover, allConditionsNormal,
  currentTime,
  queried                     \* history: a query has been sent

clockVars == <<firstDay, now>>
lineVars  == <<requests, line, lost>>
queryVars == <<todOnRequest, elapsed, ioInProcess>>
conditionVars == <<locked, holdover, allConditionsNormal>>
vars == <<clockVars, lineVars, todBuffer, queryVars, conditionVars, currentTime, queried>>

NoTime == -1

(* What a T2 line says: the next pulse's date and second of the day, and       *)
(* whether the clock answers for it.                                           *)
NoReading == [date |-> [year |-> 0, month |-> 0, day |-> 0], second |-> 0, valid |-> FALSE]

Piece(name)   == [is |-> name, says |-> NoReading]
Time(reading) == [is |-> "time", says |-> reading]

LineFeed == Piece("lf")
Nul      == Piece("nul")      \* the end of a string, left in the buffer
Noise    == Piece("noise")

Init ==
  /\ firstDay \in FirstDays /\ now = SecondsPerDay - 2
  /\ requests = 0 /\ line = <<>> /\ lost = 0
  /\ todBuffer = <<>>
  /\ todOnRequest = FALSE /\ elapsed = TRUE /\ ioInProcess = FALSE
  /\ locked = TRUE /\ holdover = FALSE /\ allConditionsNormal = TRUE
  /\ currentTime = NoTime
  /\ queried = FALSE

-----------------------------------------------------------------------------
(* The receiver and the line.                                                *)

(* The seconds since the epoch, counted on the civil calendar. *)
DaysBefore(date) ==
  365 * (date.year - 1900) + Cardinality({year \in 1900 .. date.year - 1 : LeapYear(year)})
    + MapThenSumSet(LAMBDA month : MonthLength(date.year, month), 1 .. date.month - 1) + date.day - 1

NtpNow == DaysBefore(firstDay) * SecondsPerDay + now

(* The date and second a number of seconds after the first midnight. *)
ReadingAt(seconds, valid) ==
  [date   |-> IF seconds < SecondsPerDay THEN firstDay ELSE DayAfter(firstDay),
   second |-> seconds % SecondsPerDay, valid |-> valid]

Reply(reading) ==
  <<Piece("echo"), LineFeed, Piece("T2"), Time(reading), Piece("sum"), LineFeed>>

Garbled(text) ==
  {text} \cup IF lost < MaxGarbled THEN {[text EXCEPT ![i] = Noise] : i \in DOMAIN text} ELSE {}

Answer ==
  /\ requests > 0 /\ requests' = requests - 1
  /\ \E valid \in BOOLEAN :
       LET reply == Reply(ReadingAt(now + 1, valid))
       IN  /\ line = <<>>
           /\ line' \in Garbled(reply)
           /\ lost' = IF line' = reply THEN lost ELSE lost + 1
  /\ UNCHANGED <<clockVars, todBuffer, queryVars, conditionVars, currentTime, queried>>

(* A query that was spoilt is answered by an error. *)
AnswerError ==
  /\ requests > 0 /\ requests' = requests - 1
  /\ line = <<>> /\ line' = <<Piece("E-"), LineFeed>>
  /\ UNCHANGED <<clockVars, lost, todBuffer, queryVars, conditionVars, currentTime, queried>>

SecondPasses ==
  /\ now < SecondsPerDay - 2 + Seconds
  /\ line = <<>>
  /\ now' = now + 1
  /\ currentTime' = NoTime
  /\ UNCHANGED <<firstDay, lineVars, todBuffer, queryVars, conditionVars, queried>>

Elapse ==
  /\ ~elapsed
  /\ elapsed' = TRUE
  /\ currentTime' = NoTime
  /\ UNCHANGED <<clockVars, lineVars, todBuffer, todOnRequest, ioInProcess, conditionVars, queried>>

-----------------------------------------------------------------------------
(* getTodReply collects a line; Step parses it.                              *)

Full(buffer) == Len(buffer) >= TodBuffer - 1

IsT2(text) == Len(text) = 3 /\ Head(text).is = "T2"

ChecksumRight(text) == text[2].is = "time" /\ text[3].is = "sum"

(* A T2 line ends the query.  With a wrong checksum its text stays in the      *)
(* buffer, and the next query, whose time has come, is sent at once.           *)
ParseLine(input, text) ==
  IF ~IsT2(text) THEN [input EXCEPT !.buffer = <<>>]
  ELSE IF ~ChecksumRight(text)
    THEN [input EXCEPT !.elapsed = @ \/ input.onRequest, !.onRequest = FALSE]
    ELSE [input EXCEPT !.elapsed = FALSE, !.onRequest = FALSE, !.buffer = <<>>, !.io = FALSE,
                       !.reading = text[2].says]

(* Reading ends with the text, or at an empty line. *)
Collect(input, piece) ==
  LET text == IF piece = LineFeed THEN input.buffer ELSE Append(input.buffer, piece)
      next == [input EXCEPT !.read = @ + 1,
                            !.buffer = IF piece = LineFeed THEN Append(text, Nul) ELSE text]
  IN  IF input.empty THEN input
      ELSE IF piece = LineFeed /\ text = <<>> THEN [next EXCEPT !.empty = TRUE]
      ELSE IF Full(next.buffer) THEN ParseLine(next, next.buffer)
      ELSE IF piece = LineFeed THEN ParseLine(next, text)
      ELSE next

(* A query that times out is sent again after three seconds. *)
Start ==
  [read |-> 0, empty |-> FALSE, buffer |-> todBuffer, io |-> ioInProcess, reading |-> NoReading,
   onRequest |-> todOnRequest /\ ~elapsed, elapsed |-> elapsed /\ ~todOnRequest]

(* (The sets bind a value once; TLC would evaluate an argument at every use.) *)
GetTodReply(text) ==
  LET after[k \in 0 .. Len(text)] ==
        IF k = 0 THEN Start
        ELSE CHOOSE next \in {Collect(input, text[k]) : input \in {after[k - 1]}} : TRUE
  IN  after[Len(text)]

(* All the text that has come, which may be a piece of it. *)
Available == {line, IF line = <<>> THEN <<>> ELSE <<Head(line)>>}

(* The reply names the next pulse. *)
TimeNow(reading) ==
  CalendarToNtpSeconds(reading.date.year, reading.date.month, reading.date.day, reading.second) - 1

RequestTimeOfDay ==
  /\ ~todOnRequest /\ elapsed
  /\ requests' = 1 /\ queried' = TRUE
  /\ todBuffer' = <<>>
  /\ todOnRequest' = TRUE /\ elapsed' = FALSE /\ ioInProcess' = TRUE
  /\ currentTime' = NoTime
  /\ UNCHANGED <<clockVars, line, lost, conditionVars>>

ReadReply ==
  /\ todOnRequest \/ ~elapsed
  /\ \E input \in {GetTodReply(text) : text \in Available} :
       /\ line' = SubSeq(line, input.read + 1, Len(line))
       /\ todBuffer' = input.buffer
       /\ todOnRequest' = input.onRequest /\ elapsed' = input.elapsed /\ ioInProcess' = input.io
       /\ IF ~input.reading.valid
            THEN currentTime' = NoTime /\ UNCHANGED conditionVars
            ELSE /\ currentTime' = TimeNow(input.reading)
                 /\ holdover' = FALSE /\ allConditionsNormal' = TRUE
                 /\ UNCHANGED locked
  /\ UNCHANGED <<clockVars, requests, lost, queried>>

Step == RequestTimeOfDay \/ ReadReply

Next == Answer \/ AnswerError \/ SecondPasses \/ Elapse \/ Step

Spec == Init /\ [][Next]_vars /\ WF_vars(Step) /\ WF_vars(Elapse)

-----------------------------------------------------------------------------
TypeOK ==
  /\ firstDay \in FirstDays /\ IsDate(firstDay)
  /\ now \in SecondsPerDay - 2 .. SecondsPerDay - 2 + Seconds
  /\ requests \in 0 .. 1 /\ lost \in 0 .. MaxGarbled
  /\ Len(todBuffer) <= TodBuffer
  /\ todOnRequest \in BOOLEAN /\ elapsed \in BOOLEAN /\ ioInProcess \in BOOLEAN
  /\ todOnRequest => ioInProcess
  /\ locked /\ ~holdover /\ allConditionsNormal
  /\ currentTime \in Int /\ queried \in BOOLEAN

(* A time that is taken is that of the current second on the civil calendar:  *)
(* across midnight, the ends of months and leap days, and with garbled text.  *)
TimeRight == currentTime # NoTime => currentTime = NtpNow

(* The driver always asks for the time again. *)
AsksAgain == []<>todOnRequest
=============================================================================
