------------------------------ MODULE StratumTen ------------------------------
(***************************************************************************)
(* The main loop of the sketch over the clock of DisciplinedTimers: it     *)
(* starts the timers, counts the timer cycles since the PPS, talks to the  *)
(* reference clock and answers NTP requests, each in its own part of the   *)
(* second.  A step of the loop is a stretch of code that no interrupt, no  *)
(* edge on the NIC's line and no tick can disturb to any effect.           *)
(*                                                                         *)
(* The NIC is a queue of datagrams and the two bits of its socket that     *)
(* pull the interrupt line low.  The reference clock is what the sketch    *)
(* sees of it: a status, and one transaction at a time.                    *)
(***************************************************************************)
EXTENDS DisciplinedTimers, Sequences

CONSTANTS
  CycleMod,   \* modulus of timerCycles, 256 in the code
  Window,     \* NTP_WINDOW_US in ticks
  TxDelay,    \* NTP_TX_DELAY_TICKS in ticks
  MaxLag,     \* ticks one pass of the loop may take, waits for the transmit time aside
  QueueCap,   \* datagrams the socket's receive buffer holds
  Kinds,      \* the kinds of datagrams that arrive
  GpsStatus,  \* the conditions the reference clock may be in
  PpsRace     \* may a PPS fall between PpsOccurred's load and its store?

ASSUME LoopAssumption ==
  /\ N >= 5 /\ CycleMod \in Nat /\ CycleMod > N
  /\ Window \in 1 .. 2 * H - 1 /\ TxDelay \in 1 .. 2 * H - 1
  /\ MaxLag \in Nat \ {0}
  /\ QueueCap \in Nat \ {0} /\ Datagram = 1 .. QueueCap + 1
  /\ Kinds \subseteq {"client", "mode", "size"}
  /\ PpsRace \in BOOLEAN /\ (LatencyOverlap => PpsRace)
  /\ "unlocked" \in GpsStatus
  /\ GpsStatus \subseteq {"unlocked", "locked", "normal", "holdover"}

VARIABLES
  pc,                     \* where the loop is
  lag,                    \* ticks this pass has taken
  gotPps, unserviced,     \* the values just read from the interrupt routines' fields
  timersRunning, timeCheck, timerCycles,
  windowLeft,             \* ticks to ntpWindowTimeout
  pllLock, holdover, timeOfDayValid,
  rxQueue, recvIr, sendIr,      \* the NIC's socket: buffered datagrams, RECV and SEND_OK
  request, haveCapture,         \* the datagram being handled, and whether its arrival was captured
  xmitTimeout, txTime,          \* the count to send the reply at, and its transmit timestamp
  replied,                      \* history: a reply was sent in this timer cycle
  gps, todIo, currentTime       \* the reference clock: status, transaction, and the
                                \* second of the query until there is the time of the answer

loopVars   == <<timersRunning, timeCheck, timerCycles, windowLeft>>
statusVars == <<pllLock, holdover, timeOfDayValid>>
nicVars    == <<rxQueue, recvIr, sendIr>>
replyVars  == <<request, haveCapture, xmitTimeout, txTime>>
todVars    == <<gps, todIo, currentTime>>
localVars  == <<gotPps, unserviced, replyVars>>
vars == <<timersVars, pc, lag, localVars, loopVars, statusVars, nicVars, todVars, replied>>

None == [id |-> Nobody, kind |-> "none"]

TOD_CYCLE == 2 .. N - 3

MutantNTP_CYCLE == 1 .. N

NTP_CYCLE == 1 .. N - 2

(* A receiver whose conditions are all normal is locked, and one that is      *)
(* locked is not in holdover.                                                 *)
Locked              == gps \in {"locked", "normal"}
Holdover            == gps = "holdover"
AllConditionsNormal == gps = "normal"
IoInProcess         == todIo # "idle"

Init ==
  /\ TimersInit
  /\ pc = "top" /\ lag = 0
  /\ gotPps = FALSE /\ unserviced = 0
  /\ timersRunning = FALSE /\ timeCheck = 0 /\ timerCycles = 0 /\ windowLeft = 0
  /\ pllLock = FALSE /\ holdover = FALSE /\ timeOfDayValid = 0
  /\ rxQueue = <<>> /\ recvIr = FALSE /\ sendIr = FALSE
  /\ request = None /\ haveCapture = FALSE
  /\ xmitTimeout = 0 /\ txTime = Midnight
  /\ replied = FALSE
  /\ gps = "unlocked" /\ todIo = "idle" /\ currentTime = 0

-----------------------------------------------------------------------------
(* The world around the loop.                                                *)

(* The reply waits for its transmit time in two loops that poll the count much *)
(* faster than a tick: they end in the tick that satisfies them.  (A target of *)
(* at most 2 counts past the rollover, a fraction of a tick, skips the second.) *)
Polling == pc \in {"rollover", "transmit"}

MutantWaiting == pc = "transmit" /\ tcnt < xmitTimeout

Waiting == \/ pc = "rollover" /\ tcnt > xmitTimeout
           \/ pc = "transmit" /\ tcnt < xmitTimeout

(* micros() stands still while a reply is sent: its timer 0 is stopped. *)
Timer0Stopped == Polling \/ pc = "sent"

(* Bound: while the clock stands still, true time does not come round to the *)
(* seconds it was set to, as 2^32 seconds do not.                            *)
NotRoundAgain ==
  (timersInitialized = 0 /\ ntpSecondsValid /\ trueSec' # trueSec) => trueSec' # ntpSeconds

LoopTick ==
  /\ Tick
  /\ NotRoundAgain
  /\ Waiting \/ (~Polling /\ lag < MaxLag)
  /\ lag' = IF Waiting THEN lag ELSE lag + 1
  /\ windowLeft' = IF Timer0Stopped \/ windowLeft = 0 THEN windowLeft ELSE windowLeft - 1
  /\ UNCHANGED <<pc, localVars, timersRunning, timeCheck, timerCycles, statusVars,
                 nicVars, todVars, replied>>

LoopMatch ==
  /\ TimerMatchIsr
  /\ replied' = FALSE
  /\ UNCHANGED <<pc, lag, localVars, loopVars, statusVars, nicVars, todVars>>

(* Without the race, a PPS that comes inside PpsOccurred waits for its end. *)
PpsWaits == pc = "clear" /\ ~PpsRace

LoopPps ==
  /\ PpsCaptureIsr
  /\ ~PpsWaits
  /\ UNCHANGED <<pc, lag, localVars, loopVars, statusVars, nicVars, todVars, replied>>

(* One of the socket's interrupt bits goes up; the line falls, and timer 5    *)
(* captures, only if none was up.                                             *)
RaiseLine(datagram) ==
  IF recvIr \/ sendIr THEN UNCHANGED <<icf5, icr5>> ELSE NicEdge(datagram)

(* Bound: one reply in a cycle.  The window counts in micros(), which stands  *)
(* still during a reply, so a burst of requests could stretch it to the match. *)
NoBurst == replied => pc \in {"flush", "reset"}

(* Identities are used again once their datagram is gone. *)
Unused == Datagram \ ({rxQueue[i].id : i \in DOMAIN rxQueue} \cup {request.id})

Arrive(kind) ==
  LET new == CHOOSE id \in Unused : \A other \in Unused : id <= other
  IN  /\ InterruptPending => LatencyOverlap
      /\ NoBurst
      /\ Len(rxQueue) < QueueCap
      /\ rxQueue' = Append(rxQueue, [id |-> new, kind |-> kind])
      /\ recvIr' = TRUE
      /\ RaiseLine(new)
      /\ UNCHANGED <<trueVars, hwVars, syncVars, countVars, udpCaptureFlag, udpCapture,
                     ntpSecondsValid, interruptCount, ppsCaptureFlag, sendIr,
                     pc, lag, localVars, loopVars, statusVars, todVars, replied>>

(* The reference clock answers a query in the first cycle of a later second, *)
(* with the time of that second.                                             *)
GpsAnswer ==
  /\ todIo = "asked" /\ trueCyc = 0 /\ trueSec # currentTime
  /\ todIo' = "answered"
  /\ currentTime' = trueSec
  /\ UNCHANGED <<timersVars, pc, lag, localVars, loopVars, statusVars, nicVars, gps, replied>>

World == LoopTick \/ LoopMatch \/ LoopPps \/ GpsAnswer \/ \E kind \in Kinds : Arrive(kind)

-----------------------------------------------------------------------------
(* The loop.                                                                 *)

Step(from, to) ==
  /\ InterruptPending => PpsWaits /\ ~ocf4a
  /\ pc = from
  /\ pc' = to
  /\ lag' = IF to = "top" THEN 0 ELSE lag
  /\ IF from = "sent" THEN replied' = TRUE ELSE UNCHANGED replied

MutantSecondsAgree(seconds) == TRUE

(* The first time of day is taken on trust; a later one confirms the clock. *)
SecondsAgree(seconds) == ~ntpSecondsValid \/ seconds = ntpSeconds

(* checkTOD: step the exchange with the reference clock, and take over the    *)
(* time and the status it brings.  An hour without the time invalidates it.   *)
(* Assumed: an answer that has come is complete at the next check.            *)
SetNtpSeconds(seconds, valid) ==
  /\ ntpSeconds' = seconds
  /\ ntpSecondsValid' = TRUE
  /\ timeOfDayValid' =
       IF SecondsAgree(seconds) /\ valid < 2 THEN valid + 1 ELSE valid

TodReply(valid) ==
  /\ todIo = "answered"
  /\ todIo' = "idle"
  /\ gps' \in GpsStatus
  /\ currentTime' = 0
  /\ \/ gps' # "holdover" /\ SetNtpSeconds(currentTime, valid)
     \/ timeOfDayValid' = valid /\ UNCHANGED <<ntpSeconds, ntpSecondsValid>>

NoTodReply(valid) ==
  /\ todIo # "answered"
  /\ \/ UNCHANGED <<todIo, currentTime>>
     \/ todIo = "idle" /\ todIo' = "asked" /\ currentTime' = trueSec  \* a query is due
     \/ todIo = "asked" /\ todIo' = "idle" /\ currentTime' = 0        \* no answer is coming
  /\ timeOfDayValid' = valid
  /\ UNCHANGED <<gps, ntpSeconds, ntpSecondsValid>>

CheckTod ==
  \E valid \in {0, timeOfDayValid} : TodReply(valid) \/ NoTodReply(valid)

(* The top of the loop: the timers start when the reference clock is normal,  *)
(* and PpsOccurred loads its flag.                                            *)
LoopTop ==
  /\ Step("top", "clear")
  /\ gotPps' = ppsCaptureFlag
  /\ IF ~timersRunning /\ AllConditionsNormal
       THEN StartTimers /\ timersRunning' = TRUE
       ELSE UNCHANGED <<timersVars, timersRunning>>
  /\ UNCHANGED <<unserviced, replyVars, timeCheck, timerCycles, windowLeft, statusVars,
                 nicVars, todVars>>

MutantCyclesAfterPps == 1

CyclesAfterPps == 0

(* PpsOccurred clears the flag; after a PPS the pass ends here. *)
AfterPps ==
  /\ IF gotPps
       THEN /\ Step("clear", "top")
            /\ timerCycles' = CyclesAfterPps
            /\ timeCheck' = IF timeCheck < 2 THEN timeCheck + 1 ELSE timeCheck
       ELSE /\ Step("clear", IF timersRunning THEN "service" ELSE "init")
            /\ UNCHANGED <<timerCycles, timeCheck>>
  /\ ppsCaptureFlag' = FALSE
  /\ gotPps' = FALSE
  /\ pllLock' = Locked
  /\ holdover' = Holdover
  /\ UNCHANGED <<trueVars, hwVars, syncVars, countVars, udpVars, ntpSecondsValid,
                 interruptCount, unserviced, replyVars, timersRunning, windowLeft,
                 timeOfDayValid, nicVars, todVars>>

MutantReadDatagram ==   \* the RECV bit is left set
  /\ rxQueue # <<>>
  /\ rxQueue' = Tail(rxQueue)
  /\ UNCHANGED <<recvIr, sendIr>>

(* A datagram is read off the socket whole, and its RECV bit cleared. *)
ReadDatagram ==
  /\ rxQueue # <<>>
  /\ rxQueue' = Tail(rxQueue)
  /\ recvIr' = FALSE
  /\ UNCHANGED sendIr

(* A datagram is done with: a capture still held is nobody's if it was its. *)
Forget(datagram) ==
  /\ icr5' = IF icr5.of = datagram.id THEN NoEdge ELSE icr5
  /\ udpCapture' = IF udpCapture.of = datagram.id THEN NoCapture ELSE udpCapture

MutantIgnoreDatagram == UNCHANGED <<nicVars, icr5, udpCapture>>

(* A datagram that comes before the timers run is read and ignored. *)
IgnoreDatagram ==
  \/ rxQueue = <<>> /\ UNCHANGED <<nicVars, icr5, udpCapture>>
  \/ ReadDatagram /\ Forget(Head(rxQueue))

(* The pass while the timers are not running. *)
InitPass ==
  /\ Step("init", "top")
  /\ CheckTod
  /\ IgnoreDatagram
  /\ UNCHANGED <<trueVars, hwVars, syncVars, subCycleCount, icf5, udpCaptureFlag,
                 interruptCount, ppsCaptureFlag, localVars, loopVars, pllLock, holdover>>

(* UnservicedInterruptCount: it loads the count, and stores one less. *)
ServiceMatch ==
  /\ IF interruptCount = 0 THEN Step("service", "window") ELSE Step("service", "store")
  /\ unserviced' = interruptCount
  /\ UNCHANGED <<timersVars, gotPps, replyVars, loopVars, statusVars, nicVars, todVars>>

StoreCount ==
  /\ Step("store", "service")
  /\ interruptCount' = unserviced - 1
  /\ unserviced' = 0
  /\ timerCycles' = (timerCycles + 1) % CycleMod
  /\ windowLeft' = Window
  /\ IF timeCheck = 2 /\ timerCycles' \in TOD_CYCLE
       THEN CheckTod
       ELSE UNCHANGED <<ntpSeconds, ntpSecondsValid, timeOfDayValid, todVars>>
  /\ UNCHANGED <<trueVars, hwVars, syncVars, subCycleCount, udpVars, ppsCaptureFlag,
                 gotPps, replyVars, timersRunning, timeCheck, pllLock, holdover, nicVars>>

(* In the working window the loop takes one datagram. *)
InWindow == timerCycles \in NTP_CYCLE /\ windowLeft > 0

NoRequest ==
  /\ Step("window", "top")
  /\ ~InWindow \/ rxQueue = <<>>
  /\ UNCHANGED <<timersVars, localVars, loopVars, statusVars, nicVars, todVars>>

TakeRequest ==
  /\ Step("window", "request")
  /\ InWindow
  /\ ReadDatagram
  /\ request' = Head(rxQueue)
  /\ UNCHANGED <<timersVars, gotPps, unserviced, haveCapture, xmitTimeout, txTime,
                 loopVars, statusVars, todVars>>

-----------------------------------------------------------------------------
(* A reply.  GetCapturedNtpTime takes the capture the match routine has saved, *)
(* or reads the clock and the capture register itself.                         *)

(* The serial ports, the reference clock's and the console's, must be silent: *)
(* their interrupts would spoil the transmit time.                            *)
CanReply(ioBusy) == (pllLock \/ holdover) /\ timeOfDayValid > 1 /\ ~ioBusy

ReplyStep(from, to) ==
  /\ Step(from, to)
  /\ UNCHANGED <<gotPps, unserviced, loopVars, statusVars, todVars>>

ClockUnchanged ==
  UNCHANGED <<trueVars, hwVars, syncVars, countVars, ntpSecondsValid, interruptCount,
              ppsCaptureFlag>>

SkipRequest ==
  /\ ReplyStep("request", "flush")
  /\ request' = None
  /\ Forget(request)
  /\ ClockUnchanged
  /\ UNCHANGED <<icf5, udpCaptureFlag, haveCapture, xmitTimeout, txTime, nicVars>>

GetCapture ==
  /\ \/ udpCaptureFlag /\ ReplyStep("request", "captured") /\ haveCapture' = TRUE
     \/ ~udpCaptureFlag /\ ReplyStep("request", "clock") /\ haveCapture' = icf5
  /\ UNCHANGED <<timersVars, request, xmitTimeout, txTime, nicVars>>

HandleRequest ==
  \E usbBusy \in BOOLEAN :
    IF CanReply(IoInProcess \/ usbBusy) /\ request.kind # "size" THEN GetCapture ELSE SkipRequest

CaptureClock ==
  /\ ReplyStep("clock", "count")
  /\ udpCapture' = [udpCapture EXCEPT !.sec = ntpSeconds, !.cyc = subCycleCount]
  /\ ClockUnchanged
  /\ UNCHANGED <<icf5, icr5, udpCaptureFlag, replyVars, nicVars>>

CaptureCount ==
  /\ ReplyStep("count", "captured")
  /\ udpCapture' = [udpCapture EXCEPT !.cnt = icr5.cnt, !.at = icr5.at, !.of = icr5.of]
  /\ ClockUnchanged
  /\ UNCHANGED <<icf5, icr5, udpCaptureFlag, replyVars, nicVars>>

(* Both flags are cleared.  Without a capture, or to a mode it does not serve, *)
(* the server does not reply.                                                  *)
ClearCapture ==
  /\ IF haveCapture /\ request.kind = "client"
       THEN ReplyStep("captured", "stamp") /\ UNCHANGED request
       ELSE ReplyStep("captured", "flush") /\ request' = None
  /\ haveCapture' = FALSE
  /\ udpCaptureFlag' = FALSE /\ udpCapture' = NoCapture
  /\ icf5' = FALSE /\ icr5' = NoEdge
  /\ ClockUnchanged
  /\ UNCHANGED <<xmitTimeout, txTime, nicVars>>

(* Does the delay run past the end of this timer cycle? *)
PastRollover == TxDelay >= T - tcnt

(* GetCurrentNtpTime (its loop is in TimekeepingClient) and the delay added to *)
(* it; the count that falls on, in this cycle or after the rollover.           *)
TransmitTimestamp ==
  LET now == NtpTime(ntpSeconds, subCycleCount, tcnt, ntpOffset)
  IN  /\ txTime' = NtpTime(now.sec, now.cyc, now.cnt, TxDelay)
      /\ IF PastRollover
           THEN ReplyStep("stamp", "rollover") /\ xmitTimeout' = tcnt + TxDelay - T
           ELSE ReplyStep("stamp", "transmit") /\ xmitTimeout' = tcnt + TxDelay
      /\ UNCHANGED <<timersVars, request, haveCapture, nicVars>>

Rollover ==
  /\ ~Waiting
  /\ ReplyStep("rollover", "transmit")
  /\ UNCHANGED <<timersVars, replyVars, nicVars>>

(* endPacket: the datagram goes out, and SEND_OK goes up unless the peer's     *)
(* address does not resolve.                                                   *)
Transmit ==
  /\ ~Waiting
  /\ ReplyStep("transmit", "sent")
  /\ \/ sendIr' = TRUE /\ RaiseLine(Nobody)
     \/ UNCHANGED <<sendIr, icf5, icr5>>
  /\ request' = None /\ xmitTimeout' = 0 /\ txTime' = Midnight
  /\ ClockUnchanged
  /\ UNCHANGED <<udpCaptureFlag, udpCapture, haveCapture, rxQueue, recvIr>>

(* It returns once SEND_OK is seen and cleared; the server forgets the edge. *)
Sent ==
  /\ ReplyStep("sent", "flush")
  /\ sendIr' = FALSE
  /\ icf5' = FALSE /\ icr5' = NoEdge
  /\ ClockUnchanged
  /\ UNCHANGED <<udpCaptureFlag, udpCapture, replyVars, rxQueue, recvIr>>

(* Whatever else has arrived is dropped: its time of arrival is not known. *)
FlushOne ==
  /\ ReplyStep("flush", "flush")
  /\ ReadDatagram
  /\ Forget(Head(rxQueue))
  /\ ClockUnchanged
  /\ UNCHANGED <<icf5, udpCaptureFlag, replyVars>>

FlushDone ==
  /\ ReplyStep("flush", "reset")
  /\ rxQueue = <<>>
  /\ UNCHANGED <<timersVars, replyVars, nicVars>>

ResetCapture ==
  /\ ReplyStep("reset", "top")
  /\ icf5' = FALSE /\ icr5' = NoEdge
  /\ ClockUnchanged
  /\ UNCHANGED <<udpCaptureFlag, udpCapture, replyVars, nicVars>>

Reply ==
  \/ HandleRequest \/ CaptureClock \/ CaptureCount \/ ClearCapture
  \/ TransmitTimestamp \/ Rollover \/ Transmit \/ Sent
  \/ FlushOne \/ FlushDone \/ ResetCapture

Loop ==
  \/ LoopTop \/ AfterPps \/ InitPass \/ ServiceMatch \/ StoreCount
  \/ NoRequest \/ TakeRequest \/ Reply

Next == World \/ Loop

(* Time goes on; it waits for the interrupt routines and for the loop, so they *)
(* go on as well.  (The bounds stop the clock in some states: a behaviour that *)
(* ends in one is not the program's.)                                          *)
TimeGoesOn == []<>(trueCnt = 0) /\ []<>(trueCnt # 0)

Spec == Init /\ [][Next]_vars /\ TimeGoesOn

-----------------------------------------------------------------------------
TypeOK ==
  /\ TimersTypeOK
  /\ pc \in {"top", "clear", "init", "service", "store", "window", "request", "clock",
             "count", "captured", "stamp", "rollover", "transmit", "sent", "flush", "reset"}
  /\ lag \in 0 .. MaxLag
  /\ gotPps \in BOOLEAN /\ unserviced \in 0 .. CountMod - 1
  /\ timersRunning \in BOOLEAN /\ timeCheck \in 0 .. 2
  /\ timerCycles \in 0 .. CycleMod - 1 /\ windowLeft \in 0 .. Window
  /\ pllLock \in BOOLEAN /\ holdover \in BOOLEAN /\ timeOfDayValid \in 0 .. 2
  /\ rxQueue \in UNION {[1 .. n -> [id : Datagram, kind : Kinds]] : n \in 0 .. QueueCap}
  /\ recvIr \in BOOLEAN /\ sendIr \in BOOLEAN
  /\ request \in [id : Datagram, kind : Kinds] \cup {None} /\ haveCapture \in BOOLEAN /\ replied \in BOOLEAN
  /\ xmitTimeout \in Count /\ txTime \in Time
  /\ gps \in GpsStatus /\ todIo \in {"idle", "asked", "answered"} /\ currentTime \in Sec

(* Replies are allowed only from the second agreeing time of day on, and from *)
(* then on the clock is right: no time of day is taken over at a moment when  *)
(* the seconds are being counted up, and none is answered late.               *)
SecondsRight ==
  (timeOfDayValid > 1 /\ timersInitialized = 2) => ClockTime(0) = TrueTime

(* The receive timestamp of a reply is the time of the edge it was made from, *)
(* whoever saved the capture and however close to the match it came.          *)
RxStampExact ==
  [][ (pc = "captured" /\ pc' = "stamp" /\ udpCapture.of # Nobody) =>
        NtpTime(udpCapture.sec, udpCapture.cyc, udpCapture.cnt, ntpOffset) = udpCapture.at ]_vars

(* A reply leaves at the time its transmit timestamp says. *)
TxStampExact ==
  [][ (pc = "transmit" /\ pc' = "sent") => txTime = TrueTime ]_vars

(* The matches the loop has counted, or has still to, are those since the last *)
(* PPS; in the cycle of the PPS it may not have come, or not been seen, yet.   *)
CyclesCounted ==
  LET cycles == timerCycles + interruptCount
  IN  cycles = subCycleCount + 1 \/ (cycles = 0 /\ subCycleCount = N - 1)

Replying == pc \in {"clock", "count", "captured", "stamp", "rollover", "transmit"}

(* While the loop's count of cycles is right, no PPS falls into a reply. *)
NoPpsInReply ==
  [][ (PpsCaptureIsr /\ CyclesCounted) => ~Replying ]_vars

(* When nothing is left to read the interrupt line is high again, or no later *)
(* arrival could ever be captured.                                            *)
LineReleased == (pc = "top" /\ rxQueue = <<>>) => ~recvIr /\ ~sendIr

(* The socket's buffer never stays full: every second has cycles in which the  *)
(* loop reads it.                                                              *)
BufferDrained == (Len(rxQueue) = QueueCap) ~> (Len(rxQueue) < QueueCap)

(* "by requiring timeCheck >= 2 we know that PPS pulses are coming in and      *)
(* timerCycles will accurately reflect how many cycles it has been since the   *)
(* last PPS signal" (StratumTen.ino:598).                                      *)
TimerCyclesAccurate ==
  (timeCheck = 2 /\ pc = "service" /\ interruptCount = 0) => CyclesCounted

(* "we do it again here just in case we skipped the reply and to be doubly     *)
(* sure it gets cleared" (StratumTen.ino:733): no reply carries the time of a  *)
(* datagram that is gone.                                                      *)
NoStaleStamp ==
  [][ (pc = "captured" /\ pc' = "stamp") => udpCapture.of # Nobody ]_vars
=============================================================================
