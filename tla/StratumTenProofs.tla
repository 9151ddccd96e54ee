--------------------------- MODULE StratumTenProofs ---------------------------
(***************************************************************************)
(* What the main loop keeps true, proved for every value of the constants. *)
(*                                                                         *)
(* The types and the interrupt line hold under any fault.  The rest is for *)
(* a loop that is fast enough (Timely) on hardware without faults (Ideal), *)
(* and has one argument: within the second the clock is exact (ClockInv of *)
(* DisciplinedTimersProofs), so the place of the timers in the cycle tells *)
(* what true time it is; the loop counts every match before the next one   *)
(* and sees every PPS before the match that follows it; so its count tells *)
(* the cycle; so an answer of the reference clock is checked in the second *)
(* it is about; so the seconds are right; so a reply is stamped right and  *)
(* sent when its stamp says.                                               *)
(***************************************************************************)
EXTENDS StratumTen, DisciplinedTimersProofs, FiniteSetTheorems, WellFoundedInduction

-----------------------------------------------------------------------------
(* The types, in parts. *)

(* The places of the loop. *)
Pcs == {"top", "clear", "init", "service", "store", "window", "request", "clock",
        "count", "captured", "stamp", "rollover", "transmit", "sent", "flush", "reset"}

(* What the queue holds. *)
Datagrams == [id : Datagram, kind : Kinds]

(* The parts of TypeOK, group by group as the steps change them. *)
LoopTypeOK ==
  /\ pc \in Pcs /\ lag \in 0 .. MaxLag
  /\ unserviced \in 0 .. CountMod - 1 /\ timeCheck \in 0 .. 2
  /\ timerCycles \in 0 .. CycleMod - 1 /\ windowLeft \in 0 .. Window

FlagTypeOK ==
  /\ gotPps \in BOOLEAN /\ timersRunning \in BOOLEAN /\ replied \in BOOLEAN
  /\ pllLock \in BOOLEAN /\ holdover \in BOOLEAN
  /\ recvIr \in BOOLEAN /\ sendIr \in BOOLEAN /\ haveCapture \in BOOLEAN

NicTypeOK ==
  /\ rxQueue \in Seq(Datagrams) /\ Len(rxQueue) <= QueueCap
  /\ request \in Datagrams \cup {None}

ReplyTypeOK == xmitTimeout \in Count /\ txTime \in Time

TodTypeOK ==
  /\ timeOfDayValid \in 0 .. 2
  /\ gps \in GpsStatus /\ todIo \in {"idle", "asked", "answered"} /\ currentTime \in Sec

(* TypeOK is these parts, a queue being a bounded sequence. *)
LEMMA TypeParts ==
  TypeOK <=> TimersTypeOK /\ LoopTypeOK /\ FlagTypeOK /\ NicTypeOK /\ ReplyTypeOK /\ TodTypeOK
<1>1. rxQueue \in UNION {[1 .. n -> Datagrams] : n \in 0 .. QueueCap}
        <=> rxQueue \in Seq(Datagrams) /\ Len(rxQueue) <= QueueCap
  <2>1. ASSUME rxQueue \in UNION {[1 .. n -> Datagrams] : n \in 0 .. QueueCap}
        PROVE  rxQueue \in Seq(Datagrams) /\ Len(rxQueue) <= QueueCap
    <3>1. PICK n \in 0 .. QueueCap : rxQueue \in [1 .. n -> Datagrams]
      BY <2>1
    <3>2. n \in Nat /\ n <= QueueCap
      BY LoopAssumption
    <3> QED
      BY <3>1, <3>2
  <2>2. ASSUME rxQueue \in Seq(Datagrams), Len(rxQueue) <= QueueCap
        PROVE  rxQueue \in UNION {[1 .. n -> Datagrams] : n \in 0 .. QueueCap}
    <3>1. Len(rxQueue) \in Nat /\ rxQueue \in [1 .. Len(rxQueue) -> Datagrams]
      BY <2>2
    <3>2. Len(rxQueue) \in 0 .. QueueCap
      BY <2>2, <3>1, LoopAssumption
    <3> QED
      BY <3>1, <3>2
  <2> QED
    BY <2>1, <2>2
<1> QED
  BY <1>1 DEF TypeOK, LoopTypeOK, FlagTypeOK, NicTypeOK, ReplyTypeOK, TodTypeOK, Pcs, Datagrams

(* The same of the next state. *)
LEMMA TypePartsNext ==
  (TimersTypeOK /\ LoopTypeOK /\ FlagTypeOK /\ NicTypeOK /\ ReplyTypeOK /\ TodTypeOK)' => TypeOK'
<1>1. (TimersTypeOK /\ LoopTypeOK /\ FlagTypeOK /\ NicTypeOK /\ ReplyTypeOK /\ TodTypeOK)
        => TypeOK
  BY TypeParts
<1> QED
  BY <1>1, PTL

(* The receive buffer and the datagram being handled never hold all the identities. *)
LEMMA SomeUnused ==
  ASSUME NicTypeOK, Len(rxQueue) < QueueCap
  PROVE  Unused # {}
<1> DEFINE n == Len(rxQueue)
           used == {rxQueue[i].id : i \in DOMAIN rxQueue} \cup {request.id}
           f == [i \in 1 .. n + 1 |-> IF i <= n THEN rxQueue[i].id ELSE request.id]
<1>1. n \in Nat /\ DOMAIN rxQueue = 1 .. n /\ n < QueueCap /\ QueueCap \in Nat
  BY LoopAssumption DEF NicTypeOK
<1>2. f \in Surjection(1 .. n + 1, used)
  <2>1. f \in [1 .. n + 1 -> used]
    <3> SUFFICES ASSUME NEW i \in 1 .. n + 1
                 PROVE  f[i] \in used
      OBVIOUS
    <3>1. CASE i <= n
      BY <1>1, <3>1
    <3>2. CASE ~(i <= n)
      BY <1>1, <3>2
    <3> QED
      BY <3>1, <3>2
  <2>2. ASSUME NEW u \in used
        PROVE  \E i \in 1 .. n + 1 : f[i] = u
    <3>1. CASE u = request.id
      <4>1. n + 1 \in 1 .. n + 1 /\ f[n + 1] = request.id
        BY <1>1
      <4> QED
        BY <4>1, <3>1
    <3>2. CASE \E i \in DOMAIN rxQueue : u = rxQueue[i].id
      <4>1. PICK i \in DOMAIN rxQueue : u = rxQueue[i].id
        BY <3>2
      <4>2. i \in 1 .. n + 1 /\ f[i] = u
        BY <1>1, <4>1
      <4> QED
        BY <4>2
    <3> QED
      BY <2>2, <3>1, <3>2
  <2> QED
    BY <2>1, <2>2 DEF Surjection
<1> HIDE DEF f, used
<1>3. IsFiniteSet(1 .. n + 1) /\ Cardinality(1 .. n + 1) = n + 1
  BY <1>1, FS_Interval
<1>4. IsFiniteSet(used) /\ Cardinality(used) <= n + 1 /\ Cardinality(used) \in Nat
  BY <1>2, <1>3, FS_Surjection, FS_CardinalityType
<1>5. Cardinality(Datagram) = QueueCap + 1
  BY <1>1, FS_Interval, LoopAssumption
<1>6. ~(Datagram \subseteq used)
  BY <1>1, <1>4, <1>5, FS_Subset
<1> QED
  BY <1>6 DEF Unused, used

(* A nonempty set of numbers has a least one. *)
LEMMA LeastNumber ==
  ASSUME NEW Numbers, Numbers \subseteq Nat, Numbers # {}
  PROVE  \E least \in Numbers : \A other \in Numbers : least <= other
<1> DEFINE Below == {1 .. n : n \in Numbers}
<1>1. Below \subseteq FiniteSubsetsOf(Nat) /\ Below # {}
  <2>1. ASSUME NEW n \in Numbers
        PROVE  1 .. n \in FiniteSubsetsOf(Nat)
    BY FS_Interval DEF FiniteSubsetsOf
  <2> QED
    BY <2>1
<1> HIDE DEF Below
<1>2. PICK low \in Below : \A set \in Below : ~(<<set, low>> \in StrictSubsetOrdering(Nat))
  BY <1>1, FS_StrictSubsetOrderingWellFounded, WFMin
<1>3. PICK least \in Numbers : low = 1 .. least
  BY DEF Below
<1>4. ASSUME NEW other \in Numbers, other < least
      PROVE  FALSE
  <2>1. other \in Nat /\ least \in Nat
    OBVIOUS
  <2>2. 1 .. other \subseteq 1 .. least /\ 1 .. other # 1 .. least
    <3>1. least \in 1 .. least /\ least \notin 1 .. other
      BY <1>4, <2>1
    <3> QED
      BY <1>4, <2>1, <3>1
  <2>3. 1 .. other \in Below
    BY DEF Below
  <2>4. <<1 .. other, low>> \in StrictSubsetOrdering(Nat)
    BY <1>3, <2>1, <2>2 DEF StrictSubsetOrdering
  <2> QED
    BY <1>2, <2>3, <2>4
<1> QED
  BY <1>4

(* So the identity that Arrive chooses exists. *)
LEMMA NewDatagram ==
  ASSUME NicTypeOK, Len(rxQueue) < QueueCap
  PROVE  LET new == CHOOSE id \in Unused : \A other \in Unused : id <= other
         IN  new \in Datagram /\ new \in Unused
<1>1. Unused # {} /\ Unused \subseteq Datagram /\ Unused \subseteq Nat
  BY SomeUnused, LoopAssumption DEF Unused
<1>2. \E least \in Unused : \A other \in Unused : least <= other
  BY <1>1, LeastNumber
<1> QED
  BY <1>1, <1>2

(* What the assumptions say of the constants. *)
LEMMA BoundFacts ==
  /\ CountMod \in Nat \ {0} /\ MaxLag \in Nat \ {0} /\ QueueCap \in Nat \ {0}
  /\ CycleMod \in Nat /\ CycleMod > N /\ N \in Nat /\ N >= 5
  /\ Window \in Nat \ {0} /\ Window < T /\ TxDelay \in Nat \ {0} /\ TxDelay < T
  /\ H \in Nat /\ H >= 2 /\ T \in Nat /\ T = H + H
  /\ TxDelay \in Within
BY TimersAssumption, LoopAssumption DEF T, Within

(* The initial values are in range. *)
LEMMA InitTypeOK == Init => TypeOK
<1> SUFFICES ASSUME Init
             PROVE  TypeOK
  OBVIOUS
<1> USE DEF Init
<1>1. LoopTypeOK
  BY BoundFacts DEF LoopTypeOK, Pcs
<1>2. NicTypeOK
  <2>1. rxQueue \in Seq(Datagrams) /\ Len(rxQueue) = 0
    OBVIOUS
  <2> QED
    BY <2>1, BoundFacts DEF NicTypeOK
<1>4. FlagTypeOK
  BY DEF FlagTypeOK
<1>3. ReplyTypeOK /\ TodTypeOK
  BY ZeroType, LoopAssumption DEF ReplyTypeOK, TodTypeOK
<1> QED
  BY <1>1, <1>2, <1>3, <1>4, TypeParts, TimersInitType

(* A check of the time of day keeps the seconds and the exchange in range. *)
LEMMA CheckTodType ==
  ASSUME TodTypeOK, CountTypeOK, FlagsTypeOK, TrueTypeOK, CheckTod
  PROVE  TodTypeOK' /\ ntpSeconds' \in Sec /\ ntpSecondsValid' \in BOOLEAN
<1>1. PICK valid \in {0, timeOfDayValid} : TodReply(valid) \/ NoTodReply(valid)
  BY DEF CheckTod
<1>2. valid \in 0 .. 2 /\ currentTime \in Sec /\ trueSec \in Sec /\ 0 \in Sec /\ gps \in GpsStatus
      /\ ntpSeconds \in Sec /\ ntpSecondsValid \in BOOLEAN
  BY <1>1, ZeroType DEF TodTypeOK, TrueTypeOK, CountTypeOK, FlagsTypeOK
<1>3. CASE TodReply(valid)
  <2>1. timeOfDayValid' \in 0 .. 2
    BY <1>2, <1>3 DEF TodReply, SetNtpSeconds
  <2> QED
    BY <2>1, <1>2, <1>3 DEF TodReply, SetNtpSeconds, TodTypeOK
<1>4. CASE NoTodReply(valid)
  BY <1>2, <1>4 DEF NoTodReply, TodTypeOK
<1> QED
  BY <1>1, <1>3, <1>4

(* What reading a datagram leaves. *)
LEMMA HeadTail ==
  ASSUME NicTypeOK, rxQueue # <<>>
  PROVE  /\ Head(rxQueue) \in Datagrams /\ Tail(rxQueue) \in Seq(Datagrams)
         /\ Len(Tail(rxQueue)) = Len(rxQueue) - 1 /\ Len(rxQueue) \in Nat \ {0}
BY DEF NicTypeOK

(* The latched edge and the saved capture in range, and those that are none. *)
LEMMA CaptureTypes ==
  ASSUME UdpTypeOK
  PROVE  /\ icr5 \in Edge /\ NoEdge \in Edge /\ udpCapture \in Capture /\ NoCapture \in Capture
         /\ icf5 \in BOOLEAN /\ udpCaptureFlag \in BOOLEAN
BY ZeroType DEF UdpTypeOK

(* Forgetting a datagram keeps them in range. *)
LEMMA ForgetType ==
  ASSUME UdpTypeOK, NEW datagram, Forget(datagram)
  PROVE  icr5' \in Edge /\ udpCapture' \in Capture
BY CaptureTypes DEF Forget

(* An edge latches a count and a time in range. *)
LEMMA RaiseType ==
  ASSUME TrueTypeOK, HwTypeOK, UdpTypeOK, NEW datagram \in Datagram \cup {Nobody},
         RaiseLine(datagram)
  PROVE  icf5' \in BOOLEAN /\ icr5' \in Edge
<1>1. TrueTime \in Time /\ tcnt \in Count
  BY DEF TrueTypeOK, HwTypeOK, TrueTime, Time
<1>2. [cnt |-> tcnt, at |-> TrueTime, of |-> datagram] \in Edge
  BY <1>1 DEF Edge
<1> QED
  BY <1>2, CaptureTypes DEF RaiseLine, NicEdge

-----------------------------------------------------------------------------
(* The steps that answer a datagram; the types they keep. *)

(* The steps that take a datagram and answer it. *)
Answer == NoRequest \/ TakeRequest \/ Reply

(* Where they go from where. *)
ReplyEdge ==
  \/ pc = "window" /\ pc' = "top"
  \/ pc = "window" /\ pc' = "request" /\ InWindow
  \/ pc = "request" /\ pc' \in {"clock", "captured"} /\ timeOfDayValid > 1
  \/ pc = "request" /\ pc' = "flush"
  \/ pc = "clock" /\ pc' = "count"
  \/ pc = "count" /\ pc' = "captured"
  \/ pc = "captured" /\ pc' \in {"stamp", "flush"}
  \/ pc = "stamp" /\ pc' = "rollover" /\ PastRollover /\ xmitTimeout' = tcnt + TxDelay - T
  \/ pc = "stamp" /\ pc' = "transmit" /\ ~PastRollover /\ xmitTimeout' = tcnt + TxDelay
  \/ pc = "rollover" /\ pc' = "transmit" /\ ~Waiting
  \/ pc = "transmit" /\ pc' = "sent" /\ ~Waiting
  \/ pc = "sent" /\ pc' = "flush"
  \/ pc = "flush" /\ pc' \in {"flush", "reset"}
  \/ pc = "reset" /\ pc' = "top"

(* Answering changes the NIC, the capture and the reply, and nothing of the clock. *)
LEMMA AnswerFrame ==
  ASSUME Answer
  PROVE  /\ UNCHANGED <<trueVars, hwVars, syncVars, countVars, ntpSecondsValid, interruptCount,
                        ppsCaptureFlag, gotPps, unserviced, loopVars, statusVars, todVars>>
         /\ ~InterruptPending
         /\ lag' = (IF pc' = "top" THEN 0 ELSE lag)
         /\ pc = "sent" => replied' = TRUE
         /\ pc # "sent" => replied' = replied
         /\ ReplyEdge
         /\ pc \notin {"stamp", "transmit"} => UNCHANGED <<xmitTimeout, txTime>>
         /\ pc = "transmit" => xmitTimeout' = 0 /\ txTime' = Midnight
         /\ pc = "stamp" => TransmitTimestamp
<1> USE DEF ReplyEdge, Step, ReplyStep, ClockUnchanged, PpsWaits, replyVars
<1>1. CASE NoRequest
  BY <1>1 DEF NoRequest, timersVars, localVars
<1>2. CASE TakeRequest
  BY <1>2 DEF TakeRequest, timersVars
<1>3. CASE HandleRequest
  <2>1. CASE SkipRequest
    BY <2>1 DEF SkipRequest
  <2>2. CASE GetCapture /\ timeOfDayValid > 1
    BY <2>2 DEF GetCapture, timersVars
  <2> QED
    BY <1>3, <2>1, <2>2 DEF HandleRequest, CanReply
<1>4. CASE CaptureClock
  BY <1>4 DEF CaptureClock
<1>5. CASE CaptureCount
  BY <1>5 DEF CaptureCount
<1>6. CASE ClearCapture
  BY <1>6 DEF ClearCapture
<1>7. CASE TransmitTimestamp
  BY <1>7 DEF TransmitTimestamp, timersVars
<1>8. CASE Rollover
  BY <1>8 DEF Rollover, timersVars
<1>9. CASE Transmit
  BY <1>9 DEF Transmit
<1>10. CASE Sent
  BY <1>10 DEF Sent
<1>11. CASE FlushOne
  BY <1>11 DEF FlushOne
<1>12. CASE FlushDone
  BY <1>12 DEF FlushDone, timersVars
<1>13. CASE ResetCapture
  BY <1>13 DEF ResetCapture
<1> QED
  BY <1>1, <1>2, <1>3, <1>4, <1>5, <1>6, <1>7, <1>8, <1>9, <1>10, <1>11, <1>12, <1>13
  DEF Answer, Reply

(* Preservation of the types, part by part. *)
LEMMA LoopType ==
  ASSUME LoopTypeOK, FlagsTypeOK, pc = "store" => unserviced # 0, Next
  PROVE  LoopTypeOK' /\ (pc = "store" => unserviced # 0)'
<1> USE BoundFacts DEF LoopTypeOK, FlagsTypeOK, Pcs, Step
<1>1. CASE LoopTick
  BY <1>1 DEF LoopTick, localVars
<1>2. CASE LoopMatch \/ LoopPps \/ GpsAnswer \/ \E kind \in Kinds : Arrive(kind)
  BY <1>2 DEF LoopMatch, LoopPps, GpsAnswer, Arrive, localVars, loopVars
<1>3. CASE LoopTop
  BY <1>3 DEF LoopTop
<1>4. CASE AfterPps
  BY <1>4 DEF AfterPps, CyclesAfterPps
<1>5. CASE InitPass
  BY <1>5 DEF InitPass, localVars, loopVars
<1>6. CASE ServiceMatch
  BY <1>6 DEF ServiceMatch, loopVars
<1>7. CASE StoreCount
  <2>1. (timerCycles + 1) % CycleMod \in 0 .. CycleMod - 1
    OBVIOUS
  <2> QED
    BY <1>7, <2>1 DEF StoreCount
<1>8. CASE Answer
  BY <1>8, AnswerFrame DEF ReplyEdge, loopVars
<1> QED
  BY <1>1, <1>2, <1>3, <1>4, <1>5, <1>6, <1>7, <1>8 DEF Next, World, Loop, Answer

(* A step of the loop keeps the flag replied in range. *)
LEMMA StepFlag ==
  ASSUME FlagTypeOK, NEW from, NEW to, Step(from, to)
  PROVE  replied' \in BOOLEAN
BY DEF FlagTypeOK, Step

(* The flags of the loop stay in range. *)
LEMMA FlagType ==
  ASSUME FlagTypeOK, FlagsTypeOK, UdpTypeOK, Next
  PROVE  FlagTypeOK'
<1> USE DEF FlagTypeOK
<1>1. CASE LoopTick \/ LoopMatch \/ LoopPps \/ GpsAnswer \/ \E kind \in Kinds : Arrive(kind)
  BY <1>1 DEF LoopTick, LoopMatch, LoopPps, GpsAnswer, Arrive, localVars, loopVars, replyVars,
              nicVars, statusVars
<1>2. CASE LoopTop
  BY <1>2, StepFlag DEF LoopTop, FlagsTypeOK, replyVars, nicVars, statusVars
<1>3. CASE AfterPps
  <2>1. Locked \in BOOLEAN /\ Holdover \in BOOLEAN
    BY DEF Locked, Holdover
  <2>2. pllLock' = Locked /\ holdover' = Holdover /\ gotPps' = FALSE /\ replied' \in BOOLEAN
    BY <1>3, StepFlag DEF AfterPps
  <2>3. UNCHANGED <<timersRunning, recvIr, sendIr, haveCapture>>
    BY <1>3 DEF AfterPps, replyVars, nicVars
  <2> QED
    BY <2>1, <2>2, <2>3
<1>4. CASE InitPass
  BY <1>4, StepFlag DEF InitPass, IgnoreDatagram, ReadDatagram, localVars, loopVars, replyVars,
                        nicVars
<1>5. CASE ServiceMatch
  BY <1>5, StepFlag DEF ServiceMatch, loopVars, replyVars, nicVars, statusVars
<1>6. CASE StoreCount
  BY <1>6, StepFlag DEF StoreCount, replyVars, nicVars
<1>7. CASE Answer
  <2>1. gotPps' \in BOOLEAN /\ timersRunning' \in BOOLEAN /\ pllLock' \in BOOLEAN /\ holdover' \in BOOLEAN
    BY <1>7, AnswerFrame DEF loopVars, statusVars
  <2>2. replied' \in BOOLEAN
    BY <1>7, AnswerFrame
  <2>3. recvIr' \in BOOLEAN /\ sendIr' \in BOOLEAN /\ haveCapture' \in BOOLEAN
    BY <1>7
    DEF Answer, NoRequest, TakeRequest, Reply, HandleRequest, SkipRequest, GetCapture,
        CaptureClock,
        CaptureCount, ClearCapture, TransmitTimestamp, Rollover, Transmit, Sent, FlushOne, FlushDone,
        ResetCapture, ReadDatagram, UdpTypeOK, nicVars, replyVars, localVars
  <2> QED
    BY <2>1, <2>2, <2>3
<1> QED
  BY <1>1, <1>2, <1>3, <1>4, <1>5, <1>6, <1>7 DEF Next, World, Loop, Answer

(* The queue stays a bounded sequence of datagrams, the request one of them or none. *)
LEMMA NicType ==
  ASSUME NicTypeOK, Next
  PROVE  NicTypeOK'
<1>1. ASSUME ReadDatagram, request' \in {request, Head(rxQueue), None}
      PROVE  NicTypeOK'
  BY <1>1, HeadTail, BoundFacts DEF ReadDatagram, NicTypeOK
<1>2. ASSUME rxQueue' = rxQueue, request' \in {request, None}
      PROVE  NicTypeOK'
  BY <1>2 DEF NicTypeOK
<1>3. ASSUME NEW kind \in Kinds, Arrive(kind)
      PROVE  NicTypeOK'
  <2> DEFINE new == CHOOSE id \in Unused : \A other \in Unused : id <= other
  <2>1. new \in Datagram
    BY <1>3, NewDatagram DEF Arrive
  <2>2. rxQueue' = Append(rxQueue, [id |-> new, kind |-> kind])
    BY <1>3 DEF Arrive
  <2> HIDE DEF new
  <2>3. [id |-> new, kind |-> kind] \in Datagrams
    BY <2>1 DEF Datagrams
  <2>4. rxQueue' \in Seq(Datagrams) /\ Len(rxQueue') = Len(rxQueue) + 1
    BY <2>2, <2>3 DEF NicTypeOK
  <2>5. Len(rxQueue') <= QueueCap
    BY <1>3, <2>4, BoundFacts DEF Arrive, NicTypeOK
  <2> QED
    BY <1>3, <2>4, <2>5 DEF Arrive, NicTypeOK, localVars, replyVars
<1>4. CASE LoopTick \/ LoopMatch \/ LoopPps \/ GpsAnswer \/ LoopTop \/ AfterPps \/ ServiceMatch \/ StoreCount
  BY <1>2, <1>4 DEF LoopTick, LoopMatch, LoopPps, GpsAnswer, LoopTop, AfterPps, ServiceMatch,
                    StoreCount,
                    localVars, replyVars, nicVars
<1>5. CASE InitPass
  BY <1>1, <1>2, <1>5 DEF InitPass, IgnoreDatagram, localVars, replyVars, nicVars
<1>6. CASE TakeRequest \/ FlushOne
  BY <1>1, <1>6 DEF TakeRequest, FlushOne, replyVars
<1>7. CASE NoRequest \/ HandleRequest \/ CaptureClock \/ CaptureCount \/ ClearCapture
           \/ TransmitTimestamp \/ Rollover \/ Transmit \/ Sent \/ FlushDone \/ ResetCapture
  BY <1>2, <1>7 DEF NoRequest, HandleRequest, SkipRequest, GetCapture, CaptureClock, CaptureCount,
                    ClearCapture, TransmitTimestamp, Rollover, Transmit, Sent, FlushDone, ResetCapture,
                    localVars, replyVars, nicVars
<1> QED
  BY <1>3, <1>4, <1>5, <1>6, <1>7 DEF Next, World, Loop, Reply

(* The exchange with the reference clock stays in range. *)
LEMMA TodType ==
  ASSUME TodTypeOK, CountTypeOK, FlagsTypeOK, TrueTypeOK, Next
  PROVE  TodTypeOK'
<1>1. CASE CheckTod
  BY <1>1, CheckTodType
<1>2. CASE GpsAnswer
  BY <1>2 DEF GpsAnswer, TodTypeOK, TrueTypeOK, statusVars
<1>3. CASE UNCHANGED <<timeOfDayValid, todVars>>
  BY <1>3 DEF TodTypeOK, todVars
<1>4. CASE LoopTick \/ LoopMatch \/ LoopPps \/ \E kind \in Kinds : Arrive(kind)
  BY <1>3, <1>4 DEF LoopTick, LoopMatch, LoopPps, Arrive, statusVars
<1>5. CASE LoopTop \/ AfterPps \/ InitPass \/ ServiceMatch \/ StoreCount
  BY <1>1, <1>3, <1>5 DEF LoopTop, AfterPps, InitPass, ServiceMatch, StoreCount, statusVars
<1>6. CASE Answer
  BY <1>3, <1>6, AnswerFrame DEF statusVars
<1> QED
  BY <1>2, <1>4, <1>5, <1>6 DEF Next, World, Loop, Answer

(* The transmit timestamp and its timeout stay in range. *)
LEMMA ReplyType ==
  ASSUME ReplyTypeOK, TimersTypeOK, Next
  PROVE  ReplyTypeOK'
<1>1. ASSUME UNCHANGED <<xmitTimeout, txTime>>
      PROVE  ReplyTypeOK'
  BY <1>1 DEF ReplyTypeOK
<1>2. CASE World
  BY <1>1, <1>2 DEF World, LoopTick, LoopMatch, LoopPps, GpsAnswer, Arrive, localVars, replyVars
<1>3. CASE LoopTop \/ AfterPps \/ InitPass \/ ServiceMatch \/ StoreCount
  BY <1>1, <1>3 DEF LoopTop, AfterPps, InitPass, ServiceMatch, StoreCount, localVars, replyVars
<1>4. CASE Answer /\ pc # "stamp"
  BY <1>1, <1>4, AnswerFrame, ZeroType DEF ReplyTypeOK
<1>5. CASE Answer /\ pc = "stamp"
  <2> DEFINE reading == [sec |-> ntpSeconds, cyc |-> subCycleCount, cnt |-> tcnt]
  <2>1. tcnt \in Count /\ reading \in Time /\ ntpOffset \in 0 .. T
    BY DEF TimersTypeOK, HwTypeOK, CountTypeOK, SyncTypeOK, Time
  <2>2. NtpTime(ntpSeconds, subCycleCount, tcnt, ntpOffset) \in Time
    <3>1. tcnt + ntpOffset \in Nat /\ tcnt + ntpOffset <= T + T - 1
      BY <2>1, BoundFacts DEF Count
    <3>2. CASE tcnt + ntpOffset >= T
      <4>1. tcnt + ntpOffset - T \in Count
        BY <2>1, <3>1, <3>2, BoundFacts DEF Count
      <4> QED
        BY <2>1, <3>2, <4>1, NextCycleType DEF NtpTime, Time
    <3>3. CASE tcnt + ntpOffset < T
      <4>1. tcnt + ntpOffset \in Count
        BY <3>1, <3>3, BoundFacts DEF Count
      <4> QED
        BY <2>1, <3>1, <3>3, <4>1, BoundFacts DEF NtpTime, Time
    <3> QED
      BY <3>1, <3>2, <3>3, BoundFacts
  <2>3. txTime' \in Time
    BY <1>5, <2>2, AnswerFrame, TimeOfParts, BoundFacts DEF TransmitTimestamp, TimeOf
  <2>4. xmitTimeout' \in Count
    BY <1>5, <2>1, AnswerFrame, BoundFacts DEF ReplyEdge, PastRollover, Count
  <2> QED
    BY <2>3, <2>4 DEF ReplyTypeOK
<1> QED
  BY <1>2, <1>3, <1>4, <1>5 DEF Next, Loop, Answer

-----------------------------------------------------------------------------
(* Type correctness. *)

(* The capture of the NIC interrupt stays in range. *)
LEMMA UdpType ==
  ASSUME TimersTypeOK, NicTypeOK, Loop \/ \E kind \in Kinds : Arrive(kind)
  PROVE  UdpTypeOK'
<1>1. UdpTypeOK /\ TrueTypeOK /\ HwTypeOK /\ CountTypeOK
  BY DEF TimersTypeOK
<1>2. ASSUME UNCHANGED udpVars
      PROVE  UdpTypeOK'
  BY <1>1, <1>2, UnchangedType
<1>3. ASSUME NEW datagram, Forget(datagram), UNCHANGED <<icf5, udpCaptureFlag>>
      PROVE  UdpTypeOK'
  BY <1>1, <1>3, ForgetType DEF UdpTypeOK
<1>4. ASSUME NEW kind \in Kinds, Arrive(kind)
      PROVE  UdpTypeOK'
  <2> DEFINE new == CHOOSE id \in Unused : \A other \in Unused : id <= other
  <2>1. new \in Datagram /\ RaiseLine(new)
    BY <1>4, NewDatagram DEF Arrive
  <2> HIDE DEF new
  <2>2. icf5' \in BOOLEAN /\ icr5' \in Edge
    BY <1>1, <2>1, RaiseType
  <2> QED
    BY <1>1, <1>4, <2>2 DEF Arrive, UdpTypeOK
<1>5. CASE LoopTop \/ AfterPps \/ ServiceMatch \/ StoreCount
  <2>1. CASE LoopTop
    BY <1>2, <2>1 DEF LoopTop, StartTimers, timersVars
  <2>2. CASE ServiceMatch
    BY <1>2, <2>2 DEF ServiceMatch, timersVars
  <2>3. CASE AfterPps \/ StoreCount
    BY <1>2, <2>3 DEF AfterPps, StoreCount
  <2> QED
    BY <1>5, <2>1, <2>2, <2>3
<1>6. CASE InitPass
  BY <1>1, <1>2, <1>3, <1>6 DEF InitPass, IgnoreDatagram, udpVars
<1>7. CASE NoRequest \/ TakeRequest \/ GetCapture \/ TransmitTimestamp \/ Rollover \/ FlushDone
  BY <1>2, <1>7 DEF NoRequest, TakeRequest, GetCapture, TransmitTimestamp, Rollover, FlushDone,
                    timersVars
<1>8. CASE SkipRequest \/ FlushOne
  BY <1>3, <1>8 DEF SkipRequest, FlushOne
<1>9. CASE CaptureClock
  BY <1>1, <1>9 DEF CaptureClock, UdpTypeOK, CountTypeOK, Capture
<1>10. CASE CaptureCount
  BY <1>1, <1>10 DEF CaptureCount, UdpTypeOK, Edge, Capture
<1>11. CASE ClearCapture
  BY <1>1, <1>11, CaptureTypes DEF ClearCapture, UdpTypeOK
<1>12. CASE Transmit
  <2>1. icf5' \in BOOLEAN /\ icr5' \in Edge
    BY <1>1, <1>12, RaiseType, CaptureTypes DEF Transmit
  <2> QED
    BY <1>1, <1>12, <2>1 DEF Transmit, UdpTypeOK
<1>13. CASE Sent \/ ResetCapture
  <2>1. icf5' = FALSE /\ icr5' = NoEdge /\ UNCHANGED <<udpCaptureFlag, udpCapture>>
    BY <1>13 DEF Sent, ResetCapture
  <2>2. icf5' \in BOOLEAN /\ icr5' \in Edge
    BY <1>1, <2>1, CaptureTypes
  <2> QED
    BY <1>1, <2>1, <2>2 DEF UdpTypeOK
<1> QED
  BY <1>4, <1>5, <1>6, <1>7, <1>8, <1>9, <1>10, <1>11, <1>12, <1>13
  DEF Loop, Reply, HandleRequest

(* The clock, its counts and its flags stay in range. *)
LEMMA TimersType ==
  ASSUME TypeOK, pc = "store" => unserviced # 0, Next
  PROVE  TimersTypeOK'
<1>1. /\ TimersTypeOK /\ LoopTypeOK /\ NicTypeOK /\ TodTypeOK
      /\ TrueTypeOK /\ HwTypeOK /\ SyncTypeOK /\ CountTypeOK /\ UdpTypeOK /\ FlagsTypeOK
  BY TypeParts DEF TimersTypeOK
<1>2. CASE LoopTick \/ LoopMatch \/ LoopPps \/ GpsAnswer
  BY <1>1, <1>2, TickType, MatchType, PpsType, UnchangedTimersType
  DEF LoopTick, LoopMatch, LoopPps, GpsAnswer
<1>3. CASE LoopTop \/ ServiceMatch
  BY <1>1, <1>3, StartType, UnchangedTimersType DEF LoopTop, ServiceMatch
<1>4. CASE AfterPps \/ InitPass \/ StoreCount \/ Answer \/ \E kind \in Kinds : Arrive(kind)
  <2>1. UdpTypeOK'
    BY <1>1, <1>4, UdpType DEF Loop, Answer
  <2>2. TrueTypeOK' /\ HwTypeOK' /\ SyncTypeOK'
    BY <1>1, <1>4, UnchangedType, AnswerFrame DEF AfterPps, InitPass, StoreCount, Arrive
  <2>3. CountTypeOK' /\ FlagsTypeOK'
    <3>1. CASE AfterPps
      BY <1>1, <3>1, UnchangedType DEF AfterPps, FlagsTypeOK
    <3>2. CASE InitPass
      <4>1. ntpSeconds' \in Sec /\ ntpSecondsValid' \in BOOLEAN
        BY <1>1, <3>2, CheckTodType DEF InitPass
      <4> QED
        BY <1>1, <3>2, <4>1 DEF InitPass, CountTypeOK, FlagsTypeOK
    <3>3. CASE StoreCount
      <4>1. ntpSeconds' \in Sec /\ ntpSecondsValid' \in BOOLEAN
        BY <1>1, <3>3, CheckTodType DEF StoreCount, CountTypeOK, FlagsTypeOK
      <4>2. interruptCount' \in 0 .. CountMod - 1
        BY <1>1, <3>3, BoundFacts DEF StoreCount, Step, LoopTypeOK
      <4> QED
        BY <1>1, <3>3, <4>1, <4>2 DEF StoreCount, CountTypeOK, FlagsTypeOK
    <3>4. CASE Answer
      BY <1>1, <3>4, UnchangedType, AnswerFrame
    <3>5. ASSUME NEW kind \in Kinds, Arrive(kind)
          PROVE  CountTypeOK' /\ FlagsTypeOK'
      BY <1>1, <3>5, UnchangedType DEF Arrive
    <3> QED
      BY <1>4, <3>1, <3>2, <3>3, <3>4, <3>5
  <2> QED
    BY <2>1, <2>2, <2>3 DEF TimersTypeOK
<1> QED
  BY <1>2, <1>3, <1>4 DEF Next, World, Loop, Answer

(* TypeOK is inductive once the loop stores a count only after it has loaded one. *)
TypeInv == TypeOK /\ (pc = "store" => unserviced # 0)

(* Every step keeps the types. *)
LEMMA NextTypeInv == TypeInv /\ [Next]_vars => TypeInv'
<1>1. ASSUME TypeInv, Next
      PROVE  TypeInv'
  <2>1. /\ TimersTypeOK /\ LoopTypeOK /\ FlagTypeOK /\ NicTypeOK /\ ReplyTypeOK /\ TodTypeOK
        /\ TrueTypeOK /\ HwTypeOK /\ SyncTypeOK /\ CountTypeOK /\ UdpTypeOK /\ FlagsTypeOK
    BY <1>1, TypeParts DEF TypeInv, TimersTypeOK
  <2>2. pc = "store" => unserviced # 0
    BY <1>1 DEF TypeInv
  <2>3. LoopTypeOK' /\ (pc = "store" => unserviced # 0)'
    BY <1>1, <2>1, <2>2, LoopType
  <2>4. FlagTypeOK' /\ NicTypeOK' /\ TodTypeOK' /\ ReplyTypeOK'
    BY <1>1, <2>1, FlagType, NicType, TodType, ReplyType
  <2>5. TimersTypeOK'
    BY <1>1, <2>2, TimersType DEF TypeInv
  <2>6. TypeOK'
    BY <2>3, <2>4, <2>5, TypePartsNext
  <2> QED
    BY <2>3, <2>6 DEF TypeInv
<1>2. ASSUME TypeInv, UNCHANGED vars
      PROVE  TypeInv'
  <2>1. TimersTypeOK'
    <3>1. TimersTypeOK /\ UNCHANGED timersVars
      BY <1>2, TypeParts DEF TypeInv, vars
    <3> QED
      BY <3>1, UnchangedTimersType
  <2>2. LoopTypeOK' /\ FlagTypeOK' /\ NicTypeOK' /\ ReplyTypeOK' /\ TodTypeOK'
    <3>1. LoopTypeOK /\ FlagTypeOK /\ NicTypeOK /\ ReplyTypeOK /\ TodTypeOK
      BY <1>2, TypeParts DEF TypeInv
    <3>2. LoopTypeOK'
      BY <1>2, <3>1 DEF LoopTypeOK, vars, localVars, loopVars
    <3>3. FlagTypeOK'
      BY <1>2, <3>1 DEF FlagTypeOK, vars, localVars, loopVars, replyVars, nicVars, statusVars
    <3>4. NicTypeOK' /\ ReplyTypeOK' /\ TodTypeOK'
      BY <1>2, <3>1 DEF NicTypeOK, ReplyTypeOK, TodTypeOK, vars, localVars, replyVars, nicVars,
                        statusVars, todVars
    <3> QED
      BY <3>2, <3>3, <3>4
  <2>3. TypeOK'
    BY <2>1, <2>2, TypePartsNext
  <2>4. (pc = "store" => unserviced # 0)'
    BY <1>2 DEF TypeInv, vars, localVars
  <2> QED
    BY <2>3, <2>4 DEF TypeInv
<1> QED
  BY <1>1, <1>2

(* Every variable stays in its range, for every value of the constants: faults, a *)
(* late interrupt routine and the PPS race included.                              *)
THEOREM TypeCorrect == Spec => []TypeOK
<1>1. Init => TypeInv
  BY InitTypeOK DEF TypeInv, Init
<1>2. TypeInv => TypeOK
  BY DEF TypeInv
<1> QED
  BY <1>1, <1>2, NextTypeInv, PTL DEF Spec

-----------------------------------------------------------------------------
(* The interrupt line. *)

(* The bits of the socket are up only while something is left to read or a reply *)
(* is under way.                                                                 *)
SocketInv == (recvIr => rxQueue # <<>>) /\ (sendIr => pc = "sent")

(* Every step keeps the bits of the socket. *)
LEMMA NextSocket ==
  ASSUME TypeInv, SocketInv, [Next]_vars
  PROVE  SocketInv'
<1>1. NicTypeOK
  BY TypeParts DEF TypeInv
<1> USE DEF SocketInv, Step, ReplyStep
<1>2. CASE LoopTick \/ LoopMatch \/ LoopPps \/ GpsAnswer \/ UNCHANGED vars
  BY <1>2 DEF LoopTick, LoopMatch, LoopPps, GpsAnswer, nicVars, vars
<1>3. ASSUME NEW kind \in Kinds, Arrive(kind)
      PROVE  SocketInv'
  <2>1. rxQueue' # <<>>
    BY <1>1, <1>3 DEF Arrive, NicTypeOK
  <2> QED
    BY <1>3, <2>1 DEF Arrive
<1>4. CASE LoopTop \/ AfterPps \/ InitPass \/ ServiceMatch \/ StoreCount
  BY <1>4 DEF LoopTop, AfterPps, InitPass, ServiceMatch, StoreCount, IgnoreDatagram,
              ReadDatagram, nicVars
<1>5. CASE NoRequest \/ TakeRequest \/ HandleRequest \/ CaptureClock \/ CaptureCount \/ ClearCapture
  BY <1>5 DEF NoRequest, TakeRequest, HandleRequest, SkipRequest, GetCapture, CaptureClock,
              CaptureCount, ClearCapture, ReadDatagram, nicVars
<1>6. CASE TransmitTimestamp \/ Rollover \/ Transmit \/ Sent \/ FlushOne \/ FlushDone \/ ResetCapture
  BY <1>6 DEF TransmitTimestamp, Rollover, Transmit, Sent, FlushOne, FlushDone, ResetCapture,
              ReadDatagram, nicVars
<1> QED
  BY <1>2, <1>3, <1>4, <1>5, <1>6 DEF Next, World, Loop, Reply

(* When the loop is at its top and nothing is left to read, the interrupt line is *)
(* high: the next datagram makes an edge that can be captured.                    *)
THEOREM LineCorrect == Spec => []LineReleased
<1>1. Init => SocketInv
  BY DEF Init, SocketInv
<1>2. Init => TypeInv
  BY InitTypeOK DEF TypeInv, Init
<1>3. SocketInv => LineReleased
  BY DEF SocketInv, LineReleased
<1>4. TypeInv /\ SocketInv /\ [Next]_vars => SocketInv'
  BY NextSocket
<1> QED
  BY <1>1, <1>2, <1>3, <1>4, NextTypeInv, PTL DEF Spec

-----------------------------------------------------------------------------
(* The clock, without faults. *)

(* The loop is fast enough: two passes fit into half a cycle (a match is counted, *)
(* and a PPS seen, before the next event), a window opened late closes before the *)
(* match, and a reply is out before the next match.                               *)
Timely ==
  /\ 2 * MaxLag <= H
  /\ 3 * MaxLag + Window <= T + 1
  /\ 2 * MaxLag + TxDelay <= T
  /\ MaxLag < Window
  /\ CountMod >= 2

(* The oscillator and the PPS are without fault, and no edge falls between a match *)
(* and its routine or between the load and the store of PpsOccurred.               *)
Ideal == MaxFaults = 0 /\ ~LatencyOverlap /\ ~PpsRace

(* So the timers are never off, and their offset is half a cycle. *)
Steady ==
  /\ skew = 0 /\ ntpOffset = H
  /\ timersInitialized = 2 => timerPpsValue = H

(* The clock is right within the second. *)
Core == TypeInv /\ ClockInv /\ Steady

(* What the proofs need of all this. *)
LEMMA CoreFacts ==
  ASSUME Core, Ideal
  PROVE  /\ TimersTypeOK /\ LoopTypeOK /\ NicTypeOK /\ TodTypeOK /\ ReplyTypeOK
         /\ PulsePending /\ EnabledFirst /\ OffsetBounded /\ PhaseExact
         /\ skew = 0 /\ ntpOffset = H /\ faults = 0
         /\ trueSec \in Sec /\ trueCyc \in 0 .. N - 1 /\ trueCnt \in 0 .. T - 1 /\ TrueTime \in Time
         /\ tcnt \in 0 .. T - 1 /\ icr4 \in 0 .. T - 1 /\ subCycleCount \in 0 .. N - 1
         /\ ntpSeconds \in Sec /\ timersInitialized \in 0 .. 2 /\ interruptCount \in 0 .. CountMod - 1
         /\ Offset = H /\ ~Lost
         /\ N \in Nat /\ N >= 5 /\ H \in Nat /\ H >= 2 /\ T \in Nat /\ T = H + H /\ H \in Within
<1>1. TimersTypeOK /\ LoopTypeOK /\ NicTypeOK /\ TodTypeOK /\ ReplyTypeOK
  BY TypeParts DEF Core, TypeInv
<1>2. PulsePending /\ EnabledFirst /\ OffsetBounded /\ PhaseExact
  BY DEF Core, ClockInv
<1>3. skew = 0 /\ ntpOffset = H /\ Offset = H
  BY DEF Core, Steady, Offset
<1>4. /\ trueSec \in Sec /\ trueCyc \in 0 .. N - 1 /\ trueCnt \in 0 .. T - 1 /\ TrueTime \in Time
      /\ tcnt \in 0 .. T - 1 /\ icr4 \in 0 .. T - 1 /\ subCycleCount \in 0 .. N - 1
      /\ ntpSeconds \in Sec /\ timersInitialized \in 0 .. 2
  BY <1>1, TypeFacts DEF Cycle, Count
<1>5. interruptCount \in 0 .. CountMod - 1
  BY <1>1 DEF TimersTypeOK, FlagsTypeOK
<1>6. faults = 0
  BY <1>1, TypeFacts DEF Ideal
<1>7. ~Lost
  BY <1>3, TimersAssumption DEF Lost, Abs, Drift
<1>8. H \in Within
  BY BoundFacts DEF Within
<1> QED
  BY <1>1, <1>2, <1>3, <1>4, <1>5, <1>6, <1>7, <1>8, BoundFacts

(* Where the timers are in the second, as the true time tells. *)
LEMMA Phase ==
  ASSUME Core, Ideal, timersInitialized # 0, ~ocf4a
  PROVE  /\ tcnt < H => trueCnt = tcnt + H /\ trueCyc = subCycleCount
         /\ tcnt >= H => /\ trueCnt = tcnt - H
                         /\ trueCyc = IF subCycleCount = N - 1 THEN 0 ELSE subCycleCount + 1
<1>1. ClockTime(0).cyc = trueCyc /\ ClockTime(0).cnt = trueCnt
  BY CoreFacts DEF PhaseExact
<1>2. Reached = [sec |-> ntpSeconds, cyc |-> subCycleCount, cnt |-> tcnt]
  BY DEF Reached
<1>3. ClockTime(0) = NtpTime(ntpSeconds, subCycleCount, tcnt, H)
  BY <1>2, CoreFacts DEF ClockTime
<1>4. ASSUME tcnt >= H
      PROVE  ClockTime(0) = NextCycle(ntpSeconds, subCycleCount, tcnt - H)
  BY <1>3, <1>4, CoreFacts DEF NtpTime
<1>5. ASSUME tcnt >= H
      PROVE  /\ ClockTime(0).cnt = tcnt - H
             /\ ClockTime(0).cyc = IF subCycleCount = N - 1 THEN 0 ELSE subCycleCount + 1
  <2>1. tcnt - H \in Count /\ subCycleCount \in Cycle /\ ntpSeconds \in Sec
    BY <1>5, CoreFacts DEF Count, Cycle
  <2> QED
    BY <1>4, <1>5, <2>1, NextCycleType
<1>6. ASSUME tcnt < H
      PROVE  ClockTime(0).cnt = tcnt + H /\ ClockTime(0).cyc = subCycleCount
  BY <1>3, <1>6, CoreFacts DEF NtpTime
<1> QED
  BY <1>1, <1>5, <1>6

(* A tick without a fault. *)
LEMMA TickShape ==
  ASSUME Core, Ideal, Tick
  PROVE  /\ timsk4 => ~ocf4a /\ ~icf4
         /\ trueCnt' = IF trueCnt = T - 1 THEN 0 ELSE trueCnt + 1
         /\ trueCyc' = IF trueCnt # T - 1 THEN trueCyc ELSE IF trueCyc = N - 1 THEN 0 ELSE trueCyc + 1
         /\ trueSec' = IF trueCnt = T - 1 /\ trueCyc = N - 1 THEN NextSec(trueSec) ELSE trueSec
         /\ TrueTime' = Advance(TrueTime)
         /\ skew' = 0 /\ faults' = 0
         /\ tcnt' = IF tcnt = T - 1 THEN 0 ELSE tcnt + 1
         /\ ocf4a' <=> ocf4a \/ tcnt = T - 1
         /\ icf4' <=> icf4 \/ (trueCnt = T - 1 /\ trueCyc = N - 1)
         /\ UNCHANGED <<timsk4, syncVars, countVars, udpVars, ntpSecondsValid,
                        interruptCount, ppsCaptureFlag>>
<1>1. PICK time, count, pulse \in BOOLEAN :
        LET end  == trueCnt = T - 1
            next == NextCycle(trueSec, trueCyc, 0)
            pps  == time /\ end /\ trueCyc = N - 1
            cost == IF time /\ count /\ (pps => pulse) THEN 0 ELSE 1
        IN  /\ pulse => pps
            /\ cost <= faults
            /\ faults' = faults - cost
            /\ trueSec' = IF time /\ end THEN next.sec ELSE trueSec
            /\ trueCyc' = IF time /\ end THEN next.cyc ELSE trueCyc
            /\ trueCnt' = IF ~time THEN trueCnt ELSE IF end THEN 0 ELSE trueCnt + 1
            /\ skew' = IF Lost \/ (time /\ count) THEN skew
                       ELSE IF time THEN skew + 1 ELSE skew - 1
            /\ tcnt' = IF ~count THEN tcnt ELSE IF tcnt = T - 1 THEN 0 ELSE tcnt + 1
            /\ ocf4a' = (ocf4a \/ (count /\ tcnt = T - 1))
            /\ icf4' = (icf4 \/ pulse)
  BY DEF Tick
<1>2. time /\ count /\ (trueCnt = T - 1 /\ trueCyc = N - 1 <=> pulse) /\ faults' = 0
  BY <1>1, CoreFacts
<1>3. skew' = 0 /\ tcnt' = IF tcnt = T - 1 THEN 0 ELSE tcnt + 1
  BY <1>1, <1>2, CoreFacts
<1>4. (ocf4a' <=> ocf4a \/ tcnt = T - 1) /\ (icf4' <=> icf4 \/ (trueCnt = T - 1 /\ trueCyc = N - 1))
  BY <1>1, <1>2
<1>5. /\ NextCycle(trueSec, trueCyc, 0).cyc = (IF trueCyc = N - 1 THEN 0 ELSE trueCyc + 1)
      /\ NextCycle(trueSec, trueCyc, 0).sec = (IF trueCyc = N - 1 THEN NextSec(trueSec) ELSE trueSec)
  BY CoreFacts, NextCycleType, ZeroType DEF Cycle
<1>6. /\ trueCnt' = IF trueCnt = T - 1 THEN 0 ELSE trueCnt + 1
      /\ trueCyc' = IF trueCnt # T - 1 THEN trueCyc ELSE IF trueCyc = N - 1 THEN 0 ELSE trueCyc + 1
      /\ trueSec' = IF trueCnt = T - 1 /\ trueCyc = N - 1 THEN NextSec(trueSec) ELSE trueSec
  BY <1>1, <1>2, <1>5
<1>7. TrueTime' = Advance(TrueTime)
  BY <1>6 DEF TrueTime, Advance, NextCycle
<1>8. timsk4 => ~ocf4a /\ ~icf4
  BY DEF Tick, InterruptPending
<1> QED
  BY <1>2, <1>3, <1>4, <1>6, <1>7, <1>8 DEF Tick

(* A match of the timers, once the first PPS has set them. *)
LEMMA MatchShape ==
  ASSUME Core, Ideal, TimerMatchIsr
  PROVE  /\ timsk4 /\ ocf4a /\ ~ocf4a'
         /\ UNCHANGED <<trueVars, tcnt, timsk4, icf4, icr4, syncVars, ntpSecondsValid,
                        ppsCaptureFlag>>
         /\ timersInitialized = 0 => UNCHANGED <<countVars, udpVars, interruptCount>>
         /\ timersInitialized # 0 =>
              /\ subCycleCount' = IF subCycleCount = N - 1 THEN 0 ELSE subCycleCount + 1
              /\ ntpSeconds' = IF subCycleCount = N - 1 THEN NextSec(ntpSeconds) ELSE ntpSeconds
              /\ interruptCount' = (interruptCount + 1) % CountMod
<1>2. LastCycle <=> subCycleCount = N - 1
  BY CoreFacts DEF LastCycle
<1> QED
  BY <1>2 DEF TimerMatchIsr

(* A PPS: the first sets the timers, the second and every later one finds them *)
(* half a cycle into the last cycle of the second.                             *)
LEMMA PpsShape ==
  ASSUME Core, Ideal, PpsCaptureIsr
  PROVE  /\ timsk4 /\ icf4 /\ ~ocf4a /\ ~icf4' /\ ~ocf4a' /\ timsk4'
         /\ UNCHANGED <<trueSec, trueCyc, trueCnt, faults, ntpSeconds, udpVars, ntpSecondsValid,
                        interruptCount>>
         /\ trueCyc = 0 /\ trueCnt = 0 /\ skew' = 0 /\ ntpOffset' = H
         /\ timersInitialized = 0 =>
              /\ timersInitialized' = 1 /\ tcnt' = H /\ subCycleCount' = N - 1
              /\ UNCHANGED ppsCaptureFlag
         /\ timersInitialized # 0 =>
              /\ timersInitialized' = 2 /\ timerPpsValue' = H
              /\ tcnt = H /\ subCycleCount = N - 1 /\ UNCHANGED <<tcnt, subCycleCount>>
         /\ timersInitialized = 1 => UNCHANGED ppsCaptureFlag
         /\ timersInitialized = 2 => ppsCaptureFlag'
<1>1. timsk4 /\ icf4 /\ ~ocf4a /\ icf4' = FALSE /\ UNCHANGED <<ocf4a, timsk4>>
  BY DEF PpsCaptureIsr, Ideal
<1>2. trueCyc = 0 /\ trueCnt = 0 /\ icr4 = tcnt
  BY <1>1, CoreFacts DEF PulsePending
<1>3. UNCHANGED <<trueSec, trueCyc, trueCnt, faults, ntpSeconds, udpVars, ntpSecondsValid,
                  interruptCount>>
  BY DEF PpsCaptureIsr
<1>4. CASE timersInitialized = 0
  BY <1>1, <1>2, <1>3, <1>4, CoreFacts DEF PpsCaptureIsr, PpsTracked, PpsPreset, PpsAcquired,
                                           PresetCycle
<1>5. ASSUME timersInitialized # 0
      PROVE  tcnt = H /\ subCycleCount = N - 1 /\ icr4 = H
  BY <1>5, CoreFacts, PpsExact DEF Ideal
<1>6. CASE timersInitialized = 1
  <2>1. PpsAcquired
    BY <1>6 DEF PpsCaptureIsr, PpsTracked, PpsPreset
  <2>2. Abs(icr4 - H) = 0 /\ ~(Abs(icr4 - H) > AcqTol) /\ AcquiredOffset = H
    BY <1>5, <1>6, CoreFacts, TimersAssumption DEF Abs, AcquiredOffset
  <2>3. skew' = 0
    BY <1>5, <1>6, <2>1, <2>2, CoreFacts DEF PpsAcquired
  <2> QED
    BY <1>1, <1>2, <1>3, <1>5, <1>6, <2>1, <2>2, <2>3 DEF PpsAcquired
<1>7. CASE timersInitialized = 2
  <2>1. PpsTracked
    BY <1>7 DEF PpsCaptureIsr, PpsAcquired, PpsPreset
  <2>2. ~Spurious /\ timerPpsValue = H
    BY <1>5, <1>7, CoreFacts, TimersAssumption DEF Abs, Spurious, Core, Steady
  <2> QED
    BY <1>1, <1>2, <1>3, <1>5, <1>7, <2>1, <2>2, CoreFacts DEF PpsTracked
<1> QED
  BY <1>4, <1>6, <1>7, CoreFacts

-----------------------------------------------------------------------------
(* The start of the timers. *)

(* The loop is at a request, before its transmit time is set. *)
Serving == pc \in {"request", "clock", "count", "captured", "stamp"}

(* The interrupts are enabled when the sketch has started the timers; nothing is *)
(* counted before the first PPS, and none is shown to the loop before the third. *)
Started ==
  /\ timsk4 <=> timersRunning
  /\ pc = "init" => ~timersRunning
  /\ ~timersRunning => pc \in {"top", "clear", "init"}
  /\ timersInitialized = 0 =>
       /\ interruptCount = 0 /\ windowLeft = 0 /\ timerCycles = 0 /\ ~replied
       /\ pc \in {"top", "clear", "init", "service", "window"}
  /\ timersInitialized # 2 => ~ppsCaptureFlag /\ ~gotPps /\ timeCheck = 0

(* The steps keep the clock right within the second. *)
LEMMA NextCore ==
  ASSUME Core, Ideal, timsk4 <=> timersRunning, Next
  PROVE  Core'
<1>1. TypeInv'
  BY NextTypeInv DEF Core
<1>2. TimersTypeOK'
  BY <1>1 DEF TypeInv, TypeOK
<1>3. CASE LoopTick \/ LoopMatch \/ LoopPps
  <2>1. ClockInv'
    BY <1>3, TickClock, MatchClock, PpsClock DEF LoopTick, LoopMatch, LoopPps, Core, Ideal
  <2>2. Steady'
    <3>1. CASE LoopTick
      BY <3>1, TickShape DEF LoopTick, Core, Steady, syncVars
    <3>2. CASE LoopMatch
      BY <3>2, MatchShape DEF LoopMatch, Core, Steady, syncVars, trueVars
    <3>3. CASE LoopPps
      BY <3>3, PpsShape, CoreFacts DEF LoopPps, Core, Steady
    <3> QED
      BY <1>3, <3>1, <3>2, <3>3
  <2> QED
    BY <1>1, <2>1, <2>2 DEF Core
<1>4. CASE LoopTop /\ ~timersRunning /\ AllConditionsNormal
  <2>1. StartTimers /\ ~timsk4
    BY <1>4 DEF LoopTop
  <2>2. ClockInv'
    BY <2>1, StartClock DEF Core
  <2>3. Steady'
    BY <2>1 DEF StartTimers, Core, Steady, syncVars, trueVars
  <2> QED
    BY <1>1, <2>2, <2>3 DEF Core
<1>5. CASE UNCHANGED <<trueCyc, trueCnt, skew, hwVars, syncVars, subCycleCount>>
  <2>1. ClockInv'
    BY <1>2, <1>5, FrameClock DEF Core, hwVars, syncVars
  <2>2. Steady'
    BY <1>5 DEF Core, Steady, syncVars
  <2> QED
    BY <1>1, <2>1, <2>2 DEF Core
<1>6. CASE GpsAnswer \/ \E kind \in Kinds : Arrive(kind)
  BY <1>5, <1>6 DEF GpsAnswer, Arrive, timersVars, trueVars, countVars
<1>7. CASE LoopTop /\ ~(~timersRunning /\ AllConditionsNormal)
  BY <1>5, <1>7 DEF LoopTop, timersVars, trueVars, countVars
<1>8. CASE AfterPps \/ InitPass \/ ServiceMatch \/ StoreCount
  BY <1>5, <1>8 DEF AfterPps, InitPass, ServiceMatch, StoreCount, timersVars, trueVars, countVars
<1>9. CASE Answer
  BY <1>5, <1>9, AnswerFrame DEF trueVars, countVars
<1> QED
  BY <1>3, <1>4, <1>6, <1>7, <1>8, <1>9 DEF Next, World, Loop, Answer

(* Every step keeps Started. *)
LEMMA NextStarted ==
  ASSUME Core, Ideal, Started, Next
  PROVE  Started'
<1> USE DEF Started, Step
<1>1. CASE LoopTick
  BY <1>1, TickShape DEF LoopTick, syncVars, localVars
<1>2. CASE LoopMatch
  BY <1>2, MatchShape DEF LoopMatch, syncVars, localVars, loopVars
<1>3. CASE LoopPps
  BY <1>3, PpsShape, CoreFacts DEF LoopPps, localVars, loopVars
<1>4. CASE GpsAnswer \/ \E kind \in Kinds : Arrive(kind)
  <2>1. UNCHANGED <<pc, timsk4, timersInitialized, interruptCount, ppsCaptureFlag, gotPps, timersRunning,
                    timeCheck, timerCycles, windowLeft, replied>>
    BY <1>4 DEF GpsAnswer, Arrive, timersVars, hwVars, syncVars, localVars, loopVars
  <2> QED
    BY <2>1
<1>5. CASE LoopTop
  <2>1. (timsk4' = TRUE /\ timersRunning' = TRUE) \/ UNCHANGED <<timsk4, timersRunning>>
    BY <1>5 DEF LoopTop, StartTimers, timersVars, hwVars
  <2>2. UNCHANGED <<timersInitialized, interruptCount, ppsCaptureFlag>>
    BY <1>5 DEF LoopTop, StartTimers, timersVars, syncVars
  <2> QED
    BY <1>5, <2>1, <2>2 DEF LoopTop
<1>6. CASE AfterPps
  <2>1. /\ UNCHANGED <<timsk4, timersRunning, timersInitialized, interruptCount, windowLeft,
                       replied>>
        /\ ppsCaptureFlag' = FALSE /\ gotPps' = FALSE
        /\ pc' \in {"top", "service", "init"}
        /\ pc' = "service" => timersRunning
        /\ pc' = "init" => ~timersRunning
    BY <1>6 DEF AfterPps, hwVars, syncVars
  <2>2. ~gotPps => UNCHANGED <<timerCycles, timeCheck>>
    BY <1>6 DEF AfterPps
  <2>3. gotPps => timersInitialized = 2
    OBVIOUS
  <2> QED
    BY <2>1, <2>2, <2>3
<1>7. CASE InitPass
  BY <1>7 DEF InitPass, hwVars, syncVars, localVars, loopVars
<1>8. CASE ServiceMatch
  BY <1>8 DEF ServiceMatch, timersVars, hwVars, syncVars, loopVars
<1>9. CASE StoreCount
  BY <1>9 DEF StoreCount, hwVars, syncVars
<1>10. CASE Answer
  <2>1. UNCHANGED <<timsk4, timersRunning, timersInitialized, interruptCount, windowLeft, timerCycles,
                    ppsCaptureFlag, gotPps, timeCheck>>
    BY <1>10, AnswerFrame DEF hwVars, syncVars, loopVars
  <2>2. pc \in {"top", "clear", "init", "service", "window"} => replied' = replied /\ pc' \in {"top", "request"}
    BY <1>10, AnswerFrame DEF ReplyEdge
  <2>3. timersInitialized = 0 => pc' # "request"
    BY <1>10, AnswerFrame, BoundFacts DEF ReplyEdge, InWindow
  <2>4. pc \notin {"top", "clear", "init"} /\ pc' # "init"
    BY <1>10, AnswerFrame DEF ReplyEdge
  <2> QED
    BY <2>1, <2>2, <2>3, <2>4
<1> QED
  BY <1>1, <1>2, <1>3, <1>4, <1>5, <1>6, <1>7, <1>8, <1>9, <1>10 DEF Next, World, Loop, Answer

-----------------------------------------------------------------------------
(* The invariant of the loop. *)

(* A reply is made only in the working cycles, with the time of day confirmed and *)
(* the PPS tracked; after it the last cycle of the second is not reached unseen.  *)
Answering ==
  /\ Replying \/ pc = "sent" => timeOfDayValid = 2 /\ timerCycles \in NTP_CYCLE
  /\ pc = "request" => timerCycles \in NTP_CYCLE
  /\ timeOfDayValid = 2 => timeCheck = 2
  /\ replied => timeCheck = 2 /\ subCycleCount # N - 1

(* The exchange with the reference clock: idle until the PPS are tracked; an answer *)
(* that comes before the timers run is not that of a second the clock has passed.   *)
Asking ==
  /\ ~ntpSecondsValid => timeOfDayValid = 0
  /\ timersRunning /\ timeCheck < 2 => todIo = "idle"
  /\ ~timersRunning /\ gps = "normal" => todIo = "idle" /\ pc = "top"
  /\ timersInitialized = 0 /\ ntpSecondsValid =>
       /\ todIo = "answered" => currentTime # ntpSeconds
       /\ todIo = "asked" /\ trueSec = ntpSeconds => currentTime = trueSec

(* A reply may keep the loop for the transmit delay. *)
Stretch == IF replied THEN TxDelay ELSE 0

(* How late in the cycle the loop may still be with a match it has not counted. *)
Deadline ==
  /\ pc \in {"top", "clear", "service", "store"} => tcnt <= MaxLag + lag - 1 + Stretch
  /\ pc = "window" \/ Serving => tcnt <= lag - 1
  /\ pc \in {"flush", "reset"} => tcnt <= lag - 1 + Stretch
  /\ pc = "rollover" => tcnt <= xmitTimeout
  /\ pc = "transmit" => xmitTimeout <= lag - 1 + TxDelay
  /\ pc = "sent" => tcnt <= lag - 1 + TxDelay

(* At most one match is uncounted, and it is counted before the next comes. *)
Due ==
  /\ interruptCount \in {0, 1}
  /\ pc = "store" => interruptCount = 1 /\ unserviced = 1
  /\ pc = "rollover" => xmitTimeout < TxDelay
  /\ timsk4 /\ ocf4a =>
       /\ tcnt = 0 /\ interruptCount = 0
       /\ pc # "rollover" => lag >= 1
       /\ pc # "transmit"
  /\ interruptCount = 1 => Deadline

(* The window the loop works in closes before the end of the cycle, the time a *)
(* request takes included.                                                     *)
WindowOpen ==
  ~replied =>
    /\ windowLeft > 0 /\ ~Timer0Stopped => tcnt <= 2 * MaxLag - 1 + Window - windowLeft
    /\ Serving => tcnt <= 2 * MaxLag + Window - 2 + lag

(* The half of a cycle in which the PPS comes, up to the match routine. *)
SecondHalf == tcnt >= H \/ ocf4a

(* The loop has counted, or has still to, every match since the PPS; in the second  *)
(* half of the last cycle either the PPS is on its way to the loop or the count has *)
(* already started over.                                                            *)
Counted ==
  timeCheck > 0 =>
    \/ /\ timerCycles + interruptCount = subCycleCount + 1
       /\ subCycleCount = N - 1 /\ SecondHalf => icf4 \/ ppsCaptureFlag \/ gotPps
    \/ /\ timerCycles = 0 /\ interruptCount = 0
       /\ subCycleCount = N - 1 /\ SecondHalf
       /\ ~icf4 /\ ~ppsCaptureFlag /\ ~gotPps

(* A PPS is on its way to the loop only in the second half of the last cycle, and *)
(* the loop sees it within two passes.                                            *)
PpsSeen ==
  /\ ppsCaptureFlag \/ gotPps => subCycleCount = N - 1 /\ tcnt >= H /\ ~icf4 /\ ~ocf4a
  /\ gotPps => pc = "clear" /\ tcnt - H <= MaxLag + lag - 1
  /\ ppsCaptureFlag =>
       /\ pc = "clear" => gotPps
       /\ pc = "top" => tcnt - H <= MaxLag + lag - 1
       /\ pc \notin {"top", "clear"} => tcnt - H <= lag - 1
  /\ timsk4 /\ icf4 => lag >= 1

(* The clock shows true time, seconds included. *)
ClockRight == ClockTime(0) = TrueTime

(* Once the time of day is confirmed the clock is right. *)
SecondsKept == timeOfDayValid = 2 => ClockRight

(* An answer that waits is that of the present second, and its second is young. *)
AnswerFresh ==
  timeCheck = 2 /\ todIo = "answered" =>
    /\ currentTime = trueSec
    /\ trueCyc = 0 \/ subCycleCount = 0 \/ (subCycleCount = 1 /\ interruptCount = 1)

(* Ticks from now to the time of the reply. *)
Remaining == IF pc = "rollover" /\ tcnt > xmitTimeout THEN T - tcnt + xmitTimeout
             ELSE xmitTimeout - tcnt

(* The transmit timestamp is the true time that many ticks on. *)
Scheduled ==
  Polling => /\ Remaining \in 0 .. TxDelay
             /\ txTime = TimeOf(TrueTime, Remaining)

(* The inductive invariant.  Each part leans on others: the deadlines on the count, *)
(* the count on the PPS being seen, both on the phase of the clock.                 *)
Inv ==
  /\ Core /\ Started
  /\ Answering /\ Asking
  /\ Due /\ WindowOpen /\ Counted /\ PpsSeen
  /\ SecondsKept /\ AnswerFresh /\ Scheduled

(* While a match is pending the true time is half a cycle on. *)
LEMMA PendingPhase ==
  ASSUME Core, Due, Ideal, timersInitialized # 0, ocf4a
  PROVE  trueCnt = H
<1>1. tcnt = 0
  BY CoreFacts DEF Due, EnabledFirst
<1>2. Reached = NextCycle(ntpSeconds, subCycleCount, 0)
  BY <1>1 DEF Reached
<1>3. Reached.cnt = 0
  BY <1>2, CoreFacts, NextCycleType, ZeroType DEF Cycle
<1>4. ClockTime(0).cnt = H
  BY <1>3, CoreFacts DEF ClockTime, NtpTime
<1> QED
  BY <1>4, CoreFacts DEF PhaseExact

(* A reply, and what is left of its cycle, keep off the last cycle of the second. *)
LEMMA ReplyAside ==
  ASSUME Inv, Ideal, Polling \/ pc = "sent" \/ replied
  PROVE  /\ subCycleCount # N - 1 /\ timersInitialized = 2 /\ timeCheck = 2 /\ timsk4
         /\ ~ppsCaptureFlag /\ ~gotPps /\ ~icf4
<1>1. Core /\ Started /\ Answering /\ Due /\ Counted /\ PpsSeen
  BY DEF Inv
<1>2. timeCheck = 2
  BY <1>1 DEF Answering, Replying, Polling
<1>3. subCycleCount # N - 1
  <2>1. CASE replied
    BY <1>1, <2>1 DEF Answering
  <2>2. CASE Polling \/ pc = "sent"
    <3>1. timerCycles \in 1 .. N - 2
      BY <1>1, <2>2 DEF Answering, Replying, Polling, NTP_CYCLE
    <3> QED
      BY <1>1, <1>2, <3>1, CoreFacts DEF Due, Counted
  <2> QED
    BY <2>1, <2>2
<1>4. timersInitialized = 2 /\ timsk4
  BY <1>1, <1>2, CoreFacts DEF Started, EnabledFirst
<1>5. ~ppsCaptureFlag /\ ~gotPps
  BY <1>1, <1>3 DEF PpsSeen
<1>6. ~icf4
  <2>1. ASSUME icf4
        PROVE  FALSE
    <3>1. trueCyc = 0 /\ trueCnt = 0
      BY <1>4, <2>1, <1>1, CoreFacts DEF PulsePending
    <3>2. CASE ocf4a
      BY <1>1, <1>4, <3>1, <3>2, PendingPhase, CoreFacts
    <3>3. CASE ~ocf4a
      BY <1>1, <1>3, <1>4, <3>1, <3>3, CoreFacts, Phase
    <3> QED
      BY <3>2, <3>3
  <2> QED
    BY <2>1
<1> QED
  BY <1>2, <1>3, <1>4, <1>5, <1>6

(* Each part is preserved, part by part. *)
LEMMA NextAnswering ==
  ASSUME Inv, Ideal, Next
  PROVE  Answering'
<1>1. Core /\ Started /\ Answering /\ Asking /\ Due /\ Counted
  BY DEF Inv
<1> USE DEF Answering, Step, Replying
<1>2. CASE LoopTick
  BY <1>1, <1>2, TickShape DEF LoopTick, countVars, statusVars
<1>3. CASE LoopMatch
  BY <1>1, <1>3 DEF LoopMatch, loopVars, statusVars
<1>4. CASE LoopPps
  <2>1. UNCHANGED <<pc, replied, timeCheck, timeOfDayValid, timerCycles>>
    BY <1>4 DEF LoopPps, loopVars, statusVars
  <2>2. timersInitialized = 2 => subCycleCount' = subCycleCount
    BY <1>1, <1>4, PpsShape DEF LoopPps
  <2>3. replied => timersInitialized = 2
    BY ReplyAside
  <2> QED
    BY <1>1, <2>1, <2>2, <2>3
<1>5. CASE GpsAnswer \/ \E kind \in Kinds : Arrive(kind)
  <2>1. UNCHANGED <<pc, subCycleCount, replied, timeCheck, timeOfDayValid, timerCycles>>
    BY <1>5 DEF GpsAnswer, Arrive, timersVars, countVars, loopVars, statusVars
  <2> QED
    BY <1>1, <2>1
<1>6. CASE LoopTop
  BY <1>1, <1>6 DEF LoopTop, StartTimers, timersVars, countVars, statusVars
<1>7. CASE AfterPps
  <2>1. UNCHANGED <<subCycleCount, timeOfDayValid, replied>> /\ pc' \in {"top", "service", "init"}
    BY <1>7 DEF AfterPps, countVars
  <2>2. timeCheck = 2 => timeCheck' = 2
    BY <1>7 DEF AfterPps
  <2> QED
    BY <1>1, <2>1, <2>2
<1>8. CASE InitPass
  <2>1. UNCHANGED <<subCycleCount, replied, timeCheck>> /\ pc' = "top" /\ CheckTod /\ pc = "init"
    BY <1>8 DEF InitPass, loopVars
  <2>2. timersInitialized = 0 /\ timeCheck = 0 /\ timeOfDayValid \in 0 .. 1
    BY <1>1, <2>1, CoreFacts DEF Started, EnabledFirst, TodTypeOK
  <2>3. timeOfDayValid' # 2
    <3>1. PICK valid \in {0, timeOfDayValid} : TodReply(valid) \/ NoTodReply(valid)
      BY <2>1 DEF CheckTod
    <3> QED
      BY <1>1, <2>2, <3>1 DEF Asking, TodReply, NoTodReply, SetNtpSeconds, SecondsAgree
  <2> QED
    BY <1>1, <2>1, <2>2, <2>3
<1>9. CASE ServiceMatch
  BY <1>1, <1>9 DEF ServiceMatch, timersVars, countVars, loopVars, statusVars
<1>10. CASE StoreCount
  <2>1. UNCHANGED <<subCycleCount, replied, timeCheck>> /\ pc' = "service"
    BY <1>10 DEF StoreCount
  <2>2. timeOfDayValid' = 2 => timeCheck = 2
    BY <1>1, <1>10 DEF StoreCount
  <2> QED
    BY <1>1, <2>1, <2>2
<1>11. CASE Answer
  <2>1. UNCHANGED <<subCycleCount, timeCheck, timeOfDayValid, timerCycles>>
    BY <1>11, AnswerFrame DEF countVars, loopVars, statusVars
  <2>2. /\ pc = "sent" => replied' = TRUE
        /\ pc # "sent" => replied' = replied
    BY <1>11, AnswerFrame
  <2>3. /\ pc' = "request" => timerCycles \in NTP_CYCLE
        /\ pc' = "sent" => pc = "transmit"
        /\ Replying' => Replying \/ (pc = "request" /\ timeOfDayValid > 1)
    BY <1>11, AnswerFrame DEF ReplyEdge, InWindow
  <2>4. timeOfDayValid > 1 => timeOfDayValid = 2
    BY <1>1, CoreFacts DEF TodTypeOK
  <2>5. replied' => timeCheck = 2 /\ subCycleCount # N - 1
    BY <1>1, <2>2, ReplyAside
  <2> QED
    BY <1>1, <2>1, <2>3, <2>4, <2>5
<1> QED
  BY <1>2, <1>3, <1>4, <1>5, <1>6, <1>7, <1>8, <1>9, <1>10, <1>11 DEF Next, World, Loop, Answer

-----------------------------------------------------------------------------
(* The exchange with the reference clock. *)

(* What the network and the reference clock leave alone. *)
LEMMA OutsideFrame ==
  ASSUME GpsAnswer \/ \E kind \in Kinds : Arrive(kind)
  PROVE  UNCHANGED <<trueVars, hwVars, syncVars, countVars, udpCaptureFlag, udpCapture, ntpSecondsValid,
                     interruptCount, ppsCaptureFlag, sendIr, pc, lag, localVars, loopVars, statusVars,
                     replied, gps>>
BY DEF GpsAnswer, Arrive, timersVars, udpVars, nicVars, todVars

(* What a check of the time of day does to the question under way. *)
LEMMA CheckTodShape ==
  ASSUME CheckTod
  PROVE  /\ todIo' # "answered"
         /\ todIo = "answered" => todIo' = "idle"
         /\ todIo' = "asked" => (todIo = "asked" /\ currentTime' = currentTime) \/ currentTime' = trueSec
         /\ gps' = gps \/ todIo' = "idle"
         /\ ~ntpSecondsValid' => ~ntpSecondsValid /\ timeOfDayValid' \in {0, timeOfDayValid}
<1>1. PICK valid \in {0, timeOfDayValid} : TodReply(valid) \/ NoTodReply(valid)
  BY DEF CheckTod
<1> QED
  BY <1>1 DEF TodReply, NoTodReply, SetNtpSeconds

(* Every step keeps Asking: the answer is of the second the clock is in. *)
LEMMA NextAsking ==
  ASSUME Inv, Ideal, Next
  PROVE  Asking'
<1>1. Core /\ Started /\ Asking /\ PpsSeen
  BY DEF Inv
<1> USE DEF Asking, Step
<1>2. CASE LoopTick
  <2>1. UNCHANGED <<pc, ntpSecondsValid, timeOfDayValid, timersRunning, timeCheck, todVars, ntpSeconds,
                    timersInitialized>>
    BY <1>1, <1>2, TickShape DEF LoopTick, countVars, statusVars, syncVars
  <2>2. timersInitialized = 0 /\ ntpSecondsValid /\ trueSec' # trueSec => trueSec' # ntpSeconds
    BY <1>2 DEF LoopTick, NotRoundAgain
  <2> QED
    BY <1>1, <2>1, <2>2 DEF todVars
<1>3. CASE LoopMatch
  <2>1. UNCHANGED <<pc, ntpSecondsValid, timeOfDayValid, timersRunning, timeCheck, todVars,
                    timersInitialized, trueSec>>
    BY <1>1, <1>3, MatchShape DEF LoopMatch, loopVars, statusVars, syncVars, trueVars
  <2>2. timersInitialized = 0 => ntpSeconds' = ntpSeconds
    BY <1>1, <1>3, MatchShape DEF LoopMatch, countVars
  <2> QED
    BY <1>1, <2>1, <2>2 DEF todVars
<1>4. CASE LoopPps
  <2>1. UNCHANGED <<pc, ntpSecondsValid, timeOfDayValid, timersRunning, timeCheck, todVars>>
    BY <1>1, <1>4, PpsShape DEF LoopPps, loopVars, statusVars
  <2>2. timersInitialized' # 0
    BY <1>1, <1>4, PpsShape, CoreFacts DEF LoopPps
  <2> QED
    BY <1>1, <2>1, <2>2 DEF todVars
<1>5. CASE GpsAnswer
  <2>1. UNCHANGED <<pc, ntpSecondsValid, timeOfDayValid, timersRunning, timeCheck, gps, ntpSeconds,
                    timersInitialized, trueSec>>
    BY <1>5, OutsideFrame DEF loopVars, statusVars, syncVars, trueVars, countVars
  <2>2. todIo = "asked" /\ trueSec # currentTime /\ todIo' = "answered" /\ currentTime' = trueSec
    BY <1>5 DEF GpsAnswer
  <2> QED
    BY <1>1, <2>1, <2>2
<1>6. ASSUME NEW kind \in Kinds, Arrive(kind)
      PROVE  Asking'
  <2>1. UNCHANGED <<pc, ntpSecondsValid, timeOfDayValid, timersRunning, timeCheck, todVars, ntpSeconds,
                    timersInitialized, trueSec>>
    BY <1>6 DEF Arrive, loopVars, statusVars, syncVars, trueVars, countVars
  <2> QED
    BY <1>1, <2>1 DEF todVars
<1>7. CASE LoopTop
  <2>1. UNCHANGED <<ntpSecondsValid, timeOfDayValid, timeCheck, todVars, ntpSeconds,
                    timersInitialized, trueSec>>
    BY <1>7 DEF LoopTop, StartTimers, timersVars, statusVars, syncVars, trueVars, countVars
  <2>2. pc' = "clear" /\ (timersRunning' = timersRunning \/ (~timersRunning /\ gps = "normal"))
        /\ (~timersRunning' => ~timersRunning /\ gps # "normal")
    BY <1>7 DEF LoopTop, AllConditionsNormal
  <2> QED
    BY <1>1, <2>1, <2>2 DEF todVars
<1>8. CASE AfterPps
  <2>1. UNCHANGED <<ntpSecondsValid, timeOfDayValid, timersRunning, todVars, ntpSeconds,
                    timersInitialized, trueSec>>
    BY <1>8 DEF AfterPps, syncVars, trueVars, countVars
  <2>2. timeCheck' < 2 => timeCheck < 2
    BY <1>1, <1>8, CoreFacts DEF AfterPps, LoopTypeOK
  <2>3. ~timersRunning /\ gps = "normal" => FALSE
    BY <1>1, <1>8 DEF AfterPps
  <2> QED
    BY <1>1, <2>1, <2>2, <2>3 DEF todVars
<1>9. CASE InitPass
  <2>1. UNCHANGED <<timersRunning, timeCheck, timersInitialized, trueSec>>
        /\ CheckTod /\ pc' = "top" /\ pc = "init"
    BY <1>9 DEF InitPass, syncVars, trueVars, loopVars
  <2>2. ~timersRunning
    BY <1>1, <2>1 DEF Started
  <2>3. ~ntpSecondsValid' => timeOfDayValid' = 0
    BY <1>1, <2>1, CheckTodShape
  <2>4. gps' = "normal" => todIo' = "idle"
    BY <1>1, <2>1, <2>2, CheckTodShape
  <2>5. (ntpSeconds' = ntpSeconds /\ ntpSecondsValid' = ntpSecondsValid) \/ todIo' = "idle"
    <3>1. PICK valid \in {0, timeOfDayValid} : TodReply(valid) \/ NoTodReply(valid)
      BY <2>1 DEF CheckTod
    <3> QED
      BY <3>1 DEF TodReply, NoTodReply
  <2>6. /\ todIo' # "answered"
        /\ todIo' = "asked" => (todIo = "asked" /\ currentTime' = currentTime) \/ currentTime' = trueSec
    BY <2>1, CheckTodShape
  <2> QED
    BY <1>1, <2>1, <2>2, <2>3, <2>4, <2>5, <2>6
<1>10. CASE ServiceMatch
  <2>1. UNCHANGED <<ntpSecondsValid, timeOfDayValid, timersRunning, timeCheck, todVars, ntpSeconds,
                    timersInitialized, trueSec>>
    BY <1>10 DEF ServiceMatch, timersVars, loopVars, statusVars, syncVars, trueVars, countVars
  <2>2. timersRunning
    BY <1>1, <1>10 DEF ServiceMatch, Started
  <2> QED
    BY <1>1, <2>1, <2>2 DEF todVars
<1>11. CASE StoreCount
  <2>1. UNCHANGED <<timersRunning, timeCheck, timersInitialized, trueSec>> /\ pc = "store"
    BY <1>11 DEF StoreCount, syncVars, trueVars
  <2>2. timersRunning /\ timersInitialized # 0
    BY <1>1, <2>1 DEF Started
  <2>3. CASE timeCheck = 2 /\ timerCycles' \in TOD_CYCLE
    <3>1. CheckTod
      BY <1>11, <2>3 DEF StoreCount
    <3>2. ~ntpSecondsValid' => timeOfDayValid' = 0
      BY <1>1, <3>1, CheckTodShape
    <3> QED
      BY <1>1, <2>1, <2>2, <2>3, <3>2
  <2>4. CASE ~(timeCheck = 2 /\ timerCycles' \in TOD_CYCLE)
    <3>1. UNCHANGED <<ntpSeconds, ntpSecondsValid, timeOfDayValid, todVars>>
      BY <1>11, <2>4 DEF StoreCount
    <3> QED
      BY <1>1, <2>1, <2>2, <3>1 DEF todVars
  <2> QED
    BY <2>3, <2>4
<1>12. CASE Answer
  <2>1. UNCHANGED <<ntpSecondsValid, timeOfDayValid, timersRunning, timeCheck, todVars, ntpSeconds,
                    timersInitialized, trueSec>>
    BY <1>12, AnswerFrame DEF loopVars, statusVars, syncVars, trueVars, countVars
  <2>2. timersRunning
    BY <1>1, <1>12, AnswerFrame DEF Started, ReplyEdge
  <2> QED
    BY <1>1, <2>1, <2>2 DEF todVars
<1> QED
  BY <1>2, <1>3, <1>4, <1>5, <1>6, <1>7, <1>8, <1>9, <1>10, <1>11, <1>12
  DEF Next, World, Loop, Answer

-----------------------------------------------------------------------------
(* The deadline of a match. *)

(* The ranges the arithmetic below needs. *)
LEMMA Numbers ==
  ASSUME Inv, Ideal
  PROVE  /\ tcnt \in Nat /\ tcnt < T /\ trueCnt \in Nat /\ trueCnt < T
         /\ subCycleCount \in Nat /\ subCycleCount < N /\ trueCyc \in Nat /\ trueCyc < N
         /\ lag \in Nat /\ lag <= MaxLag /\ MaxLag \in Nat /\ MaxLag >= 1
         /\ windowLeft \in Nat /\ windowLeft <= Window /\ Window \in Nat /\ Window < T
         /\ TxDelay \in Nat /\ TxDelay >= 1 /\ TxDelay < T
         /\ xmitTimeout \in Nat /\ xmitTimeout < T
         /\ timerCycles \in Nat /\ timerCycles < CycleMod /\ CycleMod \in Nat /\ CycleMod > N
         /\ timeCheck \in 0 .. 2 /\ timeOfDayValid \in 0 .. 2 /\ timersInitialized \in 0 .. 2
         /\ interruptCount \in 0 .. 1 /\ CountMod \in Nat
         /\ N \in Nat /\ N >= 5 /\ H \in Nat /\ H >= 2 /\ T \in Nat /\ T = H + H
         /\ pc \in Pcs
<1>1. Core /\ Due
  BY DEF Inv
<1>2. LoopTypeOK /\ TodTypeOK /\ ReplyTypeOK
  BY <1>1, CoreFacts
<1> QED
  BY <1>1, <1>2, CoreFacts, BoundFacts DEF LoopTypeOK, TodTypeOK, ReplyTypeOK, Due, Count

(* A reply lengthens its pass by the time it takes to send, at most. *)
LEMMA StretchRange == Stretch \in 0 .. TxDelay
BY BoundFacts DEF Stretch

(* A tick while a match is uncounted: the pass has time left. *)
LEMMA TickDue ==
  ASSUME Inv, Ideal, Timely, LoopTick
  PROVE  Due'
<1>1. Core /\ Started /\ Due /\ PpsSeen /\ Counted
  BY DEF Inv
<1>2. /\ timsk4 => ~ocf4a /\ ~icf4
      /\ tcnt' = IF tcnt = T - 1 THEN 0 ELSE tcnt + 1
      /\ ocf4a' <=> ocf4a \/ tcnt = T - 1
      /\ UNCHANGED <<timsk4, interruptCount>>
  BY <1>1, TickShape DEF LoopTick
<1>3. UNCHANGED <<pc, unserviced, xmitTimeout, replied>>
  BY DEF LoopTick, localVars, replyVars
<1>4. /\ Waiting => lag' = lag
      /\ ~Waiting => lag' = lag + 1 /\ lag < MaxLag /\ ~Polling
  BY DEF LoopTick
<1>5. CASE interruptCount = 1
  <2>1. Deadline /\ timersInitialized # 0 /\ timsk4 /\ pc # "init"
    BY <1>1, <1>5, CoreFacts DEF Due, Started, EnabledFirst
  <2>2. CASE Waiting
    <3>1. (pc = "transmit" /\ tcnt < xmitTimeout) \/ (pc = "rollover" /\ tcnt > xmitTimeout)
      BY <2>2, Numbers DEF Waiting
    <3>2. CASE pc = "transmit" /\ tcnt < xmitTimeout
      <4>1. tcnt' = tcnt + 1 /\ lag' = lag /\ interruptCount' = 1 /\ (timsk4' => ~ocf4a')
        BY <1>2, <1>4, <1>5, <2>2, <3>2, Numbers
      <4>2. Deadline'
        BY <1>3, <2>1, <3>2, <4>1, Numbers DEF Deadline, Serving
      <4> QED
        BY <1>1, <1>3, <3>2, <4>1, <4>2 DEF Due
    <3>3. ~(pc = "rollover" /\ tcnt > xmitTimeout)
      BY <2>1, Numbers DEF Deadline
    <3> QED
      BY <3>1, <3>2, <3>3
  <2>3. CASE ~Waiting
    <3>1. tcnt < T - 1
      <4>1. tcnt <= MaxLag + lag - 1 + TxDelay
        BY <2>1, <1>4, <2>3, Numbers, StretchRange DEF Deadline, Serving, Polling, Pcs
      <4> QED
        BY <4>1, <1>4, <2>3, Numbers DEF Timely
    <3>2. tcnt' = tcnt + 1 /\ lag' = lag + 1 /\ interruptCount' = 1 /\ (timsk4' => ~ocf4a')
      BY <1>2, <1>4, <1>5, <2>3, <3>1, Numbers
    <3>3. Stretch' = Stretch
      BY <1>3 DEF Stretch
    <3>4. Deadline'
      BY <1>3, <1>4, <2>1, <2>3, <3>2, <3>3, Numbers, StretchRange DEF Deadline, Serving, Polling
    <3> QED
      BY <1>1, <1>3, <1>4, <2>3, <3>2, <3>4 DEF Due, Polling
  <2> QED
    BY <2>2, <2>3
<1>6. CASE interruptCount = 0
  <2>1. CASE Waiting
    BY <1>1, <1>2, <1>3, <1>4, <1>6, <2>1, Numbers DEF Due, Waiting
  <2>2. CASE ~Waiting
    <3>1. interruptCount' = 0 /\ pc' # "store" /\ pc' \notin {"rollover", "transmit"}
      BY <1>1, <1>2, <1>3, <1>4, <1>6, <2>2 DEF Due, Polling
    <3>2. lag' >= 1
      BY <1>4, <2>2, Numbers
    <3>3. timsk4' /\ ocf4a' => tcnt' = 0
      BY <1>2
    <3> QED
      BY <3>1, <3>2, <3>3 DEF Due
  <2> QED
    BY <2>1, <2>2
<1> QED
  BY <1>5, <1>6, Numbers

(* The match finds the last one counted. *)
LEMMA MatchDue ==
  ASSUME Inv, Ideal, Timely, LoopMatch
  PROVE  Due'
<1>1. Core /\ Started /\ Due
  BY DEF Inv
<1>2. /\ timsk4 /\ ocf4a /\ ~ocf4a' /\ UNCHANGED <<tcnt, timersInitialized>>
      /\ timersInitialized = 0 => interruptCount' = interruptCount
      /\ timersInitialized # 0 => interruptCount' = (interruptCount + 1) % CountMod
  BY <1>1, MatchShape DEF LoopMatch, syncVars
<1>3. UNCHANGED <<pc, lag, unserviced, xmitTimeout>> /\ replied' = FALSE
  BY DEF LoopMatch, localVars, replyVars
<1>4. tcnt = 0 /\ interruptCount = 0 /\ pc # "transmit" /\ (pc # "rollover" => lag >= 1)
  BY <1>1, <1>2 DEF Due
<1>5. Stretch' = 0
  BY <1>3 DEF Stretch
<1>6. CASE timersInitialized = 0
  BY <1>1, <1>2, <1>3, <1>4, <1>6 DEF Due
<1>7. CASE timersInitialized # 0
  <2>1. interruptCount' = 1
    BY <1>2, <1>4, <1>7, Numbers DEF Timely
  <2>2. Deadline'
    BY <1>2, <1>3, <1>4, <1>5, Numbers DEF Deadline, Serving
  <2>3. pc # "store"
    BY <1>1, <1>4 DEF Due
  <2> QED
    BY <1>1, <1>2, <1>3, <2>1, <2>2, <2>3 DEF Due
<1> QED
  BY <1>6, <1>7

(* A PPS keeps Due: it leaves the loop the half cycle up to the match. *)
LEMMA PpsDue ==
  ASSUME Inv, Ideal, Timely, LoopPps
  PROVE  Due'
<1>1. Core /\ Started /\ Due
  BY DEF Inv
<1>2. UNCHANGED <<pc, lag, unserviced, xmitTimeout, replied>>
  BY DEF LoopPps, localVars, replyVars
<1>3. ~ocf4a' /\ interruptCount' = interruptCount /\ (timersInitialized # 0 => tcnt' = tcnt)
  BY <1>1, PpsShape DEF LoopPps
<1>4. interruptCount = 1 => Deadline'
  <2>1. ASSUME interruptCount = 1
        PROVE  Deadline'
    <3>1. Deadline /\ tcnt' = tcnt
      BY <1>1, <1>3, <2>1 DEF Due, Started
    <3>2. Stretch' = Stretch
      BY <1>2 DEF Stretch
    <3> QED
      BY <1>2, <3>1, <3>2 DEF Deadline, Serving
  <2> QED
    BY <2>1
<1> QED
  BY <1>1, <1>2, <1>3, <1>4 DEF Due

(* The steps that leave the count alone and stay where they are in the pass. *)
LEMMA FrameDue ==
  ASSUME Inv, UNCHANGED <<pc, lag, unserviced, xmitTimeout, replied, interruptCount, tcnt,
                          ocf4a, timsk4>>
  PROVE  Due'
<1>1. Due
  BY DEF Inv
<1>2. UNCHANGED <<Stretch, Serving>>
  BY DEF Stretch, Serving
<1>3. Deadline' = Deadline
  BY <1>2 DEF Deadline
<1> QED
  BY <1>1, <1>3 DEF Due

(* A pass that ends after a PPS has no match left to count. *)
LEMMA PassDue ==
  ASSUME Inv, Ideal, Timely, LoopTop \/ AfterPps \/ InitPass \/ ServiceMatch \/ StoreCount
  PROVE  Due'
<1>1. Core /\ Started /\ Due /\ PpsSeen /\ Answering
  BY DEF Inv
<1> USE DEF Step
<1>2. CASE LoopTop
  <2>1. UNCHANGED <<interruptCount, xmitTimeout, replied, lag>> /\ pc = "top" /\ pc' = "clear"
    BY <1>2 DEF LoopTop, StartTimers, timersVars, replyVars
  <2>2. Stretch' = Stretch
    BY <2>1 DEF Stretch
  <2>3. CASE StartTimers /\ ~timersRunning
    <3>1. timersInitialized = 0 /\ interruptCount = 0
      BY <1>1, <2>3, CoreFacts DEF Started, EnabledFirst
    <3>2. ocf4a' = FALSE
      BY <2>3 DEF StartTimers
    <3> QED
      BY <1>1, <2>1, <3>1, <3>2 DEF Due
  <2>4. CASE UNCHANGED timersVars
    <3>1. UNCHANGED <<tcnt, ocf4a, timsk4>>
      BY <2>4 DEF timersVars, hwVars
    <3>2. Deadline => Deadline'
      BY <2>1, <2>2, <3>1 DEF Deadline, Serving
    <3> QED
      BY <1>1, <2>1, <3>1, <3>2 DEF Due
  <2> QED
    BY <1>2, <2>3, <2>4 DEF LoopTop
<1>3. CASE AfterPps
  <2>1. /\ UNCHANGED <<interruptCount, xmitTimeout, replied, tcnt, ocf4a, timsk4>>
        /\ pc = "clear" /\ pc' \in {"top", "service", "init"}
        /\ pc' = "top" => gotPps
        /\ pc' # "top" => lag' = lag
        /\ timsk4 => ~ocf4a
    BY <1>3 DEF AfterPps, hwVars, replyVars, InterruptPending
  <2>2. Stretch' = Stretch
    BY <2>1 DEF Stretch
  <2>3. CASE gotPps
    <3>1. subCycleCount = N - 1 /\ tcnt >= H
      BY <1>1, <2>3 DEF PpsSeen
    <3>2. Stretch = 0
      BY <1>1, <3>1 DEF Answering, Stretch
    <3>3. interruptCount # 1
      <4>1. ASSUME interruptCount = 1
            PROVE  FALSE
        <5>1. tcnt <= MaxLag + lag - 1
          BY <1>1, <2>1, <3>2, <4>1, Numbers DEF Due, Deadline
        <5> QED
          BY <3>1, <5>1, Numbers DEF Timely
      <4> QED
        BY <4>1
    <3> QED
      BY <1>1, <2>1, <3>3 DEF Due
  <2>4. CASE ~gotPps
    <3>1. Deadline => Deadline'
      BY <2>1, <2>2, <2>4 DEF Deadline, Serving
    <3> QED
      BY <1>1, <2>1, <2>4, <3>1 DEF Due
  <2> QED
    BY <2>3, <2>4
<1>4. CASE InitPass
  <2>1. timersInitialized = 0 /\ interruptCount = 0 /\ ~timsk4
    BY <1>1, <1>4, CoreFacts DEF InitPass, Started, EnabledFirst
  <2>2. UNCHANGED <<interruptCount, timsk4>> /\ pc' = "top"
    BY <1>4 DEF InitPass, hwVars
  <2> QED
    BY <2>1, <2>2 DEF Due
<1>5. CASE ServiceMatch
  <2>1. /\ UNCHANGED <<interruptCount, xmitTimeout, replied, tcnt, ocf4a, timsk4, lag>>
        /\ pc = "service" /\ unserviced' = interruptCount
        /\ interruptCount = 0 => pc' = "window"
        /\ interruptCount # 0 => pc' = "store"
    BY <1>5 DEF ServiceMatch, timersVars, hwVars, replyVars
  <2>2. Stretch' = Stretch
    BY <2>1 DEF Stretch
  <2>3. interruptCount = 1 => (Deadline => Deadline')
    BY <2>1, <2>2 DEF Deadline, Serving
  <2> QED
    BY <1>1, <2>1, <2>3 DEF Due
<1>6. CASE StoreCount
  <2>1. /\ UNCHANGED <<tcnt, ocf4a, timsk4, lag>> /\ pc = "store" /\ pc' = "service"
        /\ interruptCount' = unserviced - 1
    BY <1>6 DEF StoreCount, hwVars
  <2>2. timsk4 => ~ocf4a
    BY <1>6 DEF StoreCount, InterruptPending, PpsWaits
  <2> QED
    BY <1>1, <2>1, <2>2 DEF Due
<1> QED
  BY <1>2, <1>3, <1>4, <1>5, <1>6

(* A request taken is answered, or dropped, within the pass and the transmit delay. *)
LEMMA AnswerDue ==
  ASSUME Inv, Ideal, Timely, Answer
  PROVE  Due'
<1>1. Core /\ Started /\ Due /\ Scheduled
  BY DEF Inv
<1>2. UNCHANGED <<interruptCount, unserviced, tcnt, ocf4a, timsk4>>
  BY AnswerFrame DEF hwVars
<1>3. ~InterruptPending /\ ReplyEdge /\ lag' = (IF pc' = "top" THEN 0 ELSE lag)
  BY AnswerFrame
<1>4. timsk4 => ~ocf4a
  BY <1>3 DEF InterruptPending
<1>5. pc' # "store"
  BY <1>3 DEF ReplyEdge
<1>6. (pc = "sent" => Stretch' = TxDelay) /\ (pc # "sent" => Stretch' = Stretch)
  <2>1. (pc = "sent" => replied' = TRUE) /\ (pc # "sent" => replied' = replied)
    BY AnswerFrame
  <2> QED
    BY <2>1 DEF Stretch
<1>7. (pc # "stamp" /\ pc' # "sent") => xmitTimeout' = xmitTimeout
  BY <1>3, AnswerFrame DEF ReplyEdge
<1>8. pc' = "rollover" => xmitTimeout' < TxDelay
  BY <1>1, <1>3, Numbers DEF ReplyEdge
<1>9. ASSUME interruptCount = 1
      PROVE  Deadline'
  <2>1. Deadline
    BY <1>1, <1>9 DEF Due
  <2>2. CASE pc = "stamp"
    <3>1. tcnt <= lag - 1
      BY <2>1, <2>2 DEF Deadline, Serving
    <3>2. ~PastRollover
      BY <3>1, Numbers DEF PastRollover, Timely
    <3>3. pc' = "transmit" /\ xmitTimeout' = tcnt + TxDelay /\ lag' = lag
      BY <1>3, <2>2, <3>2 DEF ReplyEdge
    <3> QED
      BY <1>2, <3>1, <3>3, Numbers DEF Deadline, Serving
  <2>3. CASE pc = "transmit"
    <3>1. pc' = "sent" /\ ~Waiting /\ lag' = lag
      BY <1>3, <2>3 DEF ReplyEdge
    <3>2. tcnt <= xmitTimeout
      BY <1>1, <2>3, Numbers DEF Scheduled, Polling, Remaining
    <3> QED
      BY <1>2, <2>1, <2>3, <3>1, <3>2, Numbers DEF Deadline, Serving
  <2>4. CASE pc = "rollover"
    <3>1. pc' = "transmit" /\ lag' = lag /\ xmitTimeout' = xmitTimeout
      BY <1>3, <1>7, <2>4 DEF ReplyEdge
    <3>2. xmitTimeout <= lag - 1 + TxDelay
      BY <1>1, <2>4, Numbers DEF Due
    <3> QED
      BY <1>2, <3>1, <3>2 DEF Deadline, Serving
  <2>5. CASE pc \notin {"stamp", "transmit", "rollover"}
    <3>1. pc' \in {"top", "flush", "reset"} \/ Serving'
      BY <1>3, <2>5 DEF ReplyEdge, Serving
    <3>2. CASE Serving'
      BY <1>2, <1>3, <2>1, <2>5, <3>2 DEF Deadline, Serving, ReplyEdge
    <3>3. CASE pc' \in {"flush", "reset"}
      BY <1>2, <1>3, <1>6, <2>1, <2>5, <3>3, Numbers, StretchRange DEF Deadline, Serving,
                                                                       ReplyEdge
    <3>4. CASE pc' = "top"
      BY <1>2, <1>3, <1>6, <2>1, <2>5, <3>4, Numbers, StretchRange DEF Deadline, Serving,
                                                                       ReplyEdge
    <3> QED
      BY <3>1, <3>2, <3>3, <3>4
  <2> QED
    BY <2>2, <2>3, <2>4, <2>5
<1> QED
  BY <1>1, <1>2, <1>4, <1>5, <1>8, <1>9 DEF Due

(* Every step keeps Due. *)
LEMMA NextDue ==
  ASSUME Inv, Ideal, Timely, Next
  PROVE  Due'
<1>1. CASE GpsAnswer \/ \E kind \in Kinds : Arrive(kind)
  BY <1>1, OutsideFrame, FrameDue DEF localVars, replyVars, hwVars
<1> QED
  BY <1>1, TickDue, MatchDue, PpsDue, PassDue, AnswerDue DEF Next, World, Loop, Answer

-----------------------------------------------------------------------------
(* The PPS on its way to the loop. *)

(* In its last cycle the PPS is seen in the pass that it falls in. *)
LEMMA SeenSoon ==
  ASSUME Inv, Ideal, Timely, ppsCaptureFlag \/ gotPps
  PROVE  /\ tcnt - H <= MaxLag + lag - 1 /\ ~Polling /\ pc # "sent" /\ ~replied
         /\ subCycleCount = N - 1 /\ tcnt >= H /\ ~icf4 /\ ~ocf4a
         /\ timersInitialized = 2 /\ interruptCount = 0
<1>1. Core /\ Started /\ Due /\ PpsSeen
  BY DEF Inv
<1>2. ~Polling /\ pc # "sent" /\ ~replied
  BY ReplyAside
<1>3. subCycleCount = N - 1 /\ tcnt >= H /\ ~icf4 /\ ~ocf4a
  BY <1>1 DEF PpsSeen
<1>4. tcnt - H <= MaxLag + lag - 1
  BY <1>1, Numbers DEF PpsSeen
<1>5. timersInitialized = 2
  BY <1>1 DEF Started
<1>6. interruptCount # 1
  <2>1. ASSUME interruptCount = 1
        PROVE  FALSE
    <3>1. Deadline /\ Stretch = 0 /\ pc # "init"
      BY <1>1, <1>2, <1>5, <2>1, CoreFacts DEF Due, Stretch, Started, EnabledFirst
    <3>2. tcnt <= MaxLag + lag - 1
      BY <1>2, <3>1, Numbers DEF Deadline, Serving, Polling, Pcs
    <3> QED
      BY <1>3, <3>2, Numbers DEF Timely
  <2> QED
    BY <2>1
<1> QED
  BY <1>2, <1>3, <1>4, <1>5, <1>6, Numbers

(* Every step keeps PpsSeen. *)
LEMMA NextPpsSeen ==
  ASSUME Inv, Ideal, Timely, Next
  PROVE  PpsSeen'
<1>1. Core /\ Started /\ Due /\ PpsSeen /\ Counted
  BY DEF Inv
<1> USE DEF PpsSeen, Step
<1>2. CASE LoopTick
  <2>1. /\ timsk4 => ~ocf4a /\ ~icf4
        /\ tcnt' = IF tcnt = T - 1 THEN 0 ELSE tcnt + 1
        /\ ocf4a' <=> ocf4a \/ tcnt = T - 1
        /\ icf4' <=> icf4 \/ (trueCnt = T - 1 /\ trueCyc = N - 1)
        /\ UNCHANGED <<timsk4, ppsCaptureFlag, subCycleCount>>
    BY <1>1, <1>2, TickShape DEF LoopTick, countVars
  <2>2. UNCHANGED <<pc, gotPps>>
    BY <1>2 DEF LoopTick, localVars
  <2>3. ~Waiting => lag' = lag + 1 /\ lag < MaxLag
    BY <1>2 DEF LoopTick
  <2>4. ASSUME ppsCaptureFlag \/ gotPps
        PROVE  PpsSeen'
    <3>1. ~Waiting
      BY <2>4, SeenSoon DEF Polling, Waiting
    <3>2. tcnt < T - 1
      BY <2>3, <2>4, <3>1, SeenSoon, Numbers DEF Timely
    <3>3. trueCnt # T - 1
      BY <1>1, <2>4, SeenSoon, Phase, Numbers
    <3>4. tcnt' = tcnt + 1 /\ lag' = lag + 1 /\ ~ocf4a' /\ ~icf4'
      BY <2>1, <2>3, <2>4, <3>1, <3>2, <3>3, SeenSoon, Numbers
    <3> QED
      BY <1>1, <2>1, <2>2, <2>4, <3>4, SeenSoon, Numbers
  <2>5. ASSUME timsk4, icf4'
        PROVE  lag' >= 1
    <3>1. trueCnt = T - 1 /\ trueCyc = N - 1
      BY <2>1, <2>5
    <3>2. ~Waiting
      <4>1. ASSUME Waiting
            PROVE  FALSE
        <5>1. subCycleCount # N - 1 /\ timersInitialized = 2
          BY <4>1, ReplyAside DEF Waiting, Polling
        <5>2. ~ocf4a
          BY <2>1, <2>5
        <5> QED
          BY <1>1, <3>1, <5>1, <5>2, Phase, Numbers
      <4> QED
        BY <4>1
    <3> QED
      BY <2>3, <3>2, Numbers
  <2> QED
    BY <2>1, <2>2, <2>4, <2>5
<1>3. CASE LoopMatch
  <2>1. timsk4 /\ ocf4a /\ UNCHANGED <<timsk4, icf4, ppsCaptureFlag, pc, gotPps, lag>>
    BY <1>1, <1>3, MatchShape DEF LoopMatch, localVars
  <2> QED
    BY <1>1, <2>1
<1>4. CASE LoopPps
  <2>1. icf4 /\ timsk4 /\ ~icf4' /\ ~ocf4a' /\ ~gotPps /\ lag >= 1
    BY <1>1, <1>4, PpsShape DEF LoopPps
  <2>2. UNCHANGED <<pc, gotPps, lag>> /\ pc # "clear"
    BY <1>4 DEF LoopPps, localVars, PpsWaits, Ideal
  <2>3. ppsCaptureFlag' => tcnt' = H /\ subCycleCount' = N - 1
    BY <1>1, <1>4, PpsShape, Numbers DEF LoopPps, Started
  <2> QED
    BY <1>1, <2>1, <2>2, <2>3, Numbers
<1>5. CASE GpsAnswer \/ \E kind \in Kinds : Arrive(kind)
  <2>1. UNCHANGED <<ppsCaptureFlag, gotPps, subCycleCount, tcnt, icf4, ocf4a, pc, lag, timsk4>>
    BY <1>5, OutsideFrame DEF localVars, hwVars, countVars
  <2> QED
    BY <1>1, <2>1
<1>6. CASE LoopTop
  <2>1. UNCHANGED <<ppsCaptureFlag, subCycleCount, lag>> /\ pc = "top" /\ pc' = "clear"
        /\ gotPps' = ppsCaptureFlag
    BY <1>6 DEF LoopTop, StartTimers, timersVars, countVars
  <2>2. CASE StartTimers /\ ~timersRunning
    <3>1. timersInitialized = 0 /\ ~ppsCaptureFlag
      BY <1>1, <2>2, CoreFacts DEF Started, EnabledFirst
    <3>2. icf4' = FALSE
      BY <2>2 DEF StartTimers
    <3> QED
      BY <2>1, <3>1, <3>2
  <2>3. CASE UNCHANGED timersVars
    <3>1. UNCHANGED <<tcnt, icf4, ocf4a, timsk4>>
      BY <2>3 DEF timersVars, hwVars
    <3> QED
      BY <1>1, <2>1, <3>1
  <2> QED
    BY <1>6, <2>2, <2>3 DEF LoopTop
<1>7. CASE AfterPps
  <2>1. /\ UNCHANGED <<icf4, timsk4>> /\ ~ppsCaptureFlag' /\ ~gotPps'
        /\ ~gotPps => lag' = lag
    BY <1>7 DEF AfterPps, hwVars
  <2> QED
    BY <1>1, <2>1
<1>8. CASE InitPass
  <2>1. ~timsk4 /\ timersInitialized # 2
    BY <1>1, <1>8, CoreFacts DEF InitPass, Started, EnabledFirst
  <2>2. UNCHANGED <<timsk4, ppsCaptureFlag, gotPps>>
    BY <1>8 DEF InitPass, hwVars, localVars
  <2> QED
    BY <1>1, <2>1, <2>2 DEF Started
<1>9. CASE ServiceMatch \/ StoreCount
  <2>1. UNCHANGED <<ppsCaptureFlag, gotPps, subCycleCount, tcnt, icf4, ocf4a, timsk4, lag>>
        /\ pc \notin {"top", "clear"} /\ pc' \notin {"top", "clear"}
    BY <1>9 DEF ServiceMatch, StoreCount, timersVars, hwVars, countVars
  <2> QED
    BY <1>1, <2>1
<1>10. CASE Answer
  <2>1. /\ UNCHANGED <<ppsCaptureFlag, gotPps, subCycleCount, tcnt, icf4, ocf4a, timsk4>>
        /\ ~(timsk4 /\ icf4)
        /\ pc \notin {"top", "clear"} /\ pc' # "clear"
        /\ lag' = IF pc' = "top" THEN 0 ELSE lag
    BY <1>10, AnswerFrame DEF hwVars, countVars, ReplyEdge, InterruptPending
  <2>2. CASE pc' = "top"
    <3>1. ppsCaptureFlag => tcnt' - H <= MaxLag + lag' - 1
      BY <1>1, <2>1, <2>2, Numbers
    <3> QED
      BY <1>1, <2>1, <2>2, <3>1
  <2>3. CASE pc' # "top"
    BY <1>1, <2>1, <2>3
  <2> QED
    BY <2>2, <2>3
<1> QED
  BY <1>2, <1>3, <1>4, <1>5, <1>6, <1>7, <1>8, <1>9, <1>10 DEF Next, World, Loop, Answer

-----------------------------------------------------------------------------
(* The window, and the count of cycles. *)

(* Every step keeps WindowOpen. *)
LEMMA NextWindowOpen ==
  ASSUME Inv, Ideal, Timely, Next
  PROVE  WindowOpen'
<1>1. Core /\ Started /\ Due /\ WindowOpen
  BY DEF Inv
<1> USE DEF WindowOpen, Step, Serving, Timer0Stopped, Polling
<1>2. CASE LoopTick
  <2>1. tcnt' = IF tcnt = T - 1 THEN 0 ELSE tcnt + 1
    BY <1>1, <1>2, TickShape DEF LoopTick
  <2>2. UNCHANGED <<pc, replied>>
    BY <1>2 DEF LoopTick
  <2>3. /\ windowLeft' = IF Timer0Stopped \/ windowLeft = 0 THEN windowLeft ELSE windowLeft - 1
        /\ ~Polling => lag' = lag + 1
        /\ lag' >= lag
    BY <1>2, Numbers DEF LoopTick, Waiting
  <2> QED
    BY <1>1, <2>1, <2>2, <2>3, Numbers
<1>3. CASE LoopMatch
  <2>1. UNCHANGED <<windowLeft, pc, lag>> /\ tcnt' = 0
    BY <1>1, <1>3, MatchShape DEF LoopMatch, loopVars, Due
  <2> QED
    BY <1>1, <2>1, Numbers
<1>4. CASE LoopPps
  <2>1. UNCHANGED <<windowLeft, pc, lag, replied>>
    BY <1>4 DEF LoopPps, loopVars
  <2>2. timersInitialized # 0 => tcnt' = tcnt
    BY <1>1, <1>4, PpsShape DEF LoopPps
  <2>3. timersInitialized = 0 => windowLeft = 0 /\ ~Serving
    BY <1>1 DEF Started
  <2> QED
    BY <1>1, <2>1, <2>2, <2>3, Numbers
<1>5. CASE GpsAnswer \/ \E kind \in Kinds : Arrive(kind)
  <2>1. UNCHANGED <<windowLeft, pc, lag, replied, tcnt>>
    BY <1>5, OutsideFrame DEF loopVars, hwVars
  <2> QED
    BY <1>1, <2>1
<1>6. CASE LoopTop
  <2>1. UNCHANGED <<windowLeft, lag, replied>> /\ pc = "top" /\ pc' = "clear"
    BY <1>6 DEF LoopTop
  <2>2. tcnt' = 0 \/ tcnt' = tcnt
    BY <1>6 DEF LoopTop, StartTimers, timersVars, hwVars
  <2> QED
    BY <1>1, <2>1, <2>2, Numbers
<1>7. CASE AfterPps \/ InitPass \/ ServiceMatch
  <2>1. UNCHANGED <<windowLeft, replied, tcnt>> /\ pc \in {"clear", "init", "service"}
        /\ pc' \notin {"request", "clock", "count", "captured", "stamp"}
    BY <1>7 DEF AfterPps, InitPass, ServiceMatch, timersVars, hwVars, loopVars
  <2> QED
    BY <1>1, <2>1
<1>8. CASE StoreCount
  <2>1. UNCHANGED <<replied, tcnt>> /\ pc = "store" /\ pc' = "service" /\ windowLeft' = Window
    BY <1>8 DEF StoreCount, hwVars
  <2>2. tcnt <= MaxLag + lag - 1 + Stretch
    BY <1>1, <2>1 DEF Due, Deadline
  <2>3. ~replied => Stretch = 0
    BY DEF Stretch
  <2> QED
    BY <2>1, <2>2, <2>3, Numbers
<1>9. CASE Answer
  <2>1. /\ UNCHANGED <<windowLeft, tcnt>>
        /\ pc' # "top" => lag' = lag
        /\ pc = "sent" => replied' = TRUE
        /\ pc # "sent" => replied' = replied
        /\ ReplyEdge
    BY <1>9, AnswerFrame DEF loopVars, hwVars
  <2>2. CASE pc = "window"
    BY <1>1, <2>1, <2>2, Numbers DEF ReplyEdge, InWindow
  <2>3. CASE pc \in {"request", "clock", "count", "captured"}
    BY <1>1, <2>1, <2>3, Numbers DEF ReplyEdge
  <2>4. CASE pc \in {"stamp", "rollover", "transmit", "sent"}
    BY <1>1, <2>1, <2>4 DEF ReplyEdge
  <2>5. CASE pc \in {"flush", "reset"}
    BY <1>1, <2>1, <2>5 DEF ReplyEdge
  <2> QED
    BY <2>1, <2>2, <2>3, <2>4, <2>5 DEF ReplyEdge
<1> QED
  BY <1>2, <1>3, <1>4, <1>5, <1>6, <1>7, <1>8, <1>9 DEF Next, World, Loop, Answer

(* Every step keeps Counted. *)
LEMMA NextCounted ==
  ASSUME Inv, Ideal, Timely, Next
  PROVE  Counted'
<1>1. Core /\ Started /\ Due /\ PpsSeen /\ Counted /\ Asking
  BY DEF Inv
<1> USE DEF Counted, Step, SecondHalf
<1>2. CASE LoopTick
  <2>1. /\ timsk4 => ~ocf4a /\ ~icf4
        /\ tcnt' = IF tcnt = T - 1 THEN 0 ELSE tcnt + 1
        /\ ocf4a' <=> ocf4a \/ tcnt = T - 1
        /\ icf4' <=> icf4 \/ (trueCnt = T - 1 /\ trueCyc = N - 1)
        /\ UNCHANGED <<ppsCaptureFlag, subCycleCount, interruptCount>>
    BY <1>1, <1>2, TickShape DEF LoopTick, countVars
  <2>2. UNCHANGED <<gotPps, timeCheck, timerCycles>>
    BY <1>2 DEF LoopTick, localVars
  <2>3. SUFFICES ASSUME timeCheck > 0
                 PROVE  Counted'
    BY <2>2
  <2>4. timersInitialized = 2 /\ timsk4
    BY <1>1, <2>3, CoreFacts DEF Started, EnabledFirst
  <2>5. ~ocf4a /\ ~icf4
    BY <2>1, <2>4
  <2>6. CASE subCycleCount # N - 1
    BY <1>1, <2>1, <2>2, <2>3, <2>6, Numbers
  <2>7. CASE subCycleCount = N - 1 /\ tcnt < H
    <3>1. trueCnt = tcnt + H /\ trueCyc = N - 1
      BY <1>1, <2>4, <2>5, <2>7, Phase
    <3>2. tcnt' = tcnt + 1 /\ ~ocf4a'
      BY <2>1, <2>5, <2>7, Numbers
    <3>3. tcnt' >= H => icf4'
      BY <2>1, <3>1, <3>2, Numbers
    <3> QED
      BY <1>1, <2>1, <2>2, <2>3, <2>5, <2>7, <3>2, <3>3, Numbers
  <2>8. CASE subCycleCount = N - 1 /\ tcnt >= H
    <3>1. ~icf4'
      BY <1>1, <2>1, <2>4, <2>5, <2>8, Phase, Numbers
    <3>2. (tcnt' = tcnt + 1) \/ ocf4a'
      BY <2>1, Numbers
    <3>3. CASE ppsCaptureFlag \/ gotPps
      BY <1>1, <2>1, <2>2, <2>3, <2>8, <3>1, <3>3, Numbers
    <3>4. CASE ~(ppsCaptureFlag \/ gotPps)
      BY <1>1, <2>1, <2>2, <2>3, <2>5, <2>8, <3>1, <3>2, <3>4, Numbers
    <3> QED
      BY <3>3, <3>4
  <2> QED
    BY <2>6, <2>7, <2>8, Numbers
<1>3. CASE LoopMatch
  <2>1. UNCHANGED <<gotPps, timeCheck, timerCycles, ppsCaptureFlag, tcnt,
                    icf4>> /\ ~ocf4a' /\ timsk4 /\ ocf4a
    BY <1>1, <1>3, MatchShape DEF LoopMatch, localVars, loopVars
  <2>2. SUFFICES ASSUME timeCheck > 0
                 PROVE  Counted'
    BY <2>1
  <2>3. timersInitialized # 0
    BY <1>1, <2>2 DEF Started
  <2>4. tcnt = 0 /\ interruptCount = 0
    BY <1>1, <2>1 DEF Due
  <2>5. /\ subCycleCount' = IF subCycleCount = N - 1 THEN 0 ELSE subCycleCount + 1
        /\ interruptCount' = 1
    BY <1>1, <1>3, <2>3, <2>4, MatchShape, Numbers DEF LoopMatch, Timely
  <2>6. ~icf4 /\ ~ppsCaptureFlag /\ ~gotPps
    <3>1. ~ppsCaptureFlag /\ ~gotPps
      BY <1>1, <2>1 DEF PpsSeen
    <3>2. ~icf4
      <4>1. ASSUME icf4
            PROVE  FALSE
        BY <1>1, <2>1, <2>3, <4>1, PendingPhase, CoreFacts DEF PulsePending
      <4> QED
        BY <4>1
    <3> QED
      BY <3>1, <3>2
  <2>7. ~(tcnt' >= H)
    BY <2>1, <2>4, Numbers
  <2> QED
    BY <1>1, <2>1, <2>2, <2>4, <2>5, <2>6, <2>7, Numbers
<1>4. CASE LoopPps
  <2>1. UNCHANGED <<gotPps, timeCheck, timerCycles>>
    BY <1>4 DEF LoopPps, localVars, loopVars
  <2>2. SUFFICES ASSUME timeCheck > 0
                 PROVE  Counted'
    BY <2>1
  <2>3. timersInitialized = 2
    BY <1>1, <2>2 DEF Started
  <2>4. /\ UNCHANGED <<tcnt, subCycleCount, interruptCount>> /\ ppsCaptureFlag' /\ icf4
    BY <1>1, <1>4, <2>3, PpsShape DEF LoopPps
  <2> QED
    BY <1>1, <2>1, <2>2, <2>4
<1>5. CASE GpsAnswer \/ \E kind \in Kinds : Arrive(kind)
  <2>1. UNCHANGED <<ppsCaptureFlag, gotPps, subCycleCount, tcnt, icf4, ocf4a, timeCheck,
                    timerCycles, interruptCount>>
    BY <1>5, OutsideFrame DEF localVars, hwVars, countVars, loopVars
  <2> QED
    BY <1>1, <2>1
<1>6. CASE LoopTop
  <2>1. UNCHANGED <<ppsCaptureFlag, subCycleCount, timeCheck, timerCycles, interruptCount>>
        /\ gotPps' = ppsCaptureFlag /\ pc = "top"
    BY <1>6 DEF LoopTop, StartTimers, timersVars, countVars
  <2>2. CASE StartTimers /\ ~timersRunning
    BY <1>1, <2>1, <2>2, CoreFacts DEF Started, EnabledFirst
  <2>3. CASE UNCHANGED timersVars
    <3>1. UNCHANGED <<tcnt, icf4, ocf4a, timsk4>>
      BY <2>3 DEF timersVars, hwVars
    <3>2. ~gotPps
      BY <1>1, <2>1 DEF PpsSeen
    <3> QED
      BY <1>1, <2>1, <3>1, <3>2
  <2> QED
    BY <1>6, <2>2, <2>3 DEF LoopTop
<1>7. CASE AfterPps
  <2>1. UNCHANGED <<icf4, ocf4a, tcnt, subCycleCount,
                    interruptCount>> /\ ~ppsCaptureFlag' /\ ~gotPps' /\ pc = "clear"
    BY <1>7 DEF AfterPps, hwVars, countVars
  <2>2. CASE gotPps
    <3>1. timerCycles' = 0
      BY <1>7, <2>2 DEF AfterPps, CyclesAfterPps
    <3> QED
      BY <2>1, <2>2, <3>1, SeenSoon
  <2>3. CASE ~gotPps
    <3>1. ~ppsCaptureFlag /\ UNCHANGED <<timeCheck, timerCycles>>
      BY <1>1, <1>7, <2>1, <2>3 DEF PpsSeen, AfterPps
    <3> QED
      BY <1>1, <2>1, <2>3, <3>1
  <2> QED
    BY <2>2, <2>3
<1>8. CASE InitPass
  <2>1. timeCheck = 0 /\ timeCheck' = timeCheck
    BY <1>1, <1>8, CoreFacts DEF InitPass, Started, EnabledFirst, loopVars
  <2> QED
    BY <2>1
<1>9. CASE ServiceMatch
  <2>1. UNCHANGED <<ppsCaptureFlag, gotPps, subCycleCount, tcnt, icf4, ocf4a, timeCheck,
                    timerCycles, interruptCount>>
    BY <1>9 DEF ServiceMatch, timersVars, hwVars, countVars, loopVars
  <2> QED
    BY <1>1, <2>1
<1>10. CASE StoreCount
  <2>1. UNCHANGED <<ppsCaptureFlag, gotPps, subCycleCount, tcnt, icf4, ocf4a,
                    timeCheck>> /\ pc = "store"
        /\ interruptCount' = unserviced - 1 /\ timerCycles' = (timerCycles + 1) % CycleMod
    BY <1>10 DEF StoreCount, hwVars, countVars
  <2>2. interruptCount = 1 /\ interruptCount' = 0
    BY <1>1, <2>1 DEF Due
  <2>3. SUFFICES ASSUME timeCheck > 0
                 PROVE  Counted'
    BY <2>1
  <2>4. timerCycles = subCycleCount
    BY <1>1, <2>2, <2>3, Numbers
  <2>5. timerCycles' = subCycleCount + 1
    BY <2>1, <2>4, Numbers
  <2> QED
    BY <1>1, <2>1, <2>2, <2>3, <2>5, Numbers
<1>11. CASE Answer
  <2>1. UNCHANGED <<ppsCaptureFlag, gotPps, subCycleCount, tcnt, icf4, ocf4a, timeCheck,
                    timerCycles, interruptCount>>
    BY <1>11, AnswerFrame DEF hwVars, countVars, loopVars
  <2> QED
    BY <1>1, <2>1
<1> QED
  BY <1>2, <1>3, <1>4, <1>5, <1>6, <1>7, <1>8, <1>9, <1>10, <1>11 DEF Next, World, Loop, Answer

-----------------------------------------------------------------------------
(* The seconds. *)

(* The clock is right as long as nothing it is read from changes. *)
LEMMA FrameRight ==
  ASSUME ClockRight,
         UNCHANGED <<tcnt, ocf4a, timersInitialized, ntpOffset, subCycleCount, ntpSeconds,
                     TrueTime>>
  PROVE  ClockRight'
<1>1. Reached' = Reached /\ Offset' = Offset
  BY DEF Reached, Offset
<1> QED
  BY <1>1 DEF ClockRight, ClockTime

(* What the clock shows while no match is pending. *)
LEMMA ClockReads ==
  ASSUME Core, Ideal, ~ocf4a
  PROVE  /\ ClockTime(0) = NtpTime(ntpSeconds, subCycleCount, tcnt, H)
         /\ tcnt >= H => ClockTime(0).sec = IF subCycleCount = N - 1 THEN NextSec(ntpSeconds) ELSE ntpSeconds
         /\ tcnt < H => ClockTime(0).sec = ntpSeconds
<1>1. ClockTime(0) = NtpTime(ntpSeconds, subCycleCount, tcnt, H)
  <2>1. Reached = [sec |-> ntpSeconds, cyc |-> subCycleCount, cnt |-> tcnt]
    BY DEF Reached
  <2> QED
    BY <2>1, CoreFacts DEF ClockTime
<1>2. ASSUME tcnt >= H
      PROVE  ClockTime(0).sec = IF subCycleCount = N - 1 THEN NextSec(ntpSeconds) ELSE ntpSeconds
  <2>1. tcnt - H \in Count /\ subCycleCount \in Cycle /\ ntpSeconds \in Sec
    BY <1>2, CoreFacts DEF Count, Cycle
  <2>2. ClockTime(0) = NextCycle(ntpSeconds, subCycleCount, tcnt - H)
    BY <1>1, <1>2, CoreFacts DEF NtpTime
  <2> QED
    BY <2>1, <2>2, NextCycleType
<1>3. ASSUME tcnt < H
      PROVE  ClockTime(0).sec = ntpSeconds
  BY <1>1, <1>3, CoreFacts DEF NtpTime
<1> QED
  BY <1>1, <1>2, <1>3

(* Neither a tick nor an interrupt routine makes a right clock wrong. *)
LEMMA HardwareRight ==
  ASSUME Core, Ideal, Tick \/ TimerMatchIsr \/ PpsCaptureIsr, timersInitialized = 2, ClockRight
  PROVE  ClockRight'
<1>1. CASE Tick
  <2>1. skew' = 0 /\ timersInitialized' = 2 /\ ntpOffset' = ntpOffset
    BY <1>1, TickShape DEF syncVars
  <2>2. ~Lost'
    BY <2>1, TimersAssumption DEF Lost, Abs, Drift
  <2>3. \/ ClockTime(skew)' = ClockTime(skew) /\ TrueTime' = TrueTime
        \/ ClockTime(skew)' = Advance(ClockTime(skew)) /\ TrueTime' = Advance(TrueTime)
    BY <1>1, <2>2, TickExact, CoreFacts
  <2>4. ClockTime(skew)' = ClockTime(0)'
    BY <2>1 DEF ClockTime
  <2> QED
    BY <2>3, <2>4, CoreFacts DEF ClockRight
<1>2. CASE TimerMatchIsr
  <2>1. Reached' = Reached
    BY <1>2, MatchExact, CoreFacts
  <2>2. UNCHANGED <<Offset, TrueTime>>
    BY <1>2, MatchShape DEF Offset, TrueTime, trueVars, syncVars
  <2> QED
    BY <2>1, <2>2 DEF ClockRight, ClockTime
<1>3. CASE PpsCaptureIsr
  <2>1. /\ UNCHANGED <<tcnt, timersInitialized, subCycleCount, ntpSeconds, TrueTime>>
        /\ ~ocf4a /\ ~ocf4a' /\ ntpOffset' = H
    BY <1>3, PpsShape DEF TrueTime
  <2>2. Reached' = Reached /\ Offset' = Offset
    BY <2>1, CoreFacts DEF Reached, Offset
  <2> QED
    BY <2>1, <2>2 DEF ClockRight, ClockTime
<1> QED
  BY <1>1, <1>2, <1>3

(* A time of day taken over is that of the second the clock is in: it is taken *)
(* over in the middle of the second.                                          *)
LEMMA TakenRight ==
  ASSUME Core, Core', Ideal, timersInitialized = 2, ~ocf4a, subCycleCount # N - 1,
         ntpSeconds' = trueSec, UNCHANGED <<trueVars, hwVars, syncVars, subCycleCount>>
  PROVE  ClockRight'
<1>1. ClockTime(0)'.sec = trueSec
  <2>1. Reached' = [sec |-> trueSec, cyc |-> subCycleCount, cnt |-> tcnt] /\ Offset' = H
    BY CoreFacts DEF Reached, Offset, hwVars, syncVars
  <2>2. ClockTime(0)' = NtpTime(trueSec, subCycleCount, tcnt, H)
    BY <2>1, CoreFacts DEF ClockTime
  <2>3. CASE tcnt >= H
    <3>1. ClockTime(0)' = NextCycle(trueSec, subCycleCount, tcnt - H)
      BY <2>2, <2>3, CoreFacts DEF NtpTime
    <3>2. tcnt - H \in Count /\ subCycleCount \in Cycle /\ trueSec \in Sec
      BY <2>3, CoreFacts DEF Count, Cycle
    <3> QED
      BY <3>1, <3>2, NextCycleType
  <2>4. CASE tcnt < H
    BY <2>2, <2>4, CoreFacts DEF NtpTime
  <2> QED
    BY <2>3, <2>4, CoreFacts
<1>2. ClockTime(0)'.cyc = trueCyc' /\ ClockTime(0)'.cnt = trueCnt'
  <2>1. skew' = 0 /\ timersInitialized' # 0
    BY CoreFacts DEF trueVars, syncVars
  <2>2. ~Lost'
    BY <2>1, TimersAssumption DEF Lost, Abs, Drift
  <2>3. PhaseExact'
    BY DEF Core, ClockInv
  <2> QED
    BY <2>1, <2>2, <2>3 DEF PhaseExact
<1>3. ClockTime(0)' \in Time
  <2>1. Reached' = [sec |-> trueSec, cyc |-> subCycleCount, cnt |-> tcnt] /\ Offset' = H
    BY CoreFacts DEF Reached, Offset, hwVars, syncVars
  <2>2. Reached' \in Time
    BY <2>1, CoreFacts DEF Time, Cycle, Count
  <2>3. TimeOf(Reached', H) \in Time
    BY <2>2, CoreFacts, TimeOfParts
  <2> QED
    BY <2>1, <2>3, CoreFacts DEF ClockTime, TimeOf
<1> QED
  BY <1>1, <1>2, <1>3 DEF ClockRight, TrueTime, Time, trueVars

(* The seconds are confirmed by an answer of the present second that agrees. *)
LEMMA NextSecondsKept ==
  ASSUME Inv, Ideal, Timely, Next, Core'
  PROVE  SecondsKept'
<1>1. Core /\ Started /\ Answering /\ Asking /\ Due /\ Counted /\ SecondsKept /\ AnswerFresh
  BY DEF Inv
<1>0. timeOfDayValid = 2 => timersInitialized = 2
  BY <1>1 DEF Answering, Started
<1> USE DEF SecondsKept
<1>2. CASE LoopTick \/ LoopMatch \/ LoopPps
  <2>1. timeOfDayValid' = timeOfDayValid
    BY <1>2 DEF LoopTick, LoopMatch, LoopPps, statusVars
  <2> QED
    BY <1>0, <1>1, <1>2, <2>1, HardwareRight DEF LoopTick, LoopMatch, LoopPps
<1>3. CASE /\ UNCHANGED <<tcnt, ocf4a, timersInitialized, ntpOffset, subCycleCount, trueVars>>
           /\ UNCHANGED <<ntpSeconds, timeOfDayValid>>
  BY <1>1, <1>3, FrameRight DEF TrueTime, trueVars
<1>4. CASE GpsAnswer \/ \E kind \in Kinds : Arrive(kind)
  BY <1>3, <1>4, OutsideFrame DEF hwVars, syncVars, countVars, statusVars
<1>5. CASE LoopTop
  <2>1. CASE StartTimers /\ ~timersRunning
    <3>1. timersInitialized # 2
      BY <1>1, <2>1, CoreFacts DEF Started, EnabledFirst
    <3> QED
      BY <1>0, <1>5, <3>1 DEF LoopTop, statusVars
  <2>2. CASE UNCHANGED timersVars
    BY <1>3, <1>5, <2>2 DEF LoopTop, timersVars, hwVars, syncVars, countVars, statusVars
  <2> QED
    BY <1>5, <2>1, <2>2 DEF LoopTop
<1>6. CASE AfterPps \/ ServiceMatch
  BY <1>3, <1>6 DEF AfterPps, ServiceMatch, timersVars, hwVars, syncVars, countVars, statusVars
<1>7. CASE Answer
  BY <1>3, <1>7, AnswerFrame DEF hwVars, syncVars, countVars, statusVars
<1>8. CASE InitPass
  <2>1. timeCheck # 2 /\ timeCheck' = timeCheck
    BY <1>1, <1>8, CoreFacts DEF InitPass, Step, Started, EnabledFirst, loopVars
  <2>2. Answering'
    BY NextAnswering
  <2> QED
    BY <2>1, <2>2 DEF Answering
<1>9. CASE StoreCount
  <2>1. UNCHANGED <<trueVars, hwVars, syncVars, subCycleCount, timeCheck>> /\ pc = "store"
        /\ timerCycles' = (timerCycles + 1) % CycleMod
    BY <1>9 DEF StoreCount, Step
  <2>2. CASE ~(timeCheck = 2 /\ timerCycles' \in TOD_CYCLE)
    BY <1>3, <1>9, <2>1, <2>2 DEF StoreCount, hwVars, syncVars
  <2>3. CASE timeCheck = 2 /\ timerCycles' \in TOD_CYCLE
    <3>1. CheckTod
      BY <1>9, <2>3 DEF StoreCount
    <3>2. PICK valid \in {0, timeOfDayValid} : TodReply(valid) \/ NoTodReply(valid)
      BY <3>1 DEF CheckTod
    <3>3. interruptCount = 1 /\ timersInitialized = 2 /\ timsk4
      BY <1>1, <2>1, <2>3, CoreFacts DEF Due, Started, EnabledFirst
    <3>4. ~ocf4a
      BY <1>1, <3>3, Numbers DEF Due
    <3>5. subCycleCount \in 1 .. N - 4
      BY <1>1, <2>1, <2>3, <3>3, Numbers DEF Counted, TOD_CYCLE
    <3>6. CASE todIo = "answered" /\ SetNtpSeconds(currentTime, valid)
      <4>1. ntpSeconds' = trueSec
        BY <1>1, <2>3, <3>6 DEF AnswerFresh, SetNtpSeconds
      <4> QED
        BY <1>1, <2>1, <3>3, <3>4, <3>5, <4>1, TakenRight, Numbers
    <3>7. CASE timeOfDayValid' = valid /\ UNCHANGED ntpSeconds
      <4>1. CASE timeOfDayValid' = 2
        BY <1>3, <2>1, <3>2, <3>7, <4>1 DEF hwVars, syncVars
      <4> QED
        BY <4>1
    <3> QED
      BY <3>2, <3>6, <3>7 DEF TodReply, NoTodReply
  <2> QED
    BY <2>2, <2>3
<1> QED
  BY <1>2, <1>4, <1>5, <1>6, <1>7, <1>8, <1>9 DEF Next, World, Loop, Answer

-----------------------------------------------------------------------------
(* The answer of the reference clock. *)

(* The check of the time of day comes before the answer is old. *)
LEMMA NextAnswerFresh ==
  ASSUME Inv, Ideal, Timely, Next
  PROVE  AnswerFresh'
<1>1. Core /\ Started /\ Asking /\ Due /\ Counted /\ AnswerFresh
  BY DEF Inv
<1>0. timeCheck # 0 => timersInitialized = 2 /\ timsk4 /\ timersRunning
  BY <1>1, CoreFacts DEF Started, EnabledFirst
<1> USE DEF AnswerFresh, Step
<1>2. CASE LoopTick
  <2>1. UNCHANGED <<timeCheck, todIo, currentTime, subCycleCount, interruptCount>>
    BY <1>1, <1>2, TickShape DEF LoopTick, loopVars, todVars, countVars
  <2>2. SUFFICES ASSUME timeCheck = 2, todIo = "answered"
                 PROVE  /\ trueSec' = trueSec
                        /\ trueCyc' = 0 \/ subCycleCount = 0 \/ (subCycleCount = 1 /\ interruptCount = 1)
    BY <1>1, <2>1
  <2>3. /\ trueSec' = IF trueCnt = T - 1 /\ trueCyc = N - 1 THEN NextSec(trueSec) ELSE trueSec
        /\ trueCyc' = IF trueCnt # T - 1 THEN trueCyc ELSE IF trueCyc = N - 1 THEN 0 ELSE trueCyc + 1
        /\ ~ocf4a
    BY <1>0, <1>1, <1>2, <2>2, TickShape DEF LoopTick
  <2>4. /\ tcnt < H => trueCnt = tcnt + H /\ trueCyc = subCycleCount
        /\ tcnt >= H => /\ trueCnt = tcnt - H
                        /\ trueCyc = IF subCycleCount = N - 1 THEN 0 ELSE subCycleCount + 1
    BY <1>0, <1>1, <2>2, <2>3, Phase
  <2>5. trueCyc = 0 \/ subCycleCount = 0 \/ (subCycleCount = 1 /\ interruptCount = 1)
    BY <1>1, <2>2
  <2>6. trueCyc # N - 1
    BY <2>4, <2>5, Numbers
  <2>7. trueCyc = 0 /\ trueCnt = T - 1 => subCycleCount = 0
    BY <2>4, Numbers
  <2> QED
    BY <2>3, <2>5, <2>6, <2>7
<1>3. CASE LoopMatch
  <2>1. UNCHANGED <<timeCheck, todIo, currentTime, trueSec, trueCyc>>
    BY <1>1, <1>3, MatchShape DEF LoopMatch, loopVars, todVars, trueVars
  <2>2. SUFFICES ASSUME timeCheck = 2, todIo = "answered"
                 PROVE  trueCyc = 0 \/ subCycleCount' = 0 \/ (subCycleCount' = 1 /\ interruptCount' = 1)
    BY <1>1, <2>1
  <2>3. interruptCount = 0 /\ timersInitialized # 0
    BY <1>0, <1>1, <1>3, <2>2, MatchShape DEF LoopMatch, Due
  <2>4. /\ subCycleCount' = IF subCycleCount = N - 1 THEN 0 ELSE subCycleCount + 1
        /\ interruptCount' = (interruptCount + 1) % CountMod
    BY <1>1, <1>3, <2>3, MatchShape DEF LoopMatch
  <2>5. interruptCount' = 1
    BY <2>3, <2>4, Numbers DEF Timely
  <2>6. trueCyc = 0 \/ subCycleCount = 0
    BY <1>1, <2>2, <2>3
  <2> QED
    BY <2>4, <2>5, <2>6, Numbers
<1>4. CASE LoopPps
  <2>1. UNCHANGED <<timeCheck, todIo, currentTime, trueSec, trueCyc, interruptCount>>
        /\ (timersInitialized # 0 => subCycleCount' = subCycleCount)
    BY <1>1, <1>4, PpsShape DEF LoopPps, loopVars, todVars
  <2> QED
    BY <1>0, <1>1, <2>1
<1>5. CASE GpsAnswer
  <2>1. currentTime' = trueSec /\ trueCyc = 0
    BY <1>5 DEF GpsAnswer
  <2>2. trueSec' = trueSec /\ trueCyc' = trueCyc
    BY <1>5, OutsideFrame DEF trueVars
  <2> QED
    BY <2>1, <2>2
<1>6. CASE UNCHANGED <<todIo, currentTime, trueSec, trueCyc, subCycleCount, interruptCount>>
           /\ (timeCheck' = 2 => timeCheck = 2 \/ todIo = "idle")
  BY <1>1, <1>6
<1>7. CASE \E kind \in Kinds : Arrive(kind)
  BY <1>6, <1>7 DEF Arrive, trueVars, countVars, loopVars, todVars
<1>8. CASE LoopTop \/ ServiceMatch
  BY <1>6, <1>8 DEF LoopTop, StartTimers, ServiceMatch, timersVars, trueVars, countVars,
                    loopVars, todVars
<1>9. CASE AfterPps
  <2>1. UNCHANGED <<todIo, currentTime, trueSec, trueCyc, subCycleCount, interruptCount>>
    BY <1>9 DEF AfterPps, trueVars, countVars, todVars
  <2>2. timeCheck' = 2 /\ timeCheck # 2 => timeCheck = 1
    BY <1>9, Numbers DEF AfterPps
  <2>3. timeCheck = 1 => todIo = "idle"
    BY <1>0, <1>1 DEF Asking
  <2> QED
    BY <1>6, <2>1, <2>2, <2>3
<1>10. CASE InitPass
  <2>1. timeCheck' = timeCheck /\ ~timersRunning
    BY <1>1, <1>10 DEF InitPass, Started, loopVars
  <2> QED
    BY <1>0, <2>1
<1>11. CASE StoreCount
  <2>1. UNCHANGED <<trueSec, trueCyc, subCycleCount, timeCheck>> /\ pc = "store"
        /\ timerCycles' = (timerCycles + 1) % CycleMod
    BY <1>11 DEF StoreCount, trueVars
  <2>2. CASE timeCheck = 2 /\ timerCycles' \in TOD_CYCLE
    BY <1>11, <2>2, CheckTodShape DEF StoreCount
  <2>3. CASE timeCheck = 2 /\ timerCycles' \notin TOD_CYCLE
    <3>1. interruptCount = 1
      BY <1>1, <2>1 DEF Due
    <3>2. timerCycles = subCycleCount
      BY <1>1, <2>3, <3>1, Numbers DEF Counted
    <3>3. subCycleCount # 1
      BY <2>1, <2>3, <3>2, Numbers DEF TOD_CYCLE
    <3>4. UNCHANGED <<todIo, currentTime>>
      BY <1>11, <2>3 DEF StoreCount, todVars
    <3> QED
      BY <1>1, <2>1, <3>3, <3>4
  <2> QED
    BY <2>1, <2>2, <2>3
<1>12. CASE Answer
  BY <1>6, <1>12, AnswerFrame DEF trueVars, countVars, loopVars, todVars
<1> QED
  BY <1>2, <1>3, <1>4, <1>5, <1>7, <1>8, <1>9, <1>10, <1>11, <1>12
  DEF Next, World, Loop, Answer

-----------------------------------------------------------------------------
(* The time of the reply. *)

(* One tick of what is left until a time takes that off the offset to it. *)
LEMMA OneTickLess ==
  ASSUME NEW t \in Time, NEW left \in 1 .. TxDelay
  PROVE  TimeOf(Advance(t), left - 1) = TimeOf(t, left)
<1>1. T \in Nat /\ TxDelay \in Nat /\ TxDelay < T /\ t.cnt \in 0 .. T - 1
      /\ N \in Nat /\ N >= 5 /\ t.sec \in Sec /\ t.cyc \in Cycle
  BY BoundFacts DEF Time, Count
<1>2. CASE left = 1
  <2>1. Advance(t) \in Time
    BY AdvanceParts
  <2>2. Advance(t).cnt \in 0 .. T - 1
    BY <2>1 DEF Time, Count
  <2>3. TimeOf(Advance(t), 0) = [sec |-> Advance(t).sec, cyc |-> Advance(t).cyc, cnt |-> Advance(t).cnt]
    BY <1>1, <2>2 DEF TimeOf, NtpTime
  <2>4. TimeOf(Advance(t), 0) = Advance(t)
    BY <2>1, <2>3 DEF Time
  <2>5. TimeOf(t, 1) = Advance(t)
    BY <1>1 DEF TimeOf, NtpTime, Advance
  <2> QED
    BY <1>2, <2>4, <2>5
<1>3. CASE left # 1
  <2>1. left \in Within /\ left - 1 \in Within
    BY <1>1, <1>3 DEF Within
  <2> QED
    BY <2>1, AdvanceReading
<1> QED
  BY <1>2, <1>3

(* The clock read for the timestamp is true time, and every tick waited takes one *)
(* from what is left.                                                             *)
LEMMA NextScheduled ==
  ASSUME Inv, Ideal, Timely, Next
  PROVE  Scheduled'
<1>1. Core /\ Started /\ Answering /\ Due /\ SecondsKept /\ Scheduled
  BY DEF Inv
<1>0. Polling => timersInitialized = 2 /\ timsk4
  BY ReplyAside
<1> USE DEF Scheduled, Polling
<1>2. CASE UNCHANGED <<pc, tcnt, xmitTimeout, txTime, TrueTime>>
  BY <1>1, <1>2 DEF Remaining
<1>3. CASE LoopTick
  <2>1. UNCHANGED <<pc, xmitTimeout, txTime>>
    BY <1>3 DEF LoopTick, localVars, replyVars
  <2>2. SUFFICES ASSUME Polling
                 PROVE  Remaining' \in 0 .. TxDelay /\ txTime = TimeOf(TrueTime', Remaining')
    BY <2>1
  <2>3. Waiting
    BY <1>3, <2>2 DEF LoopTick
  <2>4. tcnt' = (IF tcnt = T - 1 THEN 0 ELSE tcnt + 1) /\ TrueTime' = Advance(TrueTime)
    BY <1>1, <1>3, TickShape DEF LoopTick
  <2>5. Remaining \in 0 .. TxDelay /\ txTime = TimeOf(TrueTime, Remaining)
    BY <1>1, <2>2
  <2>6. Remaining' = Remaining - 1 /\ Remaining \in 1 .. TxDelay
    <3>1. CASE pc = "rollover" /\ tcnt > xmitTimeout
      BY <2>1, <2>4, <2>5, <3>1, Numbers DEF Remaining
    <3>2. CASE pc = "transmit" /\ tcnt < xmitTimeout
      BY <2>1, <2>4, <2>5, <3>2, Numbers DEF Remaining
    <3> QED
      BY <2>3, <3>1, <3>2 DEF Waiting
  <2>7. TrueTime \in Time
    BY <1>1, CoreFacts
  <2>8. TimeOf(Advance(TrueTime), Remaining - 1) = TimeOf(TrueTime, Remaining)
    BY <2>6, <2>7, OneTickLess
  <2> QED
    BY <2>4, <2>5, <2>6, <2>8, Numbers
<1>4. CASE LoopMatch
  BY <1>1, <1>2, <1>4, MatchShape DEF LoopMatch, localVars, replyVars, trueVars, TrueTime
<1>5. CASE LoopPps
  <2>1. UNCHANGED <<pc, xmitTimeout, txTime>>
    BY <1>5 DEF LoopPps, localVars, replyVars
  <2>2. UNCHANGED TrueTime /\ (timersInitialized # 0 => UNCHANGED tcnt)
    BY <1>1, <1>5, PpsShape DEF LoopPps, TrueTime
  <2> QED
    BY <1>0, <1>2, <2>1, <2>2
<1>6. CASE GpsAnswer \/ \E kind \in Kinds : Arrive(kind)
  BY <1>2, <1>6, OutsideFrame DEF hwVars, trueVars, TrueTime, localVars, replyVars
<1>7. CASE LoopTop \/ AfterPps \/ InitPass \/ ServiceMatch \/ StoreCount
  BY <1>7 DEF LoopTop, AfterPps, InitPass, ServiceMatch, StoreCount, Step
<1>8. CASE Answer
  <2>1. UNCHANGED <<tcnt, TrueTime>> /\ ReplyEdge
    BY <1>8, AnswerFrame DEF hwVars, trueVars, TrueTime
  <2>2. CASE pc = "stamp"
    <3>1. TransmitTimestamp /\ ~InterruptPending
      BY <1>8, <2>2, AnswerFrame
    <3>2. timersInitialized = 2 /\ timsk4 /\ ~ocf4a
      BY <1>1, <2>2, <3>1, CoreFacts DEF Answering, Replying, Started, EnabledFirst,
                                         InterruptPending
    <3>3. NtpTime(ntpSeconds, subCycleCount, tcnt, ntpOffset) = TrueTime
      <4>1. ClockTime(0) = TrueTime
        BY <1>1, <2>2 DEF Answering, Replying, SecondsKept, ClockRight
      <4> QED
        BY <1>1, <3>2, <4>1, ClockReads, CoreFacts
    <3>4. txTime' = TimeOf(TrueTime, TxDelay)
      BY <3>1, <3>3 DEF TransmitTimestamp, TimeOf
    <3>5. pc' = "rollover" => Remaining' = TxDelay
      BY <2>1, <2>2, Numbers DEF ReplyEdge, PastRollover, Remaining
    <3>6. pc' = "transmit" => Remaining' = TxDelay
      BY <2>1, <2>2, Numbers DEF ReplyEdge, PastRollover, Remaining
    <3> QED
      BY <2>1, <3>4, <3>5, <3>6, Numbers
  <2>3. CASE pc = "rollover"
    <3>1. pc' = "transmit" /\ ~Waiting /\ UNCHANGED <<xmitTimeout, txTime>>
      BY <1>8, <2>3, AnswerFrame DEF ReplyEdge
    <3>2. ~(tcnt > xmitTimeout)
      BY <2>3, <3>1 DEF Waiting
    <3>3. Remaining' = Remaining
      BY <2>1, <2>3, <3>1, <3>2 DEF Remaining
    <3> QED
      BY <1>1, <2>1, <2>3, <3>1, <3>3
  <2>4. CASE pc \notin {"stamp", "rollover"}
    BY <2>1, <2>4 DEF ReplyEdge
  <2> QED
    BY <2>2, <2>3, <2>4
<1> QED
  BY <1>3, <1>4, <1>5, <1>6, <1>7, <1>8 DEF Next, World, Loop, Answer

-----------------------------------------------------------------------------
(* The invariant holds, and what it shows. *)

(* The invariant holds at the start, and a step that changes nothing keeps it. *)
LEMMA InitInv ==
  ASSUME Ideal, Init
  PROVE  Inv
<1>1. TypeInv
  BY InitTypeOK DEF Init, TypeInv
<1>2. Core
  <2>1. ClockInv
    BY InitClock DEF Init
  <2>2. Steady
    BY DEF Init, TimersInit, Steady
  <2> QED
    BY <1>1, <2>1, <2>2 DEF Core
<1> USE DEF Init, TimersInit
<1>3. Started
  BY DEF Started
<1>6. Answering /\ Asking
  BY DEF Answering, Asking, Replying
<1>4. Due
  BY DEF Due
<1>5. WindowOpen /\ Counted /\ PpsSeen /\ SecondsKept /\ AnswerFresh /\ Scheduled
  BY DEF WindowOpen, Serving, Counted, PpsSeen, SecondsKept, AnswerFresh, Scheduled, Polling
<1> QED
  BY <1>2, <1>3, <1>4, <1>5, <1>6 DEF Inv

(* A stutter keeps the invariant. *)
LEMMA StutterInv ==
  ASSUME Inv, Ideal, UNCHANGED vars
  PROVE  Inv'
<1>1. UNCHANGED <<timersVars, pc, lag, localVars, loopVars, statusVars, nicVars, todVars,
                  replied>>
  BY DEF vars
<1>2. /\ UNCHANGED <<trueVars, hwVars, syncVars, countVars, ntpSecondsValid, interruptCount,
                     ppsCaptureFlag>>
      /\ UNCHANGED <<gotPps, unserviced, replyVars>>
  BY <1>1 DEF timersVars, localVars
<1>3. Core'
  <2>1. TypeInv'
    BY NextTypeInv DEF Inv, Core
  <2>2. ClockInv'
    BY <1>2, <2>1, FrameClock DEF Inv, Core, TypeInv, TypeOK, trueVars, countVars, hwVars,
                                  syncVars
  <2>3. Steady'
    BY <1>2 DEF Inv, Core, Steady, trueVars, syncVars
  <2> QED
    BY <2>1, <2>2, <2>3 DEF Core
<1>4. Started'
  BY <1>1, <1>2 DEF Inv, Started, hwVars, syncVars, loopVars
<1>5. Answering' /\ Asking'
  BY <1>1, <1>2 DEF Inv, Answering, Replying, Asking, loopVars, statusVars, countVars, todVars,
                    syncVars, trueVars
<1>6. Due'
  BY <1>1, <1>2, FrameDue DEF replyVars, hwVars
<1>7. WindowOpen'
  <2>1. UNCHANGED <<Timer0Stopped, Serving>>
    BY <1>1 DEF Timer0Stopped, Polling, Serving
  <2> QED
    BY <1>1, <1>2, <2>1 DEF Inv, WindowOpen, loopVars, hwVars
<1>8. Counted' /\ PpsSeen'
  BY <1>1, <1>2 DEF Inv, Counted, SecondHalf, PpsSeen, loopVars, hwVars, countVars
<1>9. SecondsKept'
  BY <1>1, <1>2, FrameRight DEF Inv, SecondsKept, statusVars, hwVars, syncVars, countVars,
                                TrueTime, trueVars
<1>10. AnswerFresh'
  BY <1>1, <1>2 DEF Inv, AnswerFresh, loopVars, todVars, trueVars, countVars
<1>11. Scheduled'
  <2>1. UNCHANGED <<Remaining, Polling, TrueTime, txTime>>
    BY <1>1, <1>2 DEF Remaining, Polling, TrueTime, trueVars, replyVars, hwVars
  <2> QED
    BY <2>1 DEF Inv, Scheduled
<1> QED
  BY <1>3, <1>4, <1>5, <1>6, <1>7, <1>8, <1>9, <1>10, <1>11 DEF Inv

(* Every step keeps the invariant. *)
LEMMA NextInv ==
  ASSUME Inv, Ideal, Timely, [Next]_vars
  PROVE  Inv'
<1>1. CASE Next
  <2>1. Core' /\ Started'
    BY <1>1, NextCore, NextStarted DEF Inv, Started
  <2> QED
    BY <1>1, <2>1, NextAnswering, NextAsking, NextDue, NextWindowOpen, NextCounted, NextPpsSeen,
       NextSecondsKept, NextAnswerFresh, NextScheduled DEF Inv
<1> QED
  BY <1>1, StutterInv

(* It holds throughout. *)
LEMMA Invariant ==
  ASSUME Timely, Ideal
  PROVE  Spec => []Inv
<1>1. Init => Inv
  BY InitInv
<1>2. Inv /\ [Next]_vars => Inv'
  BY NextInv
<1> QED
  BY <1>1, <1>2, PTL DEF Spec

(* TimerCyclesAccurate: once two PPS have been seen, the loop's timerCycles is the *)
(* number of cycles since the last one whenever no match is waiting to be counted, *)
(* as the comment at StratumTen.ino:598 claims.                                    *)
THEOREM CyclesCorrect ==
  ASSUME Timely, Ideal
  PROVE  Spec => []TimerCyclesAccurate
<1>1. Inv => TimerCyclesAccurate
  <2>1. SUFFICES ASSUME Inv, timeCheck = 2, interruptCount = 0
                 PROVE  CyclesCounted
    BY DEF TimerCyclesAccurate
  <2> QED
    BY <2>1, Numbers DEF Inv, Counted, CyclesCounted
<1> QED
  BY <1>1, Invariant, PTL

(* SecondsRight: from the second agreeing time of day on the clock shows true time. *)
THEOREM SecondsCorrect ==
  ASSUME Timely, Ideal
  PROVE  Spec => []SecondsRight
<1>1. Inv => SecondsRight
  <2>1. SUFFICES ASSUME Inv, timeOfDayValid > 1
                 PROVE  ClockTime(0) = TrueTime
    BY DEF SecondsRight
  <2>2. timeOfDayValid = 2
    BY <2>1, Numbers
  <2> QED
    BY <2>1, <2>2 DEF Inv, SecondsKept, ClockRight
<1> QED
  BY <1>1, Invariant, PTL

(* TxStampExact: a reply leaves in the very tick its transmit timestamp names, *)
(* whether or not the count wrapped while the loop waited for it.              *)
THEOREM TxStampCorrect ==
  ASSUME Timely, Ideal
  PROVE  Spec => TxStampExact
<1>1. Inv /\ [Next]_vars => [(pc = "transmit" /\ pc' = "sent") => txTime = TrueTime]_vars
  <2>1. SUFFICES ASSUME Inv, Next, pc = "transmit", pc' = "sent"
                 PROVE  txTime = TrueTime
    OBVIOUS
  <2>2. Answer
    BY <2>1 DEF Next, World, Loop, Answer, LoopTick, LoopMatch, LoopPps, GpsAnswer, Arrive,
                LoopTop, AfterPps, InitPass, ServiceMatch, StoreCount, Step
  <2>3. ~(tcnt < xmitTimeout)
    BY <2>1, <2>2, AnswerFrame DEF ReplyEdge, Waiting
  <2>4. Remaining = 0 /\ txTime = TimeOf(TrueTime, 0)
    BY <2>1, <2>3, Numbers DEF Inv, Scheduled, Polling, Remaining
  <2>5. ~(trueCnt + 0 >= T) /\ trueCnt + 0 = trueCnt
    BY <2>1, Numbers
  <2>6. TimeOf(TrueTime, 0) = [sec |-> trueSec, cyc |-> trueCyc, cnt |-> trueCnt + 0]
    BY <2>5 DEF TimeOf, NtpTime, TrueTime
  <2> QED
    BY <2>4, <2>5, <2>6 DEF TrueTime
<1>2. Spec => []Inv
  BY Invariant
<1> QED
  BY <1>1, <1>2, PTL DEF Spec, TxStampExact

(* NoPpsInReply: no PPS interrupts a reply. *)
THEOREM ReplyCorrect ==
  ASSUME Timely, Ideal
  PROVE  Spec => NoPpsInReply
<1>1. Inv /\ [Next]_vars => [(PpsCaptureIsr /\ CyclesCounted) => ~Replying]_vars
  <2>1. SUFFICES ASSUME Inv, PpsCaptureIsr, Replying
                 PROVE  FALSE
    OBVIOUS
  <2>2. Core /\ Started /\ Answering /\ Due /\ Counted
    BY <2>1 DEF Inv
  <2>3. timerCycles \in 1 .. N - 2 /\ timeCheck = 2
    BY <2>1, <2>2 DEF Answering, NTP_CYCLE
  <2>4. subCycleCount = N - 1
    BY <2>1, <2>2, <2>3, PpsShape DEF Started
  <2> QED
    BY <2>1, <2>2, <2>3, <2>4, Numbers DEF Counted
<1>2. Spec => []Inv
  BY Invariant
<1> QED
  BY <1>1, <1>2, PTL DEF Spec, NoPpsInReply

-----------------------------------------------------------------------------
(* The captures and whose they are. *)

(* The datagrams the socket still holds. *)
Queued == {rxQueue[i].id : i \in DOMAIN rxQueue}

(* A request is at hand whose capture has not been taken yet. *)
Holding == pc \in {"request", "clock", "count", "captured"}

(* A capture may be that of a datagram still to be answered, or nobody's. *)
Owns(id) == id = Nobody \/ id \in Queued \/ (Holding /\ id = request.id)

(* Captures of datagrams that are gone are gone as well. *)
Owned == Owns(icr5.of) /\ Owns(udpCapture.of)

(* A capture is flagged as long as it is somebody's, and a reply that is out leaves *)
(* no edge behind.                                                                  *)
Flagged ==
  /\ icr5.of # Nobody => icf5
  /\ udpCapture.of # Nobody => udpCaptureFlag \/ pc = "captured"
  /\ replied /\ icf5 => pc \in {"sent", "flush", "reset"}

(* The datagrams of a queue that grows or that is read. *)
LEMMA AppendQueued ==
  ASSUME rxQueue \in Seq(Datagrams), NEW datagram \in Datagrams, rxQueue' = Append(rxQueue, datagram)
  PROVE  Queued \subseteq Queued' /\ datagram.id \in Queued'
<1>1. /\ DOMAIN rxQueue' = 1 .. Len(rxQueue) + 1 /\ DOMAIN rxQueue = 1 .. Len(rxQueue)
      /\ Len(rxQueue) \in Nat
      /\ \A i \in 1 .. Len(rxQueue) : rxQueue'[i] = rxQueue[i]
      /\ rxQueue'[Len(rxQueue) + 1] = datagram
  OBVIOUS
<1>2. \A i \in DOMAIN rxQueue : i \in DOMAIN rxQueue' /\ rxQueue[i].id = rxQueue'[i].id
  BY <1>1
<1>3. Len(rxQueue) + 1 \in DOMAIN rxQueue'
  BY <1>1
<1> QED
  BY <1>1, <1>2, <1>3 DEF Queued

(* Reading the head takes only its identity from the queue. *)
LEMMA TailQueued ==
  ASSUME rxQueue \in Seq(Datagrams), rxQueue # <<>>, rxQueue' = Tail(rxQueue)
  PROVE  Queued \subseteq Queued' \cup {Head(rxQueue).id}
<1>1. /\ DOMAIN rxQueue' = 1 .. Len(rxQueue) - 1 /\ DOMAIN rxQueue = 1 .. Len(rxQueue)
      /\ Len(rxQueue) \in Nat
      /\ \A i \in 1 .. Len(rxQueue) - 1 : rxQueue'[i] = rxQueue[i + 1]
      /\ Head(rxQueue) = rxQueue[1]
  OBVIOUS
<1>2. ASSUME NEW i \in DOMAIN rxQueue
      PROVE  rxQueue[i].id \in Queued' \cup {Head(rxQueue).id}
  <2>1. CASE i = 1
    BY <1>1, <2>1
  <2>2. CASE i # 1
    <3>1. i - 1 \in DOMAIN rxQueue' /\ rxQueue'[i - 1] = rxQueue[i]
      BY <1>1, <1>2, <2>2
    <3> QED
      BY <3>1 DEF Queued
  <2> QED
    BY <2>1, <2>2
<1> QED
  BY <1>2 DEF Queued

(* What a step does to the captures. *)
CaptureStep ==
  \/ UNCHANGED <<udpVars, rxQueue, request>> /\ (Holding => Holding')
  \/ LoopMatch
  \/ \E kind \in Kinds : Arrive(kind)
  \/ InitPass
  \/ TakeRequest \/ SkipRequest \/ CaptureClock \/ CaptureCount \/ ClearCapture
  \/ Transmit \/ Sent \/ FlushOne \/ ResetCapture

(* Every step does one of these things to the capture. *)
LEMMA CaptureSteps ==
  ASSUME Next
  PROVE  CaptureStep
<1> USE DEF CaptureStep, Holding, Step, ReplyStep
<1>1. CASE LoopTick \/ LoopMatch \/ LoopPps
  BY <1>1 DEF LoopTick, LoopPps, Tick, PpsCaptureIsr, nicVars, localVars, replyVars
<1>2. CASE GpsAnswer \/ \E kind \in Kinds : Arrive(kind)
  BY <1>2 DEF GpsAnswer, timersVars, localVars, replyVars, nicVars
<1>3. CASE LoopTop \/ AfterPps \/ InitPass \/ ServiceMatch \/ StoreCount
  BY <1>3 DEF LoopTop, StartTimers, AfterPps, ServiceMatch, StoreCount, timersVars, localVars,
              replyVars, nicVars
<1>4. CASE NoRequest \/ TakeRequest \/ HandleRequest
  BY <1>4 DEF NoRequest, HandleRequest, GetCapture, timersVars, localVars, replyVars, nicVars
<1>5. CASE TransmitTimestamp \/ Rollover \/ FlushDone
  BY <1>5 DEF TransmitTimestamp, Rollover, FlushDone, timersVars, replyVars, nicVars
<1> QED
  BY <1>1, <1>2, <1>3, <1>4, <1>5 DEF Next, World, Loop, Reply

(* Every step that gives up a datagram gives up its captures. *)
LEMMA NextOwned ==
  ASSUME TypeInv, Owned, Next
  PROVE  Owned'
<1>1. NicTypeOK
  BY TypeParts DEF TypeInv
<1>2. rxQueue \in Seq(Datagrams)
  BY <1>1 DEF NicTypeOK
<1> USE DEF Owned, Owns
<1>3. NoEdge.of = Nobody /\ NoCapture.of = Nobody
  BY DEF NoEdge, NoCapture
<1>4. CASE UNCHANGED <<udpVars, rxQueue, request>> /\ (Holding => Holding')
  BY <1>4 DEF udpVars, Queued
<1>5. CASE LoopMatch
  <2>1. UNCHANGED <<Queued, request, Holding>>
    BY <1>5 DEF LoopMatch, nicVars, localVars, replyVars, Queued, Holding
  <2>2. icr5'.of \in {icr5.of, Nobody} /\ udpCapture'.of \in {udpCapture.of, icr5.of}
    BY <1>3, <1>5 DEF LoopMatch, TimerMatchIsr, SavedCapture, udpVars
  <2> QED
    BY <2>1, <2>2
<1>6. ASSUME NEW kind \in Kinds, Arrive(kind)
      PROVE  Owned'
  <2>1. PICK new : /\ rxQueue' = Append(rxQueue, [id |-> new, kind |-> kind])
                   /\ RaiseLine(new)
                   /\ new = CHOOSE id \in Unused : \A other \in Unused : id <= other
    BY <1>6 DEF Arrive
  <2>2. new \in Datagram
    BY <1>1, <1>6, <2>1, NewDatagram DEF Arrive
  <2>3. Queued \subseteq Queued' /\ new \in Queued'
    <3>1. [id |-> new, kind |-> kind] \in Datagrams
      BY <2>2 DEF Datagrams
    <3> QED
      BY <1>2, <2>1, <3>1, AppendQueued
  <2>4. icr5'.of \in {icr5.of, new, Nobody} /\ udpCapture' = udpCapture
    BY <1>3, <1>6, <2>1 DEF Arrive, RaiseLine, NicEdge
  <2>5. UNCHANGED <<request, Holding>>
    BY <1>6 DEF Arrive, localVars, replyVars, Holding
  <2> QED
    BY <2>3, <2>4, <2>5
<1>7. ASSUME ReadDatagram, Forget(Head(rxQueue)), ~Holding
      PROVE  Owned'
  <2>1. Queued \subseteq Queued' \cup {Head(rxQueue).id}
    BY <1>2, <1>7, TailQueued DEF ReadDatagram
  <2>2. /\ icr5'.of = Nobody \/ (icr5'.of = icr5.of /\ icr5.of # Head(rxQueue).id)
        /\ udpCapture'.of = Nobody \/ (udpCapture'.of = udpCapture.of /\ udpCapture.of # Head(rxQueue).id)
    BY <1>3, <1>7 DEF Forget
  <2> QED
    BY <1>7, <2>1, <2>2
<1>8. CASE InitPass
  <2>1. ~Holding
    BY <1>8 DEF InitPass, Step, Holding
  <2>2. CASE UNCHANGED <<nicVars, icr5, udpCapture>>
    BY <2>1, <2>2 DEF nicVars, Queued
  <2> QED
    BY <1>7, <1>8, <2>1, <2>2 DEF InitPass, IgnoreDatagram
<1>9. CASE TakeRequest
  <2>1. Queued \subseteq Queued' \cup {Head(rxQueue).id}
    BY <1>2, <1>9, TailQueued DEF TakeRequest, ReadDatagram
  <2>2. UNCHANGED <<icr5, udpCapture>> /\ request' = Head(rxQueue) /\ ~Holding /\ Holding'
    BY <1>9 DEF TakeRequest, Step, Holding, timersVars, udpVars
  <2> QED
    BY <2>1, <2>2
<1>10. CASE SkipRequest
  <2>1. UNCHANGED Queued /\ ~Holding'
    BY <1>10 DEF SkipRequest, ReplyStep, Step, Holding, nicVars, Queued
  <2>2. /\ icr5'.of = Nobody \/ (icr5'.of = icr5.of /\ icr5.of # request.id)
        /\ udpCapture'.of = Nobody \/ (udpCapture'.of = udpCapture.of /\ udpCapture.of # request.id)
    BY <1>3, <1>10 DEF SkipRequest, Forget
  <2> QED
    BY <2>1, <2>2
<1>11. CASE CaptureClock \/ CaptureCount
  <2>1. UNCHANGED <<Queued, request>> /\ Holding /\ Holding'
    BY <1>11 DEF CaptureClock, CaptureCount, ReplyStep, Step, Holding, nicVars, replyVars, Queued
  <2>2. udpCapture \in Capture
    BY TypeParts DEF TypeInv, TimersTypeOK, UdpTypeOK
  <2>3. icr5' = icr5 /\ udpCapture'.of \in {udpCapture.of, icr5.of}
    BY <1>11, <2>2 DEF CaptureClock, CaptureCount, Capture
  <2> QED
    BY <2>1, <2>3
<1>12. CASE ClearCapture
  BY <1>3, <1>12 DEF ClearCapture
<1>13. CASE Transmit \/ Sent \/ ResetCapture
  <2>1. UNCHANGED Queued /\ ~Holding
    BY <1>13 DEF Transmit, Sent, ResetCapture, ReplyStep, Step, Holding, nicVars, Queued
  <2>2. icr5'.of \in {icr5.of, Nobody} /\ udpCapture' = udpCapture
    BY <1>3, <1>13 DEF Transmit, Sent, ResetCapture, RaiseLine, NicEdge
  <2> QED
    BY <2>1, <2>2
<1>14. CASE FlushOne
  BY <1>7, <1>14 DEF FlushOne, ReplyStep, Step, Holding
<1>15. CaptureStep
  BY CaptureSteps
<1> QED
  BY <1>4, <1>5, <1>6, <1>8, <1>9, <1>10, <1>11, <1>12, <1>13, <1>14, <1>15 DEF CaptureStep

(* Every step keeps Flagged. *)
LEMMA NextFlagged ==
  ASSUME Inv, Ideal, Flagged, Next
  PROVE  Flagged'
<1> USE DEF Flagged, Step, ReplyStep
<1>1. NoEdge.of = Nobody /\ NoCapture.of = Nobody
  BY DEF NoEdge, NoCapture
<1>2. Started
  BY DEF Inv
<1>3. CASE UNCHANGED <<udpVars, replied>> /\ (pc \in {"captured", "sent", "flush", "reset"} => pc' = pc)
  BY <1>3 DEF udpVars
<1>4. CASE LoopTick \/ LoopPps \/ GpsAnswer
  BY <1>3, <1>4 DEF LoopTick, LoopPps, Tick, PpsCaptureIsr, GpsAnswer, timersVars
<1>5. CASE LoopMatch
  <2>1. UNCHANGED pc /\ replied' = FALSE
    BY <1>5 DEF LoopMatch
  <2>2. \/ UNCHANGED udpVars
        \/ udpCaptureFlag' = TRUE /\ icf5' = FALSE /\ icr5' = NoEdge
    BY <1>5 DEF LoopMatch, TimerMatchIsr
  <2> QED
    BY <1>1, <2>1, <2>2 DEF udpVars
<1>6. CASE \E kind \in Kinds : Arrive(kind)
  BY <1>1, <1>6 DEF Arrive, RaiseLine, NicEdge, NoBurst
<1>7. CASE LoopTop \/ AfterPps \/ ServiceMatch \/ StoreCount \/ NoRequest \/ TakeRequest
  BY <1>3, <1>7 DEF LoopTop, StartTimers, AfterPps, ServiceMatch, StoreCount, NoRequest,
                    TakeRequest,
                    timersVars
<1>8. CASE InitPass
  BY <1>1, <1>8 DEF InitPass, IgnoreDatagram, Forget
<1>9. CASE HandleRequest
  <2>1. CASE SkipRequest
    BY <1>1, <2>1 DEF SkipRequest, Forget
  <2>2. CASE GetCapture
    BY <1>3, <2>2 DEF GetCapture, timersVars
  <2> QED
    BY <1>9, <2>1, <2>2 DEF HandleRequest
<1>10. CASE CaptureClock
  <2>1. udpCapture \in Capture
    BY CoreFacts DEF Inv, TimersTypeOK, UdpTypeOK
  <2>2. udpCapture'.of = udpCapture.of
    BY <1>10, <2>1 DEF CaptureClock, Capture
  <2> QED
    BY <1>10, <2>2 DEF CaptureClock
<1>11. CASE CaptureCount
  BY <1>11 DEF CaptureCount
<1>12. CASE ClearCapture \/ Sent \/ ResetCapture
  BY <1>1, <1>12 DEF ClearCapture, Sent, ResetCapture
<1>13. CASE TransmitTimestamp \/ Rollover \/ FlushDone
  BY <1>13 DEF TransmitTimestamp, Rollover, FlushDone, timersVars, udpVars
<1>14. CASE Transmit
  BY <1>1, <1>14 DEF Transmit, RaiseLine, NicEdge
<1>15. CASE FlushOne
  BY <1>1, <1>15 DEF FlushOne, Forget
<1> QED
  BY <1>4, <1>5, <1>6, <1>7, <1>8, <1>9, <1>10, <1>11, <1>12, <1>13, <1>14, <1>15
  DEF Next, World, Loop, Reply

-----------------------------------------------------------------------------
(* The captures of the receive timestamps. *)

(* A saved capture is right if with the offset it makes the time of its edge. *)
Right(capture) == NtpTime(capture.sec, capture.cyc, capture.cnt, H) = capture.at

(* An edge still in the register is right with the cycle and second of now. *)
EdgeRight == icr5.of # Nobody => NtpTime(ntpSeconds, subCycleCount, icr5.cnt, H) = icr5.at

(* A capture saved for a datagram is the time of its arrival. *)
SavedRight == udpCapture.of # Nobody /\ udpCaptureFlag => Right(udpCapture)

(* Before the loop has counted the first match after the first PPS it saw. *)
Early == timeCheck = 0 \/ (timeCheck = 1 /\ timerCycles = 0)

(* The rest of a pass that counted a match, before the time of day is confirmed: it *)
(* ends with the socket and the captures empty.                                     *)
Draining ==
  /\ timeOfDayValid # 2
  /\ interruptCount = 0 /\ timerCycles \in NTP_CYCLE /\ ~ocf4a
  /\ tcnt <= MaxLag + lag - 1 + TxDelay
  /\ \/ pc \in {"service", "window"} /\ windowLeft >= Window - lag
     \/ pc \in {"request", "flush"}

(* While the clock is right, so are the captures, but for those older than the *)
(* seconds, which the pass that set the seconds throws away.                   *)
Captures == ClockRight /\ ~Early /\ ~Draining => EdgeRight /\ SavedRight

(* From the flag's test to the stamp no match takes the edge away, so the cycle and *)
(* second read first and the count read last belong together.                       *)
Handed ==
  /\ pc \in {"clock", "count"} => ~udpCaptureFlag /\ (ocf4a => replied)
  /\ pc \in {"clock", "count"} /\ haveCapture => icf5 /\ ~replied
  /\ pc = "count" /\ haveCapture => udpCapture.sec = ntpSeconds /\ udpCapture.cyc = subCycleCount
  /\ pc = "captured" /\ haveCapture /\ udpCapture.of # Nobody => Right(udpCapture)

(* The invariant of the captures. *)
CaptureInv == Owned /\ Flagged /\ Handed /\ Captures

(* Once the server may answer, every capture at hand is right. *)
LEMMA AnswerCaptures ==
  ASSUME Inv, Ideal, Captures, timeOfDayValid = 2
  PROVE  EdgeRight /\ SavedRight /\ timersInitialized = 2 /\ timsk4
<1>1. Started /\ Answering /\ SecondsKept /\ Core
  BY DEF Inv
<1>2. timeCheck = 2
  BY <1>1 DEF Answering
<1>3. timersInitialized = 2 /\ timsk4
  BY <1>1, <1>2, CoreFacts DEF Started, EnabledFirst
<1> QED
  BY <1>1, <1>2, <1>3 DEF SecondsKept, Captures, Early, Draining

(* The capture handed over stays in one piece. *)
LEMMA NextHanded ==
  ASSUME Inv, Ideal, Timely, CaptureInv, Next
  PROVE  Handed'
<1>1. Core /\ Started /\ Answering /\ Due /\ WindowOpen /\ Owned /\ Flagged /\ Handed /\ Captures
  BY DEF Inv, CaptureInv
<1>2. Replying => timeOfDayValid = 2 /\ timersInitialized = 2 /\ timsk4
  BY <1>1, AnswerCaptures DEF Answering
<1>3. udpCapture \in Capture /\ icr5 \in Edge
  BY <1>1, CoreFacts DEF TimersTypeOK, UdpTypeOK
<1> USE DEF Handed, Step, ReplyStep
<1>4. CASE pc' \notin {"clock", "count", "captured"}
  BY <1>4
<1>5. CASE LoopTick
  <2>1. UNCHANGED <<pc, replied, udpVars, haveCapture, countVars>> /\ (~Waiting => lag < MaxLag)
        /\ (Polling => Waiting) /\ (ocf4a' <=> ocf4a \/ tcnt = T - 1)
    BY <1>1, <1>5, TickShape DEF LoopTick, localVars, replyVars
  <2>2. pc \in {"clock", "count"} /\ ~replied => tcnt # T - 1
    <3>1. SUFFICES ASSUME pc \in {"clock", "count"}, ~replied
                   PROVE  tcnt # T - 1
      OBVIOUS
    <3>2. tcnt <= 2 * MaxLag + Window - 2 + lag
      BY <1>1, <3>1 DEF WindowOpen, Serving
    <3>3. lag < MaxLag
      BY <2>1, <3>1 DEF Waiting
    <3> QED
      BY <3>2, <3>3, Numbers DEF Timely
  <2> QED
    BY <1>1, <2>1, <2>2 DEF udpVars, countVars, Right
<1>6. CASE LoopMatch
  <2>1. UNCHANGED <<pc, haveCapture>> /\ TimerMatchIsr
    BY <1>6 DEF LoopMatch, localVars, replyVars
  <2>2. CASE pc \in {"clock", "count"}
    <3>1. replied /\ ~haveCapture /\ ~icf5
      BY <1>1, <2>1, <2>2 DEF TimerMatchIsr, Flagged
    <3> QED
      BY <1>1, <2>1, <2>2, <3>1 DEF TimerMatchIsr, udpVars
  <2>3. CASE pc = "captured"
    <3>1. timersInitialized = 2 /\ EdgeRight
      BY <1>1, <1>2, <2>3, AnswerCaptures DEF Replying
    <3>2. CASE icf5
      <4>1. udpCapture' = SavedCapture
        BY <2>1, <3>1, <3>2 DEF TimerMatchIsr
      <4> QED
        BY <2>1, <2>3, <3>1, <4>1 DEF SavedCapture, EdgeRight, Right
    <3>3. CASE ~icf5
      BY <1>1, <2>1, <2>3, <3>1, <3>3 DEF TimerMatchIsr, udpVars, Right
    <3> QED
      BY <3>2, <3>3
  <2> QED
    BY <1>4, <2>1, <2>2, <2>3
<1>7. CASE LoopPps
  <2>1. UNCHANGED <<pc, replied, udpVars, haveCapture, ntpSeconds>> /\ ~ocf4a'
    BY <1>1, <1>7, PpsShape DEF LoopPps, localVars, replyVars
  <2>2. Replying => subCycleCount' = subCycleCount
    BY <1>1, <1>2, <1>7, PpsShape DEF LoopPps
  <2> QED
    BY <1>1, <2>1, <2>2 DEF udpVars, Replying, Right
<1>8. CASE GpsAnswer \/ \E kind \in Kinds : Arrive(kind)
  <2>1. UNCHANGED <<pc, replied, udpCaptureFlag, udpCapture, haveCapture, ntpSeconds,
                    subCycleCount, ocf4a>>
    BY <1>8, OutsideFrame DEF hwVars, countVars, localVars, replyVars
  <2>2. icf5 => icf5'
    BY <1>8 DEF GpsAnswer, Arrive, RaiseLine, NicEdge, timersVars, udpVars
  <2> QED
    BY <1>1, <2>1, <2>2 DEF Right
<1>9. CASE GetCapture /\ timeOfDayValid > 1
  <2>1. timeOfDayValid = 2
    BY <1>9, Numbers
  <2>2. SavedRight /\ timsk4
    BY <1>1, <2>1, AnswerCaptures
  <2>3. ~ocf4a /\ pc = "request" /\ UNCHANGED <<ocf4a, replied, udpVars>>
    BY <1>9, <2>2 DEF GetCapture, timersVars, hwVars, InterruptPending, PpsWaits
  <2>4. icf5 => ~replied
    BY <1>1, <2>3 DEF Flagged
  <2> QED
    BY <1>9, <2>2, <2>3, <2>4 DEF GetCapture, SavedRight, udpVars, Right
<1>10. CASE CaptureClock
  <2>1. udpCapture'.sec = ntpSeconds /\ udpCapture'.cyc = subCycleCount
    BY <1>3, <1>10 DEF CaptureClock, Capture
  <2> QED
    BY <1>1, <1>10, <2>1 DEF CaptureClock, ClockUnchanged, hwVars, countVars, replyVars
<1>11. CASE CaptureCount
  <2>1. EdgeRight /\ pc = "count" /\ pc' = "captured" /\ haveCapture' = haveCapture
    BY <1>1, <1>2, <1>11, AnswerCaptures DEF CaptureCount, Replying, replyVars
  <2>2. udpCapture' = [sec |-> udpCapture.sec, cyc |-> udpCapture.cyc, cnt |-> icr5.cnt,
                       at |-> icr5.at, of |-> icr5.of]
    BY <1>3, <1>11 DEF CaptureCount, Capture
  <2> QED
    BY <1>1, <2>1, <2>2 DEF EdgeRight, Right
<1>12. CASE LoopTop \/ AfterPps \/ InitPass \/ ServiceMatch \/ StoreCount \/ NoRequest \/ TakeRequest
  BY <1>4, <1>12 DEF LoopTop, AfterPps, InitPass, ServiceMatch, StoreCount, NoRequest, TakeRequest
<1>13. CASE SkipRequest \/ ClearCapture \/ TransmitTimestamp \/ Rollover \/ Transmit
  BY <1>4, <1>13 DEF SkipRequest, ClearCapture, TransmitTimestamp, Rollover, Transmit
<1>14. CASE Sent \/ FlushOne \/ FlushDone \/ ResetCapture
  BY <1>4, <1>14 DEF Sent, FlushOne, FlushDone, ResetCapture
<1>15. HandleRequest => SkipRequest \/ (GetCapture /\ timeOfDayValid > 1)
  BY DEF HandleRequest, CanReply
<1> QED
  BY <1>5, <1>6, <1>7, <1>8, <1>9, <1>10, <1>11, <1>12, <1>13, <1>14, <1>15
  DEF Next, World, Loop, Reply

-----------------------------------------------------------------------------
(* The clock and the captures, step by step. *)

(* Different times are followed by different times. *)
LEMMA AdvanceInjective ==
  ASSUME NEW s \in Time, NEW t \in Time, Advance(s) = Advance(t)
  PROVE  s = t
<1>1. /\ s.sec \in 0 .. S - 1 /\ s.cyc \in 0 .. N - 1 /\ s.cnt \in 0 .. T - 1
      /\ t.sec \in 0 .. S - 1 /\ t.cyc \in 0 .. N - 1 /\ t.cnt \in 0 .. T - 1
      /\ T \in Nat /\ T >= 2 /\ N \in Nat /\ N >= 2 /\ S \in Nat /\ S >= 2
  BY TimersAssumption DEF Time, Sec, Cycle, Count, T
<1>2. s.cnt = t.cnt /\ s.cyc = t.cyc
  <2>1. (s.cnt = T - 1) = (t.cnt = T - 1) /\ s.cnt = t.cnt
    BY <1>1, AdvanceParts
  <2> QED
    BY <1>1, <2>1, AdvanceParts
<1>3. s.sec = t.sec
  <2>1. CASE s.cnt = T - 1 /\ s.cyc = N - 1
    BY <1>1, <1>2, <2>1 DEF Advance, NextCycle, NextSec
  <2>2. CASE ~(s.cnt = T - 1 /\ s.cyc = N - 1)
    BY <1>1, <1>2, <2>2 DEF Advance, NextCycle
  <2> QED
    BY <2>1, <2>2
<1> QED
  BY <1>2, <1>3 DEF Time

(* A clock that the hardware leaves right was right. *)
LEMMA HardwareWasRight ==
  ASSUME Core, Ideal, Tick \/ TimerMatchIsr \/ PpsCaptureIsr, timersInitialized = 2, ClockRight'
  PROVE  ClockRight
<1>1. CASE Tick
  <2>1. skew' = 0 /\ timersInitialized' = 2 /\ ntpOffset' = ntpOffset
    BY <1>1, TickShape DEF syncVars
  <2>2. ~Lost'
    BY <2>1, TimersAssumption DEF Lost, Abs, Drift
  <2>3. \/ ClockTime(skew)' = ClockTime(skew) /\ TrueTime' = TrueTime
        \/ ClockTime(skew)' = Advance(ClockTime(skew)) /\ TrueTime' = Advance(TrueTime)
    BY <1>1, <2>2, TickExact, CoreFacts
  <2>4. ClockTime(skew)' = ClockTime(0)'
    BY <2>1 DEF ClockTime
  <2>5. ClockTime(0) \in Time /\ TrueTime \in Time
    BY CoreFacts, ClockTimeType
  <2> QED
    BY <2>3, <2>4, <2>5, CoreFacts, AdvanceInjective DEF ClockRight
<1>2. CASE TimerMatchIsr
  <2>1. Reached' = Reached
    BY <1>2, MatchExact, CoreFacts
  <2>2. UNCHANGED <<Offset, TrueTime>>
    BY <1>2, MatchShape DEF Offset, TrueTime, trueVars, syncVars
  <2> QED
    BY <2>1, <2>2 DEF ClockRight, ClockTime
<1>3. CASE PpsCaptureIsr
  <2>1. /\ UNCHANGED <<tcnt, timersInitialized, subCycleCount, ntpSeconds, TrueTime>>
        /\ ~ocf4a /\ ~ocf4a' /\ ntpOffset' = H
    BY <1>3, PpsShape DEF TrueTime
  <2>2. Reached' = Reached /\ Offset' = Offset
    BY <2>1, CoreFacts DEF Reached, Offset
  <2> QED
    BY <2>1, <2>2 DEF ClockRight, ClockTime
<1> QED
  BY <1>1, <1>2, <1>3

(* And a clock that is right was right before a step that left it alone. *)
LEMMA FrameWasRight ==
  ASSUME ClockRight',
         UNCHANGED <<tcnt, ocf4a, timersInitialized, ntpOffset, subCycleCount, ntpSeconds,
                     TrueTime>>
  PROVE  ClockRight
<1>1. Reached' = Reached /\ Offset' = Offset
  BY DEF Reached, Offset
<1> QED
  BY <1>1 DEF ClockRight, ClockTime

(* A step that leaves the count of cycles alone leaves no early state, unless *)
(* it is that of a second PPS, which comes with the count of a whole second.  *)
LEMMA LeavesEarly ==
  ASSUME Inv, Ideal, Next, Early, ~Early'
  PROVE  StoreCount
<1>1. Started /\ Due /\ Counted
  BY DEF Inv
<1> USE DEF Early
<1>2. CASE UNCHANGED <<timeCheck, timerCycles>>
  BY <1>2
<1>3. CASE LoopTick \/ LoopMatch \/ LoopPps
  BY <1>2, <1>3 DEF LoopTick, LoopMatch, LoopPps, loopVars
<1>4. CASE GpsAnswer \/ \E kind \in Kinds : Arrive(kind)
  BY <1>2, <1>4, OutsideFrame DEF loopVars
<1>5. CASE LoopTop \/ InitPass \/ ServiceMatch
  BY <1>2, <1>5 DEF LoopTop, InitPass, ServiceMatch, loopVars
<1>6. CASE Answer
  BY <1>2, <1>6, AnswerFrame DEF loopVars
<1>7. CASE AfterPps
  <2>1. CASE ~gotPps
    BY <1>2, <1>7, <2>1 DEF AfterPps
  <2>2. CASE gotPps /\ timeCheck = 0
    BY <1>7, <2>2 DEF AfterPps, CyclesAfterPps
  <2>3. CASE gotPps /\ timeCheck = 1 /\ timerCycles = 0
    <3>1. subCycleCount = N - 1
      BY <2>3 DEF Inv, PpsSeen
    <3> QED
      BY <1>1, <2>3, <3>1, Numbers DEF Counted
  <2> QED
    BY <2>1, <2>2, <2>3
<1> QED
  BY <1>3, <1>4, <1>5, <1>6, <1>7 DEF Next, World, Loop, Answer

(* Until the reply path has flushed the socket in the pass that counted a match, *)
(* the captures at hand may be older than the seconds.                            *)
LEMMA NextDraining ==
  ASSUME Inv, Ideal, Timely, Owned, Owned', Draining, ~Early, Next
  PROVE  Draining' \/ (icr5'.of = Nobody /\ udpCapture'.of = Nobody)
<1>1. Core /\ Started /\ Answering
  BY DEF Inv
<1>2. timersInitialized = 2 /\ timsk4 /\ ~ocf4a /\ timersRunning
  BY <1>1, CoreFacts DEF Started, Early, EnabledFirst, Draining, LoopTypeOK
<1>3. pc \in {"service", "window", "request", "flush"}
  BY DEF Draining
<1>4. ASSUME Queued' = {}, ~Holding'
      PROVE  icr5'.of = Nobody /\ udpCapture'.of = Nobody
  BY <1>4 DEF Owned, Owns
<1> USE DEF Step, ReplyStep
<1>5. CASE UNCHANGED <<timeOfDayValid, interruptCount, timerCycles, ocf4a, tcnt, lag, pc,
                       windowLeft>>
  BY <1>5 DEF Draining
<1>6. CASE LoopTick
  <2>1. /\ UNCHANGED <<timeOfDayValid, interruptCount, timerCycles, pc>>
        /\ tcnt' = (IF tcnt = T - 1 THEN 0 ELSE tcnt + 1) /\ (ocf4a' <=> ocf4a \/ tcnt = T - 1)
        /\ windowLeft' \in {windowLeft, windowLeft - 1}
    BY <1>1, <1>6, TickShape DEF LoopTick, statusVars
  <2>2. lag < MaxLag /\ lag' = lag + 1
    BY <1>3, <1>6 DEF LoopTick, Waiting
  <2>3. tcnt # T - 1
    BY <2>2, Numbers DEF Draining, Timely
  <2>4. tcnt' = tcnt + 1 /\ ~ocf4a'
    BY <1>2, <2>1, <2>3
  <2>5. tcnt' <= MaxLag + lag' - 1 + TxDelay
    BY <2>2, <2>4, Numbers DEF Draining
  <2>6. windowLeft >= Window - lag => windowLeft' >= Window - lag'
    BY <2>1, <2>2, Numbers
  <2> QED
    BY <2>1, <2>4, <2>5, <2>6 DEF Draining
<1>7. CASE LoopMatch
  BY <1>2, <1>7 DEF LoopMatch, TimerMatchIsr
<1>8. CASE LoopPps
  <2>1. /\ UNCHANGED <<timeOfDayValid, interruptCount, timerCycles, tcnt, lag, pc, windowLeft>>
        /\ ~ocf4a'
    BY <1>1, <1>2, <1>8, PpsShape DEF LoopPps, loopVars, statusVars
  <2> QED
    BY <2>1 DEF Draining
<1>9. CASE GpsAnswer \/ \E kind \in Kinds : Arrive(kind)
  BY <1>5, <1>9, OutsideFrame DEF hwVars, loopVars, statusVars
<1>10. CASE LoopTop \/ AfterPps \/ InitPass \/ StoreCount
  BY <1>3, <1>10 DEF LoopTop, AfterPps, InitPass, StoreCount
<1>11. CASE ServiceMatch
  <2>1. interruptCount = 0
    BY DEF Draining
  <2> QED
    BY <1>11, <2>1 DEF ServiceMatch, Draining, timersVars, hwVars, loopVars, statusVars
<1>12. CASE NoRequest
  <2>1. windowLeft >= Window - lag /\ timerCycles \in NTP_CYCLE
    BY <1>12 DEF NoRequest, Draining
  <2>2. InWindow
    BY <2>1, Numbers DEF InWindow, Timely
  <2>3. rxQueue' = <<>> /\ pc' = "top"
    BY <1>12, <2>2 DEF NoRequest, nicVars
  <2> QED
    BY <1>4, <2>3 DEF Queued, Holding
<1>13. CASE TakeRequest \/ SkipRequest \/ FlushOne
  <2>1. pc' \in {"request", "flush"} /\ lag' = lag
    BY <1>13 DEF TakeRequest, SkipRequest, FlushOne
  <2>2. UNCHANGED <<timeOfDayValid, interruptCount, timerCycles, ocf4a, tcnt>>
    BY <1>13, AnswerFrame DEF Answer, Reply, hwVars, loopVars, statusVars, HandleRequest,
                              TakeRequest, SkipRequest, FlushOne, timersVars, ClockUnchanged
  <2> QED
    BY <2>1, <2>2 DEF Draining
<1>14. CASE GetCapture /\ timeOfDayValid > 1
  BY <1>14, Numbers DEF Draining
<1>15. CASE CaptureClock \/ CaptureCount \/ ClearCapture \/ TransmitTimestamp \/ Rollover \/ Transmit \/ Sent
  BY <1>3, <1>15 DEF CaptureClock, CaptureCount, ClearCapture, TransmitTimestamp, Rollover,
                     Transmit, Sent
<1>16. CASE FlushDone
  BY <1>4, <1>16 DEF FlushDone, nicVars, Queued, Holding
<1>17. CASE ResetCapture
  BY <1>3, <1>17 DEF ResetCapture
<1>18. HandleRequest => SkipRequest \/ (GetCapture /\ timeOfDayValid > 1)
  BY DEF HandleRequest, CanReply
<1> QED
  BY <1>6, <1>7, <1>8, <1>9, <1>10, <1>11, <1>12, <1>13, <1>14, <1>15, <1>16, <1>17, <1>18
  DEF Next, World, Loop, Reply

-----------------------------------------------------------------------------
(* The receive timestamp. *)

(* The pass that counts a match takes over no second but the one it has, or *)
(* goes on to flush the socket.                                             *)
LEMMA StoreCaptures ==
  ASSUME Inv, Ideal, Timely, Captures, StoreCount, ClockRight', ~Early', ~Draining'
  PROVE  EdgeRight' /\ SavedRight'
<1>1. Core /\ Started /\ Answering /\ Asking /\ Due /\ Counted /\ SecondsKept /\ AnswerFresh
  BY DEF Inv
<1>2. /\ pc = "store" /\ pc' = "service" /\ lag' = lag /\ ~InterruptPending
      /\ UNCHANGED <<trueVars, hwVars, syncVars, udpVars, subCycleCount, timeCheck>>
      /\ interruptCount' = unserviced - 1 /\ windowLeft' = Window
      /\ timerCycles' = (timerCycles + 1) % CycleMod
  BY DEF StoreCount, Step, PpsWaits
<1>3. timeCheck # 0 /\ interruptCount = 1 /\ interruptCount' = 0
  BY <1>1, <1>2 DEF Due, Early
<1>4. timersInitialized = 2 /\ timsk4 /\ ~ocf4a
  BY <1>1, <1>2, <1>3, CoreFacts DEF Started, EnabledFirst, InterruptPending
<1>5. tcnt' <= MaxLag + lag' - 1 + TxDelay /\ ~ocf4a' /\ windowLeft' >= Window - lag'
  <2>1. tcnt <= MaxLag + lag - 1 + Stretch
    BY <1>1, <1>2, <1>3 DEF Due, Deadline
  <2> QED
    BY <1>2, <1>4, <2>1, StretchRange, Numbers DEF hwVars
<1>6. timeOfDayValid' = 2 \/ timerCycles' \notin NTP_CYCLE
  BY <1>2, <1>3, <1>5 DEF Draining
<1>7. ntpSeconds' = ntpSeconds /\ ~Early
  <2>1. CASE ~(timeCheck = 2 /\ timerCycles' \in TOD_CYCLE)
    <3>1. UNCHANGED <<ntpSeconds, timeOfDayValid>>
      BY <2>1 DEF StoreCount
    <3>2. ~Early
      <4>1. ASSUME timeCheck = 1, timerCycles = 0
            PROVE  FALSE
        <5>1. timerCycles' = 1 /\ timeOfDayValid # 2
          BY <1>1, <1>2, <4>1, Numbers DEF Answering
        <5> QED
          BY <1>6, <3>1, <5>1, Numbers DEF NTP_CYCLE
      <4> QED
        BY <1>3, <4>1 DEF Early
    <3> QED
      BY <3>1, <3>2
  <2>2. CASE timeCheck = 2 /\ timerCycles' \in TOD_CYCLE
    <3>1. CheckTod /\ ~Early
      BY <2>2 DEF StoreCount, Early
    <3>2. timeOfDayValid' = 2
      BY <1>6, <2>2, Numbers DEF TOD_CYCLE, NTP_CYCLE
    <3>3. PICK valid \in {0, timeOfDayValid} : TodReply(valid) \/ NoTodReply(valid)
      BY <3>1 DEF CheckTod
    <3>4. CASE todIo = "answered" /\ SetNtpSeconds(currentTime, valid)
      <4>1. ntpSeconds' = currentTime
        BY <3>4 DEF SetNtpSeconds
      <4>2. CASE SecondsAgree(currentTime) /\ valid < 2
        <5>1. timeOfDayValid = 1
          BY <3>2, <3>4, <4>2, Numbers DEF SetNtpSeconds
        <5> QED
          BY <1>1, <3>1, <4>1, <4>2, <5>1 DEF Asking, SecondsAgree
      <4>3. CASE ~(SecondsAgree(currentTime) /\ valid < 2)
        <5>1. timeOfDayValid = 2
          BY <3>2, <3>4, <4>3, Numbers DEF SetNtpSeconds
        <5>2. ClockTime(0) = TrueTime /\ currentTime = trueSec
          BY <1>1, <2>2, <3>4, <5>1 DEF SecondsKept, ClockRight, AnswerFresh
        <5>3. subCycleCount # N - 1
          BY <1>1, <1>2, <1>3, <2>2, Numbers DEF Counted, TOD_CYCLE
        <5>4. ClockTime(0).sec = ntpSeconds
          BY <1>1, <1>4, <5>3, ClockReads, CoreFacts
        <5> QED
          BY <3>1, <4>1, <5>2, <5>4 DEF TrueTime
      <4> QED
        BY <4>2, <4>3
    <3>5. CASE UNCHANGED ntpSeconds
      BY <3>1, <3>5
    <3> QED
      BY <3>3, <3>4, <3>5 DEF TodReply, NoTodReply
  <2> QED
    BY <2>1, <2>2
<1>8. ClockRight
  BY <1>2, <1>7, FrameWasRight DEF hwVars, syncVars, trueVars, TrueTime
<1>9. EdgeRight /\ SavedRight
  BY <1>2, <1>7, <1>8 DEF Captures, Draining
<1> QED
  BY <1>2, <1>7, <1>9 DEF EdgeRight, SavedRight, Right, udpVars

(* The captures stay right. *)
LEMMA NextCaptures ==
  ASSUME Inv, Ideal, Timely, CaptureInv, Owned', Next
  PROVE  Captures'
<1>1. Core /\ Started /\ Due /\ Owned /\ Flagged /\ Handed /\ Captures
  BY DEF Inv, CaptureInv
<1>2. SUFFICES ASSUME ClockRight', ~Early', ~Draining'
               PROVE  EdgeRight' /\ SavedRight'
  BY DEF Captures
<1>3. CASE StoreCount
  BY <1>1, <1>2, <1>3, StoreCaptures
<1>4. CASE ~StoreCount
  <2>1. ~Early
    BY <1>2, <1>4, LeavesEarly
  <2>2. timersInitialized = 2 /\ timsk4 /\ timersRunning
    BY <1>1, <2>1, CoreFacts DEF Early, Started, EnabledFirst, LoopTypeOK
  <2>3. CASE Draining
    BY <1>1, <1>2, <2>1, <2>3, NextDraining DEF EdgeRight, SavedRight
  <2>4. CASE ~Draining
    <3> USE DEF EdgeRight, SavedRight
    <3>1. ASSUME ClockRight
          PROVE  EdgeRight /\ SavedRight
      BY <1>1, <2>1, <2>4, <3>1 DEF Captures
    <3>2. NoEdge.of = Nobody /\ NoCapture.of = Nobody
      BY DEF NoEdge, NoCapture
    <3>3. CASE LoopTick \/ LoopPps
      <4>1. ClockRight
        BY <1>1, <1>2, <2>2, <3>3, HardwareWasRight DEF LoopTick, LoopPps
      <4>2. UNCHANGED <<udpVars, ntpSeconds, subCycleCount>>
        <5>1. CASE LoopTick
          BY <5>1 DEF LoopTick, Tick, countVars
        <5>2. CASE LoopPps
          BY <1>1, <2>2, <5>2, PpsShape DEF LoopPps
        <5> QED
          BY <3>3, <5>1, <5>2
      <4> QED
        BY <3>1, <4>1, <4>2 DEF udpVars, Right
    <3>4. CASE LoopMatch
      <4>1. EdgeRight /\ SavedRight
        BY <1>1, <1>2, <2>2, <3>1, <3>4, HardwareWasRight DEF LoopMatch
      <4>2. CASE icf5
        <5>1. udpCapture' = SavedCapture /\ icr5' = NoEdge
          BY <2>2, <3>4, <4>2 DEF LoopMatch, TimerMatchIsr
        <5> QED
          BY <3>2, <4>1, <5>1 DEF SavedCapture, Right
      <4>3. CASE ~icf5
        <5>1. UNCHANGED udpVars /\ icr5.of = Nobody
          BY <1>1, <2>2, <3>4, <4>3 DEF LoopMatch, TimerMatchIsr, Flagged
        <5> QED
          BY <4>1, <5>1 DEF udpVars, Right
      <4> QED
        BY <4>2, <4>3
    <3>5. CASE UNCHANGED <<hwVars, syncVars, countVars, trueVars>>
      <4>1. ClockRight
        BY <1>2, <3>5, FrameWasRight DEF hwVars, syncVars, countVars, trueVars, TrueTime
      <4>2. EdgeRight /\ SavedRight
        BY <3>1, <4>1
      <4>3. UNCHANGED <<ntpSeconds, subCycleCount>>
        BY <3>5 DEF countVars
      <4> HIDE DEF EdgeRight, SavedRight
      <4>4. ASSUME icr5' = icr5 \/ icr5' = NoEdge
            PROVE  EdgeRight'
        BY <3>2, <4>2, <4>3, <4>4 DEF EdgeRight
      <4>5. ASSUME udpCapture' = udpCapture \/ udpCapture' = NoCapture, udpCaptureFlag' => udpCaptureFlag
            PROVE  SavedRight'
        BY <3>2, <4>2, <4>5 DEF SavedRight, Right
      <4>6. CASE UNCHANGED udpVars
        BY <4>4, <4>5, <4>6 DEF udpVars
      <4>7. ASSUME NEW kind \in Kinds, Arrive(kind)
            PROVE  EdgeRight' /\ SavedRight'
        <5>1. ~ocf4a /\ UNCHANGED <<udpCapture, udpCaptureFlag>>
          BY <2>2, <4>7 DEF Arrive, InterruptPending, Ideal
        <5>2. NtpTime(ntpSeconds, subCycleCount, tcnt, H) = TrueTime
          BY <1>1, <4>1, <5>1, ClockReads DEF ClockRight
        <5>3. icr5' = icr5 \/ icr5' = NoEdge \/ (icr5'.cnt = tcnt /\ icr5'.at = TrueTime)
          BY <4>7 DEF Arrive, RaiseLine, NicEdge
        <5>4. CASE icr5'.cnt = tcnt /\ icr5'.at = TrueTime
          BY <4>3, <4>5, <5>1, <5>2, <5>4 DEF EdgeRight
        <5>5. CASE icr5' = icr5 \/ icr5' = NoEdge
          BY <4>4, <4>5, <5>1, <5>5
        <5> QED
          BY <5>3, <5>4, <5>5
      <4>8. CASE GpsAnswer \/ AfterPps \/ ServiceMatch \/ NoRequest \/ TakeRequest \/ GetCapture
        BY <4>6, <4>8 DEF GpsAnswer, AfterPps, ServiceMatch, NoRequest, TakeRequest,
                          GetCapture, timersVars
      <4>9. CASE LoopTop \/ TransmitTimestamp \/ Rollover \/ FlushDone
        BY <2>2, <4>6, <4>9 DEF LoopTop, TransmitTimestamp, Rollover, FlushDone, timersVars
      <4>10. CASE SkipRequest \/ FlushOne
        BY <4>4, <4>5, <4>10 DEF SkipRequest, FlushOne, Forget
      <4>11. CASE CaptureClock \/ CaptureCount
        <5>1. ~udpCaptureFlag' /\ icr5' = icr5
          BY <1>1, <4>11 DEF CaptureClock, CaptureCount, ReplyStep, Step, Handed
        <5> QED
          BY <4>4, <5>1 DEF SavedRight
      <4>12. CASE ClearCapture \/ Transmit \/ Sent \/ ResetCapture
        BY <4>4, <4>5, <4>12, <3>2 DEF ClearCapture, Transmit, Sent, ResetCapture, RaiseLine,
                                       NicEdge
      <4>13. CASE InitPass
        BY <1>1, <2>2, <4>13 DEF InitPass, Step, Started
      <4> QED
        BY <1>4, <3>3, <3>4, <4>7, <4>8, <4>9, <4>10, <4>11, <4>12, <4>13
        DEF Next, World, Loop, Reply, HandleRequest
    <3>6. CASE (\E kind \in Kinds : Arrive(kind)) \/ GpsAnswer
      BY <3>5, <3>6, OutsideFrame
    <3>7. CASE LoopTop \/ AfterPps \/ ServiceMatch
      BY <2>2, <3>5, <3>7 DEF LoopTop, AfterPps, ServiceMatch, timersVars
    <3>8. CASE InitPass
      BY <1>1, <2>2, <3>8 DEF InitPass, Step, Started
    <3>9. CASE Answer
      BY <3>5, <3>9, AnswerFrame
    <3> QED
      BY <1>4, <3>3, <3>4, <3>6, <3>7, <3>8, <3>9 DEF Next, World, Loop, Answer
  <2> QED
    BY <2>3, <2>4
<1> QED
  BY <1>3, <1>4

(* A stutter keeps the invariant of the capture. *)
LEMMA StutterCapture ==
  ASSUME CaptureInv, UNCHANGED vars
  PROVE  CaptureInv'
<1>1. UNCHANGED <<trueVars, hwVars, syncVars, countVars, udpVars, interruptCount, pc, lag, replied, rxQueue,
                  request, haveCapture, loopVars, timeOfDayValid>>
  BY DEF vars, timersVars, localVars, replyVars, nicVars, statusVars
<1> USE DEF CaptureInv
<1>2. Owned'
  BY <1>1 DEF Owned, Owns, Holding, Queued, udpVars
<1>3. Flagged'
  BY <1>1 DEF Flagged, udpVars
<1>4. UNCHANGED <<EdgeRight, SavedRight, Early>>
  BY <1>1 DEF EdgeRight, SavedRight, Right, Early, udpVars, countVars, loopVars
<1>5. Draining' <=> Draining
  BY <1>1 DEF Draining, hwVars, loopVars
<1>6. ClockRight' => ClockRight
  BY <1>1, FrameWasRight DEF hwVars, syncVars, countVars, trueVars, TrueTime
<1>7. Handed'
  BY <1>1 DEF Handed, Right, udpVars, hwVars, countVars
<1> QED
  BY <1>2, <1>3, <1>4, <1>5, <1>6, <1>7 DEF Captures

(* RxStampExact: the receive timestamp of a reply is the time of the edge it was    *)
(* made from, whichever of the two routines saved the capture, however close to the *)
(* match it came and whatever was set of the seconds before.                        *)
THEOREM RxStampCorrect ==
  ASSUME Timely, Ideal
  PROVE  Spec => RxStampExact
<1>1. Init => CaptureInv
  BY DEF Init, TimersInit, CaptureInv, Owned, Owns, Flagged, Handed, Captures, Early, NoEdge,
         NoCapture
<1>2. Inv /\ CaptureInv /\ [Next]_vars => CaptureInv'
  <2>1. ASSUME Inv, CaptureInv, Next
        PROVE  CaptureInv'
    <3>1. Owned'
      BY <2>1, NextOwned DEF Inv, Core, CaptureInv
    <3>2. Flagged'
      BY <2>1, NextFlagged DEF CaptureInv
    <3>3. Handed'
      BY <2>1, NextHanded
    <3>4. Captures'
      BY <2>1, <3>1, NextCaptures
    <3> QED
      BY <3>1, <3>2, <3>3, <3>4 DEF CaptureInv
  <2> QED
    BY <2>1, StutterCapture
<1>3. Inv /\ CaptureInv /\ [Next]_vars
        => [(pc = "captured" /\ pc' = "stamp" /\ udpCapture.of # Nobody) =>
              NtpTime(udpCapture.sec, udpCapture.cyc, udpCapture.cnt, ntpOffset) = udpCapture.at]_vars
  <2>1. SUFFICES ASSUME Inv, CaptureInv, Next, pc = "captured", pc' = "stamp", udpCapture.of # Nobody
                 PROVE  NtpTime(udpCapture.sec, udpCapture.cyc, udpCapture.cnt, ntpOffset) = udpCapture.at
    OBVIOUS
  <2>2. Answer
    BY <2>1 DEF Next, World, Loop, Answer, LoopTick, LoopMatch, LoopPps, GpsAnswer, Arrive,
                LoopTop, AfterPps, InitPass, ServiceMatch, StoreCount, Step
  <2>3. haveCapture
    BY <2>1, <2>2 DEF Answer, NoRequest, TakeRequest, Reply, HandleRequest, SkipRequest,
                      GetCapture,
                      CaptureClock, CaptureCount, ClearCapture, TransmitTimestamp, Rollover, Transmit,
                      Sent, FlushOne, FlushDone, ResetCapture, ReplyStep, Step
  <2>4. Right(udpCapture) /\ ntpOffset = H
    BY <2>1, <2>3, CoreFacts DEF CaptureInv, Handed, Inv
  <2> QED
    BY <2>4 DEF Right
<1>4. Spec => []Inv
  BY Invariant
<1> QED
  BY <1>1, <1>2, <1>3, <1>4, PTL DEF Spec, RxStampExact
=============================================================================
