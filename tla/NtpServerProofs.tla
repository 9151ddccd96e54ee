--------------------------- MODULE NtpServerProofs ---------------------------
(***************************************************************************)
(* Theorems about NtpServer, for any number of peers and slots and however *)
(* many datagrams are under way.                                           *)
(***************************************************************************)
EXTENDS NtpServer, FiniteSetTheorems, TLAPS

-----------------------------------------------------------------------------
(* The operators.                                                            *)

LEMMA LowestSlotType ==
  ASSUME NEW slots \in SUBSET Slot, slots # {}
  PROVE  LowestSlot(slots) \in slots
<1> DEFINE Below(k) == 1 .. k
           R == StrictSubsetOrdering(Slot)
<1>1. IsFiniteSet(Slot) /\ Slots \in Nat
  BY FS_Interval, ServerAssumption DEF Slot
<1>2. IsWellFoundedOn(R, SUBSET Slot)
  BY <1>1, FS_FiniteSubsetsOfFinite, FS_StrictSubsetOrderingWellFounded
<1>3. {Below(k) : k \in slots} \subseteq SUBSET Slot /\ {Below(k) : k \in slots} # {}
  BY <1>1 DEF Slot
<1>4. \E x \in {Below(k) : k \in slots} : \A y \in {Below(k) : k \in slots} : <<y, x>> \notin R
  <2> HIDE DEF Below, R
  <2> QED
    BY <1>2, <1>3, WFMin
<1> PICK k \in slots : \A j \in slots : <<Below(j), Below(k)>> \notin R
  BY <1>4
<1>5. ASSUME NEW j \in slots PROVE k <= j
  <2>1. Below(j) \in SUBSET Slot /\ Below(k) \in SUBSET Slot
    BY <1>1 DEF Slot
  <2>2. CASE j < k
    <3>1. j \in Nat /\ k \in Nat /\ Below(j) \subseteq Below(k) /\ k \in Below(k) /\ k \notin Below(j)
      BY <1>1, <2>2 DEF Slot
    <3> QED
      BY <2>1, <3>1 DEF StrictSubsetOrdering
  <2> QED
    BY <1>1, <2>2 DEF Slot
<1> QED
  BY <1>5 DEF LowestSlot

LEMMA FindPeerType ==
  ASSUME NEW a \in Addr
  PROVE  FindPeer(a) \in Slot \cup {NO_PEER}
<1>1. /\ SlotsOf(a) \subseteq Slot /\ SlotsOf(NoAddr) \subseteq Slot
      /\ TimedOutSlots \subseteq Slot
  BY DEF SlotsOf, TimedOutSlots
<1> QED
  BY <1>1, LowestSlotType DEF FindPeer

LEMMA StampType == 0 \in Stamp
BY ServerAssumption DEF Stamp

LEMMA MillisType ==
  ASSUME NEW t \in Nat
  PROVE  t % HourMod \in 0 .. HourMod - 1
BY ServerAssumption

(* A new association is of the type of a slot and has no round. *)
LEMMA NewPeer ==
  ASSUME NEW peer, NEW a \in Addr, millis \in 0 .. HourMod - 1
  PROVE  /\ InitializePeer(peer, a) \in PeerState
         /\ InitializePeer(peer, a).XlRndId = 0
         /\ InitializePeer(peer, a).HardTx = 0
         /\ InitializePeer(peer, a).PrevTx = 0
<1>1. SlotTimeout \in 0 .. HourMod - 1
  BY MillisType, ServerAssumption DEF SlotTimeout
<1> QED
  BY <1>1, StampType DEF InitializePeer, Empty, PeerState

LEMMA AssociationType ==
  ASSUME NEW k \in Slot, NEW a \in Addr, TypeOK
  PROVE  Association(k, a) \in PeerState
BY NewPeer DEF Association, TypeOK

-----------------------------------------------------------------------------
(* Type correctness.                                                         *)

LEMMA InitType == Init => TypeOK
BY StampType, ServerAssumption
   DEF Init, TypeOK, Empty, PeerState, Unheard, NoReply, NO_PEER, Slot

LEMMA EventType ==
  ASSUME TypeOK, Event
  PROVE  now' \in Stamp
BY ServerAssumption DEF TypeOK, Event, Stamp

LEMMA NetworkType ==
  ASSUME TypeOK, Network
  PROVE  TypeOK'
<1> USE DEF TypeOK, serverVars, networkVars
<1>1. ASSUME NEW a \in Addr, PeerSends(a) PROVE TypeOK'
  <2> DEFINE packet == [from |-> a, org |-> remote[a].org, rec |-> remote[a].rec,
                        xmt |-> remote[a].sent]
  <2>1. packet \in Request /\ now' \in Stamp
    BY <1>1, EventType DEF PeerSends, Request
  <2>2. requests' \subseteq Request
    BY <1>1, <2>1 DEF PeerSends
  <2>3. remote' \in [Addr -> [org : Stamp, rec : Stamp, sent : Stamp]]
    BY <1>1, <2>1 DEF PeerSends
  <2> QED
    BY <1>1, <2>1, <2>2, <2>3 DEF PeerSends
<1>2. ASSUME NEW a \in Addr, PeerRestarts(a) PROVE TypeOK'
  <2>1. remote' \in [Addr -> [org : Stamp, rec : Stamp, sent : Stamp]]
    BY <1>2, StampType DEF PeerRestarts, Unheard
  <2> QED
    BY <1>2, <2>1 DEF PeerRestarts
<1>3. ASSUME NEW reply \in replies, PeerHears(reply) PROVE TypeOK'
  <2>1. remote' \in [Addr -> [org : Stamp, rec : Stamp, sent : Stamp]]
    BY <1>3 DEF PeerHears
  <2> QED
    BY <1>3, <2>1 DEF PeerHears
<1>4. ASSUME TimePasses PROVE TypeOK'
  <2>1. millis' \in 0 .. HourMod - 1
    <3>1. millis + 1 \in Nat /\ millis' = (millis + 1) % HourMod
      BY <1>4, ServerAssumption DEF TimePasses
    <3> QED
      BY <3>1, MillisType
  <2>2. age' \in [Slot -> 0 .. SlotLife]
    BY <1>4, ServerAssumption DEF TimePasses
  <2> QED
    BY <1>4, <2>1, <2>2 DEF TimePasses
<1> QED
  BY <1>1, <1>2, <1>3, <1>4 DEF Network

(* What a packet finds when it is handled. *)
LEMMA HandledType ==
  ASSUME TypeOK, NEW packet \in requests, FindPeer(packet.from) # NO_PEER
  PROVE  /\ packet \in Request
         /\ FindPeer(packet.from) \in Slot
         /\ Association(FindPeer(packet.from), packet.from) \in PeerState
<1>1. packet \in Request /\ packet.from \in Addr
  BY DEF TypeOK, Request
<1> QED
  BY <1>1, FindPeerType, AssociationType

LEMMA AssociateType ==
  ASSUME TypeOK, NEW k \in Slot, NEW packet, Associate(k, packet)
  PROVE  age' \in [Slot -> 0 .. SlotLife] /\ lastSent' \in [Slot -> Stamp]
BY StampType, ServerAssumption DEF TypeOK, Associate

LEMMA RequestType ==
  ASSUME TypeOK, NEW packet \in requests,
         RefuseRequest(packet) \/ IgnoreDuplicate(packet) \/ PrepareReply(packet)
  PROVE  TypeOK'
<1> DEFINE k    == FindPeer(packet.from)
           peer == Association(k, packet.from)
<1>1. CASE RefuseRequest(packet)
  BY <1>1 DEF RefuseRequest, Take, TypeOK
<1>2. CASE IgnoreDuplicate(packet)
  <2>1. k # NO_PEER /\ Associate(k, packet)
    BY <1>2 DEF IgnoreDuplicate, Associate
  <2>2. k \in Slot /\ peer \in PeerState
    BY <2>1, HandledType
  <2>3. symmetricPeers' \in [Slot -> PeerState]
    <3>1. [peer EXCEPT !.NextIsBogus = FALSE] \in PeerState
      BY <2>2 DEF PeerState
    <3> QED
      BY <1>2, <2>2, <3>1 DEF IgnoreDuplicate, TypeOK
  <2> QED
    BY <1>2, <2>1, <2>2, <2>3, AssociateType DEF IgnoreDuplicate, Take, TypeOK
<1>3. CASE PrepareReply(packet)
  <2>1. k # NO_PEER /\ Associate(k, packet) /\ now' \in Stamp
    BY <1>3, EventType DEF PrepareReply, Associate
  <2>2. k \in Slot /\ peer \in PeerState /\ packet \in Request
    BY <2>1, HandledType
  <2>3. WrongRound(packet, peer) \in BOOLEAN /\ Valid(packet, peer) \in BOOLEAN
    BY <2>2 DEF WrongRound, Valid, Unsynchronised, PeerState
  <2>4. symmetricPeers' \in [Slot -> PeerState]
    <3>1. [peer EXCEPT !.NextIsBogus = WrongRound(packet, peer),
                       !.PrevTx = packet.xmt, !.XlRndId = now'] \in PeerState
      BY <2>1, <2>2, <2>3 DEF PeerState, Request
    <3> QED
      BY <1>3, <2>2, <3>1 DEF PrepareReply, TypeOK
  <2>5. ntpPacket' \in Reply
    <3>1. peer.HardTx \in Stamp /\ packet.from \in Addr /\ packet.rec \in Stamp
      BY <2>2 DEF PeerState, Request
    <3> QED
      BY <1>3, <2>1, <2>3, <3>1 DEF PrepareReply, Reply
  <2> QED
    BY <1>3, <2>1, <2>2, <2>4, <2>5, AssociateType DEF PrepareReply, Take, TypeOK
<1> QED
  BY <1>1, <1>2, <1>3

(* Between the preparation of a reply and its end there is one, for a slot. *)
InReply == pc = "reply" => pidx \in Slot /\ ntpPacket \in Reply

LEMMA EndType ==
  ASSUME TypeOK, InReply, SendReply \/ SendFails
  PROVE  TypeOK' /\ InReply'
<1>1. PICK i \in {0, 1} : (now' = now + i + 1 \/ now' = now + i) /\ now' <= MaxTime
  BY DEF SendReply, SendFails, Arrivals
<1>2. now' \in Stamp /\ pidx \in Slot /\ ntpPacket \in Reply
  BY <1>1, ServerAssumption
     DEF TypeOK, Stamp, SendReply, SendFails, EndReply, InReply
<1>3. ASSUME NEW captured \in Stamp, EndReply(captured)
      PROVE  /\ symmetricPeers' \in [Slot -> PeerState] /\ pc' = "idle"
             /\ pidx' = NO_PEER /\ ntpPacket' = NoReply
             /\ requests' = requests /\ remote' = remote /\ age' = age /\ millis' = millis
  <2>1. [symmetricPeers[pidx] EXCEPT !.HardTx = captured] \in PeerState
    BY <1>2 DEF TypeOK, PeerState
  <2> QED
    BY <1>2, <1>3, <2>1 DEF EndReply, TypeOK
<1>4. CASE SendReply
  <2>1. PICK n \in Arrivals : EndReply(now + 1) /\ now' = now + n + 1
    BY <1>4 DEF SendReply
  <2>2. now + 1 \in Stamp
    BY <1>2, <2>1, ServerAssumption DEF TypeOK, Stamp, Arrivals
  <2>3. replies' \subseteq [to : Addr, rec : Stamp, left : Stamp]
    <3>1. [to |-> ntpPacket.to, rec |-> ntpPacket.rec, left |-> now']
            \in [to : Addr, rec : Stamp, left : Stamp]
      BY <1>2 DEF Reply
    <3> QED
      BY <1>4, <3>1 DEF SendReply, TypeOK
  <2>4. lastSent' \in [Slot -> Stamp]
    BY <1>2, <1>4 DEF SendReply, TypeOK
  <2> QED
    BY <1>2, <1>3, <2>1, <2>2, <2>3, <2>4 DEF TypeOK, InReply
<1>5. CASE SendFails
  <2>1. PICK n \in Arrivals : EndReply(n * now') /\ UNCHANGED <<replies, lastSent>>
    BY <1>5 DEF SendFails
  <2>2. n * now' \in Stamp
    <3>1. now' \in Nat /\ (n = 0 \/ n = 1)
      BY <1>2, ServerAssumption DEF Stamp, Arrivals
    <3>2. n * now' = 0 \/ n * now' = now'
      BY <3>1
    <3> QED
      BY <1>2, <3>2, StampType
  <2> QED
    BY <1>2, <1>3, <2>1, <2>2 DEF TypeOK, InReply
<1> QED
  BY <1>4, <1>5

LEMMA StepType ==
  ASSUME TypeOK, InReply, [Next]_vars
  PROVE  TypeOK' /\ InReply'
<1>1. CASE Network
  <2>1. UNCHANGED serverVars
    BY <1>1 DEF Network, PeerSends, PeerRestarts, PeerHears, TimePasses
  <2> QED
    BY <1>1, <2>1, NetworkType DEF InReply, serverVars
<1>2. ASSUME NEW packet \in requests,
             RefuseRequest(packet) \/ IgnoreDuplicate(packet) \/ PrepareReply(packet)
      PROVE  TypeOK' /\ InReply'
  <2>1. TypeOK'
    BY <1>2, RequestType
  <2>2. CASE PrepareReply(packet)
    <3>1. pidx' = FindPeer(packet.from) /\ FindPeer(packet.from) # NO_PEER
      BY <2>2 DEF PrepareReply, Associate
    <3>2. ntpPacket' # NoReply
      <4>1. ntpPacket'.to = packet.from /\ packet.from # NoAddr
        <5>1. packet.from \in Addr
          BY <3>1, HandledType DEF Request
        <5> QED
          BY <2>2, <5>1, ServerAssumption DEF PrepareReply, NoAddr
      <4> QED
        BY <4>1 DEF NoReply
    <3> QED
      BY <2>1, <3>1, <3>2, HandledType DEF InReply, TypeOK
  <2>3. CASE RefuseRequest(packet) \/ IgnoreDuplicate(packet)
    BY <2>1, <2>3 DEF RefuseRequest, IgnoreDuplicate, Take, InReply
  <2> QED
    BY <1>2, <2>2, <2>3
<1>3. CASE UNCHANGED vars
  BY <1>3 DEF vars, serverVars, networkVars, TypeOK, InReply
<1> QED
  BY <1>1, <1>2, <1>3, EndType DEF Next, ProcessRequest

(* Every variable of the server, the network and the peers stays in its range: *)
(* the slot of a reply is one of the table, and SlotTimeout, millis() and the  *)
(* ages of the slots do not run past their moduli.                             *)
THEOREM TypeCorrect == Spec => []TypeOK
<1>1. Init => TypeOK /\ InReply
  BY InitType DEF Init, InReply
<1>2. TypeOK /\ InReply /\ [Next]_vars => (TypeOK /\ InReply)'
  BY StepType
<1> QED
  BY <1>1, <1>2, PTL DEF Spec

-----------------------------------------------------------------------------
(* Rounds.  A reply of the round org reaches its peer, or will, or the peer    *)
(* tells of it: it left, or arrived, at rec.                                   *)

Reported(org, rec) ==
  \/ \E a \in Addr : remote[a].org = org /\ remote[a].rec = rec
  \/ \E packet \in requests : packet.org = org /\ packet.rec = rec
  \/ \E reply \in replies : reply.rec = org /\ reply.left = rec

(* What is told of the last round of an association is told rightly. *)
RoundReported ==
  \A k \in Slot, org \in Stamp, rec \in Stamp :
    (Reported(org, rec) /\ org # 0 /\ org = symmetricPeers[k].XlRndId) => rec = lastSent[k]

(* Nobody can tell of a round whose reply has not left, or has one like it. *)
OpenRound ==
  pc = "reply" =>
    /\ symmetricPeers[pidx].XlRndId = ntpPacket.rec /\ ntpPacket.rec # 0
    /\ \A k \in Slot \ {pidx} : symmetricPeers[k].XlRndId # ntpPacket.rec
    /\ \A rec \in Stamp : ~Reported(ntpPacket.rec, rec)

(* The next round will be a new one. *)
RoundsPast ==
  /\ \A k \in Slot : symmetricPeers[k].XlRndId <= now
  /\ \A org \in Stamp, rec \in Stamp : Reported(org, rec) => org <= now

Rounds == RoundReported /\ OpenRound /\ RoundsPast

IInv == TypeOK /\ InReply /\ HardTxOfLastReply /\ PairedWhenValid /\ Rounds

LEMMA InitRounds == Init => IInv
<1> SUFFICES ASSUME Init PROVE IInv
  OBVIOUS
<1>1. TypeOK /\ InReply /\ PairedWhenValid /\ OpenRound
  BY InitType DEF Init, InReply, PairedWhenValid, OpenRound
<1>2. HardTxOfLastReply
  BY DEF Init, Empty, HardTxOfLastReply
<1>3. \A org \in Stamp, rec \in Stamp : Reported(org, rec) => org = 0
  BY DEF Init, Reported, Unheard
<1>4. RoundReported /\ RoundsPast
  BY <1>3 DEF Init, Empty, RoundReported, RoundsPast, Stamp
<1> QED
  BY <1>1, <1>2, <1>4 DEF IInv, Rounds

(* The peers and the network tell nothing that was not told before. *)
LEMMA NetworkReports ==
  ASSUME TypeOK, Network, NEW org, NEW rec, Reported(org, rec)', org # 0
  PROVE  Reported(org, rec)
<1> USE DEF TypeOK, Reported
<1>1. ASSUME NEW a \in Addr, PeerSends(a) PROVE Reported(org, rec)
  BY <1>1 DEF PeerSends
<1>2. ASSUME NEW a \in Addr, PeerRestarts(a) PROVE Reported(org, rec)
  BY <1>2 DEF PeerRestarts, Unheard
<1>3. ASSUME NEW reply \in replies, PeerHears(reply) PROVE Reported(org, rec)
  BY <1>3 DEF PeerHears
<1>4. CASE TimePasses
  BY <1>4 DEF TimePasses, networkVars
<1> QED
  BY <1>1, <1>2, <1>3, <1>4 DEF Network

LEMMA NetworkRounds ==
  ASSUME IInv, Network
  PROVE  IInv'
<1>1. UNCHANGED <<symmetricPeers, pc, pidx, ntpPacket, lastSent>>
  BY DEF Network, PeerSends, PeerRestarts, PeerHears, TimePasses, serverVars
<1>2. now \in Nat /\ now' \in Nat /\ now <= now'
  <2>1. now \in Nat
    BY ServerAssumption DEF IInv, TypeOK, Stamp
  <2>2. now' = now + 1 \/ now' = now
    BY DEF Network, PeerSends, PeerRestarts, PeerHears, TimePasses, Event
  <2> QED
    BY <2>1, <2>2
<1>3. TypeOK' /\ InReply' /\ HardTxOfLastReply' /\ PairedWhenValid'
  BY <1>1, NetworkType DEF IInv, InReply, HardTxOfLastReply, PairedWhenValid
<1>4. RoundReported'
  BY <1>1, NetworkReports DEF IInv, Rounds, RoundReported
<1>5. OpenRound'
  BY <1>1, NetworkReports DEF IInv, Rounds, OpenRound
<1>6. RoundsPast'
  <2>1. ASSUME NEW k \in Slot PROVE symmetricPeers'[k].XlRndId <= now'
    <3>1. symmetricPeers[k].XlRndId \in Nat
      BY ServerAssumption DEF IInv, TypeOK, PeerState, Stamp
    <3> QED
      BY <1>1, <1>2, <3>1 DEF IInv, Rounds, RoundsPast
  <2>2. ASSUME NEW org \in Stamp, NEW rec \in Stamp, Reported(org, rec)' PROVE org <= now'
    BY <1>2, <2>2, NetworkReports DEF IInv, Rounds, RoundsPast, Stamp
  <2> QED
    BY <2>1, <2>2 DEF RoundsPast
<1> QED
  BY <1>3, <1>4, <1>5, <1>6 DEF IInv, Rounds

(* A packet that the server has taken is no longer told of. *)
LEMMA TakeReports ==
  ASSUME NEW packet, Take(packet), NEW org, NEW rec, Reported(org, rec)'
  PROVE  Reported(org, rec)
BY DEF Take, Reported

LEMMA PrepareRounds ==
  ASSUME IInv, NEW packet \in requests, PrepareReply(packet)
  PROVE  HardTxOfLastReply' /\ PairedWhenValid' /\ Rounds'
<1> DEFINE k    == FindPeer(packet.from)
           peer == Association(k, packet.from)
<1>1. /\ TypeOK /\ HardTxOfLastReply /\ RoundReported /\ RoundsPast
      /\ Take(packet) /\ Associate(k, packet) /\ k # NO_PEER
  BY DEF IInv, Rounds, PrepareReply, Associate
<1>2. packet \in Request /\ k \in Slot /\ peer \in PeerState
  BY <1>1, HandledType
<1>3. now \in Nat /\ now' = now + 1 /\ now' # 0
  BY <1>1, ServerAssumption DEF TypeOK, Stamp, PrepareReply, Event
<1>4. /\ symmetricPeers'[k].XlRndId = now' /\ symmetricPeers'[k].HardTx = peer.HardTx
      /\ \A j \in Slot \ {k} : symmetricPeers'[j] = symmetricPeers[j]
      /\ pidx' = k /\ pc' = "reply" /\ ntpPacket'.rec = now'
  <2>1. symmetricPeers' = [symmetricPeers EXCEPT ![k] =
          [peer EXCEPT !.NextIsBogus = WrongRound(packet, peer),
                       !.PrevTx = packet.xmt, !.XlRndId = now']]
        /\ pidx' = k /\ pc' = "reply" /\ ntpPacket'.rec = now'
    BY DEF PrepareReply
  <2> QED
    BY <1>1, <1>2, <2>1 DEF TypeOK, PeerState
<1>5. /\ peer.HardTx \in {0, lastSent'[k]}
      /\ peer.XlRndId # 0 => peer = symmetricPeers[k] /\ lastSent'[k] = lastSent[k]
      /\ \A j \in Slot \ {k} : lastSent'[j] = lastSent[j]
  <2>1. CASE symmetricPeers[k].Ip = packet.from
    BY <1>1, <1>2, <2>1 DEF Associate, Association, HardTxOfLastReply
  <2>2. CASE symmetricPeers[k].Ip # packet.from
    <3>1. /\ peer.XlRndId = 0 /\ peer.HardTx = 0
      BY <1>1, <1>2, <2>2, NewPeer DEF Association, TypeOK, Request
    <3> QED
      BY <1>1, <1>2, <2>2, <3>1 DEF Associate, TypeOK
  <2> QED
    BY <2>1, <2>2
<1>6. HardTxOfLastReply'
  BY <1>1, <1>4, <1>5 DEF HardTxOfLastReply
<1>7. \A org \in Stamp, rec \in Stamp : Reported(org, rec)' => Reported(org, rec) /\ org <= now
  BY <1>1, TakeReports DEF RoundsPast
<1>8. PairedWhenValid'
  <2>1. ntpPacket'.xmt = peer.HardTx /\ ntpPacket'.org = packet.rec
        /\ ntpPacket'.valid = Valid(packet, peer)
    BY DEF PrepareReply
  <2>2. SUFFICES ASSUME Valid(packet, peer) PROVE peer.HardTx \in {0, packet.rec}
    BY <2>1, <2>2 DEF PairedWhenValid
  <2>3. packet.org # 0 /\ packet.org = peer.XlRndId
    BY <2>2 DEF Valid, Unsynchronised, WrongRound
  <2>4. Reported(packet.org, packet.rec) /\ packet.org \in Stamp /\ packet.rec \in Stamp
    BY <1>2 DEF Reported, Request
  <2>5. packet.rec = lastSent[k]
    BY <1>1, <1>2, <1>5, <2>3, <2>4 DEF RoundReported
  <2> QED
    BY <1>5, <2>3, <2>5
<1>9. \A j \in Slot \ {k} : symmetricPeers'[j].XlRndId \in Nat /\ symmetricPeers'[j].XlRndId <= now
  BY <1>1, <1>4, ServerAssumption DEF RoundsPast, TypeOK, PeerState, Stamp
<1>10. RoundReported'
  <2> SUFFICES ASSUME NEW j \in Slot, NEW org \in Stamp, NEW rec \in Stamp,
                      Reported(org, rec)', org # 0, org = symmetricPeers'[j].XlRndId
               PROVE  rec = lastSent'[j]
    BY DEF RoundReported
  <2>1. Reported(org, rec) /\ org <= now /\ org \in Nat
    BY <1>7, ServerAssumption DEF Stamp
  <2>2. j # k
    BY <1>3, <1>4, <2>1
  <2> QED
    BY <1>1, <1>4, <1>5, <2>1, <2>2 DEF RoundReported
<1>11. OpenRound'
  <2>1. \A rec \in Stamp : ~Reported(ntpPacket.rec, rec)'
    <3> SUFFICES ASSUME NEW rec \in Stamp, Reported(ntpPacket.rec, rec)' PROVE FALSE
      OBVIOUS
    <3>1. now' \in Stamp
      BY <1>1, EventType DEF PrepareReply
    <3>2. \E org \in Stamp : org = now' /\ Reported(org, rec)'
      BY <1>4, <3>1 DEF Reported
    <3> QED
      BY <1>3, <1>7, <3>2
  <2> QED
    BY <1>3, <1>4, <1>9, <2>1 DEF OpenRound
<1>12. RoundsPast'
  <2>1. \A j \in Slot : symmetricPeers'[j].XlRndId <= now'
    BY <1>3, <1>4, <1>9
  <2>2. \A org \in Stamp, rec \in Stamp : Reported(org, rec)' => org <= now'
    BY <1>3, <1>7, ServerAssumption DEF Stamp
  <2> QED
    BY <2>1, <2>2 DEF RoundsPast
<1> QED
  BY <1>6, <1>8, <1>10, <1>11, <1>12 DEF Rounds

(* A packet that is not answered leaves the slots as they are: only in an *)
(* association that has had a packet before can one be a duplicate.        *)
LEMMA UnansweredRounds ==
  ASSUME IInv, NEW packet \in requests, RefuseRequest(packet) \/ IgnoreDuplicate(packet)
  PROVE  HardTxOfLastReply' /\ PairedWhenValid' /\ Rounds'
<1> DEFINE k    == FindPeer(packet.from)
           peer == Association(k, packet.from)
<1>1. TypeOK /\ Take(packet) /\ now' = now /\ pc' = "idle"
  BY DEF IInv, RefuseRequest, IgnoreDuplicate, Take
<1>2. /\ lastSent' = lastSent
      /\ \A j \in Slot : /\ symmetricPeers'[j].XlRndId = symmetricPeers[j].XlRndId
                         /\ symmetricPeers'[j].HardTx = symmetricPeers[j].HardTx
  <2>1. CASE RefuseRequest(packet)
    BY <2>1 DEF RefuseRequest
  <2>2. CASE IgnoreDuplicate(packet)
    <3>1. Associate(k, packet) /\ k # NO_PEER /\ Duplicate(packet, peer)
          /\ symmetricPeers' = [symmetricPeers EXCEPT ![k] = [peer EXCEPT !.NextIsBogus = FALSE]]
      BY <2>2 DEF IgnoreDuplicate, Associate
    <3>2. packet \in Request /\ k \in Slot /\ peer \in PeerState
      BY <1>1, <3>1, HandledType
    <3>3. peer.PrevTx # 0
      BY <3>1 DEF Duplicate
    <3>4. symmetricPeers[k].Ip = packet.from
      BY <1>1, <3>2, <3>3, NewPeer DEF Association, TypeOK, Request
    <3>5. peer = symmetricPeers[k] /\ lastSent' = lastSent
      BY <3>1, <3>4 DEF Association, Associate
    <3> QED
      BY <1>1, <3>1, <3>2, <3>5 DEF TypeOK, PeerState
  <2> QED
    BY <2>1, <2>2
<1>3. HardTxOfLastReply' /\ PairedWhenValid' /\ OpenRound'
  BY <1>1, <1>2 DEF IInv, HardTxOfLastReply, PairedWhenValid, OpenRound
<1>4. RoundReported' /\ RoundsPast'
  BY <1>1, <1>2, TakeReports DEF IInv, Rounds, RoundReported, RoundsPast
<1> QED
  BY <1>3, <1>4 DEF Rounds

LEMMA EndRounds ==
  ASSUME ~ArrivalInReply, IInv, SendReply \/ SendFails
  PROVE  HardTxOfLastReply' /\ PairedWhenValid' /\ Rounds'
<1>1. TypeOK /\ InReply /\ Rounds /\ pc = "reply" /\ pc' = "idle" /\ Arrivals = {0}
  BY DEF IInv, SendReply, SendFails, EndReply, Arrivals
<1>2. pidx \in Slot /\ ntpPacket \in Reply /\ now \in Nat
  BY <1>1, ServerAssumption DEF InReply, TypeOK, Stamp
<1>3. /\ \A j \in Slot : symmetricPeers'[j].XlRndId = symmetricPeers[j].XlRndId
      /\ \A j \in Slot \ {pidx} : symmetricPeers'[j].HardTx = symmetricPeers[j].HardTx
      /\ requests' = requests /\ remote' = remote
  <2>1. PICK captured : EndReply(captured)
    BY DEF SendReply, SendFails
  <2>2. symmetricPeers' = [symmetricPeers EXCEPT ![pidx].HardTx = captured]
    BY <2>1 DEF EndReply
  <2> QED
    BY <1>1, <1>2, <2>1, <2>2 DEF EndReply, TypeOK, PeerState
<1>4. PairedWhenValid' /\ OpenRound'
  BY <1>1 DEF PairedWhenValid, OpenRound
<1>5. \A j \in Slot : symmetricPeers[j].XlRndId \in Nat /\ symmetricPeers[j].XlRndId <= now
  BY <1>1, ServerAssumption DEF Rounds, RoundsPast, TypeOK, PeerState, Stamp
<1>6. CASE SendReply
  <2>1. /\ now' = now + 1
        /\ symmetricPeers' = [symmetricPeers EXCEPT ![pidx].HardTx = now + 1]
        /\ lastSent' = [lastSent EXCEPT ![pidx] = now']
        /\ replies' \subseteq replies \cup
             {[to |-> ntpPacket.to, rec |-> ntpPacket.rec, left |-> now']}
    BY <1>1, <1>2, <1>6 DEF SendReply, EndReply
  <2>2. lastSent'[pidx] = now' /\ \A j \in Slot \ {pidx} : lastSent'[j] = lastSent[j]
    BY <1>1, <1>2, <2>1 DEF TypeOK
  <2>3. symmetricPeers'[pidx].HardTx = now'
    BY <1>1, <1>2, <2>1 DEF TypeOK, PeerState
  <2>4. HardTxOfLastReply'
    BY <1>3, <2>2, <2>3 DEF IInv, HardTxOfLastReply
  <2>5. \A org \in Stamp, rec \in Stamp :
          Reported(org, rec)' => Reported(org, rec) \/ (org = ntpPacket.rec /\ rec = now')
    BY <1>3, <2>1 DEF Reported
  <2>6. RoundReported'
    <3> SUFFICES ASSUME NEW j \in Slot, NEW org \in Stamp, NEW rec \in Stamp,
                        Reported(org, rec)', org # 0, org = symmetricPeers'[j].XlRndId
                 PROVE  rec = lastSent'[j]
      BY DEF RoundReported
    <3>1. CASE j = pidx
      BY <1>1, <1>3, <2>2, <2>5, <3>1 DEF Rounds, OpenRound
    <3>2. CASE j # pidx
      BY <1>1, <1>3, <2>2, <2>5, <3>2 DEF Rounds, OpenRound, RoundReported
    <3> QED
      BY <3>1, <3>2
  <2>7. RoundsPast'
    <3>1. \A j \in Slot : symmetricPeers'[j].XlRndId <= now'
      BY <1>2, <1>3, <1>5, <2>1
    <3>2. ASSUME NEW org \in Stamp, NEW rec \in Stamp, Reported(org, rec)' PROVE org <= now'
      <4>1. ntpPacket.rec <= now
        BY <1>1, <1>2, <1>5 DEF Rounds, OpenRound
      <4>2. org <= now
        BY <1>1, <2>5, <3>2, <4>1 DEF Rounds, RoundsPast
      <4> QED
        BY <1>2, <2>1, <4>2, ServerAssumption DEF Stamp
    <3> QED
      BY <3>1, <3>2 DEF RoundsPast
  <2> QED
    BY <1>4, <2>4, <2>6, <2>7 DEF Rounds
<1>7. CASE SendFails
  <2>1. now' = now /\ replies' = replies /\ lastSent' = lastSent
    BY <1>1, <1>2, <1>7 DEF SendFails
  <2>2. symmetricPeers'[pidx].HardTx = 0
    <3>1. symmetricPeers' = [symmetricPeers EXCEPT ![pidx].HardTx = 0]
      <4>1. EndReply(0 * now') /\ 0 * now' = 0
        BY <1>1, <1>2, <1>7, <2>1 DEF SendFails
      <4> QED
        BY <4>1 DEF EndReply
    <3> QED
      BY <1>1, <1>2, <3>1 DEF TypeOK, PeerState
  <2>3. HardTxOfLastReply'
    BY <1>3, <2>1, <2>2 DEF IInv, HardTxOfLastReply
  <2>4. \A org \in Stamp, rec \in Stamp : Reported(org, rec)' => Reported(org, rec)
    BY <1>3, <2>1 DEF Reported
  <2>5. RoundReported' /\ RoundsPast'
    BY <1>1, <1>3, <2>1, <2>4 DEF Rounds, RoundReported, RoundsPast
  <2> QED
    BY <1>4, <2>3, <2>5 DEF Rounds
<1> QED
  BY <1>6, <1>7

LEMMA StepRounds ==
  ASSUME ~ArrivalInReply, IInv, [Next]_vars
  PROVE  IInv'
<1>1. TypeOK' /\ InReply'
  BY StepType DEF IInv
<1>2. CASE Network
  BY <1>2, NetworkRounds
<1>3. CASE ProcessRequest
  BY <1>1, <1>3, PrepareRounds, UnansweredRounds, EndRounds DEF ProcessRequest, IInv
<1>4. CASE UNCHANGED vars
  <2>1. \A org, rec : Reported(org, rec)' = Reported(org, rec)
    BY <1>4 DEF vars, networkVars, Reported
  <2> QED
    BY <1>1, <1>4, <2>1
       DEF IInv, Rounds, RoundReported, OpenRound, RoundsPast, HardTxOfLastReply,
           PairedWhenValid, vars, serverVars, networkVars
<1> QED
  BY <1>2, <1>3, <1>4 DEF Next

LEMMA RoundsCorrect == ASSUME ~ArrivalInReply PROVE Spec => []IInv
<1>1. IInv /\ [Next]_vars => IInv'
  BY StepRounds
<1> QED
  BY <1>1, InitRounds, PTL DEF Spec

(* The hardstamp that the next reply of an association will carry is the       *)
(* departure of its last reply or none, if no datagram arrives while one is    *)
(* under way (else it is false: NtpServer.cpp:288).                            *)
THEOREM HardTxCorrect == ASSUME ~ArrivalInReply PROVE Spec => []HardTxOfLastReply
<1>1. IInv => HardTxOfLastReply
  BY DEF IInv
<1> QED
  BY <1>1, RoundsCorrect, PTL

(* A packet that passes for valid is answered with the departure of the reply  *)
(* whose arrival it reports, whatever the network does to the packets and      *)
(* however often peers restart and slots change hands, if no datagram arrives  *)
(* while a reply is under way.                                                 *)
THEOREM PairedCorrect == ASSUME ~ArrivalInReply PROVE Spec => []PairedWhenValid
<1>1. IInv => PairedWhenValid
  BY DEF IInv
<1> QED
  BY <1>1, RoundsCorrect, PTL

-----------------------------------------------------------------------------
(* The life of a slot.                                                       *)

LEMMA WrapOnce ==
  ASSUME NEW t \in Nat, t < 2 * HourMod
  PROVE  t % HourMod = IF t < HourMod THEN t ELSE t - HourMod
BY ServerAssumption

(* Until its life is over, a slot's timeout is ahead of the clock by the rest. *)
TimeoutAhead ==
  \A k \in Slot :
    (symmetricPeers[k].Ip # NoAddr /\ age[k] < SlotLife) =>
      symmetricPeers[k].SlotTimeout = (millis + (SlotLife - age[k])) % HourMod

LEMMA NotTimedOut ==
  ASSUME TypeOK, TimeoutAhead, NEW k \in Slot, symmetricPeers[k].Ip # NoAddr,
         TIMEDOUT(millis, symmetricPeers[k].SlotTimeout)
  PROVE  age[k] >= SlotLife
<1> SUFFICES ASSUME age[k] < SlotLife PROVE FALSE
  BY ServerAssumption DEF TypeOK
<1> DEFINE rest == SlotLife - age[k]
<1>1. millis \in 0 .. HourMod - 1 /\ rest \in 1 .. SlotLife
  BY ServerAssumption DEF TypeOK
<1>2. symmetricPeers[k].SlotTimeout = (millis + rest) % HourMod
  BY DEF TimeoutAhead
<1>3. symmetricPeers[k].SlotTimeout =
        IF millis + rest < HourMod THEN millis + rest ELSE millis + rest - HourMod
  BY <1>1, <1>2, WrapOnce, ServerAssumption
<1> QED
  BY <1>1, <1>3, ServerAssumption DEF TIMEDOUT

LEMMA TimePassesAhead ==
  ASSUME TypeOK, TimeoutAhead, TimePasses
  PROVE  TimeoutAhead'
<1> SUFFICES ASSUME NEW k \in Slot, symmetricPeers[k].Ip # NoAddr, age'[k] < SlotLife
             PROVE  symmetricPeers[k].SlotTimeout = (millis' + (SlotLife - age'[k])) % HourMod
  BY DEF TimeoutAhead, TimePasses, serverVars
<1> DEFINE rest == SlotLife - age[k]
<1>1. millis \in 0 .. HourMod - 1 /\ age[k] \in 0 .. SlotLife
  BY DEF TypeOK
<1>2. age[k] < SlotLife /\ age'[k] = age[k] + 1
  BY <1>1, ServerAssumption DEF TimePasses
<1>3. symmetricPeers[k].SlotTimeout = (millis + rest) % HourMod
  BY <1>2 DEF TimeoutAhead
<1>4. millis' = IF millis + 1 < HourMod THEN millis + 1 ELSE 0
  BY <1>1, WrapOnce, ServerAssumption DEF TimePasses
<1>5. rest \in 1 .. SlotLife /\ SlotLife - age'[k] = rest - 1
  BY <1>1, <1>2, ServerAssumption
<1>6. CASE millis + 1 < HourMod
  <2>1. millis' + (rest - 1) = millis + rest
    BY <1>1, <1>4, <1>5, <1>6, ServerAssumption
  <2> QED
    BY <1>3, <1>5, <2>1
<1>7. CASE millis + 1 >= HourMod
  <2>1. millis = HourMod - 1 /\ millis' = 0
    BY <1>1, <1>4, <1>7, ServerAssumption
  <2>2. (millis + rest) % HourMod = rest - 1
    <3>1. /\ millis + rest \in Nat /\ millis + rest < 2 * HourMod
          /\ millis + rest >= HourMod /\ millis + rest - HourMod = rest - 1
      BY <1>5, <2>1, ServerAssumption
    <3>2. ~(millis + rest < HourMod)
      BY <3>1, ServerAssumption
    <3>3. rest \in Int /\ millis \in Int /\ HourMod \in Nat
      BY <1>1, <1>5, ServerAssumption
    <3> HIDE DEF rest
    <3> QED
      BY <3>1, <3>2, <3>3, WrapOnce
  <2>3. (millis' + (rest - 1)) % HourMod = rest - 1
    BY <1>5, <2>1, WrapOnce, ServerAssumption
  <2> QED
    BY <1>3, <1>5, <2>2, <2>3
<1> QED
  BY <1>1, <1>6, <1>7, ServerAssumption

(* The slot that FindPeer gives to a peer is its own, empty or timed out. *)
LEMMA FoundSlot ==
  ASSUME NEW a, FindPeer(a) # NO_PEER
  PROVE  \/ symmetricPeers[FindPeer(a)].Ip \in {a, NoAddr}
         \/ TIMEDOUT(millis, symmetricPeers[FindPeer(a)].SlotTimeout)
<1>1. /\ SlotsOf(a) \subseteq Slot /\ SlotsOf(NoAddr) \subseteq Slot
      /\ TimedOutSlots \subseteq Slot
  BY DEF SlotsOf, TimedOutSlots
<1>2. FindPeer(a) \in SlotsOf(a) \cup SlotsOf(NoAddr) \cup TimedOutSlots
  BY <1>1, LowestSlotType DEF FindPeer
<1> QED
  BY <1>2 DEF SlotsOf, TimedOutSlots

LEMMA HandledAhead ==
  ASSUME TypeOK, TimeoutAhead, NEW packet \in requests,
         IgnoreDuplicate(packet) \/ PrepareReply(packet)
  PROVE  /\ TimeoutAhead'
         /\ \A k \in Slot : symmetricPeers[k].Ip \notin {NoAddr, symmetricPeers'[k].Ip}
                              => age[k] >= SlotLife
<1> DEFINE k    == FindPeer(packet.from)
           peer == Association(k, packet.from)
<1>1. Associate(k, packet) /\ k # NO_PEER /\ millis' = millis
  BY DEF IgnoreDuplicate, PrepareReply, Associate, Take
<1>2. packet \in Request /\ k \in Slot /\ peer \in PeerState
  BY <1>1, HandledType
<1>3. /\ symmetricPeers'[k].Ip = peer.Ip /\ symmetricPeers'[k].SlotTimeout = peer.SlotTimeout
      /\ \A j \in Slot \ {k} : symmetricPeers'[j] = symmetricPeers[j]
  <2>1. CASE IgnoreDuplicate(packet)
    <3>1. symmetricPeers' = [symmetricPeers EXCEPT ![k] = [peer EXCEPT !.NextIsBogus = FALSE]]
      BY <2>1 DEF IgnoreDuplicate
    <3> QED
      BY <1>2, <3>1 DEF TypeOK, PeerState
  <2>2. CASE PrepareReply(packet)
    <3>1. symmetricPeers' = [symmetricPeers EXCEPT ![k] =
            [peer EXCEPT !.NextIsBogus = WrongRound(packet, peer),
                         !.PrevTx = packet.xmt, !.XlRndId = now']]
      BY <2>2 DEF PrepareReply
    <3> QED
      BY <1>2, <3>1 DEF TypeOK, PeerState
  <2> QED
    BY <2>1, <2>2
<1>4. CASE symmetricPeers[k].Ip = packet.from
  <2>1. peer = symmetricPeers[k] /\ age' = age
    BY <1>1, <1>4 DEF Association, Associate
  <2> QED
    BY <1>1, <1>3, <2>1 DEF TimeoutAhead
<1>5. CASE symmetricPeers[k].Ip # packet.from
  <2>1. age'[k] = 0 /\ \A j \in Slot \ {k} : age'[j] = age[j]
    BY <1>1, <1>2, <1>5 DEF Associate, TypeOK
  <2>2. peer.SlotTimeout = (millis + SlotLife) % HourMod
    BY <1>5 DEF Association, InitializePeer, Empty, SlotTimeout
  <2>3. TimeoutAhead'
    <3>1. SlotLife - 0 = SlotLife
      BY ServerAssumption
    <3> QED
      BY <1>1, <1>3, <2>1, <2>2, <3>1 DEF TimeoutAhead
  <2>4. symmetricPeers[k].Ip # NoAddr => age[k] >= SlotLife
    BY <1>1, <1>2, <1>5, FoundSlot, NotTimedOut
  <2> QED
    BY <1>3, <2>3, <2>4
<1> QED
  BY <1>4, <1>5

KeepsSlotsStep ==
  \A k \in Slot :
    symmetricPeers[k].Ip \notin {NoAddr, symmetricPeers'[k].Ip} => age[k] >= SlotLife

LEMMA StepAhead ==
  ASSUME TypeOK, InReply, TimeoutAhead, [Next]_vars
  PROVE  TimeoutAhead' /\ KeepsSlotsStep
<1>1. ASSUME /\ millis' = millis /\ age' = age
             /\ \A k \in Slot : /\ symmetricPeers'[k].Ip = symmetricPeers[k].Ip
                                /\ symmetricPeers'[k].SlotTimeout = symmetricPeers[k].SlotTimeout
      PROVE  TimeoutAhead' /\ KeepsSlotsStep
  BY <1>1 DEF TimeoutAhead, KeepsSlotsStep
<1>2. CASE Network
  <2>1. CASE TimePasses
    BY <2>1, TimePassesAhead DEF KeepsSlotsStep, TimePasses, serverVars
  <2>2. CASE ~TimePasses
    <3>1. UNCHANGED <<millis, age, symmetricPeers>>
      BY <1>2, <2>2 DEF Network, PeerSends, PeerRestarts, PeerHears, serverVars
    <3> QED
      BY <1>1, <3>1
  <2> QED
    BY <2>1, <2>2
<1>3. CASE SendReply \/ SendFails
  <2>1. PICK captured : EndReply(captured)
    BY <1>3 DEF SendReply, SendFails
  <2>2. symmetricPeers' = [symmetricPeers EXCEPT ![pidx].HardTx = captured] /\ pidx \in Slot
        /\ millis' = millis /\ age' = age
    BY <2>1 DEF EndReply, InReply
  <2> QED
    BY <1>1, <2>2 DEF TypeOK, PeerState
<1>4. ASSUME NEW packet \in requests, RefuseRequest(packet)
      PROVE  TimeoutAhead' /\ KeepsSlotsStep
  BY <1>1, <1>4 DEF RefuseRequest, Take
<1>5. CASE UNCHANGED vars
  BY <1>1, <1>5 DEF vars, serverVars
<1> QED
  BY <1>2, <1>3, <1>4, <1>5, HandledAhead DEF Next, ProcessRequest, KeepsSlotsStep

(* No association loses its slot before the slot's life is over, wherever the  *)
(* clock and the 16 bits of SlotTimeout wrap, as long as a life is less than   *)
(* half a round of the clock (ServerAssumption).                               *)
THEOREM SlotsKept == Spec => KeepsSlots
<1>1. Init => TypeOK /\ InReply /\ TimeoutAhead
  <2>1. Init => InReply /\ TimeoutAhead
    BY DEF Init, InReply, TimeoutAhead, Empty
  <2> QED
    BY <2>1, InitType
<1>2. (TypeOK /\ InReply /\ TimeoutAhead) /\ [Next]_vars => (TypeOK /\ InReply /\ TimeoutAhead)'
  BY StepType, StepAhead
<1>3. (TypeOK /\ InReply /\ TimeoutAhead) /\ [Next]_vars => [KeepsSlotsStep]_vars
  BY StepAhead
<1> QED
  BY <1>1, <1>2, <1>3, PTL DEF Spec, KeepsSlots, KeepsSlotsStep

=============================================================================
