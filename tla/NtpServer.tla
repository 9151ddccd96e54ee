------------------------------ MODULE NtpServer ------------------------------
(***************************************************************************)
(* The associations of NtpServer with its symmetric peers: the table of    *)
(* peers, the validation of their packets and the hardstamp of the replies *)
(* in interleaved mode, in which a reply carries the time at which the     *)
(* previous one left.  InitializePeer starts every association in that     *)
(* mode, so that the branches for basic mode are never taken; a request of *)
(* a client uses none of this and is modelled in StratumTen.               *)
(*                                                                         *)
(* A timestamp is the number of the event it names, 0 for a timestamp that *)
(* is not set.  The peers and the network are external: datagrams get lost, *)
(* overtake each other and come twice.                                     *)
(***************************************************************************)
EXTENDS Integers, FiniteSets

CONSTANTS
  Addr,            \* addresses of the peers
  Slots,           \* MAX_SYMMETRIC_PEER_COUNT
  SlotLife,        \* how long a slot is kept, in units of 2^16 ms
  HourMod,         \* modulus of millis() in that unit
  MaxTime,         \* bound: events that are given a timestamp
  InFlight,        \* bound: datagrams under way, both directions together
  ArrivalInReply   \* may another datagram arrive while a reply is under way?

ASSUME ServerAssumption ==
  /\ Addr # {} /\ 0 \notin Addr
  /\ Slots \in Nat \ {0}
  /\ SlotLife \in Nat \ {0} /\ HourMod \in Nat /\ 2 * SlotLife < HourMod
  /\ MaxTime \in Nat /\ InFlight \in Nat
  /\ ArrivalInReply \in BOOLEAN

VARIABLES
  now,             \* the number of the last event
  millis,          \* millis() >> 16
  symmetricPeers,
  pc,              \* idle, or between the preparation of a reply and its end
  pidx, ntpPacket, \* the slot it is for and the reply
  requests,        \* external: packets under way to the server
  replies,         \* external: replies under way to the peers
  remote,          \* external: what each peer remembers
  age,             \* history: for how long each slot has been taken, up to SlotLife
  lastSent         \* history: when the last reply of each slot's association left

serverVars == <<symmetricPeers, pc, pidx, ntpPacket>>
networkVars == <<requests, replies, remote>>
vars == <<now, millis, serverVars, networkVars, age, lastSent>>

Slot == 1 .. Slots
Stamp == 0 .. MaxTime
NO_PEER == 0
NoAddr == 0

(* The arrival of a reply at the peer is named by the event of its departure:  *)
(* org and xmt of a reply are of one round when they are the same.             *)
Request == [from : Addr, org : Stamp, rec : Stamp, xmt : Stamp]
Reply   == [to : Addr, org : Stamp, rec : Stamp, xmt : Stamp, valid : BOOLEAN]

PeerState == [Ip : Addr \cup {NoAddr}, NextIsBogus : BOOLEAN, SlotTimeout : 0 .. HourMod - 1,
              XlRndId : Stamp, HardTx : Stamp, PrevTx : Stamp]

Empty   == [Ip |-> NoAddr, NextIsBogus |-> FALSE, SlotTimeout |-> 0,
            XlRndId |-> 0, HardTx |-> 0, PrevTx |-> 0]
Unheard == [org |-> 0, rec |-> 0, sent |-> 0]
NoReply == [to |-> NoAddr, org |-> 0, rec |-> 0, xmt |-> 0, valid |-> FALSE]

Init ==
  /\ now = 0 /\ millis = 0
  /\ symmetricPeers = [k \in Slot |-> Empty]
  /\ pc = "idle" /\ pidx = NO_PEER /\ ntpPacket = NoReply
  /\ requests = {} /\ replies = {}
  /\ remote = [a \in Addr |-> Unheard]
  /\ age = [k \in Slot |-> 0] /\ lastSent = [k \in Slot |-> 0]

(* An event that gets a timestamp. *)
Event == now < MaxTime /\ now' = now + 1

-----------------------------------------------------------------------------
(* The peers and the network.                                                *)

RoomInFlight == Cardinality(requests') + Cardinality(replies') <= InFlight

(* A peer sends what it has last heard, and when its previous packet left.  The *)
(* packet joins those under way; it is lost when the server refuses it.         *)
PeerSends(a) ==
  LET packet == [from |-> a, org |-> remote[a].org, rec |-> remote[a].rec, xmt |-> remote[a].sent]
  IN  /\ Event
      /\ requests' = requests \cup {packet}
      /\ remote' = [remote EXCEPT ![a].sent = now']
      /\ UNCHANGED <<millis, serverVars, replies, age, lastSent>>
      /\ RoomInFlight

(* A reply arrives, in whatever order. *)
PeerHears(reply) ==
  /\ replies' = replies \ {reply}
  /\ remote' = [remote EXCEPT ![reply.to] = [@ EXCEPT !.org = reply.rec, !.rec = reply.left]]
  /\ UNCHANGED <<now, millis, serverVars, requests, age, lastSent>>

PeerRestarts(a) ==
  /\ remote[a] # Unheard
  /\ remote' = [remote EXCEPT ![a] = Unheard]
  /\ UNCHANGED <<now, millis, serverVars, requests, replies, age, lastSent>>

(* A reply takes milliseconds. *)
TimePasses ==
  /\ pc = "idle"
  /\ millis' = (millis + 1) % HourMod
  /\ age' = [k \in Slot |-> IF symmetricPeers[k].Ip = NoAddr THEN 0
                            ELSE IF age[k] < SlotLife THEN age[k] + 1 ELSE SlotLife]
  /\ UNCHANGED <<now, serverVars, networkVars, lastSent>>

-----------------------------------------------------------------------------
(* FindPeer: the peer's slot, else an empty one, else one that has timed out. *)

MutantTIMEDOUT(time, timeout) == time >= timeout   \* without the overflow check

TIMEDOUT(time, timeout) == time >= timeout /\ 2 * (time - timeout) < HourMod

SlotsOf(a)    == {k \in Slot : symmetricPeers[k].Ip = a}
TimedOutSlots == {k \in Slot : TIMEDOUT(millis, symmetricPeers[k].SlotTimeout)}

LowestSlot(slots) == CHOOSE k \in slots : \A j \in slots : k <= j

FindPeer(a) ==
  IF SlotsOf(a) # {} THEN LowestSlot(SlotsOf(a))
  ELSE IF SlotsOf(NoAddr) # {} THEN LowestSlot(SlotsOf(NoAddr))
  ELSE IF TimedOutSlots # {} THEN LowestSlot(TimedOutSlots)
  ELSE NO_PEER

SlotTimeout == (millis + SlotLife) % HourMod

MutantInitializePeer(peer, a) ==   \* without the memset
  [peer EXCEPT !.Ip = a, !.SlotTimeout = SlotTimeout]

InitializePeer(peer, a) == [Empty EXCEPT !.Ip = a, !.SlotTimeout = SlotTimeout]

(* The association with a in slot k, begun anew if the slot was not a's. *)
Association(k, a) ==
  IF symmetricPeers[k].Ip = a THEN symmetricPeers[k]
                              ELSE InitializePeer(symmetricPeers[k], a)

(* ValidateSymmetricTimestamps.  The packet's receive timestamp has been      *)
(* replaced by that of its arrival when it is asked whether it is zero.       *)
Unsynchronised(packet, peer) == packet.xmt = 0 \/ packet.org = 0 \/ peer.XlRndId = 0

Duplicate(packet, peer) == packet.xmt # 0 /\ packet.xmt = peer.PrevTx

MutantWrongRound(packet, peer) == FALSE

(* Not an answer to the last reply: bogus, and so is the next packet. *)
WrongRound(packet, peer) == ~Unsynchronised(packet, peer) /\ packet.org # peer.XlRndId

(* None of the flags that only tell what the packet is worth. *)
Valid(packet, peer) ==
  ~peer.NextIsBogus /\ ~Unsynchronised(packet, peer) /\ ~WrongRound(packet, peer)

(* A datagram is handled; the network may deliver it once more. *)
Take(packet) ==
  /\ pc = "idle"
  /\ requests' \in {requests, requests \ {packet}}
  /\ UNCHANGED <<millis, replies, remote>>

(* It is lost, its arrival was not captured, or the table is full. *)
RefuseRequest(packet) ==
  /\ Take(packet)
  /\ UNCHANGED <<now, symmetricPeers, pc, pidx, ntpPacket, age, lastSent>>

(* An association begins anew in a slot that was not the peer's. *)
Associate(k, packet) ==
  /\ k # NO_PEER
  /\ IF symmetricPeers[k].Ip = packet.from
       THEN UNCHANGED <<age, lastSent>>
       ELSE age' = [age EXCEPT ![k] = 0] /\ lastSent' = [lastSent EXCEPT ![k] = 0]

IgnoreDuplicate(packet) ==
  LET k    == FindPeer(packet.from)
      peer == Association(k, packet.from)
  IN  /\ Take(packet)
      /\ Associate(k, packet)
      /\ Duplicate(packet, peer)
      /\ symmetricPeers' = [symmetricPeers EXCEPT ![k] = [peer EXCEPT !.NextIsBogus = FALSE]]
      /\ UNCHANGED <<now, pc, pidx, ntpPacket>>

(* Every other packet is answered, whatever it is worth; the reply keeps a *)
(* history of that.                                                        *)
PrepareReply(packet) ==
  LET k    == FindPeer(packet.from)
      peer == Association(k, packet.from)
  IN  /\ Take(packet)
      /\ Event
      /\ Associate(k, packet)
      /\ ~Duplicate(packet, peer)
      /\ symmetricPeers' = [symmetricPeers EXCEPT ![k] =
           [peer EXCEPT !.NextIsBogus = WrongRound(packet, peer),
                        !.PrevTx = packet.xmt, !.XlRndId = now']]
      /\ ntpPacket' = [to |-> packet.from, org |-> packet.rec, rec |-> now',
                       xmt |-> peer.HardTx, valid |-> Valid(packet, peer)]
      /\ pidx' = k
      /\ pc' = "reply"

(* How many datagrams pull the line down while the reply is under way. *)
Arrivals == IF ArrivalInReply THEN {0, 1} ELSE {0}

(* The capture that is taken for that of the departure is the hardstamp, if  *)
(* there is one; then the loop flushes what else has arrived.                 *)
EndReply(captured) ==
  /\ pc = "reply"
  /\ symmetricPeers' = [symmetricPeers EXCEPT ![pidx].HardTx = captured]
  /\ pc' = "idle" /\ pidx' = NO_PEER /\ ntpPacket' = NoReply
  /\ UNCHANGED <<millis, requests, remote, age>>

(* SEND_OK makes an edge only if no arrival has pulled the line down before. *)
SendReply ==
  \E n \in Arrivals :
    /\ now' = now + n + 1 /\ now' <= MaxTime
    /\ EndReply(now + 1)
    /\ replies' \in {replies, replies \cup
                       {[to |-> ntpPacket.to, rec |-> ntpPacket.rec, left |-> now']}}
    /\ RoomInFlight
    /\ lastSent' = [lastSent EXCEPT ![pidx] = now']

(* The peer's address does not resolve: nothing leaves. *)
SendFails ==
  \E n \in Arrivals :
    /\ now' = now + n /\ now' <= MaxTime
    /\ EndReply(n * now')
    /\ UNCHANGED <<replies, lastSent>>

Network ==
  \/ \E a \in Addr : PeerSends(a) \/ PeerRestarts(a)
  \/ \E reply \in replies : PeerHears(reply)
  \/ TimePasses

ProcessRequest ==
  \/ \E packet \in requests :
       RefuseRequest(packet) \/ IgnoreDuplicate(packet) \/ PrepareReply(packet)
  \/ SendReply \/ SendFails

Next == Network \/ ProcessRequest

Spec == Init /\ [][Next]_vars

-----------------------------------------------------------------------------
(* Every variable stays in its range; SlotTimeout has 16 bits. *)
TypeOK ==
  /\ now \in Stamp /\ millis \in 0 .. HourMod - 1
  /\ symmetricPeers \in [Slot -> PeerState]
  /\ pc \in {"idle", "reply"} /\ pidx \in Slot \cup {NO_PEER}
  /\ ntpPacket \in Reply \cup {NoReply}
  /\ requests \subseteq Request
  /\ replies \subseteq [to : Addr, rec : Stamp, left : Stamp]
  /\ remote \in [Addr -> [org : Stamp, rec : Stamp, sent : Stamp]]
  /\ age \in [Slot -> 0 .. SlotLife] /\ lastSent \in [Slot -> Stamp]

(* The hardstamp that the next reply will carry is the departure of the last   *)
(* reply of this very association, or none: never that of an older reply, of a *)
(* failed one or of the peer that had the slot before.                         *)
HardTxOfLastReply ==
  \A k \in Slot : symmetricPeers[k].HardTx \in {0, lastSent[k]}

(* A packet that passes for valid is answered with the departure of the reply  *)
(* whose arrival it reports, however packets were lost, overtaken or repeated: *)
(* the two are of one round, and the peer's sum of them makes sense.           *)
PairedWhenValid ==
  (pc = "reply" /\ ntpPacket.valid) => ntpPacket.xmt \in {0, ntpPacket.org}

(* "peer entries are valid for about an hour" (NtpServer.cpp:465): no peer     *)
(* loses its slot before that, wherever the clock wraps.                       *)
KeepsSlots ==
  [][ \A k \in Slot :
        symmetricPeers[k].Ip \notin {NoAddr, symmetricPeers'[k].Ip} => age[k] >= SlotLife ]_vars
=============================================================================
