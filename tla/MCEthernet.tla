------------------------------- MODULE MCEthernet -------------------------------
(***************************************************************************)
(* The Ethernet library, in each behaviour one of its parts: the sockets,   *)
(* the datagrams that one of them receives or sends, the lookup of a name,  *)
(* or the lease of an address, the last either over a long time with one     *)
(* server or for a while with two.                                            *)
(***************************************************************************)
EXTENDS EthernetSockets, Dhcp, Sequences, TLC

CONSTANTS
  Parts,
  Names, Truth,                                            \* Dns
  IntSize, IdSize, PortCount, WAIT, MaxLife, MaxReplies,
  Lengths, HEADER, RSIZE, SSIZE, Half, Sizes, PointerSize, MaxPacket   \* EthernetUdp

VARIABLES
  part,
  aHostname, aResult, lookup, iRequestId, port, wait_retries, waitedFor, msec, replies,
  received, recvIr, _remaining, doing, want, reading, high, val1, val,
  open, _offset, SnTX_RD, SnTX_WR, memory, written, sent

Lease(seconds) == {[lease |-> seconds, t1 |-> 0, t2 |-> 0]}
SixSeconds == Lease(6)

Mixed ==
  INSTANCE Dhcp WITH Servers <- {1, 2}, Leases <- Lease(2), Second <- 1, MaxGap <- 1,
                     MaxInFlight <- 2, Horizon <- 8

(* 1.255, and names: one of digits, "ntp", and "ntq.a". *)
Literal == <<<<1>>, <<2, 5, 5>>>>
Digits  == <<<<2, 5, 6>>>>
Host    == <<<<62, 68, 64>>>>
Other   == <<<<62, 68, 65>>, <<49>>>>
SomeNames == {Literal, Digits, Host, Other}
Known == (Literal :> <<1, 255, 0, 0>>) @@ (Host :> <<1, 2, 3, 4>>) @@ (Other :> <<5, 6, 7, 8>>)

Lookup == INSTANCE Dns

Udp == INSTANCE EthernetUdp

ASSUME EthernetAssumption ==
  Lookup!DnsConstants /\ Mixed!DhcpConstants /\ Udp!UdpConstants /\ RoundIsLong

dnsVars ==
  <<aHostname, aResult, lookup, iRequestId, port, wait_retries, waitedFor, msec, replies>>
receiveVars == <<received, recvIr, _remaining, doing, want, reading, high, val1, val>>
sendVars == <<open, _offset, SnTX_RD, SnTX_WR, memory, written, sent>>
udpVars == <<receiveVars, sendVars>>
allVars == <<part, vars, dhcpVars, dnsVars, udpVars>>

AllInit ==
  /\ part \in Parts /\ Init /\ DhcpInit /\ Lookup!Init /\ Udp!UdpInit
  /\ part # "lookup" => aHostname = CHOOSE name \in Names : TRUE

OnSockets(A)  == part = "sockets" /\ A /\ UNCHANGED <<part, dhcpVars, dnsVars, udpVars>>
OnRenewal(A)  == part = "renewal" /\ A /\ UNCHANGED <<part, vars, dnsVars, udpVars>>
OnMixed(A)    == part = "mixed"   /\ A /\ UNCHANGED <<part, vars, dnsVars, udpVars>>
OnLookup(A)   == part = "lookup"  /\ A /\ UNCHANGED <<part, vars, dhcpVars, udpVars>>
OnReceived(A) == part = "receive" /\ A /\ UNCHANGED <<part, vars, dhcpVars, dnsVars, sendVars>>
OnSent(A)     == part = "send"    /\ A /\ UNCHANGED <<part, vars, dhcpVars, dnsVars, receiveVars>>

AllNext ==
  \/ OnSockets(Next) \/ OnRenewal(DhcpNext) \/ OnMixed(Mixed!DhcpNext) \/ OnLookup(Lookup!Next)
  \/ OnReceived(Udp!Receives) \/ OnSent(Udp!Sends)

(* A call goes on, and time, or the chip, does; the program asks each of its *)
(* servers in turn.                                                           *)
GoesOn  ==
  OnSockets(InCall) \/ OnRenewal(InPass) \/ OnLookup(Lookup!WaitEnds) \/ OnReceived(Udp!InRecv)
Settled == OnSockets(Settles) \/ OnRenewal(Tick) \/ OnLookup(Lookup!Tick)
Fairness ==
  /\ WF_allVars(GoesOn) /\ WF_allVars(Settled)
  /\ \A p \in Ports : SF_allVars(OnSockets(Available(p)))

AllSpec == AllInit /\ [][AllNext]_allVars /\ Fairness

-----------------------------------------------------------------------------
(* Every call comes back, whatever peers, servers and the net do: to connect, *)
(* send, stop or accept, to look up a name, to read a datagram while others     *)
(* arrive and tear what the driver reads, and begin() and maintain(), which      *)
(* ask for a lease for no longer than their timeout.                             *)
Blocked ==
  CASE part = "sockets" -> Pending
    [] part = "lookup"  -> lookup
    [] part = "renewal" -> request # "none"
    [] part = "receive" -> doing # "none"
    [] OTHER -> FALSE
CallsReturn == []<>~Blocked

(* See EthernetSockets: each server listens again and again. *)
EachHeard == \A p \in Ports : []<>(part = "sockets" => Heard(p) \/ Refused)

(* See Dns: a lookup that succeeds gives the address of its name. *)
ResolvedTruly == Lookup!ResolvedTruly

(* See EthernetUdp: no datagram is read into another. *)
DatagramsApart == Udp!DatagramsApart

(* See EthernetUdp: what is sent is what was written since beginPacket. *)
SentIsWritten == Udp!SentIsWritten
=============================================================================
