----------------------------- MODULE EthernetProofs -----------------------------
(***************************************************************************)
(* What the parts of the Ethernet library keep true, each proved for every *)
(* value of its constants.                                                 *)
(*                                                                         *)
(* Sockets: no handle, however stale, is the clock's socket.               *)
(* The lease: the address the W5500 uses is the last one acknowledged; and *)
(* of its age, however millis() wraps, all but a gap and a second counts.  *)
(* Receiving: the bytes in the buffer are whole datagrams but for what has *)
(* been taken of the first, and a size is used only if it says so much.    *)
(* Sending: what has been written lies behind the read pointer of the      *)
(* chip, however often the pointers have come round.                       *)
(* Names: the number and the age of an answer tell when it was asked for.  *)
(***************************************************************************)
EXTENDS MCEthernet, TLAPS, SequenceTheorems

-----------------------------------------------------------------------------
(* The sockets. *)

SocketsSpec == Init /\ [][Next]_vars

(* No handle, however stale, is the clock's socket. *)
Elsewhere == Ntp \notin {client, held, resolver, sock}
SocketsInv == status \in [Sockets -> Statuses] /\ UdpKept /\ Elsewhere

LEMMA NtpIsSocket == Ntp \in Sockets /\ MAX_SOCK_NUM # Ntp /\ MAX_SOCK_NUM \notin Sockets
  BY SocketsAssumption DEF Ntp, Sockets

LEMMA InitSocketsInv == Init => SocketsInv
  BY NtpIsSocket DEF Init, SocketsInv, UdpKept, Elsewhere, Statuses

(* What is opened, closed or changed is another socket. *)
LEMMA OthersKeep ==
  ASSUME SocketsInv, NEW s \in Sockets, NEW st \in Statuses, s # Ntp,
         status' = [status EXCEPT ![s] = st]
  PROVE  status' \in [Sockets -> Statuses] /\ UdpKept'
  BY NtpIsSocket DEF SocketsInv, UdpKept

LEMMA NotUdp ==
  ASSUME SocketsInv, NEW st, "UDP" \notin st
  PROVE  \A s \in With(st) : s \in Sockets /\ s # Ntp
  BY DEF SocketsInv, UdpKept, With

LEMMA DisconnectType == \A st \in Statuses : AfterDisconnect(st) \in Statuses
  BY DEF AfterDisconnect, Statuses

LEMMA StepSocketsInv == SocketsInv /\ [Next]_vars => SocketsInv'
<1> SUFFICES ASSUME SocketsInv, [Next]_vars PROVE SocketsInv'
  OBVIOUS
<1> USE NtpIsSocket
<1>1. CASE Connect
  <2>1. PICK s \in Lowest(FreeForClient) :
          /\ status' = [status EXCEPT ![s] = "SYNSENT"] \/ status' = [status EXCEPT ![s] = "INIT"]
          /\ client' \in {s, client} /\ sock' \in {s, sock}
    BY <1>1 DEF Connect, Dial, Open
  <2>2. s \in Sockets /\ s # Ntp
    BY NotUdp DEF Lowest, FreeForClient
  <2>3. status' \in [Sockets -> Statuses] /\ UdpKept'
    BY <2>1, <2>2, OthersKeep DEF Statuses
  <2> QED BY <1>1, <2>1, <2>2, <2>3 DEF SocketsInv, Elsewhere, Connect, Dial
<1>2. CASE ConnectEnds
  BY <1>2 DEF ConnectEnds, Return, chip, SocketsInv, UdpKept, Elsewhere
<1>3. CASE Write
  BY <1>3 DEF Write, Connected, chip, handles, SocketsInv, UdpKept, Elsewhere
<1>4. CASE SendEnds
  <2>1. sock # Ntp /\ (status' = status \/ status' = [status EXCEPT ![sock] = "CLOSED"])
    BY <1>4 DEF SendEnds, Close, Open, chip, SocketsInv, Elsewhere
  <2>2. status' \in [Sockets -> Statuses] /\ UdpKept'
    BY <2>1 DEF SocketsInv, UdpKept, Statuses
  <2> QED BY <1>4, <2>2 DEF SendEnds, Return, handles, SocketsInv, Elsewhere
<1>5. CASE Read
  BY <1>5 DEF Read, handles, SocketsInv, UdpKept, Elsewhere
<1>6. CASE Stop
  <2>1. PICK h \in {client, held} \ {MAX_SOCK_NUM} : Disconnect(h) /\ sock' = h
    BY <1>6 DEF Stop
  <2>2. h # Ntp
    BY DEF SocketsInv, Elsewhere
  <2>3. status' \in [Sockets -> Statuses] /\ UdpKept'
    BY <2>1, <2>2, DisconnectType DEF Disconnect, SocketsInv, UdpKept
  <2> QED BY <1>6, <2>1, <2>2, <2>3 DEF Stop, handles, SocketsInv, Elsewhere
<1>7. CASE StopEnds
  <2>1. sock # Ntp /\ status' \in {status, [status EXCEPT ![sock] = "CLOSED"]}
    BY <1>7 DEF StopEnds, Close, Open, chip, SocketsInv, Elsewhere
  <2>2. status' \in [Sockets -> Statuses] /\ UdpKept'
    BY <2>1 DEF SocketsInv, UdpKept, Statuses
  <2>3. client' \in {client, MAX_SOCK_NUM} /\ held' \in {held, MAX_SOCK_NUM}
        /\ resolver' = resolver /\ sock' = MAX_SOCK_NUM
    BY <1>7 DEF StopEnds, Return
  <2> QED BY <2>2, <2>3 DEF SocketsInv, Elsewhere
<1>8. CASE DropHeld
  BY <1>8 DEF DropHeld, chip, SocketsInv, UdpKept, Elsewhere
<1>9. CASE ResolverBegins
  <2>1. PICK s \in Lowest(FreeForUdp) : resolver' = s /\ status' = [status EXCEPT ![s] = "UDP"]
    BY <1>9 DEF ResolverBegins, Open
  <2>2. s \in Sockets /\ s # Ntp
    BY NotUdp DEF Lowest, FreeForUdp
  <2>3. status' \in [Sockets -> Statuses] /\ UdpKept'
    BY <2>1, <2>2, OthersKeep DEF Statuses
  <2> QED BY <1>9, <2>1, <2>2, <2>3 DEF ResolverBegins, SocketsInv, Elsewhere
<1>10. CASE ResolverStops
  <2>1. resolver # Ntp /\ status' = [status EXCEPT ![resolver] = "CLOSED"]
    BY <1>10 DEF ResolverStops, Close, Open, SocketsInv, Elsewhere
  <2>2. status' \in [Sockets -> Statuses] /\ UdpKept'
    BY <2>1 DEF SocketsInv, UdpKept, Statuses
  <2> QED BY <1>10, <2>2 DEF ResolverStops, SocketsInv, Elsewhere
<1>11. ASSUME NEW p \in Ports, Available(p) PROVE SocketsInv'
  BY <1>11 DEF Available, chip, handles, SocketsInv, UdpKept, Elsewhere
<1>12. CASE Look
  <2>1. CASE Own(scan) /\ status[scan] = "CLOSE_WAIT" /\ ~rx[scan]
    <3>1. Disconnect(scan) /\ sock' = scan /\ scan # Ntp
      BY <1>12, <2>1 DEF Look, SocketsInv, UdpKept
    <3>2. status' \in [Sockets -> Statuses] /\ UdpKept'
      BY <3>1, DisconnectType DEF Disconnect, SocketsInv, UdpKept
    <3> QED BY <1>12, <3>1, <3>2 DEF Look, handles, SocketsInv, Elsewhere
  <2>2. CASE ~(Own(scan) /\ status[scan] = "CLOSE_WAIT" /\ ~rx[scan])
    BY <1>12, <2>2 DEF Look, chip, handles, SocketsInv, UdpKept, Elsewhere
  <2> QED BY <2>1, <2>2
<1>13. CASE AcceptEnds
  <2>1. ASSUME ~listening /\ With({"CLOSED"}) # {}
        PROVE  status' \in [Sockets -> Statuses] /\ UdpKept'
    <3>1. PICK s \in Lowest(With({"CLOSED"})) : status' = [status EXCEPT ![s] = "LISTEN"]
      BY <1>13, <2>1 DEF AcceptEnds, Begin, Open
    <3>2. s \in Sockets /\ s # Ntp
      BY NotUdp DEF Lowest
    <3> QED BY <3>1, <3>2, OthersKeep DEF Statuses
  <2>2. ASSUME ~(~listening /\ With({"CLOSED"}) # {})
        PROVE  status' \in [Sockets -> Statuses] /\ UdpKept'
    BY <1>13, <2>2 DEF AcceptEnds, Begin, chip, SocketsInv, UdpKept
  <2>3. status' \in [Sockets -> Statuses] /\ UdpKept'
    BY <2>1, <2>2
  <2>4. held' # Ntp
    <3>1. held' = held \/ held' \in Lowest(Waiting)
      BY <1>13 DEF AcceptEnds
    <3>2. Ntp \notin Lowest(Waiting)
      BY <2>3 DEF Lowest, Waiting, UdpKept
    <3> QED BY <3>1, <3>2 DEF SocketsInv, Elsewhere
  <2> QED BY <1>13, <2>3, <2>4 DEF AcceptEnds, Return, SocketsInv, Elsewhere
<1>14. CASE Peers
  <2>1. PICK s \in Sockets : PeerConnects(s) \/ PeerAnswers(s) \/ PeerResets(s)
                             \/ ClosingEnds(s) \/ PeerCloses(s) \/ DataArrives(s)
    BY <1>14 DEF Peers
  <2>2. CASE DataArrives(s)
    BY <2>2 DEF DataArrives, handles, SocketsInv, UdpKept, Elsewhere
  <2>3. CASE ~DataArrives(s)
    <3>1. PICK st \in Statuses : Becomes(s, st) /\ s # Ntp
      BY <2>1, <2>3 DEF PeerConnects, PeerAnswers, PeerResets, ClosingEnds, PeerCloses,
                        SocketsInv,
                        UdpKept, Statuses
    <3>2. status' \in [Sockets -> Statuses] /\ UdpKept'
      BY <3>1, OthersKeep DEF Becomes
    <3> QED BY <3>1, <3>2 DEF Becomes, handles, SocketsInv, Elsewhere
  <2> QED BY <2>2, <2>3
<1>15. CASE UNCHANGED vars
  BY <1>15 DEF vars, chip, handles, SocketsInv, UdpKept, Elsewhere
<1> QED
  BY <1>1, <1>2, <1>3, <1>4, <1>5, <1>6, <1>7, <1>8, <1>9, <1>10, <1>11, <1>12, <1>13, <1>14,
     <1>15 DEF Next, InCall

(* Whatever the program's connections do, the socket on which the clock       *)
(* answers stays open (EthernetClient, EthernetServer and EthernetUDP on the   *)
(* sockets of the W5500).                                                       *)
THEOREM UdpAlwaysKept == SocketsSpec => []UdpKept
<1>1. SocketsInv => UdpKept
  BY DEF SocketsInv
<1> QED BY <1>1, InitSocketsInv, StepSocketsInv, PTL DEF SocketsSpec

-----------------------------------------------------------------------------
(* The lease of an address. *)

LeaseSpec == DhcpInit /\ [][DhcpNext]_dhcpVars

(* The lease time of an answer, and what is kept of earlier ones. *)
LeaseOK(l) == l.lease \in Nat \ {1} /\ l.t1 \in Nat /\ l.t2 \in Nat

StoredOK ==
  /\ _dhcpLeaseTime \in Nat \ {1} /\ _dhcpT1 \in Nat /\ _dhcpT2 \in Nat
  /\ \A m \in answers : LeaseOK(m.lease)

(* Between the acknowledgement and the return the client has the address and *)
(* the W5500 has not; and no rebinding comes between them.                    *)
Holding == request # "none" /\ _dhcp_state = "LEASED"
Handed ==
  IF Holding THEN _dhcpLocalIp = granted /\ _rebindInSec \in Nat \ {0} ELSE localIp = granted

LeaseInv == StoredOK /\ Handed

LEMMA GivenType == \A new, old \in Nat : Given(new, old) \in Nat
  BY DEF Given

LEMMA GivenLease == \A new, old \in Nat \ {1} : Given(new, old) \in Nat \ {1}
  BY DEF Given

LEMMA InitLeaseInv == DhcpInit => LeaseInv
  BY DEF DhcpInit, LeaseInv, StoredOK, Handed, Holding

(* What comes back has a lease that a server may grant, or none. *)
LEMMA SentOK ==
  ASSUME NEW q, NEW underway, Sends(q, underway), \A m \in underway : LeaseOK(m.lease)
  PROVE  \A m \in answers' : LeaseOK(m.lease)
<1>1. \A m \in AnswersTo(q) : m.lease \in Leases \cup {NoLease}
  BY DEF AnswersTo
<1>2. \A l \in Leases \cup {NoLease} : LeaseOK(l)
  BY DhcpAssumption DEF DhcpConstants, LeaseOK, NoLease
<1> QED BY <1>1, <1>2 DEF Sends

(* What an answer that is not the acknowledgement leaves. *)
LEMMA StoreLeaseOK ==
  ASSUME StoredOK, NEW m \in answers, StoreLease(m)
  PROVE  _dhcpLeaseTime' \in Nat \ {1} /\ _dhcpT1' \in Nat /\ _dhcpT2' \in Nat
  BY GivenType, GivenLease DEF StoredOK, StoreLease, LeaseOK

LEMMA StepLeaseInv == LeaseInv /\ [DhcpNext]_dhcpVars => LeaseInv'
<1> SUFFICES ASSUME LeaseInv, [DhcpNext]_dhcpVars PROVE LeaseInv'
  OBVIOUS
<1> USE DEF LeaseInv
<1>1. CASE Discover
  <2>1. StoredOK'
    BY <1>1, SentOK, Zenon DEF Discover, StoredOK, leased
  <2>2. Handed'
    BY <1>1 DEF Discover, Passes, Over, Handed, Holding, identity, counters
  <2> QED BY <2>1, <2>2
<1>2. CASE Rerequest
  <2>1. StoredOK'
    BY <1>2, SentOK, Zenon DEF Rerequest, StoredOK, leased
  <2>2. Handed'
    BY <1>2 DEF Rerequest, Passes, Over, Handed, Holding, identity, counters
  <2> QED BY <2>1, <2>2
<1>3. ASSUME NEW m \in answers, TakeOffer(m) PROVE LeaseInv'
  <2>1. \A n \in answers' : LeaseOK(n.lease)
    <3>1. PICK q : Sends(q, answers \ {m})
      BY <1>3 DEF TakeOffer
    <3>2. \A n \in answers \ {m} : LeaseOK(n.lease)
      BY DEF StoredOK
    <3> QED BY <3>1, <3>2, SentOK, Zenon
  <2>2. StoredOK'
    BY <1>3, <2>1, StoreLeaseOK DEF TakeOffer, StoredOK
  <2>3. Handed'
    BY <1>3 DEF TakeOffer, Parse, Passes, Over, Handed, Holding
  <2> QED BY <2>2, <2>3
<1>4. ASSUME NEW m \in answers, TakeAck(m) PROVE LeaseInv'
  <2> DEFINE l  == Given(m.lease.lease, _dhcpLeaseTime)
             t1 == Given(m.lease.t1, _dhcpT1)
             t2 == Given(m.lease.t2, _dhcpT2)
  <2>1. l \in Nat \ {1} /\ t1 \in Nat /\ t2 \in Nat
    BY GivenType, GivenLease DEF StoredOK, LeaseOK
  <2>2. /\ _dhcpLeaseTime' = Given(l, DEFAULT_LEASE)
        /\ _dhcpT1' = Given(t1, _dhcpLeaseTime' \div 2)
        /\ _dhcpT2' = Given(t2, _dhcpT1' * 2)
        /\ _rebindInSec' = _dhcpT2'
    BY <1>4 DEF TakeAck
  <2> HIDE DEF l, t1, t2
  <2>3. _dhcpLeaseTime' \in Nat \ {0, 1}
    BY <2>1, <2>2, DhcpAssumption DEF DhcpConstants, Given
  <2>4. _dhcpT1' \in Nat \ {0}
    BY <2>1, <2>2, <2>3 DEF Given
  <2>5. _dhcpT2' \in Nat \ {0}
    BY <2>1, <2>2, <2>4 DEF Given
  <2>6. StoredOK'
    BY <1>4, <2>3, <2>4, <2>5 DEF TakeAck, StoredOK
  <2>7. _dhcpLocalIp' = granted'
    BY <1>4 DEF TakeAck, Parse, Address
  <2>8. Handed'
    BY <1>4, <2>2, <2>5, <2>7 DEF TakeAck, Parse, Passes, Handed, Holding
  <2> QED BY <2>6, <2>8
<1>5. ASSUME NEW m \in answers, TakeOther(m) PROVE LeaseInv'
  <2>1. StoredOK'
    BY <1>5, StoreLeaseOK DEF TakeOther, StoredOK
  <2>2. Handed'
    BY <1>5 DEF TakeOther, Parse, Waits, Passes, Over, Handed, Holding
  <2> QED BY <2>1, <2>2
<1>6. CASE TakeForeign
  BY <1>6 DEF TakeForeign, Waits, Passes, Over, StoredOK, Handed, Holding, leased, identity,
              counters
<1>7. CASE Silence
  BY <1>7 DEF Silence, Waits, Passes, Over, StoredOK, Handed, Holding, leased, identity, counters
<1>8. CASE RequestReturns
  <2>1. StoredOK'
    BY <1>8 DEF RequestReturns, StoredOK, leased
  <2>4. granted' = granted /\ request # "none"
    BY <1>8 DEF RequestReturns
  <2>2. CASE request = "renew" /\ Rebinding(_rebindInSec)
    <3>1. _dhcp_state # "LEASED"
      BY <1>8, <2>2 DEF RequestReturns, Rebinding, Handed, Holding
    <3>2. _dhcp_state' = "START" /\ localIp' = localIp
      BY <1>8, <2>2 DEF RequestReturns, Rebind, Asks
    <3> QED BY <2>1, <2>4, <3>1, <3>2 DEF Handed, Holding
  <2>3. CASE ~(request = "renew" /\ Rebinding(_rebindInSec))
    <3>1. /\ request' = "none"
          /\ localIp' = IF _dhcp_state = "LEASED" THEN _dhcpLocalIp ELSE localIp
      BY <1>8, <2>3 DEF RequestReturns, Configure
    <3> QED BY <2>1, <2>4, <3>1 DEF Handed, Holding
  <2> QED BY <2>2, <2>3
<1>9. CASE Maintain
  <2>1. StoredOK' /\ localIp' = localIp /\ granted' = granted
    BY <1>9 DEF Maintain, StoredOK, leased
  <2>2. ~Holding'
    BY <1>9 DEF Maintain, Holding, Asks, Rebind, asking
  <2>3. ~Holding
    BY <1>9 DEF Maintain, Holding
  <2> QED BY <2>1, <2>2, <2>3 DEF Handed
<1>10. CASE Tick
  BY <1>10 DEF Tick, StoredOK, Handed, Holding, leased, identity, counters
<1>11. CASE Lose
  BY <1>11 DEF Lose, StoredOK, Handed, Holding, leased, identity, counters, asking
<1>12. CASE UNCHANGED dhcpVars
  BY <1>12 DEF dhcpVars, StoredOK, Handed, Holding, leased, identity, counters, asking
<1> QED
  BY <1>1, <1>2, <1>3, <1>4, <1>5, <1>6, <1>7, <1>8, <1>9, <1>10, <1>11, <1>12
     DEF DhcpNext, InPass

(* Between calls the W5500 uses the address of the last acknowledgement, for  *)
(* any servers, leases of two seconds or more, timeouts and mixture of        *)
(* answers (EthernetClass::begin and maintain).                                *)
THEOREM AddressGrantedAlways == LeaseSpec => []AddressGranted
<1>1. LeaseInv => AddressGranted
  BY DEF LeaseInv, Handed, Holding, AddressGranted
<1> QED BY <1>1, InitLeaseInv, StepLeaseInv, PTL DEF LeaseSpec

-----------------------------------------------------------------------------
(* Arithmetic. *)

(* Division by a positive number. *)
LEMMA Quotient ==
  ASSUME NEW n \in Int, NEW d \in Nat \ {0}
  PROVE  /\ n \div d \in Int /\ n % d \in 0 .. d - 1
         /\ n = d * (n \div d) + (n % d)
  OBVIOUS

(* Products keep order and distribute. *)
LEMMA Products ==
  ASSUME NEW d \in Nat \ {0}, NEW a \in Int, NEW b \in Int
  PROVE  /\ d * (a + b) = d * a + d * b /\ d * (a - b) = d * a - d * b
         /\ d * a \in Int /\ d * (a + 1) = d * a + d /\ d * (a - 1) = d * a - d
         /\ a <= b => d * a <= d * b
         /\ a < b => d * a + d <= d * b
         /\ d * a < d * b => a < b
  OBVIOUS

(* The quotient and the remainder are the only ones. *)
LEMMA Quotients ==
  ASSUME NEW d \in Nat \ {0}, NEW q \in Int, NEW r \in 0 .. d - 1
  PROVE  (d * q + r) \div d = q /\ (d * q + r) % d = r
  OBVIOUS

(* What the assumption says of the constants of the datagrams. *)
LEMMA UdpBounds ==
  /\ HEADER \in Nat \ {0} /\ RSIZE \in Nat \ {0} /\ SSIZE \in Nat \ {0} /\ Half \in Nat \ {0}
  /\ PointerSize \in Nat \ {0} /\ PointerSize % SSIZE = 0 /\ PointerSize > SSIZE
  /\ Lengths \subseteq Nat /\ Sizes \subseteq Nat \ {0} /\ MaxPacket \in Nat
BY EthernetAssumption DEF Udp!UdpConstants

-----------------------------------------------------------------------------
(* The age of a lease. *)

(* The constants, as numbers. *)
LEMMA RenewalBounds ==
  /\ Second \in Nat \ {0} /\ MillisSize \in Nat \ {0} /\ MaxGap \in Nat \ {0}
  /\ TIMEOUT \in Nat \ {0} /\ RESPONSE_TIMEOUT \in Nat \ {0}
  /\ CallTime = TIMEOUT + RESPONSE_TIMEOUT + 1
  /\ 2 * CallTime + MaxGap <= MillisSize \div 2 /\ Second <= MillisSize \div 2
  /\ 2 * (MillisSize \div 2) <= MillisSize
BY DhcpAssumption, EthernetAssumption DEF DhcpConstants, RoundIsLong, CallTime

LEMMA RenewalTypes ==
  Second \in Nat /\ MillisSize \in Nat /\ MaxGap \in Nat /\ CallTime \in Nat
BY RenewalBounds

(* A remainder within a round of 0. *)
LEMMA Rounds ==
  ASSUME NEW d \in Nat \ {0}, NEW n \in -d .. 2 * d - 1
  PROVE  n % d = IF n < 0 THEN n + d ELSE IF n < d THEN n ELSE n - d
<1>1. CASE n < 0
  <2>1. (d * (-1) + (n + d)) % d = n + d
    BY <1>1, Quotients
  <2> QED BY <1>1, <2>1
<1>2. CASE n >= 0 /\ n < d
  <2>1. (d * 0 + n) % d = n
    BY <1>2, Quotients
  <2> QED BY <1>2, <2>1
<1>3. CASE n >= d
  <2>1. (d * 1 + (n - d)) % d = n - d
    BY <1>3, Quotients
  <2> QED BY <1>3, <2>1
<1> QED BY <1>1, <1>2, <1>3

LEMMA MillisRounds ==
  ASSUME NEW n \in Int, -MillisSize <= n, n < 2 * MillisSize
  PROVE  n % MillisSize =
           IF n < 0 THEN n + MillisSize ELSE IF n < MillisSize THEN n ELSE n - MillisSize
<1>1. n \in -MillisSize .. 2 * MillisSize - 1
  BY RenewalBounds
<1> QED BY <1>1, Rounds, RenewalBounds

(* A count begun at s, at the time m. *)
Span(m, s) == (m - s + Second) % MillisSize
Millis == 0 .. MillisSize - 1

LEMMA SpanIs ==
  ASSUME NEW m \in Millis, NEW s \in Millis
  PROVE  /\ Span(m, s) = IF m - s + Second < 0 THEN m - s + Second + MillisSize
                         ELSE IF m - s + Second < MillisSize THEN m - s + Second
                         ELSE m - s + Second - MillisSize
         /\ m \in Int /\ s \in Int /\ Span(m, s) \in Millis
<1> DEFINE n == m - s + Second
<1>1. m \in Int /\ s \in Int /\ n \in Int /\ -MillisSize <= n /\ n < 2 * MillisSize
  BY RenewalBounds DEF Millis
<1>2. Span(m, s) = n % MillisSize
  BY DEF Span
<1>3. n % MillisSize =
        IF n < 0 THEN n + MillisSize ELSE IF n < MillisSize THEN n ELSE n - MillisSize
  BY <1>1, MillisRounds
<1>4. Span(m, s) \in Millis
  BY <1>1, <1>2, <1>3, RenewalBounds DEF Millis
<1> QED BY <1>1, <1>2, <1>3, <1>4, RenewalBounds

LEMMA SpanTicks ==
  ASSUME NEW m \in Millis, NEW s \in Millis, Span(m, s) + 1 < MillisSize
  PROVE  /\ (m + 1) % MillisSize = (IF m = MillisSize - 1 THEN 0 ELSE m + 1)
         /\ (m + 1) % MillisSize \in Millis
         /\ Span((m + 1) % MillisSize, s) = Span(m, s) + 1
<1>1. m \in Int /\ m + 1 \in Int /\ -MillisSize <= m + 1 /\ m + 1 < 2 * MillisSize
  BY RenewalBounds DEF Millis
<1>2. (m + 1) % MillisSize = IF m = MillisSize - 1 THEN 0 ELSE m + 1
  <2>1. (m + 1) % MillisSize = IF m + 1 < 0 THEN m + 1 + MillisSize
                               ELSE IF m + 1 < MillisSize THEN m + 1 ELSE m + 1 - MillisSize
    BY <1>1, MillisRounds, RenewalBounds
  <2> QED BY <2>1, RenewalBounds DEF Millis
<1> DEFINE k == (m + 1) % MillisSize
<1>3. k \in Millis
  BY <1>2, RenewalBounds DEF Millis
<1>4. k = IF m = MillisSize - 1 THEN 0 ELSE m + 1
  BY <1>2
<1> HIDE DEF k
<1>5. Span(k, s) = Span(m, s) + 1
  <2>1. Span(k, s) = IF k - s + Second < 0 THEN k - s + Second + MillisSize
                     ELSE IF k - s + Second < MillisSize THEN k - s + Second
                     ELSE k - s + Second - MillisSize
    BY <1>3, SpanIs
  <2>2. Span(m, s) = IF m - s + Second < 0 THEN m - s + Second + MillisSize
                     ELSE IF m - s + Second < MillisSize THEN m - s + Second
                     ELSE m - s + Second - MillisSize
    BY SpanIs
  <2> QED BY <1>4, <2>1, <2>2, RenewalBounds DEF Millis
<1> QED BY <1>3, <1>4, <1>5 DEF k

(* The difference of two times is what it was, with its sign. *)
LEMMA SignedIs ==
  ASSUME NEW m \in Millis, NEW s \in Millis, Span(m, s) < Second + MillisSize \div 2
  PROVE  Signed(m - s) = Span(m, s) - Second /\ Span(m, s) \in Nat
<1>1. m - s \in Int /\ -MillisSize <= m - s /\ m - s < MillisSize
  BY RenewalBounds DEF Millis
<1>2. (m - s) % MillisSize = IF m - s < 0 THEN m - s + MillisSize ELSE m - s
  BY <1>1, MillisRounds, RenewalBounds
<1>3. Span(m, s) = IF m - s + Second < 0 THEN m - s + Second + MillisSize
                   ELSE IF m - s + Second < MillisSize THEN m - s + Second
                   ELSE m - s + Second - MillisSize
  BY SpanIs
<1>4. Signed(m - s) = IF (m - s) % MillisSize < MillisSize \div 2 THEN (m - s) % MillisSize
                      ELSE ((m - s) % MillisSize) - MillisSize
  BY DEF Signed
<1>5. Span(m, s) \in Nat
  BY <1>1, <1>3, RenewalBounds
<1> QED BY <1>1, <1>2, <1>3, <1>4, <1>5, RenewalBounds

(* A new count begins where the last second of the old one ended. *)
LEMMA SpanCounts ==
  ASSUME NEW m \in Millis, NEW r \in 0 .. Second - 1
  PROVE  /\ (m + Second - r) % MillisSize \in Millis
         /\ Span(m, (m + Second - r) % MillisSize) = r
<1> DEFINE s == (m + Second - r) % MillisSize
<1>1. /\ m + Second - r \in Int /\ 0 <= m + Second - r /\ m + Second - r < 2 * MillisSize
      /\ m \in Int /\ r \in Nat /\ r < Second
  BY RenewalBounds DEF Millis
<1>2. s = IF m + Second - r < MillisSize THEN m + Second - r ELSE m + Second - r - MillisSize
  BY <1>1, MillisRounds, RenewalBounds
<1> HIDE DEF s
<1>3. s \in Millis
  BY <1>1, <1>2, RenewalBounds DEF Millis
<1>4. Span(m, s) = IF m - s + Second < 0 THEN m - s + Second + MillisSize
                   ELSE IF m - s + Second < MillisSize THEN m - s + Second
                   ELSE m - s + Second - MillisSize
  BY <1>3, SpanIs
<1>5. Span(m, s) = r
  BY <1>1, <1>2, <1>4, RenewalBounds
<1> QED BY <1>3, <1>5 DEF s

(* A short T1 in numbers. *)
LEMMA ShortIs ==
  ASSUME NEW t, Short(t)
  PROVE  t \in Nat /\ Second * t + Second + 2 * MaxGap + 2 * CallTime <= MillisSize
<1>1. t \in Nat /\ (t + 1) * Second = Second * t + Second
  BY RenewalBounds DEF Short
<1> QED BY <1>1 DEF Short

LEMMA ShortZero == Short(0)
<1>1. DEFAULT_LEASE \div 2 \in Nat /\ Short(DEFAULT_LEASE \div 2)
  BY EthernetAssumption DEF RoundIsLong, Short
<1>2. Second * 0 <= Second * (DEFAULT_LEASE \div 2)
  BY <1>1, Products, RenewalBounds
<1>3. Second + 2 * MaxGap + 2 * CallTime <= MillisSize
  BY <1>1, <1>2, ShortIs, RenewalBounds
<1> QED BY <1>3, RenewalBounds DEF Short

(* The time of a call so far, and of those since the last check.  A pass that  *)
(* began in time may end after it.                                              *)
Calling ==
  IF elapsed <= TIMEOUT THEN elapsed ELSE IF waited = 0 THEN CallTime ELSE TIMEOUT + waited
InRequest ==
  CASE request = "begin"  -> Calling + 1
    [] request = "rebind" -> Calling + CallTime
    [] OTHER              -> Calling

(* The time since a second was last counted, and what of T1 was counted. *)
Uncounted == Span(millis, _secTimeout)
Counted   == Second * (_dhcpT1 - _renewInSec)

(* The T1 of a lease that is kept or under way, given or halved, is short. *)
KeptShort ==
  /\ Short(_dhcpT1) /\ Short(_dhcpLeaseTime \div 2)
  /\ \A m \in answers : Short(m.lease.t1) /\ Short(m.lease.lease \div 2)

Clocks ==
  /\ millis \in Millis /\ _secTimeout \in Millis
  /\ elapsed \in 0 .. TIMEOUT + 1 /\ waited \in 0 .. RESPONSE_TIMEOUT + 1
  /\ elapsed <= TIMEOUT => waited <= elapsed
  /\ gap \in 0 .. MaxGap

(* The last check is not long ago, or it was none: then this is the first call,*)
(* or millis() was 0 when it began.                                             *)
Checked ==
  IF request = "none" THEN _lastCheck => Uncounted < Second + 2 * CallTime + gap
  ELSE IF _lastCheck THEN Uncounted < Second + InRequest
  ELSE millis <= InRequest

(* The age of a lease is what was counted and what was not.  It may have had   *)
(* its gap without a count, and then millis() has not gone round since it.      *)
Same    == age + 2 * CallTime >= millis
Counts  == age <= Counted + Uncounted /\ (age <= gap \/ Uncounted < Second + gap)
Behind  == /\ age < Counted + Uncounted + MaxGap + Second
           /\ Uncounted < Second + gap /\ Same /\ millis > 0
Unsure  == age < Counted + Second + gap /\ Same /\ gap <= millis

Leased ==
  _dhcp_state = "LEASED" =>
    /\ _dhcpT1 > 0 /\ age \in Nat
    /\ IF request # "none" THEN age = 0 /\ _renewInSec = _dhcpT1
       ELSE /\ _renewInSec \in 1 .. _dhcpT1
            /\ IF _lastCheck THEN Counts \/ Behind ELSE Unsure

RenewalInv == KeptShort /\ Clocks /\ Checked /\ Leased

LEMMA InitRenewalInv == DhcpInit => RenewalInv
<1> SUFFICES ASSUME DhcpInit PROVE RenewalInv
  OBVIOUS
<1> USE DEF DhcpInit
<1>1. KeptShort
  <2>1. 0 \div 2 = 0
    OBVIOUS
  <2> QED BY <2>1, ShortZero DEF KeptShort
<1>2. Clocks
  BY RenewalBounds DEF Clocks, Millis
<1>3. Checked
  BY RenewalBounds DEF Checked, InRequest, Calling
<1>4. Leased
  BY DEF Leased
<1> QED BY <1>1, <1>2, <1>3, <1>4 DEF RenewalInv

(* A call takes no longer than it may. *)
LEMMA AskedBounds ==
  ASSUME Clocks
  PROVE  /\ Calling \in 0 .. CallTime
         /\ InRequest \in Nat /\ InRequest <= 2 * CallTime /\ Calling <= InRequest
<1>1. Calling \in 0 .. CallTime
  BY RenewalBounds DEF Clocks, Calling
<1> QED BY <1>1, RenewalBounds DEF InRequest

LEMMA StillLess ==
  \A a, b, c, d \in Int :
    a < d + b => /\ b <= c => a < d + c
                 /\ b + 1 <= c => a + 1 < d + c
OBVIOUS

(* A pass of the loop that does not acknowledge. *)
LEMMA PassKeeps ==
  ASSUME Clocks, Checked, Passes
  PROVE  Clocks' /\ Checked'
<1> USE DEF Passes, checks
<1>1. Clocks'
  BY RenewalBounds DEF Clocks
<1>2. Calling <= Calling' /\ Calling \in Nat /\ Calling' \in Nat
  <2>1. Calling \in Nat /\ Calling' \in Nat
    BY <1>1, AskedBounds, RenewalBounds DEF Clocks, Calling
  <2> QED BY <2>1, AskedBounds, RenewalBounds DEF Clocks, Calling, Over
<1>3. InRequest <= InRequest' /\ InRequest \in Nat /\ InRequest' \in Nat
  BY <1>2, RenewalBounds DEF InRequest
<1>4. Uncounted' = Uncounted /\ Uncounted \in Nat
  BY SpanIs DEF Uncounted, Span, Clocks, Millis
<1>5. millis' = millis /\ request' = request /\ _lastCheck' = _lastCheck /\ gap' = gap
  OBVIOUS
<1>6. millis \in Int /\ gap \in Int
  BY DEF Clocks, Millis
<1>7. Checked'
  <2>1. CASE request = "none"
    BY <1>4, <1>5, <2>1, Zenon DEF Checked
  <2>2. CASE request # "none" /\ _lastCheck
    <3>1. Uncounted < Second + InRequest
      BY <2>2 DEF Checked
    <3>2. Uncounted' < Second + InRequest'
      <4>1. Second \in Int /\ Uncounted \in Int /\ InRequest \in Int /\ InRequest' \in Int
        BY <1>3, <1>4, RenewalTypes
      <4> QED BY <1>3, <1>4, <3>1, <4>1, StillLess, Zenon
    <3> QED BY <1>5, <2>2, <3>2 DEF Checked
  <2>3. CASE request # "none" /\ ~_lastCheck
    <3>1. millis <= InRequest
      BY <2>3 DEF Checked
    <3>2. millis' <= InRequest'
      BY <1>3, <1>5, <1>6, <3>1
    <3> QED BY <1>5, <2>3, <3>2 DEF Checked
  <2> QED BY <2>1, <2>2, <2>3
<1> QED BY <1>1, <1>7

(* What comes back has a short T1 too. *)
LEMMA SentShort ==
  ASSUME NEW q, NEW underway, Sends(q, underway),
         \A m \in underway : Short(m.lease.t1) /\ Short(m.lease.lease \div 2)
  PROVE  \A m \in answers' : Short(m.lease.t1) /\ Short(m.lease.lease \div 2)
<1>1. \A m \in AnswersTo(q) : m.lease \in Leases \cup {NoLease}
  BY DEF AnswersTo
<1>2. \A l \in Leases \cup {NoLease} : Short(l.t1) /\ Short(l.lease \div 2)
  <2>1. NoLease.t1 = 0 /\ NoLease.lease \div 2 = 0
    BY DEF NoLease
  <2> QED BY <2>1, ShortZero, EthernetAssumption DEF RoundIsLong
<1> QED BY <1>1, <1>2 DEF Sends

LEMMA StoreShort ==
  ASSUME KeptShort, NEW m \in answers, StoreLease(m)
  PROVE  Short(_dhcpT1') /\ Short(_dhcpLeaseTime' \div 2)
  BY DEF KeptShort, StoreLease, Given

(* The time of the program goes on, and each count with it. *)
LEMMA TickKeeps ==
  ASSUME RenewalInv, Tick
  PROVE  RenewalInv'
<1> USE DEF RenewalInv
<1>1. KeptShort'
  BY DEF KeptShort, Tick, leased
<1>2. /\ _lastCheck' = _lastCheck /\ _secTimeout' = _secTimeout /\ request' = request
      /\ _dhcp_state' = _dhcp_state /\ _dhcpT1' = _dhcpT1 /\ _renewInSec' = _renewInSec
      /\ millis' = (millis + 1) % MillisSize
  BY DEF Tick, checks, leased, counters
<1>3. millis \in Millis /\ _secTimeout \in Millis /\ gap \in 0 .. MaxGap
  BY DEF Clocks
<1>4. /\ millis' = (IF millis = MillisSize - 1 THEN 0 ELSE millis + 1) /\ millis' \in Millis
  <2>1. millis \in Int /\ millis + 1 \in Int /\ -MillisSize <= millis + 1
        /\ millis + 1 < 2 * MillisSize
    BY <1>3, RenewalBounds DEF Millis
  <2>2. (millis + 1) % MillisSize =
          IF millis + 1 < 0 THEN millis + 1 + MillisSize
          ELSE IF millis + 1 < MillisSize THEN millis + 1 ELSE millis + 1 - MillisSize
    BY <2>1, MillisRounds, RenewalBounds
  <2> QED BY <1>2, <1>3, <2>2, RenewalBounds DEF Millis
<1>5. Uncounted \in Nat
  BY <1>3, SpanIs, RenewalBounds DEF Uncounted, Millis
<1>6. Uncounted + 1 < MillisSize => Uncounted' = Uncounted + 1
  BY <1>2, <1>3, SpanTicks DEF Uncounted
<1>7. CASE request = "none"
  <2>1. gap < MaxGap /\ gap' = gap + 1 /\ elapsed' = elapsed /\ waited' = waited
    BY <1>7 DEF Tick
  <2>2. Clocks'
    BY <1>2, <1>3, <1>4, <2>1, RenewalBounds DEF Clocks
  <2>3. _lastCheck => Uncounted' = Uncounted + 1
    BY <1>3, <1>5, <1>6, <1>7, <2>1, RenewalBounds DEF Checked
  <2>4. Checked'
    BY <1>2, <1>3, <1>5, <1>7, <2>1, <2>3, RenewalBounds DEF Checked
  <2>5. ASSUME _dhcp_state = "LEASED" PROVE Leased'
    <3>1. /\ _dhcpT1 > 0 /\ age \in Nat /\ _renewInSec \in 1 .. _dhcpT1 /\ _dhcpT1 \in Nat
          /\ IF _lastCheck THEN Counts \/ Behind ELSE Unsure
      BY <1>7, <2>5, ShortIs DEF Leased, KeptShort
    <3>2. age' = IF age < MillisSize THEN IF age + 1 < MillisSize THEN age + 1 ELSE MillisSize
                 ELSE age'
      BY <2>5, <3>1, RenewalBounds DEF Tick, Capped, MaxAge
    <3>3. age' \in Nat /\ age' <= age + 1 /\ (age' = age + 1 \/ age' = MillisSize)
      BY <2>5, <3>1, RenewalBounds DEF Tick, Capped, MaxAge
    <3>4. Counted' = Counted /\ Counted \in Int
      BY <1>2, <3>1, Products, RenewalBounds DEF Counted
    <3>5. Counted <= Second * _dhcpT1 - Second
      <4>1. Second * _dhcpT1 - Second = Second * (_dhcpT1 - 1)
        BY <3>1, RenewalBounds
      <4>2. _dhcpT1 - _renewInSec <= _dhcpT1 - 1 /\ _dhcpT1 - _renewInSec \in Int
            /\ _dhcpT1 - 1 \in Int
        BY <3>1
      <4> QED BY <4>1, <4>2, Products, RenewalBounds DEF Counted
    <3>6. /\ Second * _dhcpT1 + Second + 2 * MaxGap + 2 * CallTime <= MillisSize
          /\ Second * _dhcpT1 \in Int
      BY <3>1, ShortIs, Products, RenewalBounds DEF KeptShort
    <3>7. Same /\ age < Counted + 2 * Second + gap + MaxGap
            => Same' /\ millis' = millis + 1
      <4> SUFFICES ASSUME Same, age < Counted + 2 * Second + gap + MaxGap
                   PROVE  Same' /\ millis' = millis + 1
        OBVIOUS
      <4>1. millis # MillisSize - 1
        BY <1>3, <2>1, <3>1, <3>4, <3>5, <3>6, RenewalBounds DEF Same, Millis
      <4>2. millis' = millis + 1 /\ millis \in Nat /\ millis + 1 <= MillisSize
        BY <1>3, <1>4, <4>1, RenewalBounds DEF Millis
      <4>3. age' + 2 * CallTime >= millis'
        <5>1. CASE age' = age + 1
          BY <3>1, <4>2, <5>1, RenewalTypes DEF Same
        <5>2. CASE age' = MillisSize
          BY <4>2, <5>2, RenewalTypes
        <5> QED BY <3>3, <5>1, <5>2
      <4> QED BY <4>2, <4>3 DEF Same
    <3>8. CASE ~_lastCheck
      <4>1. Unsure
        BY <3>1, <3>8
      <4>2. Unsure'
        BY <1>3, <2>1, <3>1, <3>3, <3>4, <3>7, <4>1, RenewalBounds DEF Unsure, Millis
      <4> QED BY <1>2, <1>7, <2>5, <3>1, <3>3, <3>8, <4>2 DEF Leased
    <3>9. CASE _lastCheck /\ Counts
      <4>1. Counts'
        BY <1>3, <1>5, <2>1, <2>3, <3>1, <3>3, <3>4, <3>9, RenewalBounds DEF Counts
      <4> QED BY <1>2, <1>7, <2>5, <3>1, <3>3, <3>9, <4>1 DEF Leased
    <3>10. CASE _lastCheck /\ Behind
      <4>1. Behind'
        BY <1>3, <1>5, <2>1, <2>3, <3>1, <3>3, <3>4, <3>7, <3>10, RenewalBounds
           DEF Behind, Millis
      <4> QED BY <1>2, <1>7, <2>5, <3>1, <3>3, <3>10, <4>1 DEF Leased
    <3> QED BY <3>1, <3>8, <3>9, <3>10
  <2>6. Leased'
    BY <1>2, <2>5 DEF Leased
  <2> QED BY <1>1, <2>2, <2>4, <2>6
<1>8. CASE request # "none"
  <2>1. /\ Waits /\ ~Over /\ waited <= RESPONSE_TIMEOUT /\ waited' = waited + 1
        /\ elapsed' = Capped(elapsed + 1, TIMEOUT + 1) /\ gap' = gap
    BY <1>8 DEF Tick
  <2>2. Clocks'
    BY <1>2, <1>3, <1>4, <2>1, RenewalBounds DEF Clocks, Capped
  <2>3. Calling + 1 <= Calling'
    BY <2>1, RenewalBounds DEF Clocks, Calling, Capped, Over
  <2>4. Calling' \in Nat /\ Calling \in Nat
    BY <2>1, RenewalBounds DEF Clocks, Calling, Capped
  <2>5. InRequest + 1 <= InRequest' /\ InRequest' \in Nat /\ InRequest \in Nat
    BY <1>2, <2>3, <2>4, RenewalBounds DEF InRequest
  <2>6. InRequest <= 2 * CallTime
    BY AskedBounds
  <2>7. Checked'
    <3>1. CASE _lastCheck
      <4>1. Uncounted < Second + InRequest
        BY <1>8, <3>1 DEF Checked
      <4>2. Uncounted' = Uncounted + 1
        BY <1>5, <1>6, <2>5, <2>6, <4>1, RenewalBounds
      <4>3. Uncounted' < Second + InRequest'
        <5>1. Second \in Int /\ Uncounted \in Int /\ InRequest \in Int /\ InRequest' \in Int
          BY <1>5, <2>5, RenewalTypes
        <5> QED BY <2>5, <4>1, <4>2, <5>1, StillLess, Zenon
      <4> QED BY <1>2, <1>8, <3>1, <4>3 DEF Checked
    <3>2. CASE ~_lastCheck
      <4>1. millis <= InRequest
        BY <1>8, <3>2 DEF Checked
      <4>2. millis' <= millis + 1 /\ millis \in Nat /\ millis' \in Nat
        BY <1>3, <1>4, RenewalBounds DEF Millis
      <4> QED BY <1>2, <1>8, <2>5, <3>2, <4>1, <4>2 DEF Checked
    <3> QED BY <3>1, <3>2
  <2>8. Leased'
    BY <1>2, <2>1 DEF Leased, Waits
  <2> QED BY <1>1, <2>2, <2>7, <2>8
<1> QED BY <1>7, <1>8

(* maintain() counts the seconds that passed, whole ones, and counts on from   *)
(* where they ended.                                                            *)
LEMMA CountKeeps ==
  ASSUME Clocks, Uncounted < Second + MillisSize \div 2, CountDown, millis' = millis
  PROVE  /\ _secTimeout' \in Millis /\ Uncounted' \in 0 .. Second - 1
         /\ _renewInSec \in Int =>
              \E n \in Nat : /\ _renewInSec' \in Int
                             /\ _renewInSec' > 0 => _renewInSec' = _renewInSec - n
                             /\ Uncounted = Second * n + Uncounted'
<1> DEFINE late   == Signed(millis - _secTimeout)
           factor == late \div Second + 1
           rest   == late % Second
           ends   == Span(millis, _secTimeout')
<1>1. millis \in Millis /\ _secTimeout \in Millis
  BY DEF Clocks
<1>2. late = Uncounted - Second /\ Uncounted \in Nat /\ late \in Int
  <2>1. late = Span(millis, _secTimeout) - Second /\ Span(millis, _secTimeout) \in Nat
    BY <1>1, SignedIs DEF Uncounted
  <2> QED BY <2>1, RenewalTypes DEF Uncounted
<1>3. Uncounted' = ends
  BY DEF Uncounted
<1>4. IF late >= 0
      THEN /\ _secTimeout' = (millis + Second - rest) % MillisSize
           /\ _renewInSec' = Less(_renewInSec, factor)
      ELSE _secTimeout' = _secTimeout /\ _renewInSec' = _renewInSec
  BY DEF CountDown, counters
<1> HIDE DEF late, ends
<1>5. CASE late >= 0
  <2>1. factor \in Nat /\ rest \in 0 .. Second - 1 /\ Uncounted = Second * factor + rest
    <3>1. /\ late \div Second \in Int /\ rest \in 0 .. Second - 1
          /\ late = Second * (late \div Second) + rest
      BY <1>2, Quotient, RenewalBounds
    <3>2. Second * factor = Second * (late \div Second) + Second
      BY <3>1, Products, RenewalBounds
    <3>3. late \div Second >= 0
      <4> DEFINE q == late \div Second
      <4>1. q \in Int /\ late = Second * q + rest /\ rest \in 0 .. Second - 1
        BY <3>1
      <4> HIDE DEF q, rest
      <4>2. CASE q < 0
        <5>1. Second * q + Second <= Second * 0 /\ Second * q \in Int
          BY <4>1, <4>2, Products, RenewalBounds
        <5>2. Second * 0 = 0
          BY RenewalBounds
        <5>3. Second * q + Second <= 0
          BY <5>1, <5>2
        <5> QED BY <1>2, <1>5, <4>1, <5>1, <5>3, RenewalTypes
      <4> QED BY <4>1, <4>2 DEF q
    <3>4. Second * (late \div Second) \in Int
      BY <3>1, Products, RenewalBounds
    <3> QED BY <1>2, <3>1, <3>2, <3>3, <3>4, RenewalTypes
  <2> HIDE DEF factor, rest
  <2>2. /\ _secTimeout' = (millis + Second - rest) % MillisSize
        /\ _renewInSec' = Less(_renewInSec, factor)
    BY <1>4, <1>5
  <2>3. _secTimeout' \in Millis /\ ends = rest
    BY <1>1, <2>1, <2>2, SpanCounts DEF ends
  <2>4. ASSUME _renewInSec \in Int
        PROVE  /\ _renewInSec' \in Int
               /\ _renewInSec' > 0 => _renewInSec' = _renewInSec - factor
    BY <2>1, <2>2, <2>4 DEF Less
  <2>5. Uncounted' = rest
    BY <1>3, <2>3
  <2> QED BY <2>1, <2>3, <2>4, <2>5, Zenon
<1>6. CASE late < 0
  <2>1. _secTimeout' = _secTimeout /\ _renewInSec' = _renewInSec
    BY <1>2, <1>4, <1>6
  <2>2. ends = Uncounted
    BY <2>1 DEF ends, Uncounted
  <2>3. ends \in 0 .. Second - 1 /\ Uncounted = Second * 0 + ends
    BY <1>2, <1>6, <2>2, RenewalTypes
  <2>4. _renewInSec \in Int => _renewInSec' = _renewInSec - 0
    BY <2>1
  <2>5. _renewInSec \in Int => _renewInSec' \in Int
    BY <2>1
  <2>6. 0 \in Nat
    OBVIOUS
  <2> QED BY <1>1, <1>3, <2>1, <2>3, <2>4, <2>5, <2>6, Zenon
<1> QED BY <1>2, <1>5, <1>6

LEMMA MaintainKeeps ==
  ASSUME RenewalInv, Maintain
  PROVE  RenewalInv'
<1> USE DEF RenewalInv
<1>1. KeptShort'
  BY DEF KeptShort, Maintain, leased
<1>2. /\ request = "none" /\ millis' = millis /\ _dhcpT1' = _dhcpT1
      /\ _lastCheck' = (millis # 0)
  BY DEF Maintain, leased
<1>3. millis \in Millis /\ _secTimeout \in Millis /\ gap \in 0 .. MaxGap /\ millis \in Nat
  BY DEF Clocks, Millis
<1>4. gap' = 0
  BY DEF Maintain, Rebind, Asks
<1>5. \/ _dhcp_state' = _dhcp_state /\ UNCHANGED <<request, elapsed, waited, age>>
      \/ /\ elapsed' = 0 /\ waited' = 0 /\ request' \in {"none", "renew", "rebind"}
         /\ _dhcp_state' \in {"REREQUEST", "START"}
  BY DEF Maintain, Rebind, Asks, asking
<1>6. _dhcp_state' = "LEASED" =>
        /\ _dhcp_state = "LEASED" /\ request' = "none" /\ age' = age
        /\ _lastCheck => ~(_renewInSec' <= 0)
  BY <1>2 DEF Maintain, Rebind, Asks, asking
<1>7. _secTimeout' \in Millis /\ Uncounted' \in 0 .. Second - 1
  <2>1. CASE _lastCheck
    <3>1. Uncounted < Second + MillisSize \div 2
      BY <1>2, <1>3, <2>1, SpanIs, RenewalBounds DEF Checked, Uncounted, Millis
    <3> QED BY <1>2, <2>1, <3>1, CountKeeps DEF Maintain
  <2>2. CASE ~_lastCheck
    <3>1. _secTimeout' = (millis + Second) % MillisSize
      BY <2>2 DEF Maintain
    <3>2. millis + Second - 0 = millis + Second
      BY <1>3, RenewalTypes
    <3>3. 0 \in 0 .. Second - 1
      BY RenewalBounds
    <3>4. _secTimeout' \in Millis /\ Span(millis, _secTimeout') = 0
      BY <1>3, <3>1, <3>2, <3>3, SpanCounts
    <3>5. Uncounted' = 0
      BY <1>2, <3>4 DEF Uncounted
    <3> QED BY <3>3, <3>4, <3>5
  <2> QED BY <2>1, <2>2
<1>8. Clocks'
  BY <1>2, <1>3, <1>4, <1>5, <1>7, RenewalBounds DEF Clocks
<1>9. Checked'
  <2> DEFINE u == Uncounted'
  <2>1. u \in 0 .. Second - 1 /\ Second \in Nat /\ CallTime \in Nat /\ TIMEOUT \in Nat
    BY <1>7, RenewalBounds
  <2>2. Calling' = 0 \/ request' = "none"
    BY <1>2, <1>5, <2>1 DEF Calling
  <2> HIDE DEF u
  <2>3. u < Second + 2 * CallTime + 0 /\ u < Second + 0 /\ u < Second + (0 + CallTime)
    BY <2>1
  <2>4. CASE request' = "none"
    BY <1>4, <2>3, <2>4, Zenon DEF Checked, u
  <2>5. CASE request' # "none"
    <3>1. Calling' = 0 /\ request' \in {"renew", "rebind"}
      BY <1>2, <1>5, <2>2, <2>5
    <3>2. InRequest' = 0 \/ InRequest' = 0 + CallTime
      BY <3>1 DEF InRequest
    <3>3. ~_lastCheck' => millis' = 0
      BY <1>2
    <3>4. 0 <= 0 /\ 0 <= 0 + CallTime
      BY <2>1
    <3> QED BY <2>3, <2>5, <3>2, <3>3, <3>4, Zenon DEF Checked, u
  <2> QED BY <2>4, <2>5
<1>10. ASSUME _dhcp_state' = "LEASED" PROVE Leased'
  <2>1. _dhcp_state = "LEASED" /\ request' = "none" /\ age' = age
    BY <1>6, <1>10
  <2>2. /\ _dhcpT1 > 0 /\ _dhcpT1 \in Nat /\ age \in Nat /\ _renewInSec \in 1 .. _dhcpT1
        /\ IF _lastCheck THEN Counts \/ Behind ELSE Unsure
    BY <1>2, <2>1, ShortIs DEF Leased, KeptShort
  <2> DEFINE u == Uncounted'
             c == Counted'
  <2>3. u \in Nat /\ u < Second
    BY <1>7, RenewalTypes
  <2>4. Uncounted \in Nat /\ Counted \in Int
    BY <1>3, <2>2, SpanIs, Products, RenewalBounds DEF Uncounted, Counted, Millis
  <2>5. /\ _renewInSec' \in 1 .. _dhcpT1 /\ c \in Int
        /\ IF _lastCheck THEN c + u = Counted + Uncounted ELSE c = Counted
    <3>1. CASE ~_lastCheck
      <4>1. _renewInSec' = _renewInSec
        BY <3>1 DEF Maintain, counters
      <4>2. c = Counted
        BY <1>2, <4>1 DEF Counted
      <4> QED BY <2>2, <2>4, <3>1, <4>1, <4>2
    <3>2. CASE _lastCheck
      <4>1. Uncounted < Second + MillisSize \div 2
        BY <1>2, <1>3, <3>2, SpanIs, RenewalBounds DEF Checked, Uncounted, Millis
      <4>2. PICK n \in Nat : /\ _renewInSec' \in Int
                             /\ _renewInSec' > 0 => _renewInSec' = _renewInSec - n
                             /\ Uncounted = Second * n + u
        BY <1>2, <2>2, <3>2, <4>1, CountKeeps DEF Maintain
      <4>3. _renewInSec' = _renewInSec - n /\ _renewInSec' > 0
        BY <1>6, <1>10, <3>2, <4>2
      <4>4. Second * (_dhcpT1 - _renewInSec') = Second * (_dhcpT1 - _renewInSec) + Second * n
        <5>1. _dhcpT1 - _renewInSec' = (_dhcpT1 - _renewInSec) + n
          BY <2>2, <4>2, <4>3
        <5>2. _dhcpT1 - _renewInSec \in Int
          BY <2>2
        <5> QED BY <4>2, <5>1, <5>2, Products, RenewalBounds
      <4>5. c = Counted + Second * n
        BY <1>2, <4>4 DEF Counted
      <4>6. Second * n \in Int
        BY <4>2, Products, RenewalBounds
      <4> HIDE DEF u, c
      <4> QED BY <2>2, <2>3, <2>4, <3>2, <4>2, <4>3, <4>5, <4>6
    <3> QED BY <3>1, <3>2
  <2> HIDE DEF u, c
  <2>6. CASE ~_lastCheck /\ millis # 0
    <3>1. age < c + u + MaxGap + Second /\ u < Second + 0 /\ age + 2 * CallTime >= millis
          /\ millis > 0
      BY <1>3, <2>2, <2>3, <2>4, <2>5, <2>6, RenewalTypes DEF Unsure, Same
    <3>2. Behind'
      BY <1>2, <1>4, <2>1, <3>1, Zenon DEF Behind, Same, u, c
    <3> QED BY <1>2, <2>1, <2>2, <2>5, <2>6, <3>2, Zenon DEF Leased
  <2>7. CASE ~_lastCheck /\ millis = 0
    <3>1. age < c + Second + 0 /\ age + 2 * CallTime >= millis /\ 0 <= millis
      BY <1>3, <2>2, <2>3, <2>4, <2>5, <2>7, RenewalTypes DEF Unsure, Same
    <3>2. Unsure'
      BY <1>2, <1>4, <2>1, <3>1, Zenon DEF Unsure, Same, c
    <3> QED BY <1>2, <2>1, <2>2, <2>5, <2>7, <3>2, Zenon DEF Leased
  <2>8. CASE _lastCheck /\ Counts /\ millis # 0
    <3>1. age <= c + u /\ u < Second + 0
      BY <1>3, <2>2, <2>3, <2>4, <2>5, <2>8, RenewalTypes DEF Counts
    <3>2. Counts'
      BY <1>2, <1>4, <2>1, <3>1, Zenon DEF Counts, u, c
    <3> QED BY <1>2, <2>1, <2>2, <2>5, <2>8, <3>2, Zenon DEF Leased
  <2>9. CASE _lastCheck /\ Counts /\ millis = 0
    <3>1. age < c + Second + 0 /\ age + 2 * CallTime >= millis /\ 0 <= millis
      BY <1>3, <2>2, <2>3, <2>4, <2>5, <2>9, RenewalTypes DEF Counts
    <3>2. Unsure'
      BY <1>2, <1>4, <2>1, <3>1, Zenon DEF Unsure, Same, c
    <3> QED BY <1>2, <2>1, <2>2, <2>5, <2>9, <3>2, Zenon DEF Leased
  <2>10. CASE _lastCheck /\ Behind
    <3>1. /\ age < c + u + MaxGap + Second /\ u < Second + 0 /\ age + 2 * CallTime >= millis
          /\ millis > 0 /\ millis # 0
      BY <1>3, <2>2, <2>3, <2>4, <2>5, <2>10, RenewalTypes DEF Behind, Same
    <3>2. Behind'
      BY <1>2, <1>4, <2>1, <3>1, Zenon DEF Behind, Same, u, c
    <3> QED BY <1>2, <2>1, <2>2, <2>5, <2>10, <3>1, <3>2, Zenon DEF Leased
  <2> QED BY <2>2, <2>6, <2>7, <2>8, <2>9, <2>10
<1>11. Leased'
  BY <1>10 DEF Leased
<1> QED BY <1>1, <1>8, <1>9, <1>11

(* An acknowledgement begins a lease. *)
LEMMA AckKeeps ==
  ASSUME LeaseInv, RenewalInv, NEW m \in answers, TakeAck(m)
  PROVE  RenewalInv'
<1> USE DEF RenewalInv
<1> DEFINE l  == Given(m.lease.lease, _dhcpLeaseTime)
           t1 == Given(m.lease.t1, _dhcpT1)
<1>1. l \in Nat \ {1} /\ t1 \in Nat
  BY GivenType, GivenLease DEF LeaseInv, StoredOK, LeaseOK
<1>2. Short(l \div 2) /\ Short(t1)
  BY DEF KeptShort, Given
<1>3. /\ _dhcpLeaseTime' = Given(l, DEFAULT_LEASE)
      /\ _dhcpT1' = Given(t1, _dhcpLeaseTime' \div 2)
      /\ _renewInSec' = _dhcpT1' /\ age' = 0 /\ answers' = answers \ {m} /\ Passes
  BY DEF TakeAck, Parse
<1> HIDE DEF l, t1
<1>4. _dhcpLeaseTime' \in Nat \ {0, 1} /\ Short(_dhcpLeaseTime' \div 2)
  BY <1>1, <1>2, <1>3, EthernetAssumption, DhcpAssumption DEF DhcpConstants, RoundIsLong, Given
<1>5. Short(_dhcpT1') /\ _dhcpT1' \in Nat /\ _dhcpT1' > 0
  BY <1>1, <1>2, <1>3, <1>4 DEF Given
<1>6. KeptShort'
  BY <1>3, <1>4, <1>5 DEF KeptShort
<1>7. request' # "none"
  BY <1>3 DEF Passes
<1>8. Leased'
  BY <1>3, <1>5, <1>7 DEF Leased
<1> QED BY <1>3, <1>6, <1>8, PassKeeps

(* A call returns, or goes on to rebind. *)
LEMMA ReturnKeeps ==
  ASSUME RenewalInv, RequestReturns
  PROVE  RenewalInv'
<1> USE DEF RenewalInv
<1>1. /\ KeptShort' /\ request # "none" /\ millis' = millis /\ _secTimeout' = _secTimeout
      /\ _lastCheck' = _lastCheck /\ _dhcpT1' = _dhcpT1 /\ _renewInSec' = _renewInSec
      /\ gap' = 0 /\ elapsed' = 0 /\ waited' = 0
  BY DEF RequestReturns, KeptShort, leased, checks, counters, Rebind, Asks
<1>2. millis \in Millis /\ _secTimeout \in Millis /\ millis \in Nat
  BY DEF Clocks, Millis
<1>3. Clocks'
  BY <1>1, <1>2, RenewalBounds DEF Clocks
<1>4. Uncounted' = Uncounted /\ Uncounted \in Nat
  <2>1. Uncounted \in Millis
    BY <1>2, SpanIs DEF Uncounted
  <2> QED BY <1>1, <2>1 DEF Uncounted, Millis
<1>5. InRequest \in Nat /\ InRequest <= 2 * CallTime /\ Calling \in 0 .. CallTime
  BY AskedBounds
<1>6. IF _lastCheck THEN Uncounted < Second + 2 * CallTime + 0 ELSE millis <= 2 * CallTime
  BY <1>1, <1>2, <1>4, <1>5, RenewalTypes DEF Checked
<1>7. CASE request = "renew" /\ Rebinding(_rebindInSec)
  <2>1. request' \in {"rebind", "none"} /\ _dhcp_state' = "START"
    BY <1>7 DEF RequestReturns, Rebind, Asks
  <2>2. CASE request' = "none"
    <3>1. Checked'
      BY <1>1, <1>4, <1>6, <2>2, Zenon DEF Checked
    <3> QED BY <1>1, <1>3, <2>1, <3>1 DEF Leased
  <2>3. CASE request' = "rebind"
    <3>1. InRequest' = 0 + CallTime
      BY <1>1, <2>3, RenewalBounds DEF InRequest, Calling
    <3>2. InRequest = Calling
      BY <1>7 DEF InRequest
    <3>3. IF _lastCheck THEN Uncounted < Second + (0 + CallTime) ELSE millis <= 0 + CallTime
      BY <1>1, <1>2, <1>4, <1>5, <3>2, RenewalTypes DEF Checked
    <3>4. request' # "none"
      BY <2>3
    <3>5. Checked'
      BY <1>1, <1>4, <3>1, <3>3, <3>4, Zenon DEF Checked
    <3> QED BY <1>1, <1>3, <2>1, <3>5 DEF Leased
  <2> QED BY <2>1, <2>2, <2>3
<1>8. CASE ~(request = "renew" /\ Rebinding(_rebindInSec))
  <2>1. request' = "none" /\ _dhcp_state' = _dhcp_state /\ age' = age
    BY <1>8 DEF RequestReturns
  <2>2. Checked'
    BY <1>1, <1>4, <1>6, <2>1, Zenon DEF Checked
  <2>3. ASSUME _dhcp_state = "LEASED" PROVE Leased'
    <3>1. _dhcpT1 > 0 /\ _dhcpT1 \in Nat /\ age = 0 /\ _renewInSec = _dhcpT1
      BY <1>1, <2>3, ShortIs DEF Leased, KeptShort
    <3>2. _renewInSec' \in 1 .. _dhcpT1' /\ age' \in Nat /\ _dhcpT1' > 0
      BY <1>1, <2>1, <3>1
    <3>3. Counted' = 0
      <4>1. _dhcpT1 - _dhcpT1 = 0 /\ Second * 0 = 0
        BY <3>1, RenewalTypes
      <4> QED BY <1>1, <3>1, <4>1 DEF Counted
    <3>4. CASE _lastCheck
      <4>1. 0 <= 0 + Uncounted /\ 0 <= 0
        BY <1>4
      <4>2. Counts'
        BY <1>1, <1>4, <2>1, <3>1, <3>3, <4>1, Zenon DEF Counts
      <4> QED BY <1>1, <2>1, <3>2, <3>4, <4>2, Zenon DEF Leased
    <3>5. CASE ~_lastCheck
      <4>1. 0 < 0 + Second + 0 /\ 0 + 2 * CallTime >= millis /\ 0 <= millis
        BY <1>2, <1>6, <3>5, RenewalBounds
      <4>2. Unsure'
        BY <1>1, <2>1, <3>1, <3>3, <4>1, Zenon DEF Unsure, Same
      <4> QED BY <1>1, <2>1, <3>2, <3>5, <4>2, Zenon DEF Leased
    <3> QED BY <3>4, <3>5
  <2>4. Leased'
    BY <2>1, <2>3 DEF Leased
  <2> QED BY <1>1, <1>3, <2>2, <2>4
<1> QED BY <1>7, <1>8

LEMMA StepRenewalInv == LeaseInv /\ RenewalInv /\ [DhcpNext]_dhcpVars => RenewalInv'
<1> SUFFICES ASSUME LeaseInv, RenewalInv, [DhcpNext]_dhcpVars PROVE RenewalInv'
  OBVIOUS
<1>1. ASSUME Passes, KeptShort', _dhcp_state' # "LEASED" PROVE RenewalInv'
  BY <1>1, PassKeeps DEF RenewalInv, Leased
<1>2. CASE Discover
  <2>1. KeptShort'
    BY <1>2, SentShort, Zenon DEF Discover, RenewalInv, KeptShort, leased
  <2> QED BY <1>1, <1>2, <2>1 DEF Discover
<1>3. CASE Rerequest
  <2>1. KeptShort'
    BY <1>3, SentShort, Zenon DEF Rerequest, RenewalInv, KeptShort, leased
  <2> QED BY <1>1, <1>3, <2>1 DEF Rerequest
<1>4. ASSUME NEW m \in answers, TakeOffer(m) PROVE RenewalInv'
  <2>1. \A n \in answers' : Short(n.lease.t1) /\ Short(n.lease.lease \div 2)
    <3>1. PICK q : Sends(q, answers \ {m})
      BY <1>4 DEF TakeOffer
    <3>2. \A n \in answers \ {m} : Short(n.lease.t1) /\ Short(n.lease.lease \div 2)
      BY DEF RenewalInv, KeptShort
    <3> QED BY <3>1, <3>2, SentShort, Zenon
  <2>2. Short(_dhcpT1') /\ Short(_dhcpLeaseTime' \div 2)
    BY <1>4, StoreShort DEF TakeOffer, RenewalInv
  <2>3. KeptShort'
    BY <2>1, <2>2 DEF KeptShort
  <2> QED BY <1>1, <1>4, <2>3 DEF TakeOffer, Parse
<1>5. ASSUME NEW m \in answers, TakeAck(m) PROVE RenewalInv'
  BY <1>5, AckKeeps
<1>6. ASSUME NEW m \in answers, TakeOther(m) PROVE RenewalInv'
  <2>1. Short(_dhcpT1') /\ Short(_dhcpLeaseTime' \div 2) /\ answers' \subseteq answers
    BY <1>6, StoreShort DEF TakeOther, RenewalInv
  <2>2. KeptShort'
    BY <2>1 DEF RenewalInv, KeptShort
  <2> QED BY <1>1, <1>6, <2>2 DEF TakeOther, Parse, Waits
<1>7. CASE TakeForeign
  <2>1. answers' \subseteq answers
    BY <1>7 DEF TakeForeign
  <2>2. KeptShort'
    BY <1>7, <2>1 DEF TakeForeign, RenewalInv, KeptShort, leased
  <2> QED BY <1>1, <1>7, <2>2 DEF TakeForeign, Waits
<1>8. CASE Silence
  <2>1. KeptShort'
    BY <1>8 DEF Silence, RenewalInv, KeptShort, leased
  <2> QED BY <1>1, <1>8, <2>1 DEF Silence
<1>9. CASE RequestReturns
  BY <1>9, ReturnKeeps
<1>10. CASE Maintain
  BY <1>10, MaintainKeeps
<1>11. CASE Tick
  BY <1>11, TickKeeps
<1>12. ASSUME answers' \subseteq answers,
              UNCHANGED <<_dhcp_state, leased, counters, checks, request, elapsed, waited,
                          millis, gap, age>>
       PROVE  RenewalInv'
  <2> USE <1>12 DEF leased, counters, checks
  <2>1. KeptShort' /\ Clocks'
    BY DEF RenewalInv, KeptShort, Clocks
  <2>2. Checked'
    BY Zenon DEF RenewalInv, Checked, InRequest, Calling, Uncounted
  <2>3. Leased'
    BY Zenon DEF RenewalInv, Leased, Counts, Behind, Unsure, Same, Counted, Uncounted
  <2> QED BY <2>1, <2>2, <2>3 DEF RenewalInv
<1>13. CASE Lose
  BY <1>12, <1>13 DEF Lose, asking
<1>14. CASE UNCHANGED dhcpVars
  BY <1>12, <1>14 DEF dhcpVars, asking
<1> QED
  BY <1>2, <1>3, <1>4, <1>5, <1>6, <1>7, <1>8, <1>9, <1>10, <1>11, <1>13, <1>14
     DEF DhcpNext, InPass

(* What the age of a lease comes to. *)
LEMMA RenewalSuffices == RenewalInv => RenewsInTime
<1> SUFFICES ASSUME RenewalInv, _dhcp_state = "LEASED", request = "none"
             PROVE  age < (_dhcpT1 + 1) * Second + 2 * MaxGap
  BY DEF RenewsInTime
<1>1. /\ _dhcpT1 > 0 /\ _dhcpT1 \in Nat /\ age \in Nat /\ _renewInSec \in 1 .. _dhcpT1
      /\ IF _lastCheck THEN Counts \/ Behind ELSE Unsure
  BY ShortIs DEF RenewalInv, Leased, KeptShort
<1>2. gap \in 0 .. MaxGap /\ Uncounted \in Nat
  BY SpanIs, RenewalTypes DEF RenewalInv, Clocks, Uncounted, Millis
<1>3. Counted \in Int /\ Counted + Second <= Second * _dhcpT1 /\ Second * _dhcpT1 \in Int
  <2>1. _dhcpT1 - _renewInSec < _dhcpT1 /\ _dhcpT1 - _renewInSec \in Int /\ _dhcpT1 \in Int
    BY <1>1
  <2> QED BY <2>1, Products, RenewalBounds DEF Counted
<1>4. (_dhcpT1 + 1) * Second = Second * _dhcpT1 + Second
  BY <1>1, RenewalTypes
<1>5. 0 <= Second * _dhcpT1
  BY <1>1, RenewalTypes
<1>6. Second > 0
  BY RenewalBounds
<1> DEFINE most == Second * _dhcpT1
<1>7. most \in Int /\ Counted + Second <= most /\ 0 <= most
      /\ (_dhcpT1 + 1) * Second = most + Second
  BY <1>3, <1>4, <1>5
<1> HIDE DEF most
<1>8. age < most + Second + 2 * MaxGap
  BY <1>1, <1>2, <1>3, <1>6, <1>7, RenewalTypes DEF Counts, Behind, Unsure
<1> QED BY <1>7, <1>8

(* A lease is renewed in time: its age, while it is not being renewed, passes  *)
(* T1 by less than two gaps and a second, for any servers, leases of less than *)
(* a round of millis(), timeouts, and calls of maintain() however irregular    *)
(* (DhcpClass::checkLease and request_DHCP_lease).                             *)
THEOREM RenewsInTimeAlways == LeaseSpec => []RenewsInTime
<1> QED
  BY InitLeaseInv, StepLeaseInv, InitRenewalInv, StepRenewalInv, RenewalSuffices, PTL
     DEF LeaseSpec

-----------------------------------------------------------------------------
(* Receiving.  The frame of the buffer, and what arrives. *)

(* A byte of a datagram: how long it is, and which of its bytes this is. *)
Bytes == [of : Lengths, at : Nat]

(* What lies in the buffer are the bytes of datagrams, in their order, *)
Follows(s) ==
  \A i, j \in 1 .. Len(s) :
    LET at == s[i].at + (j - i)
    IN  at \in 0 .. HEADER + s[i].of - 1 => s[j].of = s[i].of /\ s[j].at = at

(* each up to its end, *)
Whole(s) ==
  \A i \in 1 .. Len(s) :
    /\ s[i].at <= HEADER + s[i].of - 1
    /\ i + (HEADER + s[i].of - 1 - s[i].at) <= Len(s)

(* and after the end of one another begins. *)
Begins(s) ==
  \A i \in 1 .. Len(s) - 1 : s[i].at = HEADER + s[i].of - 1 => s[i + 1].at = 0

(* What remains of the first is its end. *)
Front(s, rest) ==
  /\ rest = 0 /\ s # <<>> => s[1].at = 0
  /\ rest > 0 => s # <<>> /\ rest <= s[1].of /\ s[1].at = HEADER + s[1].of - rest

(* A buffer of whole datagrams, the first one perhaps begun. *)
Framed(s, rest) ==
  /\ s \in Seq(Bytes) /\ rest \in Nat
  /\ Follows(s) /\ Whole(s) /\ Begins(s) /\ Front(s, rest)

(* Every byte knows its datagram and its place there. *)
LEMMA ByteType == \A s \in Seq(Bytes) : \A i \in 1 .. Len(s) : s[i].of \in Nat /\ s[i].at \in Nat
<1> TAKE s \in Seq(Bytes)
<1> TAKE i \in 1 .. Len(s)
<1>1. s[i] \in Bytes
  OBVIOUS
<1> QED BY <1>1, UdpBounds DEF Bytes

(* A datagram that arrives is whole. *)
LEMMA DatagramFacts ==
  ASSUME NEW length \in Lengths
  PROVE  /\ Udp!Datagram(length) \in Seq(Bytes) /\ Len(Udp!Datagram(length)) = HEADER + length
         /\ \A i \in 1 .. HEADER + length :
              Udp!Datagram(length)[i].of = length /\ Udp!Datagram(length)[i].at = i - 1
<1>1. length \in Nat /\ HEADER + length \in Nat
  BY UdpBounds
<1>2. \A i \in 1 .. HEADER + length : [of |-> length, at |-> i - 1] \in Bytes
  BY <1>1 DEF Bytes
<1>3. Udp!Datagram(length) = [i \in 1 .. HEADER + length |-> [of |-> length, at |-> i - 1]]
  BY DEF Udp!Datagram
<1> QED BY <1>1, <1>2, <1>3

(* A datagram that arrives leaves a frame. *)
LEMMA Arrived ==
  ASSUME NEW s, NEW rest, Framed(s, rest), NEW length \in Lengths
  PROVE  /\ Framed(s \o Udp!Datagram(length), rest)
         /\ Len(s \o Udp!Datagram(length)) = Len(s) + HEADER + length
         /\ s \o Udp!Datagram(length) # <<>>
<1> DEFINE d == Udp!Datagram(length)
           t == s \o d
           n == Len(s)
<1>1. /\ d \in Seq(Bytes) /\ Len(d) = HEADER + length
      /\ \A i \in 1 .. HEADER + length : d[i].of = length /\ d[i].at = i - 1
  BY DatagramFacts
<1>2. s \in Seq(Bytes) /\ n \in Nat /\ length \in Nat /\ HEADER \in Nat \ {0}
  BY UdpBounds DEF Framed
<1> HIDE DEF d
<1>3. /\ t \in Seq(Bytes) /\ Len(t) = n + HEADER + length
      /\ \A i \in 1 .. n : t[i] = s[i]
      /\ \A i \in n + 1 .. n + HEADER + length : t[i] = d[i - n]
  <2>1. /\ t \in Seq(Bytes) /\ Len(t) = n + Len(d)
        /\ \A i \in 1 .. n + Len(d) : t[i] = IF i <= n THEN s[i] ELSE d[i - n]
    BY <1>1, <1>2, ConcatProperties
  <2> HIDE DEF t, n
  <2> QED BY <1>1, <1>2, <2>1
<1>4. \A i \in n + 1 .. n + HEADER + length : t[i].of = length /\ t[i].at = i - n - 1
  BY <1>1, <1>2, <1>3
<1>5. \A i \in 1 .. n : s[i].of \in Nat /\ s[i].at \in Nat
  BY <1>2, ByteType
<1>6. Follows(s) /\ Whole(s) /\ Begins(s) /\ Front(s, rest) /\ rest \in Nat
  BY DEF Framed
<1> HIDE DEF t, n
<1>7. Whole(t)
  <2> SUFFICES ASSUME NEW i \in 1 .. Len(t)
               PROVE  /\ t[i].at <= HEADER + t[i].of - 1
                      /\ i + (HEADER + t[i].of - 1 - t[i].at) <= Len(t)
    BY DEF Whole
  <2>1. CASE i <= n
    <3>1. i \in 1 .. n /\ t[i] = s[i]
      BY <1>2, <1>3, <2>1
    <3>2. s[i].at <= HEADER + s[i].of - 1 /\ i + (HEADER + s[i].of - 1 - s[i].at) <= n
      BY <1>6, <3>1 DEF Whole, n
    <3>3. s[i].of \in Nat /\ s[i].at \in Nat
      BY <1>5, <3>1
    <3>4. Len(t) = n + HEADER + length
      BY <1>3
    <3>5. t[i].of = s[i].of /\ t[i].at = s[i].at
      BY <3>1
    <3>6. \A of, at \in Nat :
            i + (HEADER + of - 1 - at) <= n => i + (HEADER + of - 1 - at) <= n + HEADER + length
      BY <1>2, <3>1
    <3>7. i + (HEADER + t[i].of - 1 - t[i].at) <= Len(t)
      BY <3>2, <3>3, <3>4, <3>5, <3>6
    <3> QED BY <3>2, <3>5, <3>7
  <2>2. CASE i > n
    BY <1>2, <1>3, <1>4, <2>2
  <2> QED BY <1>2, <1>3, <2>1, <2>2
<1>8. Follows(t)
  <2> SUFFICES ASSUME NEW i \in 1 .. Len(t), NEW j \in 1 .. Len(t),
                      t[i].at + (j - i) \in 0 .. HEADER + t[i].of - 1
               PROVE  t[j].of = t[i].of /\ t[j].at = t[i].at + (j - i)
    BY DEF Follows
  <2>1. CASE i <= n
    <3>0. i \in 1 .. n
      BY <1>2, <1>3, <2>1
    <3>1. i + (HEADER + s[i].of - 1 - s[i].at) <= n /\ t[i] = s[i]
      BY <1>3, <1>6, <3>0 DEF Whole, n
    <3>3. s[i].of \in Nat /\ s[i].at \in Nat /\ Len(t) = n + HEADER + length
      BY <1>3, <1>5, <3>0
    <3>4. t[i].of = s[i].of /\ t[i].at = s[i].at
      BY <3>1
    <3>6. s[i].at + (j - i) \in 0 .. HEADER + s[i].of - 1
      BY <3>4
    <3>7. j \in 1 .. n + HEADER + length /\ i \in 1 .. n
      BY <3>0, <3>3
    <3>8. i + (HEADER + s[i].of - 1 - s[i].at) <= n
      BY <3>1
    <3>9. \A of, at \in Nat :
            i + (HEADER + of - 1 - at) <= n /\ at + (j - i) \in 0 .. HEADER + of - 1
              => j \in 1 .. n
      BY <1>2, <3>7
    <3>5. j \in 1 .. n
      BY <3>3, <3>6, <3>8, <3>9
    <3>2. j \in 1 .. n /\ t[j] = s[j]
      BY <1>3, <3>5
    <3> QED BY <1>6, <3>0, <3>1, <3>2 DEF Follows, n
  <2>2. CASE i > n
    BY <1>2, <1>3, <1>4, <2>2
  <2> QED BY <1>2, <1>3, <2>1, <2>2
<1>9. Begins(t)
  <2> SUFFICES ASSUME NEW i \in 1 .. Len(t) - 1, t[i].at = HEADER + t[i].of - 1
               PROVE  t[i + 1].at = 0
    BY DEF Begins
  <2>1. CASE i < n
    <3>2. Len(t) = n + HEADER + length
      BY <1>3
    <3>3. i \in 1 .. n - 1 /\ i \in 1 .. n /\ i + 1 \in 1 .. n
      BY <1>2, <2>1, <3>2
    <3>1. t[i] = s[i] /\ t[i + 1] = s[i + 1]
      BY <1>3, <3>3
    <3> QED BY <1>6, <3>1, <3>3 DEF Begins, n
  <2>2. CASE i = n
    BY <1>2, <1>3, <1>4, <2>2
  <2>3. CASE i > n
    BY <1>2, <1>3, <1>4, <2>3
  <2> QED BY <1>2, <1>3, <2>1, <2>2, <2>3
<1>10. Front(t, rest)
  <2>1. CASE n = 0
    <3>1. s = <<>>
      BY <1>2, <2>1 DEF n
    <3> QED BY <1>2, <1>3, <1>4, <1>6, <2>1, <3>1 DEF Front
  <2>2. CASE n > 0
    <3>1. s # <<>> /\ t[1] = s[1]
      BY <1>2, <1>3, <2>2 DEF n
    <3>2. t # <<>>
      BY <1>2, <1>3, <2>2
    <3> QED BY <1>6, <3>1, <3>2 DEF Front
  <2> QED BY <1>2, <2>1, <2>2
<1> QED BY <1>2, <1>3, <1>6, <1>7, <1>8, <1>9, <1>10 DEF Framed, t, d, n

(* What is left when the first bytes are taken. *)
LEMMA Rest ==
  ASSUME NEW s \in Seq(Bytes), NEW k \in 0 .. Len(s)
  PROVE  LET t == SubSeq(s, k + 1, Len(s))
         IN  /\ t \in Seq(Bytes) /\ Len(t) = Len(s) - k
             /\ \A i \in 1 .. Len(s) - k : t[i] = s[k + i]
             /\ k = 0 => t = s
<1>1. Len(s) \in Nat /\ k \in Nat /\ k <= Len(s)
  OBVIOUS
<1>2. \A i \in k + 1 .. Len(s) : s[i] \in Bytes
  BY <1>1, ElementOfSeq
<1> DEFINE t == SubSeq(s, k + 1, Len(s))
<1>3. /\ t \in Seq(Bytes)
      /\ Len(t) = IF k + 1 <= Len(s) THEN Len(s) - (k + 1) + 1 ELSE 0
      /\ \A i \in 1 .. Len(s) - (k + 1) + 1 : t[i] = s[(k + 1) + i - 1]
  BY <1>1, <1>2, SubSeqProperties
<1> HIDE DEF t
<1>4. Len(t) = Len(s) - k
  BY <1>1, <1>3
<1>5. \A i \in 1 .. Len(s) - k : t[i] = s[k + i]
  <2> SUFFICES ASSUME NEW i \in 1 .. Len(s) - k
               PROVE  t[i] = s[k + i]
    OBVIOUS
  <2>1. Len(s) - (k + 1) + 1 = Len(s) - k /\ (k + 1) + i - 1 = k + i
    BY <1>1
  <2> QED BY <1>3, <2>1
<1>6. ASSUME k = 0
      PROVE  t = s
  <2>1. Len(t) = Len(s) /\ \A i \in 1 .. Len(s) : t[i] = s[i]
    BY <1>1, <1>4, <1>5, <1>6
  <2> QED BY <1>3, <2>1
<1> QED BY <1>3, <1>4, <1>5, <1>6 DEF t

(* The frame of what remains if the first k bytes are taken. *)
LEMMA TakenPart ==
  ASSUME NEW s, NEW rest, Framed(s, rest), NEW k \in 1 .. Len(s), NEW left \in Nat,
         left = HEADER + s[1].of - s[1].at - k, left <= s[1].of
  PROVE  Framed(SubSeq(s, k + 1, Len(s)), left)
<1> DEFINE t == SubSeq(s, k + 1, Len(s))
           n == Len(s)
<1>1. s \in Seq(Bytes) /\ n \in Nat /\ k \in Nat /\ 1 <= k /\ k <= n /\ HEADER \in Nat \ {0}
  BY UdpBounds DEF Framed
<1>2. /\ t \in Seq(Bytes) /\ Len(t) = n - k
      /\ \A i \in 1 .. n - k : t[i] = s[k + i]
  BY <1>1, Rest
<1>3. \A i \in 1 .. n : s[i].of \in Nat /\ s[i].at \in Nat
  BY <1>1, ByteType
<1>4. Follows(s) /\ Whole(s) /\ Begins(s)
  BY DEF Framed
<1> HIDE DEF t
<1>5. \A i \in 1 .. n - k : k + i \in 1 .. n /\ t[i].of = s[k + i].of /\ t[i].at = s[k + i].at
  BY <1>1, <1>2
<1>6. Whole(t)
  <2> SUFFICES ASSUME NEW i \in 1 .. n - k
               PROVE  /\ t[i].at <= HEADER + t[i].of - 1
                      /\ i + (HEADER + t[i].of - 1 - t[i].at) <= n - k
    BY <1>2 DEF Whole
  <2>1. /\ s[k + i].at <= HEADER + s[k + i].of - 1
        /\ (k + i) + (HEADER + s[k + i].of - 1 - s[k + i].at) <= n
    BY <1>4, <1>5 DEF Whole
  <2>2. \A of, at \in Nat : (k + i) + (HEADER + of - 1 - at) <= n
                              => i + (HEADER + of - 1 - at) <= n - k
    BY <1>1
  <2>3. s[k + i].of \in Nat /\ s[k + i].at \in Nat
    BY <1>3, <1>5
  <2> QED BY <1>5, <2>1, <2>2, <2>3
<1>7. Follows(t)
  <2> SUFFICES ASSUME NEW i \in 1 .. n - k, NEW j \in 1 .. n - k,
                      t[i].at + (j - i) \in 0 .. HEADER + t[i].of - 1
               PROVE  t[j].of = t[i].of /\ t[j].at = t[i].at + (j - i)
    BY <1>2 DEF Follows
  <2>1. (k + j) - (k + i) = j - i
    BY <1>1
  <2>2. s[k + i].at + ((k + j) - (k + i)) \in 0 .. HEADER + s[k + i].of - 1
    BY <1>5, <2>1
  <2>3. s[k + j].of = s[k + i].of /\ s[k + j].at = s[k + i].at + ((k + j) - (k + i))
    BY <1>4, <1>5, <2>2 DEF Follows
  <2> QED BY <1>5, <2>1, <2>3
<1>8. Begins(t)
  <2> SUFFICES ASSUME NEW i \in 1 .. (n - k) - 1, t[i].at = HEADER + t[i].of - 1
               PROVE  t[i + 1].at = 0
    BY <1>2 DEF Begins
  <2>1. /\ i \in 1 .. n - k /\ i + 1 \in 1 .. n - k /\ k + i \in 1 .. n - 1
        /\ k + (i + 1) = (k + i) + 1
    BY <1>1
  <2>2. s[k + i].at = HEADER + s[k + i].of - 1
    BY <1>5, <2>1
  <2>3. s[(k + i) + 1].at = 0
    BY <1>4, <2>1, <2>2 DEF Begins
  <2> QED BY <1>5, <2>1, <2>3
<1>9. Front(t, left)
  <2>1. s[1].of \in Nat /\ s[1].at \in Nat /\ 1 \in 1 .. n
    BY <1>1, <1>3
  <2>2. 1 + (HEADER + s[1].of - 1 - s[1].at) <= n
    BY <1>4, <2>1 DEF Whole
  <2>3. \A of, at \in Nat : left = HEADER + of - at - k =>
          /\ at + (k - 1) \in 0 .. HEADER + of - 1
          /\ at + (k - 1) = HEADER + of - 1 - left
          /\ left > 0 => at + k \in 0 .. HEADER + of - 1 /\ at + k = HEADER + of - left
          /\ 1 + (HEADER + of - 1 - at) <= n => left <= n - k
    BY <1>1
  <2>6. /\ s[1].at + (k - 1) \in 0 .. HEADER + s[1].of - 1
        /\ s[1].at + (k - 1) = HEADER + s[1].of - 1 - left
        /\ left > 0 => /\ s[1].at + k \in 0 .. HEADER + s[1].of - 1
                       /\ s[1].at + k = HEADER + s[1].of - left
        /\ left <= n - k
    BY <2>1, <2>2, <2>3
  <2>7. left = 0 => HEADER + s[1].of - 1 - left = HEADER + s[1].of - 1
    BY <1>1, <2>1
  <2>4. CASE left = 0
    <3>1. s[k].of = s[1].of /\ s[k].at = HEADER + s[1].of - 1
      <4>1. s[1].at + (k - 1) \in 0 .. HEADER + s[1].of - 1
        BY <2>6
      <4>2. s[k].of = s[1].of /\ s[k].at = s[1].at + (k - 1)
        BY <1>1, <1>4, <4>1 DEF Follows
      <4> QED BY <2>4, <2>6, <2>7, <4>2
    <3>2. ASSUME t # <<>>
          PROVE  t[1].at = 0
      <4>1. n - k > 0
        BY <1>1, <1>2, <3>2
      <4>2. k \in 1 .. n - 1 /\ 1 \in 1 .. n - k
        BY <1>1, <4>1
      <4>3. s[k + 1].at = 0
        BY <1>4, <3>1, <4>2 DEF Begins
      <4> QED BY <1>5, <4>2, <4>3
    <3> QED BY <2>4, <3>2 DEF Front
  <2>5. CASE left > 0
    <3>1. left <= n - k
      BY <2>6
    <3>2. 1 \in 1 .. n - k /\ k + 1 \in 1 .. n /\ (k + 1) - 1 = k
      BY <1>1, <2>5, <3>1
    <3>3. s[1].at + ((k + 1) - 1) \in 0 .. HEADER + s[1].of - 1
      BY <2>5, <2>6, <3>2
    <3>4. s[k + 1].of = s[1].of /\ s[k + 1].at = s[1].at + ((k + 1) - 1)
      BY <1>4, <2>1, <3>2, <3>3 DEF Follows
    <3>5. s[k + 1].at = HEADER + s[1].of - left
      BY <2>5, <2>6, <3>2, <3>4
    <3>6. t # <<>>
      BY <1>1, <1>2, <2>5, <3>1
    <3> QED BY <1>5, <2>5, <3>2, <3>4, <3>5, <3>6 DEF Front
  <2> QED BY <2>4, <2>5
<1> QED BY <1>2, <1>6, <1>7, <1>8, <1>9 DEF Framed, t

(* What the call that is under way is for. *)
Asked ==
  /\ doing = "header" => want = HEADER /\ _remaining = 0 /\ received # <<>>
  /\ doing = "parsePacket" => _remaining = 0
  /\ doing \in {"flush", "read"} => want <= _remaining

(* A size that was read, or half of one, is not above what has come by now: a torn *)
(* one is too small.                                                                *)
Sized ==
  /\ val1 <= Len(received) /\ val <= Len(received)
  /\ high # -1 => high <= Len(received) \div Half

(* And one that is torn to less than a header has a first half that will not be *)
(* read again: it is not agreed on.                                              *)
Agreed ==
  doing = "header" =>
    /\ reading = "val" =>
         \/ val1 >= HEADER
         \/ val1 \div Half < (IF high = -1 THEN Len(received) \div Half ELSE high)
    /\ reading = "done" => val = 0 \/ val >= HEADER

(* The ranges of the call under way. *)
SizeTypeOK ==
  /\ want \in Nat /\ val1 \in Nat /\ val \in Nat /\ high \in Nat \cup {-1}
  /\ doing \in {"none", "flush", "parsePacket", "header", "read"}
  /\ reading \in {"val1", "val", "done"}

(* The inductive invariant of receiving. *)
ReceiveInv ==
  /\ Framed(received, _remaining) /\ SizeTypeOK
  /\ Asked /\ Sized /\ Agreed

(* A larger size has a first half that is not smaller. *)
LEMMA Halves ==
  ASSUME NEW a \in Nat, NEW b \in Nat, a <= b
  PROVE  a \div Half <= b \div Half
<1>1. Half \in Nat \ {0}
  BY UdpBounds
<1>2. a \div Half \in Int /\ a % Half \in 0 .. Half - 1 /\ a = Half * (a \div Half) + (a % Half)
  BY <1>1, Quotient
<1>3. b \div Half \in Int /\ b % Half \in 0 .. Half - 1 /\ b = Half * (b \div Half) + (b % Half)
  BY <1>1, Quotient
<1> DEFINE p == a \div Half
           q == b \div Half
<1>4. q < p => Half * q + Half <= Half * p
  BY <1>1, <1>2, <1>3, Products
<1>5. Half * p \in Int /\ Half * q \in Int
  BY <1>1, <1>2, <1>3, Products
<1> HIDE DEF p, q
<1>6. a % Half \in 0 .. Half - 1 /\ b % Half \in 0 .. Half - 1 /\ p \in Int /\ q \in Int
      /\ a = Half * p + (a % Half) /\ b = Half * q + (b % Half)
  BY <1>2, <1>3 DEF p, q
<1>7. p <= q
  BY <1>1, <1>4, <1>5, <1>6
<1> QED BY <1>7 DEF p, q

(* The value of two halves, the first read when there was no more than now. *)
LEMMA TwoHalves ==
  ASSUME NEW n \in Nat, NEW first \in Nat, first <= n \div Half
  PROVE  LET value == first * Half + (n % Half)
         IN  /\ value \in Nat /\ value <= n /\ value \div Half = first
             /\ first = n \div Half => value = n
<1>1. Half \in Nat \ {0}
  BY UdpBounds
<1>2. n \div Half \in Int /\ n % Half \in 0 .. Half - 1 /\ n = Half * (n \div Half) + (n % Half)
  BY <1>1, Quotient
<1>3. first * Half = Half * first /\ Half * first \in Nat
  BY <1>1
<1>4. Half * first <= Half * (n \div Half) /\ Half * (n \div Half) \in Int
  BY <1>1, <1>2, Products
<1>5. (Half * first + (n % Half)) \div Half = first
  BY <1>1, <1>2, Quotients
<1> DEFINE p == Half * first
           q == Half * (n \div Half)
           r == n % Half
<1>6. p \in Nat /\ q \in Int /\ r \in Nat /\ n = q + r /\ p <= q
  BY <1>1, <1>2, <1>3, <1>4
<1>7. p + r \in Nat /\ p + r <= n
  <2> HIDE DEF p, q, r
  <2> QED BY <1>6
<1>8. first = n \div Half => p + r = n
  BY <1>2
<1> QED BY <1>3, <1>5, <1>7, <1>8

(* What was received has a length. *)
LEMMA ReceivedLen == Framed(received, _remaining) => Len(received) \in Nat
  BY DEF Framed

(* An empty buffer has none. *)
LEMMA SubLenZero == \A s : s = <<>> => Len(s) = 0
  OBVIOUS

(* The invariant holds while nothing has come. *)
LEMMA InitReceive == Udp!UdpInit => ReceiveInv
<1> SUFFICES ASSUME Udp!UdpInit
             PROVE  ReceiveInv
  OBVIOUS
<1>1. received = <<>> /\ _remaining = 0 /\ Len(received) = 0 /\ received \in Seq(Bytes)
  BY DEF Udp!UdpInit
<1>2. Framed(received, _remaining)
  BY <1>1 DEF Framed, Follows, Whole, Begins, Front
<1> QED BY <1>1, <1>2 DEF Udp!UdpInit, ReceiveInv, SizeTypeOK, Asked, Sized, Agreed

(* Before the first half, whatever is asked for. *)
LEMMA Starts ==
  ASSUME Framed(received', _remaining'), NEW what \in {"none", "flush", "parsePacket",
         "header", "read"},
         NEW length \in Nat, Udp!Recv(what, length),
         what = "header" => length = HEADER /\ _remaining' = 0 /\ received' # <<>>,
         what = "parsePacket" => _remaining' = 0,
         what \in {"flush", "read"} => length <= _remaining'
  PROVE  ReceiveInv'
<1>1. Len(received') \in Nat
  BY DEF Framed
<1>2. /\ doing' = what /\ want' = length
      /\ reading' = "val1" /\ high' = -1 /\ val1' = 0 /\ val' = 0
  BY DEF Udp!Recv, Udp!ReadSize
<1> QED BY <1>1, <1>2 DEF ReceiveInv, SizeTypeOK, Asked, Sized, Agreed

(* A datagram may arrive between any two reads of the chip. *)
LEMMA ArriveReceive ==
  ASSUME ReceiveInv, Udp!Arrive
  PROVE  ReceiveInv'
<1>1. PICK length \in Lengths : received' = received \o Udp!Datagram(length)
  BY DEF Udp!Arrive
<1>2. /\ Framed(received, _remaining) /\ SizeTypeOK /\ Asked /\ Sized /\ Agreed
      /\ UNCHANGED <<_remaining, doing, want, reading, high, val1, val>>
  BY DEF ReceiveInv, Udp!Arrive, Udp!sizeVars
<1>3. Framed(received', _remaining') /\ Len(received') = Len(received) + HEADER + length
      /\ received' # <<>>
  BY <1>1, <1>2, Arrived
<1>4. Len(received) \in Nat /\ Len(received') \in Nat /\ Len(received) <= Len(received')
  <2>1. length \in Nat /\ HEADER \in Nat
    BY UdpBounds
  <2> QED BY <1>2, <1>3, <2>1 DEF Framed
<1>5. Len(received) \div Half <= Len(received') \div Half
  BY <1>4, Halves
<1>6. Len(received) \div Half \in Int /\ Len(received') \div Half \in Int /\ val1 \div Half \in Int
  BY <1>2, <1>4, UdpBounds DEF SizeTypeOK
<1>7. Sized'
  BY <1>2, <1>4, <1>5, <1>6 DEF Sized, SizeTypeOK
<1>8. Agreed'
  BY <1>2, <1>5, <1>6 DEF Agreed
<1>9. SizeTypeOK' /\ Asked'
  BY <1>2, <1>3 DEF SizeTypeOK, Asked
<1> QED BY <1>3, <1>7, <1>8, <1>9 DEF ReceiveInv

(* A half of the size is read, or two sizes agree: a torn one is too small, and too *)
(* small to be agreed on, or at least a header.                                     *)
LEMMA SizeReceive ==
  ASSUME ReceiveInv, Udp!GetReceivedSize
  PROVE  ReceiveInv'
<1>1. /\ Framed(received, _remaining) /\ SizeTypeOK /\ Asked /\ Sized /\ Agreed
      /\ UNCHANGED <<received, _remaining, doing, want>>
  BY DEF ReceiveInv, Udp!GetReceivedSize
<1>2. Framed(received', _remaining') /\ Asked'
  BY <1>1 DEF Asked
<1> DEFINE n == Len(received)
<1>3. n \in Nat /\ n' = n
  BY <1>1 DEF Framed
<1>4. n \div Half \in Nat /\ val1 \div Half \in Int /\ HEADER \in Nat /\ Half \in Nat \ {0}
  <2>1. n \div Half \in Int /\ 0 \div Half <= n \div Half /\ 0 \div Half = 0
    <3>1. 0 \div Half = 0
      <4>1. Half \in Nat \ {0} /\ Half * 0 = 0 /\ 0 \in 0 .. Half - 1
        BY UdpBounds
      <4>2. (Half * 0 + 0) \div Half = 0
        BY <4>1, Quotients
      <4> QED BY <4>1, <4>2
    <3> QED BY <1>3, <3>1, UdpBounds, Halves
  <2> QED BY <1>1, <2>1, UdpBounds DEF SizeTypeOK
<1>5. doing = "header" => n >= HEADER
  <2> SUFFICES ASSUME doing = "header"
               PROVE  n >= HEADER
    OBVIOUS
  <2>1. received # <<>> /\ _remaining = 0 /\ received \in Seq(Bytes) /\ Whole(received)
        /\ Front(received, _remaining)
    BY <1>1 DEF Asked, Framed
  <2>2. 1 \in 1 .. n /\ received[1].at = 0
    BY <1>3, <2>1 DEF Front
  <2>3. 1 + (HEADER + received[1].of - 1 - received[1].at) <= n
    BY <2>1, <2>2 DEF Whole
  <2>4. received[1].of \in Nat
    BY <2>1, <2>2, ByteType
  <2>5. \A of \in Nat : 1 + (HEADER + of - 1 - 0) <= n => n >= HEADER
    BY <1>3, <1>4
  <2> QED BY <2>2, <2>3, <2>4, <2>5
<1> HIDE DEF n
<1>6. CASE Udp!ReadHigh
  <2>1. high = -1 /\ high' = n \div Half /\ UNCHANGED <<reading, val1, val>>
    BY <1>6 DEF Udp!ReadHigh, n
  <2>2. SizeTypeOK' /\ Sized'
    BY <1>1, <1>3, <1>4, <2>1 DEF SizeTypeOK, Sized, n
  <2>3. Agreed'
    BY <1>1, <1>4, <2>1 DEF Agreed, n
  <2> QED BY <1>2, <2>2, <2>3 DEF ReceiveInv
<1>7. CASE Udp!ReadLow
  <2> DEFINE value == high * Half + (n % Half)
  <2>1. /\ high \in Nat /\ high <= n \div Half /\ high' = -1
        /\ \/ reading = "val1" /\ val1' = value /\ Udp!AfterVal1(value)
           \/ reading = "val" /\ UNCHANGED val1 /\ Udp!AfterVal(value)
    BY <1>1, <1>7 DEF Udp!ReadLow, SizeTypeOK, Sized, n
  <2>2. /\ value \in Nat /\ value <= n /\ value \div Half = high
        /\ high = n \div Half => value = n
    BY <1>3, <2>1, TwoHalves
  <2> HIDE DEF value
  <2>3. CASE reading = "val1" /\ val1' = value /\ Udp!AfterVal1(value)
    <3>1. /\ val' = val
          /\ reading' = IF value # 0 THEN "val" ELSE IF val = 0 THEN "done" ELSE "val1"
      BY <2>3 DEF Udp!AfterVal1
    <3>2. SizeTypeOK' /\ Sized'
      BY <1>1, <1>3, <2>1, <2>2, <2>3, <3>1 DEF SizeTypeOK, Sized, n
    <3>3. doing = "header" => value >= HEADER \/ value \div Half < n \div Half
      BY <1>4, <1>5, <2>1, <2>2
    <3>4. Agreed'
      BY <1>1, <1>3, <2>1, <2>3, <3>1, <3>3 DEF Agreed, n
    <3> QED BY <1>2, <3>2, <3>4 DEF ReceiveInv
  <2>4. CASE reading = "val" /\ UNCHANGED val1 /\ Udp!AfterVal(value)
    <3>1. val' = value /\ reading' = IF value = val1 THEN "done" ELSE "val1"
      BY <2>4 DEF Udp!AfterVal
    <3>2. SizeTypeOK' /\ Sized'
      BY <1>1, <1>3, <2>1, <2>2, <2>4, <3>1 DEF SizeTypeOK, Sized, n
    <3>3. doing = "header" => val1 >= HEADER \/ val1 \div Half < high
      BY <1>1, <2>1, <2>4 DEF Agreed
    <3>4. Agreed'
      BY <1>1, <1>4, <2>1, <2>2, <2>4, <3>1, <3>3 DEF Agreed
    <3> QED BY <1>2, <3>2, <3>4 DEF ReceiveInv
  <2> QED BY <2>1, <2>3, <2>4
<1> QED BY <1>6, <1>7 DEF Udp!GetReceivedSize

(* What a call gets is there, and is not more than was asked for. *)
LEMMA GotRange ==
  ASSUME ReceiveInv
  PROVE  /\ Udp!Got \in Nat /\ Udp!Got <= Len(received) /\ Udp!Got <= want
         /\ Len(received) \in Nat /\ _remaining \in Nat
  BY DEF ReceiveInv, SizeTypeOK, Sized, Framed, Udp!Got, Udp!Less

(* The bytes that a read or a flush takes belong to what remains. *)
LEMMA TakeRemaining ==
  ASSUME ReceiveInv, doing \in {"flush", "read"},
         IF Udp!Got = 0 THEN UNCHANGED <<received, recvIr, _remaining>>
         ELSE Udp!TakeBytes /\ Udp!CountBytes
  PROVE  Framed(received', _remaining')
<1>1. Framed(received, _remaining) /\ want <= _remaining /\ want \in Nat
  BY DEF ReceiveInv, Asked, SizeTypeOK
<1>2. CASE Udp!Got = 0
  BY <1>1, <1>2
<1>3. CASE Udp!Got # 0
  <2> DEFINE k == Udp!Got
  <2>1. /\ received' = SubSeq(received, k + 1, Len(received))
        /\ _remaining' = _remaining - k
    BY <1>3 DEF Udp!TakeBytes, Udp!CountBytes
  <2>2. k \in 1 .. Len(received) /\ k <= _remaining /\ _remaining \in Nat
    BY <1>1, <1>3, GotRange
  <2> HIDE DEF k
  <2>3. _remaining - k \in Nat /\ _remaining > 0 /\ _remaining - k <= _remaining
    BY <2>2
  <2>4. received \in Seq(Bytes) /\ received # <<>> /\ _remaining <= received[1].of
        /\ received[1].at = HEADER + received[1].of - _remaining
    BY <1>1, <2>3 DEF Framed, Front
  <2>5. received[1].of \in Nat /\ HEADER \in Nat
    BY <2>2, <2>4, ByteType, UdpBounds
  <2>6. \A of \in Nat : _remaining <= of =>
          /\ _remaining - k = HEADER + of - (HEADER + of - _remaining) - k
          /\ _remaining - k <= of
    BY <2>2, <2>5
  <2>7. _remaining - k = HEADER + received[1].of - received[1].at - k
        /\ _remaining - k <= received[1].of
    BY <2>4, <2>5, <2>6
  <2> QED BY <1>1, <2>1, <2>2, <2>3, <2>7, TakenPart
<1> QED BY <1>2, <1>3

(* parsePacket begins with what is left of the last datagram, or with the size. *)
LEMMA ParseReceive ==
  ASSUME ReceiveInv, Udp!ParsePacket
  PROVE  ReceiveInv'
<1>1. Framed(received', _remaining') /\ _remaining \in Nat /\ UNCHANGED _remaining
  BY DEF ReceiveInv, Udp!ParsePacket, Framed
<1>2. CASE _remaining > 0
  <2>1. Udp!Recv("flush", 1)
    BY <1>2 DEF Udp!ParsePacket
  <2> QED BY <1>1, <1>2, <2>1, Starts
<1>3. CASE ~(_remaining > 0)
  <2>1. Udp!Recv("parsePacket", 0) /\ _remaining = 0
    BY <1>1, <1>3 DEF Udp!ParsePacket
  <2> QED BY <1>1, <2>1, Starts
<1> QED BY <1>2, <1>3

(* A flush takes what remains, or part of it. *)
LEMMA FlushReceive ==
  ASSUME ReceiveInv, Udp!FlushByte
  PROVE  ReceiveInv'
<1>1. Framed(received', _remaining')
  BY TakeRemaining DEF Udp!FlushByte
<1>2. _remaining' \in Nat
  BY <1>1 DEF Framed
<1>3. CASE _remaining' > 0
  <2>1. Udp!Recv("flush", 1)
    BY <1>3 DEF Udp!FlushByte
  <2> QED BY <1>1, <1>2, <1>3, <2>1, Starts
<1>4. CASE ~(_remaining' > 0)
  <2>1. Udp!Recv("parsePacket", 0) /\ _remaining' = 0
    BY <1>2, <1>4 DEF Udp!FlushByte
  <2> QED BY <1>1, <2>1, Starts
<1> QED BY <1>3, <1>4

(* With a size that is not 0 the header is read. *)
LEMMA AnyReceive ==
  ASSUME ReceiveInv, Udp!AnyPacket
  PROVE  ReceiveInv'
<1>1. Framed(received', _remaining') /\ UNCHANGED received /\ _remaining' = 0
  BY DEF ReceiveInv, Udp!AnyPacket, Asked
<1>2. CASE val > 0
  <2>1. Len(received) \in Nat /\ val \in Nat /\ val <= Len(received)
    BY DEF ReceiveInv, Framed, SizeTypeOK, Sized
  <2>2. received # <<>>
    BY <1>2, <2>1, SubLenZero
  <2>3. Udp!Recv("header", HEADER) /\ HEADER \in Nat
    BY <1>2, UdpBounds DEF Udp!AnyPacket
  <2> QED BY <1>1, <2>2, <2>3, Starts
<1>3. CASE ~(val > 0)
  <2>1. Udp!Recv("none", 0)
    BY <1>3 DEF Udp!AnyPacket, Udp!Returns
  <2> QED BY <1>1, <2>1, Starts
<1> QED BY <1>2, <1>3

(* The header read is that of the next datagram, in full: its length is right. *)
LEMMA HeaderReceive ==
  ASSUME ReceiveInv, Udp!TakeHeader
  PROVE  ReceiveInv'
<1>1. /\ Framed(received, _remaining) /\ _remaining = 0 /\ received # <<>> /\ want = HEADER
      /\ val \in Nat /\ (val = 0 \/ val >= HEADER) /\ HEADER \in Nat \ {0}
  BY UdpBounds DEF ReceiveInv, Udp!TakeHeader, Asked, Agreed, SizeTypeOK
<1>2. Udp!Got \in {0, HEADER} /\ Udp!Got \in 0 .. Len(received)
  BY <1>1, GotRange DEF Udp!Got, Udp!Less
<1>3. received' = SubSeq(received, Udp!Got + 1, Len(received)) /\ received \in Seq(Bytes)
  BY <1>1 DEF Udp!TakeHeader, Udp!TakeBytes, Framed
<1>4. Framed(received', _remaining')
  <2>1. CASE Udp!Got = 0
    <3>1. received' = received
      BY <1>2, <1>3, <2>1, Rest
    <3>2. _remaining' = _remaining
      BY <2>1 DEF Udp!TakeHeader
    <3> QED BY <1>1, <3>1, <3>2
  <2>2. CASE Udp!Got = HEADER
    <3>1. _remaining' = received[HEADER].of
      BY <1>1, <2>2 DEF Udp!TakeHeader
    <3>2. received[1].at = 0 /\ 1 \in 1 .. Len(received) /\ HEADER \in 1 .. Len(received)
      BY <1>1, <1>2, <2>2 DEF Framed, Front
    <3>3. received[1].of \in Nat
      BY <1>3, <3>2, ByteType
    <3>4. received[1].at + (HEADER - 1) \in 0 .. HEADER + received[1].of - 1
      BY <1>1, <3>2, <3>3
    <3>5. received[HEADER].of = received[1].of
      BY <1>1, <3>2, <3>4 DEF Framed, Follows
    <3>6. \A of \in Nat : of = HEADER + of - 0 - HEADER
      BY <1>1
    <3>7. received[1].of = HEADER + received[1].of - received[1].at - HEADER
      BY <3>2, <3>3, <3>6
    <3>8. Framed(SubSeq(received, HEADER + 1, Len(received)), received[1].of)
      BY <1>1, <3>2, <3>3, <3>7, TakenPart
    <3> QED BY <1>3, <2>2, <3>1, <3>5, <3>8
  <2> QED BY <1>2, <2>1, <2>2
<1>5. Udp!Recv("none", 0)
  BY DEF Udp!TakeHeader, Udp!Returns
<1> QED BY <1>4, <1>5, Starts

(* A read asks for no more than remains. *)
LEMMA ReadReceive ==
  ASSUME ReceiveInv, Udp!Read
  PROVE  ReceiveInv'
<1>1. Framed(received', _remaining') /\ UNCHANGED _remaining /\ _remaining \in Nat
  BY DEF ReceiveInv, Udp!Read, Framed
<1>2. PICK len \in Sizes : Udp!Recv("read", Udp!Less(_remaining, len))
  BY DEF Udp!Read
<1>3. Udp!Less(_remaining, len) \in Nat /\ Udp!Less(_remaining, len) <= _remaining
  BY <1>1, UdpBounds DEF Udp!Less
<1> QED BY <1>1, <1>2, <1>3, Starts

(* It takes no more than it asked for. *)
LEMMA EndsReceive ==
  ASSUME ReceiveInv, Udp!ReadEnds
  PROVE  ReceiveInv'
<1>1. Framed(received', _remaining')
  BY TakeRemaining DEF Udp!ReadEnds
<1>2. Udp!Recv("none", 0)
  BY DEF Udp!ReadEnds, Udp!Returns
<1> QED BY <1>1, <1>2, Starts

(* What does not change keeps the invariant. *)
LEMMA StutterReceive ==
  ASSUME ReceiveInv, UNCHANGED receiveVars
  PROVE  ReceiveInv'
  BY DEF ReceiveInv, receiveVars, SizeTypeOK, Asked, Sized, Agreed

(* So every step keeps it. *)
LEMMA NextReceive == ReceiveInv /\ [AllNext]_allVars => ReceiveInv'
<1> SUFFICES ASSUME ReceiveInv, [AllNext]_allVars
             PROVE  ReceiveInv'
  OBVIOUS
<1>1. CASE UNCHANGED receiveVars
  BY <1>1, StutterReceive
<1>2. CASE Udp!Receives
  BY <1>2, ArriveReceive, SizeReceive, ParseReceive, FlushReceive, AnyReceive, HeaderReceive,
     ReadReceive, EndsReceive DEF Udp!Receives, Udp!InRecv
<1>3. UNCHANGED receiveVars \/ Udp!Receives
  BY DEF AllNext, OnSockets, OnRenewal, OnMixed, OnLookup, OnReceived, OnSent, allVars, udpVars
<1> QED BY <1>1, <1>2, <1>3

(* A buffer so framed never mixes two datagrams. *)
LEMMA DatagramsFollow == ReceiveInv => DatagramsApart
<1> SUFFICES ASSUME ReceiveInv
             PROVE  Udp!DatagramsApart
  BY DEF DatagramsApart
<1>1. received \in Seq(Bytes) /\ _remaining \in Nat /\ Len(received) \in Nat
      /\ Follows(received) /\ Whole(received) /\ Front(received, _remaining) /\ HEADER \in Nat
  BY UdpBounds DEF ReceiveInv, Framed
<1>2. _remaining = 0 => received = <<>> \/ received[1].at = 0
  BY <1>1 DEF Front
<1>3. ASSUME _remaining > 0
      PROVE  /\ _remaining <= Len(received)
             /\ \A i \in 1 .. _remaining : received[i] =
                  [of |-> received[1].of, at |-> HEADER + received[1].of - _remaining + i - 1]
  <2>1. /\ 1 \in 1 .. Len(received) /\ _remaining <= received[1].of
        /\ received[1].at = HEADER + received[1].of - _remaining
    BY <1>1, <1>3 DEF Front
  <2>2. 1 + (HEADER + received[1].of - 1 - received[1].at) <= Len(received)
    BY <1>1, <2>1 DEF Whole
  <2>3. received[1].of \in Nat
    BY <1>1, <2>1, ByteType
  <2>4. \A of \in Nat : 1 + (HEADER + of - 1 - (HEADER + of - _remaining)) = _remaining
    BY <1>1
  <2>5. _remaining <= Len(received)
    BY <2>1, <2>2, <2>3, <2>4
  <2>6. ASSUME NEW i \in 1 .. _remaining
        PROVE  received[i] =
                 [of |-> received[1].of, at |-> HEADER + received[1].of - _remaining + i - 1]
    <3>1. i \in 1 .. Len(received)
      BY <1>1, <2>5
    <3>2. \A of \in Nat : _remaining <= of =>
            /\ HEADER + of - _remaining + (i - 1) \in 0 .. HEADER + of - 1
            /\ HEADER + of - _remaining + (i - 1) = HEADER + of - _remaining + i - 1
      BY <1>1
    <3>3. received[1].at + (i - 1) \in 0 .. HEADER + received[1].of - 1
      BY <2>1, <2>3, <3>2
    <3>4. received[i].of = received[1].of /\ received[i].at = received[1].at + (i - 1)
      BY <1>1, <2>1, <3>1, <3>3 DEF Follows
    <3>5. received[i] \in Bytes
      BY <1>1, <3>1, ElementOfSeq
    <3>6. received[i] = [of |-> received[i].of, at |-> received[i].at]
      BY <3>5 DEF Bytes
    <3>7. received[i].at = HEADER + received[1].of - _remaining + i - 1
      BY <2>1, <2>3, <3>2, <3>4
    <3> QED BY <3>4, <3>6, <3>7
  <2> QED BY <2>5, <2>6
<1> QED BY <1>2, <1>3 DEF Udp!DatagramsApart

(* No read returns bytes of two datagrams, and what is read next is the end of the  *)
(* one that is begun or the start of another, although the size of what has come is *)
(* read in halves while more comes (EthernetUDP::parsePacket and read, recv,        *)
(* getRXReceivedSize).  It needs no assumption on the sizes.                        *)
THEOREM DatagramsCorrect == AllSpec => []DatagramsApart
<1>1. AllInit => ReceiveInv
  BY InitReceive DEF AllInit
<1>2. ReceiveInv => DatagramsApart
  BY DatagramsFollow
<1> QED BY <1>1, <1>2, NextReceive, PTL DEF AllSpec

-----------------------------------------------------------------------------
(* Sending.  Places in the send buffer. *)

(* A remainder does not see how often a pointer has come round. *)
LEMMA Wraps ==
  ASSUME NEW d \in Nat \ {0}, NEW n \in Int, NEW k \in Int
  PROVE  (n + d * k) % d = n % d
<1> DEFINE q == n \div d
           r == n % d
<1>1. q \in Int /\ r \in 0 .. d - 1 /\ n = d * q + r
  BY Quotient
<1> HIDE DEF q, r
<1>2. (d * (q + k) + r) % d = r
  BY <1>1, Quotients
<1>3. d * (q + k) = d * q + d * k /\ d * q \in Int /\ d * k \in Int
  BY <1>1, Products
<1>4. d * (q + k) + r = n + d * k
  <2> DEFINE a == d * q
             b == d * k
  <2>1. a \in Int /\ b \in Int /\ r \in Int /\ n = a + r /\ d * (q + k) = a + b
    BY <1>1, <1>3
  <2> HIDE DEF a, b
  <2>2. (a + b) + r = n + b
    BY <2>1
  <2> QED BY <2>1, <2>2 DEF b
<1> QED BY <1>2, <1>4 DEF r

(* What is less than the divisor is its remainder. *)
LEMMA Small ==
  ASSUME NEW d \in Nat \ {0}, NEW n \in 0 .. d - 1
  PROVE  n % d = n
<1>1. (d * 0 + n) % d = n
  BY Quotients
<1> QED BY <1>1

(* Two places that differ by less than the buffer, from a pointer that has come round. *)
LEMMA Apart ==
  ASSUME NEW rd \in Nat, NEW off \in Nat, NEW m \in Nat
  PROVE  (((rd + m) % SSIZE) - ((rd + off) % PointerSize)) % SSIZE = (m - off) % SSIZE
<1>1. SSIZE \in Nat \ {0} /\ PointerSize \in Nat \ {0} /\ PointerSize % SSIZE = 0
  BY UdpBounds
<1> DEFINE c == PointerSize \div SSIZE
           q1 == (rd + m) \div SSIZE
           q2 == (rd + off) \div PointerSize
           a == (rd + m) % SSIZE
           b == (rd + off) % PointerSize
<1>2. c \in Int /\ PointerSize = SSIZE * c
  BY <1>1, Quotient
<1>3. q1 \in Int /\ a \in Int /\ rd + m = SSIZE * q1 + a
  BY <1>1, Quotient
<1>4. q2 \in Int /\ b \in Int /\ rd + off = PointerSize * q2 + b
  BY <1>1, Quotient
<1> HIDE DEF c, q1, q2, a, b
<1>5. PointerSize * q2 = SSIZE * (c * q2) /\ c * q2 \in Int
  BY <1>1, <1>2, <1>4
<1> DEFINE k == c * q2 - q1
<1>6. k \in Int /\ SSIZE * k = SSIZE * (c * q2) - SSIZE * q1
  BY <1>1, <1>3, <1>5, Products
<1> HIDE DEF k
<1>7. a - b = (m - off) + SSIZE * k
  <2> DEFINE x == SSIZE * q1
             y == SSIZE * (c * q2)
             z == SSIZE * k
  <2>1. x \in Int /\ y \in Int /\ z = y - x /\ rd + m = x + a /\ rd + off = y + b
    BY <1>1, <1>3, <1>4, <1>5, <1>6, Products
  <2> HIDE DEF x, y, z
  <2>2. a - b = (m - off) + z
    BY <1>3, <1>4, <2>1
  <2> QED BY <2>2 DEF z
<1>8. ((m - off) + SSIZE * k) % SSIZE = (m - off) % SSIZE
  <2> DEFINE x == m - off
  <2>1. x \in Int
    OBVIOUS
  <2> HIDE DEF x
  <2>2. (x + SSIZE * k) % SSIZE = x % SSIZE
    BY <1>1, <1>6, <2>1, Wraps
  <2> QED BY <2>2 DEF x
<1> QED BY <1>7, <1>8 DEF a, b

(* What is written: bytes of one packet or of another. *)
Packet == {"a", "b"} \X Nat

(* What has been written fills the places from the read pointer on, and the write *)
(* pointer is behind it, once something is written: the inductive invariant.      *)
SendInv ==
  /\ SnTX_RD \in 0 .. PointerSize - 1 /\ SnTX_WR \in 0 .. PointerSize - 1
  /\ written \in Seq(Packet) /\ open \in BOOLEAN
  /\ memory = [a \in 0 .. SSIZE - 1 |-> memory[a]]
  /\ open =>
       /\ sent = <<>>
       /\ _offset = Len(written) /\ Len(written) <= MaxPacket
       /\ written # <<>> => SnTX_WR = (SnTX_RD + _offset) % PointerSize
       /\ \A i \in 1 .. Len(written) : memory[(SnTX_RD + (i - 1)) % SSIZE] = written[i]
  /\ sent # <<>> => sent = written

(* The invariant holds before the first packet. *)
LEMMA InitSend == Udp!UdpInit => SendInv
<1> SUFFICES ASSUME Udp!UdpInit
             PROVE  SendInv
  OBVIOUS
<1>1. 0 \in 0 .. PointerSize - 1
  BY UdpBounds
<1>2. memory = [a \in 0 .. SSIZE - 1 |-> memory[a]]
  BY DEF Udp!UdpInit
<1>3. /\ ~open /\ sent = <<>> /\ written = <<>> /\ written \in Seq(Packet)
      /\ SnTX_RD = 0 /\ SnTX_WR = 0
      /\ open = FALSE
  BY DEF Udp!UdpInit
<1> QED BY <1>1, <1>2, <1>3 DEF SendInv

(* A packet begins with nothing written. *)
LEMMA BeginSend ==
  ASSUME SendInv, Udp!BeginPacket
  PROVE  SendInv'
<1>1. written' = <<>> /\ sent' = <<>> /\ open' = TRUE /\ _offset' = 0 /\ Len(written') = 0
      /\ written' \in Seq(Packet) /\ UNCHANGED <<SnTX_RD, SnTX_WR, memory>> /\ MaxPacket \in Nat
  BY UdpBounds DEF Udp!BeginPacket
<1> QED BY <1>1 DEF SendInv

(* A write puts its bytes behind those written before, and none on top of them. *)
LEMMA WriteSend ==
  ASSUME SendInv, Udp!Write, MaxPacket <= SSIZE
  PROVE  SendInv'
<1> DEFINE n == Len(written)
<1>1. /\ open /\ sent = <<>> /\ _offset = n /\ written \in Seq(Packet)
      /\ SnTX_RD \in 0 .. PointerSize - 1 /\ n \in Nat
      /\ \A i \in 1 .. n : memory[(SnTX_RD + (i - 1)) % SSIZE] = written[i]
      /\ UNCHANGED <<open, SnTX_RD, sent>>
  <2>1. open /\ UNCHANGED <<open, SnTX_RD, sent>>
    BY DEF Udp!Write
  <2>2. written \in Seq(Packet) /\ SnTX_RD \in 0 .. PointerSize - 1
    BY DEF SendInv
  <2>3. n \in Nat
    BY <2>2
  <2>4. sent = <<>> /\ _offset = n
        /\ \A i \in 1 .. n : memory[(SnTX_RD + (i - 1)) % SSIZE] = written[i]
    BY <2>1 DEF SendInv
  <2> QED BY <2>1, <2>2, <2>3, <2>4
<1>2. /\ SSIZE \in Nat \ {0} /\ PointerSize \in Nat \ {0} /\ Sizes \subseteq Nat \ {0}
      /\ MaxPacket \in Nat
  BY UdpBounds
<1> DEFINE ptr == (SnTX_RD + _offset) % PointerSize
<1>3. PICK size \in Sizes, mark \in {"a", "b"} :
        LET len == Udp!Less(size, SSIZE)
        IN  /\ n + len <= MaxPacket
            /\ memory' = [a \in 0 .. SSIZE - 1 |->
                            LET i == (a - ptr) % SSIZE
                            IN  IF i < len THEN <<mark, n + i>> ELSE memory[a]]
            /\ SnTX_WR' = (ptr + len) % PointerSize
            /\ written' = written \o [i \in 1 .. len |-> <<mark, n + (i - 1)>>]
            /\ _offset' = _offset + len
  BY DEF Udp!Write
<1> DEFINE len == Udp!Less(size, SSIZE)
           piece == [i \in 1 .. len |-> <<mark, n + (i - 1)>>]
<1>4. len \in Nat \ {0}
  BY <1>2 DEF Udp!Less
<1> HIDE DEF len
<1>5. piece \in Seq(Packet) /\ Len(piece) = len
  <2>1. \A i \in 1 .. len : <<mark, n + (i - 1)>> \in Packet
    BY <1>1, <1>4 DEF Packet
  <2> HIDE DEF n
  <2> QED BY <1>4, <2>1
<1>6. /\ written' \in Seq(Packet) /\ Len(written') = n + len
      /\ \A i \in 1 .. n + len : written'[i] = IF i <= n THEN written[i] ELSE <<mark, i - 1>>
  <2>1. written' = written \o piece
    BY <1>3 DEF len
  <2> HIDE DEF piece
  <2>2. /\ written' \in Seq(Packet) /\ Len(written') = n + len
        /\ \A i \in 1 .. n + len : written'[i] = IF i <= n THEN written[i] ELSE piece[i - n]
    BY <1>1, <1>5, <2>1, ConcatProperties
  <2> HIDE DEF n
  <2>3. \A i \in n + 1 .. n + len : i - n \in 1 .. len /\ n + ((i - n) - 1) = i - 1
    BY <1>1, <1>4
  <2>4. \A i \in n + 1 .. n + len : piece[i - n] = <<mark, i - 1>>
    BY <2>3 DEF piece
  <2>5. \A i \in 1 .. n + len : i <= n \/ i \in n + 1 .. n + len
    BY <1>1, <1>4
  <2> QED BY <2>2, <2>4, <2>5
<1> HIDE DEF n, piece
<1>7. /\ n + len <= MaxPacket /\ n + len <= SSIZE
      /\ SnTX_WR' = (ptr + len) % PointerSize /\ _offset' = n + len
      /\ memory' = [a \in 0 .. SSIZE - 1 |->
                      IF (a - ptr) % SSIZE < len THEN <<mark, n + ((a - ptr) % SSIZE)>>
                      ELSE memory[a]]
  BY <1>1, <1>2, <1>3, <1>4 DEF len
<1>8. \A i \in 1 .. n + len : memory'[(SnTX_RD + (i - 1)) % SSIZE] = written'[i]
  <2> SUFFICES ASSUME NEW i \in 1 .. n + len
               PROVE  memory'[(SnTX_RD + (i - 1)) % SSIZE] = written'[i]
    OBVIOUS
  <2> DEFINE a == (SnTX_RD + (i - 1)) % SSIZE
  <2>1. i - 1 \in Nat /\ SnTX_RD \in Nat /\ n \in Nat
    BY <1>1, <1>2, <1>4
  <2>2. a \in 0 .. SSIZE - 1
    BY <1>2, <2>1
  <2>3. (a - ptr) % SSIZE = ((i - 1) - n) % SSIZE
    BY <1>1, <2>1, Apart DEF n
  <2> HIDE DEF a, ptr
  <2>4. CASE i <= n
    <3>1. ((i - 1) - n) + SSIZE \in 0 .. SSIZE - 1 /\ ((i - 1) - n) + SSIZE >= len
          /\ SSIZE * 1 = SSIZE /\ (i - 1) - n \in Int
      BY <1>2, <1>4, <1>7, <2>1, <2>4
    <3>2. (((i - 1) - n) + SSIZE) % SSIZE = ((i - 1) - n) % SSIZE
      <4> DEFINE x == (i - 1) - n
                 once == 1
      <4>1. x \in Int /\ once \in Int /\ SSIZE * once = SSIZE
        BY <3>1
      <4> HIDE DEF x, once
      <4>2. (x + SSIZE * once) % SSIZE = x % SSIZE
        BY <1>2, <4>1, Wraps
      <4>3. (x + SSIZE) % SSIZE = x % SSIZE
        BY <4>1, <4>2
      <4> QED BY <4>3 DEF x
    <3>3. (((i - 1) - n) + SSIZE) % SSIZE = ((i - 1) - n) + SSIZE
      BY <1>2, <3>1, Small
    <3>4. (a - ptr) % SSIZE >= len /\ (a - ptr) % SSIZE \in Int
      BY <2>3, <3>1, <3>2, <3>3
    <3>5. memory'[a] = memory[a]
      BY <1>4, <1>7, <2>2, <3>4
    <3>6. i \in 1 .. n
      BY <2>1, <2>4
    <3> QED BY <1>1, <1>6, <2>4, <3>5, <3>6 DEF a
  <2>5. CASE i > n
    <3>1. (i - 1) - n \in 0 .. SSIZE - 1 /\ (i - 1) - n < len /\ n + ((i - 1) - n) = i - 1
      BY <1>2, <1>4, <1>7, <2>1, <2>5
    <3>2. ((i - 1) - n) % SSIZE = (i - 1) - n
      BY <1>2, <3>1, Small
    <3>3. memory'[a] = <<mark, i - 1>>
      BY <1>7, <2>2, <2>3, <3>1, <3>2
    <3>4. ~(i <= n)
      BY <2>1, <2>5
    <3> QED BY <1>6, <3>3, <3>4 DEF a
  <2> QED BY <2>1, <2>4, <2>5
<1>9. (ptr + len) % PointerSize = (SnTX_RD + _offset') % PointerSize
  <2> DEFINE q == (SnTX_RD + n) \div PointerSize
  <2>1. SnTX_RD + n \in Int /\ n \in Nat /\ SnTX_RD \in Nat
    BY <1>1, <1>2
  <2>2. q \in Int /\ ptr \in Int /\ SnTX_RD + n = PointerSize * q + ptr
    BY <1>1, <1>2, <2>1, Quotient DEF n
  <2> HIDE DEF q, ptr
  <2>3. ((ptr + len) + PointerSize * q) % PointerSize = (ptr + len) % PointerSize
    <3> DEFINE x == ptr + len
    <3>1. x \in Int
      BY <1>4, <2>2
    <3> HIDE DEF x
    <3>2. (x + PointerSize * q) % PointerSize = x % PointerSize
      BY <1>2, <2>2, <3>1, Wraps
    <3> QED BY <3>2 DEF x
  <2>4. (ptr + len) + PointerSize * q = SnTX_RD + (n + len)
    <3> DEFINE p == PointerSize * q
    <3>1. p \in Int
      BY <1>2, <2>2
    <3> HIDE DEF p
    <3>2. SnTX_RD + n = p + ptr
      BY <2>2 DEF p
    <3>3. (ptr + len) + p = SnTX_RD + (n + len)
      BY <1>4, <2>1, <2>2, <3>1, <3>2
    <3> QED BY <3>3 DEF p
  <2> QED BY <1>7, <2>3, <2>4
<1>10. (ptr + len) % PointerSize \in 0 .. PointerSize - 1
  <2>1. ptr \in Int
    BY <1>1, <1>2
  <2> HIDE DEF ptr
  <2> QED BY <1>2, <1>4, <2>1, Quotient
<1>11. memory' = [a \in 0 .. SSIZE - 1 |-> memory'[a]]
  BY <1>7
<1> QED BY <1>1, <1>6, <1>7, <1>8, <1>9, <1>10, <1>11 DEF SendInv

(* The chip sends from the read pointer to the write pointer: what was written. *)
LEMMA EndSend ==
  ASSUME SendInv, Udp!EndPacket, MaxPacket <= SSIZE
  PROVE  SendInv'
<1> DEFINE n == Len(written)
<1>1. open /\ written # <<>> /\ UNCHANGED <<_offset, SnTX_WR, memory, written>> /\ open' = FALSE
      /\ SnTX_RD' = SnTX_WR
      /\ sent' = [i \in 1 .. (SnTX_WR - SnTX_RD) % PointerSize |->
                    memory[(SnTX_RD + i - 1) % SSIZE]]
  BY DEF Udp!EndPacket, Udp!Place
<1>2. /\ written \in Seq(Packet) /\ SnTX_RD \in 0 .. PointerSize - 1
      /\ SnTX_WR \in 0 .. PointerSize - 1 /\ memory = [a \in 0 .. SSIZE - 1 |-> memory[a]]
  BY DEF SendInv
<1>3. /\ _offset = n /\ n <= MaxPacket /\ SnTX_WR = (SnTX_RD + _offset) % PointerSize
      /\ \A i \in 1 .. n : memory[(SnTX_RD + (i - 1)) % SSIZE] = written[i]
  BY <1>1 DEF SendInv
<1>4. n \in Nat /\ written = [i \in 1 .. n |-> written[i]]
  BY <1>2
<1> HIDE DEF n
<1>5. SSIZE \in Nat \ {0} /\ PointerSize \in Nat \ {0} /\ PointerSize > SSIZE /\ MaxPacket \in Nat
  BY UdpBounds
<1>6. (SnTX_WR - SnTX_RD) % PointerSize = n
  <2> DEFINE x == SnTX_RD + n
             q == x \div PointerSize
             r == 0 - q
  <2>1. x \in Int /\ n \in 0 .. PointerSize - 1
    <3>1. n <= MaxPacket /\ n \in Nat /\ SnTX_RD \in Nat
      BY <1>2, <1>3, <1>4, <1>5
    <3> QED BY <1>5, <3>1
  <2>2. q \in Int /\ SnTX_WR = x % PointerSize /\ x = PointerSize * q + (x % PointerSize)
    <3>1. SnTX_WR = x % PointerSize
      BY <1>3
    <3> HIDE DEF x
    <3> QED BY <1>5, <2>1, <3>1, Quotient
  <2>3. r \in Int /\ PointerSize * r = 0 - PointerSize * q /\ PointerSize * q \in Int
    <3> HIDE DEF q
    <3>1. r \in Int /\ r + q = 0 /\ PointerSize * 0 = 0
      BY <1>5, <2>2
    <3> HIDE DEF r
    <3>2. PointerSize * (r + q) = PointerSize * r + PointerSize * q
      BY <1>5, <2>2, <3>1, Products
    <3>3. PointerSize * r \in Int /\ PointerSize * q \in Int
      BY <1>5, <2>2, <3>1
    <3> QED BY <3>1, <3>2, <3>3
  <2>4. SnTX_WR - SnTX_RD = n + PointerSize * r
    <3> DEFINE p == PointerSize * q
               pr == PointerSize * r
    <3>1. p \in Int /\ pr = 0 - p /\ SnTX_RD + n = p + SnTX_WR
      <4>1. x = p + SnTX_WR
        BY <2>2
      <4> QED BY <2>3, <4>1
    <3>2. SnTX_WR \in Int /\ SnTX_RD \in Int
      BY <1>2, <1>5
    <3> HIDE DEF p, pr
    <3>3. SnTX_WR - SnTX_RD = n + pr
      BY <1>4, <3>1, <3>2
    <3> QED BY <3>3 DEF pr
  <2> HIDE DEF x, q, r
  <2>5. (n + PointerSize * r) % PointerSize = n % PointerSize
    BY <1>4, <1>5, <2>3, Wraps
  <2>6. n % PointerSize = n
    BY <1>5, <2>1, Small
  <2> QED BY <2>4, <2>5, <2>6
<1>7. \A i \in 1 .. n : memory[(SnTX_RD + i - 1) % SSIZE] = written[i]
  <2> SUFFICES ASSUME NEW i \in 1 .. n
               PROVE  memory[(SnTX_RD + i - 1) % SSIZE] = written[i]
    OBVIOUS
  <2>1. SnTX_RD + i - 1 = SnTX_RD + (i - 1)
    BY <1>2, <1>4, <1>5
  <2> QED BY <1>3, <2>1
<1>8. sent' = [i \in 1 .. n |-> memory[(SnTX_RD + i - 1) % SSIZE]]
  BY <1>1, <1>6
<1>9. sent' = [i \in 1 .. n |-> written[i]]
  BY <1>7, <1>8
<1>10. sent' = written'
  BY <1>1, <1>4, <1>9
<1> QED BY <1>1, <1>2, <1>10 DEF SendInv

(* What does not change keeps the invariant. *)
LEMMA StutterSend ==
  ASSUME SendInv, UNCHANGED sendVars
  PROVE  SendInv'
  BY DEF SendInv, sendVars

(* So every step keeps it. *)
LEMMA NextSend == SendInv /\ MaxPacket <= SSIZE /\ [AllNext]_allVars => SendInv'
<1> SUFFICES ASSUME SendInv, MaxPacket <= SSIZE, [AllNext]_allVars
             PROVE  SendInv'
  OBVIOUS
<1>1. UNCHANGED sendVars \/ Udp!Sends
  BY DEF AllNext, OnSockets, OnRenewal, OnMixed, OnLookup, OnReceived, OnSent, allVars, udpVars
<1> QED BY <1>1, StutterSend, BeginSend, WriteSend, EndSend DEF Udp!Sends

(* A packet that is sent holds what was written to it, byte for byte, wherever the *)
(* pointers of the chip stand and however the bytes came in writes, as long as it  *)
(* fits into the buffer (EthernetUDP::beginPacket, write, endPacket; startUDP,     *)
(* bufferData, write_data).                                                        *)
THEOREM SentCorrect ==
  ASSUME MaxPacket <= SSIZE
  PROVE  AllSpec => []SentIsWritten
<1>1. AllInit => SendInv
  BY InitSend DEF AllInit
<1>2. SendInv => SentIsWritten
  BY DEF SendInv, SentIsWritten, Udp!SentIsWritten
<1>3. SendInv /\ [AllNext]_allVars => SendInv'
  BY NextSend
<1> QED BY <1>1, <1>2, <1>3, PTL DEF AllSpec

-----------------------------------------------------------------------------
(* Looking up a name. *)

(* The number of a lookup that begins now. *)
Now == msec % IdSize

(* An answer lives for less than the numbers take to come round: its number and *)
(* its age tell when it was asked for.                                           *)
Aged(m) ==
  LET then == Now - (MaxLife - m.left) IN m.id = then \/ m.id = then + IdSize

(* The answers that are under way. *)
Replies ==
  [id : 0 .. IdSize - 1, port : 0 .. PortCount - 1, left : 0 .. MaxLife,
   address : {Lookup!NoResult} \cup {Truth[name] : name \in DOMAIN Truth}]

(* The inductive invariant of a lookup: an answer that would be taken is one to the *)
(* name that is asked for.                                                          *)
LookupInv ==
  /\ msec \in 0 .. IdSize * PortCount - 1 /\ lookup \in BOOLEAN
  /\ \A m \in replies :
       /\ m \in Replies /\ Aged(m)
       /\ m.left = MaxLife => iRequestId = Now
       /\ lookup /\ m.id = iRequestId /\ m.address # Lookup!NoResult
            => aHostname \in DOMAIN Truth /\ m.address = Truth[aHostname]
  /\ ResolvedTruly

(* The address of a name that is numeric is the one it spells. *)
NumericTrue ==
  \A name \in Names :
    Lookup!inet_aton(name) # Lookup!NoResult =>
      name \in DOMAIN Truth /\ Truth[name] = Lookup!inet_aton(name)

(* What the assumption says of the constants of the lookup. *)
LEMMA LookupBounds ==
  /\ IdSize \in Nat \ {0} /\ PortCount \in Nat \ {0} /\ MaxLife \in Nat \ {0} /\ MaxLife < IdSize
  /\ IdSize * PortCount \in Nat \ {0} /\ (IdSize * PortCount) % IdSize = 0
<1>1. /\ IdSize \in Nat \ {0} /\ PortCount \in Nat \ {0} /\ MaxLife \in Nat \ {0}
      /\ MaxLife < IdSize
  BY EthernetAssumption DEF Lookup!DnsConstants
<1>2. (IdSize * PortCount + 0) % IdSize = 0
  BY <1>1, Quotients
<1>3. IdSize * PortCount \in Nat \ {0}
  BY <1>1
<1> QED BY <1>1, <1>2, <1>3

(* The number of now is one. *)
LEMMA NowRange == msec \in Nat => Now \in 0 .. IdSize - 1
  BY LookupBounds DEF Now

(* A count and its remainder come round together if the one size divides the other. *)
LEMMA ComesRound ==
  ASSUME NEW d \in Nat \ {0}, NEW all \in Nat \ {0}, all % d = 0, NEW n \in 0 .. all - 1
  PROVE  /\ (n + 1) % all \in 0 .. all - 1
         /\ ((n + 1) % all) % d = IF n % d = d - 1 THEN 0 ELSE (n % d) + 1
<1> DEFINE q == n \div d
           r == n % d
<1>1. q \in Int /\ r \in 0 .. d - 1 /\ n = d * q + r
  BY Quotient
<1> HIDE DEF q, r
<1>2. (n + 1) % d = IF r = d - 1 THEN 0 ELSE r + 1
  <2>1. CASE r = d - 1
    <3>1. d * (q + 1) = d * q + d /\ d * q \in Int
      BY <1>1, Products
    <3>2. n + 1 = d * (q + 1) + 0
      <4> DEFINE p == d * q
                 next == d * (q + 1)
      <4>1. next = p + d /\ p \in Int /\ n = p + r
        BY <1>1, <3>1
      <4> HIDE DEF p, next
      <4>2. n + 1 = next + 0
        BY <1>1, <2>1, <4>1
      <4> QED BY <4>2 DEF next
    <3>3. q + 1 \in Int /\ 0 \in 0 .. d - 1
      BY <1>1
    <3>4. (d * (q + 1) + 0) % d = 0
      BY <3>3, Quotients
    <3> QED BY <2>1, <3>2, <3>4
  <2>2. CASE r # d - 1
    <3>1. r + 1 \in 0 .. d - 1 /\ d * q \in Int
      BY <1>1, <2>2
    <3>2. (d * q + (r + 1)) % d = r + 1
      BY <1>1, <3>1, Quotients
    <3>3. n + 1 = d * q + (r + 1)
      BY <1>1, <3>1
    <3> QED BY <2>2, <3>2, <3>3
  <2> QED BY <2>1, <2>2
<1>3. (n + 1) % all = IF n + 1 = all THEN 0 ELSE n + 1
  <2>1. CASE n + 1 = all
    <3> DEFINE once == 1
    <3>1. once \in Int /\ 0 \in 0 .. all - 1 /\ all * once + 0 = all
      OBVIOUS
    <3> HIDE DEF once
    <3>2. (all * once + 0) % all = 0
      BY <3>1, Quotients
    <3> QED BY <2>1, <3>1, <3>2
  <2>2. CASE n + 1 # all
    <3>1. n + 1 \in 0 .. all - 1
      BY <2>2
    <3> QED BY <2>2, <3>1, Small
  <2> QED BY <2>1, <2>2
<1>4. 0 % d = 0
  BY Small
<1>5. (n + 1) % all \in 0 .. all - 1
  BY <1>3
<1>6. ((n + 1) % all) % d = (n + 1) % d
  BY <1>2, <1>3, <1>4
<1> QED BY <1>2, <1>5, <1>6 DEF r

(* So the numbers come round, with or without the clock. *)
LEMMA NowTicks ==
  ASSUME msec \in 0 .. IdSize * PortCount - 1, msec' = (msec + 1) % (IdSize * PortCount)
  PROVE  /\ Now' = IF Now = IdSize - 1 THEN 0 ELSE Now + 1
         /\ msec' \in 0 .. IdSize * PortCount - 1
<1> DEFINE all == IdSize * PortCount
           next == (msec + 1) % all
<1>1. IdSize \in Nat \ {0} /\ all \in Nat \ {0} /\ all % IdSize = 0 /\ msec \in 0 .. all - 1
  BY LookupBounds
<1>2. msec' = next
  OBVIOUS
<1> HIDE DEF all
<1>3. /\ next \in 0 .. all - 1
      /\ next % IdSize = IF msec % IdSize = IdSize - 1 THEN 0 ELSE (msec % IdSize) + 1
  BY <1>1, ComesRound
<1> HIDE DEF next
<1> QED BY <1>2, <1>3 DEF Now, all

(* The invariant holds before the first lookup. *)
LEMMA InitLookup == Lookup!Init => LookupInv
<1> SUFFICES ASSUME Lookup!Init
             PROVE  LookupInv
  OBVIOUS
<1>1. msec = 1 /\ lookup = FALSE /\ replies = {} /\ aResult = Lookup!NoResult
  BY DEF Lookup!Init
<1>2. 1 \in 0 .. IdSize * PortCount - 1
  <2>1. IdSize > 1 /\ IdSize \in Nat /\ PortCount \in Nat \ {0}
    BY LookupBounds
  <2>2. IdSize * 1 <= IdSize * PortCount /\ IdSize * 1 = IdSize /\ IdSize * PortCount \in Int
    BY <2>1
  <2> QED BY <2>1, <2>2
<1> QED BY <1>1, <1>2 DEF LookupInv, ResolvedTruly, Lookup!ResolvedTruly

(* An answer with the number of now was asked for in this millisecond. *)
LEMMA NumberOfNow ==
  ASSUME LookupInv, NEW m \in replies, m.id = Now
  PROVE  iRequestId = Now
<1>1. m \in Replies /\ Aged(m) /\ (m.left = MaxLife => iRequestId = Now)
  BY DEF LookupInv
<1>2. Now \in 0 .. IdSize - 1
  BY NowRange, LookupBounds DEF LookupInv
<1>3. m.left = MaxLife
  <2>1. m.left \in 0 .. MaxLife
    BY <1>1 DEF Replies
  <2> QED BY <1>1, <1>2, <2>1, LookupBounds DEF Aged
<1> QED BY <1>1, <1>3

(* A name that is numeric is not asked for. *)
LEMMA ConvertLookup ==
  ASSUME LookupInv, NumericTrue, NEW name \in Names, Lookup!Convert(name)
  PROVE  LookupInv'
<1>1. aHostname' = name /\ aResult' = Lookup!inet_aton(name) /\ ~lookup
      /\ UNCHANGED <<lookup, iRequestId, msec, replies>>
  BY DEF Lookup!Convert
<1>2. ResolvedTruly'
  BY <1>1 DEF NumericTrue, ResolvedTruly, Lookup!ResolvedTruly
<1>3. \A m : Aged(m)' <=> Aged(m)
  BY <1>1 DEF Aged, Now
<1>4. Now' = Now
  BY <1>1 DEF Now
<1> QED BY <1>1, <1>2, <1>3, <1>4 DEF LookupInv

(* A request that takes the number of now cannot find it on an answer from before, *)
(* unless that one was asked for in the same millisecond and is to the same name.  *)
LEMMA AskLookup ==
  ASSUME LookupInv, NEW name \in Names, Lookup!Ask(name)
  PROVE  LookupInv'
<1>1. /\ Now # iRequestId /\ iRequestId' = Now /\ aHostname' = name /\ aResult' = Lookup!NoResult
      /\ lookup' = TRUE /\ UNCHANGED msec
      /\ replies' = replies \/ \E m \in Lookup!Answers(Lookup!Question(name, iRequestId'),
         port') :
                                  replies' = replies \cup {m}
  BY DEF Lookup!Ask, Now
<1>2. Now \in 0 .. IdSize - 1 /\ Now' = Now
  BY <1>1, NowRange, LookupBounds DEF LookupInv, Now
<1>3. ResolvedTruly'
  BY <1>1 DEF ResolvedTruly, Lookup!ResolvedTruly
<1>4. ASSUME NEW m \in replies
      PROVE  /\ m \in Replies /\ Aged(m)'
             /\ m.id # iRequestId'
             /\ m.left # MaxLife
  <2>1. m \in Replies /\ Aged(m)
        /\ (m.left = MaxLife => iRequestId = Now)
    BY DEF LookupInv
  <2>2. Aged(m)'
    BY <1>2, <2>1 DEF Aged
  <2> QED BY <1>1, <2>1, <2>2, NumberOfNow
<1>5. ASSUME NEW m \in Lookup!Answers(Lookup!Question(name, iRequestId'), port')
      PROVE  /\ m \in Replies /\ Aged(m)'
             /\ m.address # Lookup!NoResult => name \in DOMAIN Truth /\ m.address = Truth[name]
  <2>1. m.id = Now /\ m.left = MaxLife
        /\ m.address \in {Lookup!NoResult} \cup
                           (IF name \in DOMAIN Truth THEN {Truth[name]} ELSE {})
    BY <1>1 DEF Lookup!Answers, Lookup!Question
  <2>2. Aged(m)'
    BY <1>2, <2>1, LookupBounds DEF Aged
  <2>3. port' \in 0 .. PortCount - 1
    BY LookupBounds DEF Lookup!Ask, LookupInv
  <2>4. m \in [id : {Now}, port : {port'}, left : {MaxLife}, address : {m.address}]
    BY <1>1, <2>1 DEF Lookup!Answers, Lookup!Question
  <2>5. m.address \in {Lookup!NoResult} \cup {Truth[other] : other \in DOMAIN Truth}
    BY <2>1
  <2>6. m \in Replies
    BY <1>2, <2>3, <2>4, <2>5, LookupBounds DEF Replies
  <2> QED BY <2>1, <2>2, <2>6
<1>6. msec' \in 0 .. IdSize * PortCount - 1 /\ lookup' \in BOOLEAN
  BY <1>1 DEF LookupInv
<1>7. ASSUME NEW m \in replies'
      PROVE  /\ m \in Replies /\ Aged(m)'
             /\ m.left = MaxLife => iRequestId' = Now'
             /\ lookup' /\ m.id = iRequestId' /\ m.address # Lookup!NoResult
                  => aHostname' \in DOMAIN Truth /\ m.address = Truth[aHostname']
  <2>1. CASE m \in replies
    BY <1>1, <1>2, <1>4, <2>1
  <2>2. CASE m \notin replies
    <3>1. m \in Lookup!Answers(Lookup!Question(name, iRequestId'), port')
      BY <1>1, <1>7, <2>2
    <3> QED BY <1>1, <1>2, <1>5, <3>1
  <2> QED BY <2>1, <2>2
<1> QED BY <1>3, <1>6, <1>7 DEF LookupInv

(* A lookup ends with the address of its name, or with none. *)
LEMMA EndLookup ==
  ASSUME LookupInv, NEW address, Lookup!Ends(address), replies' \subseteq replies,
         address # Lookup!NoResult => aHostname \in DOMAIN Truth /\ address = Truth[aHostname]
  PROVE  LookupInv'
<1>1. lookup' = FALSE /\ aResult' = address /\ UNCHANGED <<aHostname, iRequestId, msec>>
  BY DEF Lookup!Ends
<1>2. ResolvedTruly'
  BY <1>1 DEF ResolvedTruly, Lookup!ResolvedTruly
<1>3. Now' = Now /\ \A m : Aged(m)' <=> Aged(m)
  BY <1>1 DEF Aged, Now
<1> QED BY <1>1, <1>2, <1>3 DEF LookupInv

(* In a millisecond the answers age as the numbers go on. *)
LEMMA TickLookup ==
  ASSUME LookupInv, Lookup!Tick
  PROVE  LookupInv'
<1>1. /\ msec' = (msec + 1) % (IdSize * PortCount)
      /\ replies' = {[m EXCEPT !.left = @ - 1] : m \in {n \in replies : n.left > 0}}
      /\ UNCHANGED <<aHostname, aResult, lookup, iRequestId>>
  BY DEF Lookup!Tick
<1>2. ResolvedTruly' /\ lookup' \in BOOLEAN
  BY <1>1 DEF LookupInv, ResolvedTruly, Lookup!ResolvedTruly
<1>3. Now' = (IF Now = IdSize - 1 THEN 0 ELSE Now + 1) /\ msec' \in 0 .. IdSize * PortCount - 1
  BY <1>1, NowTicks DEF LookupInv
<1>4. Now \in 0 .. IdSize - 1
  BY NowRange, LookupBounds DEF LookupInv
<1>5. ASSUME NEW n \in replies'
      PROVE  /\ n \in Replies /\ Aged(n)'
             /\ n.left # MaxLife
             /\ lookup /\ n.id = iRequestId /\ n.address # Lookup!NoResult
                  => aHostname \in DOMAIN Truth /\ n.address = Truth[aHostname]
  <2>1. PICK m \in replies : m.left > 0 /\ n = [m EXCEPT !.left = @ - 1]
    BY <1>1
  <2>2. /\ m \in Replies /\ Aged(m)
        /\ lookup /\ m.id = iRequestId /\ m.address # Lookup!NoResult
             => aHostname \in DOMAIN Truth /\ m.address = Truth[aHostname]
    BY DEF LookupInv
  <2>3. n.id = m.id /\ n.left = m.left - 1 /\ n.address = m.address
    BY <2>1, <2>2 DEF Replies
  <2>4. m.left \in 0 .. MaxLife /\ n.left \in 0 .. MaxLife /\ n.left # MaxLife
    BY <2>1, <2>2, <2>3, LookupBounds DEF Replies
  <2>6. n \in Replies
    BY <2>1, <2>2, <2>3, <2>4 DEF Replies
  <2>5. Aged(n)'
    BY <1>3, <1>4, <2>1, <2>2, <2>3, <2>4, LookupBounds DEF Aged, Replies
  <2> QED BY <2>2, <2>3, <2>4, <2>5, <2>6
<1> QED BY <1>1, <1>2, <1>3, <1>5 DEF LookupInv

(* So every step keeps the invariant. *)
LEMMA NextLookup == LookupInv /\ NumericTrue /\ [AllNext]_allVars => LookupInv'
<1> SUFFICES ASSUME LookupInv, NumericTrue, [AllNext]_allVars
             PROVE  LookupInv'
  OBVIOUS
<1>1. UNCHANGED dnsVars \/ Lookup!Next
  BY DEF AllNext, OnSockets, OnRenewal, OnMixed, OnLookup, OnReceived, OnSent, allVars
<1>2. CASE UNCHANGED dnsVars
  <2>1. UNCHANGED <<aHostname, aResult, lookup, iRequestId, msec, replies>>
    BY <1>2 DEF dnsVars
  <2>2. Now' = Now /\ \A m : Aged(m)' <=> Aged(m)
    BY <2>1 DEF Aged, Now
  <2> QED BY <2>1, <2>2 DEF LookupInv, ResolvedTruly, Lookup!ResolvedTruly
<1>3. ASSUME NEW name \in Names, Lookup!Convert(name) \/ Lookup!Ask(name)
      PROVE  LookupInv'
  BY <1>3, ConvertLookup, AskLookup
<1>4. ASSUME NEW m \in replies, Lookup!Take(m)
      PROVE  LookupInv'
  <2>1. /\ lookup /\ replies' \subseteq replies
        /\ Lookup!Ends(IF m.id = iRequestId THEN m.address ELSE Lookup!NoResult)
    BY <1>4 DEF Lookup!Take, Lookup!Accepted
  <2> QED BY <2>1, EndLookup DEF LookupInv
<1>5. CASE Lookup!TakeForeign
  <2>1. Lookup!Ends(Lookup!NoResult) /\ replies' \subseteq replies
    BY <1>5 DEF Lookup!TakeForeign
  <2> QED BY <2>1, EndLookup
<1>6. CASE Lookup!WaitEnds
  <2>1. replies' = replies
    BY <1>6 DEF Lookup!WaitEnds
  <2>2. CASE Lookup!LastWait
    <3>1. Lookup!Ends(Lookup!NoResult)
      BY <1>6, <2>2 DEF Lookup!WaitEnds
    <3> QED BY <2>1, <3>1, EndLookup
  <2>3. CASE ~Lookup!LastWait
    <3>1. UNCHANGED <<aHostname, aResult, lookup, iRequestId, msec, replies>>
      BY <1>6, <2>1, <2>3 DEF Lookup!WaitEnds
    <3>2. Now' = Now /\ \A m : Aged(m)' <=> Aged(m)
      BY <3>1 DEF Aged, Now
    <3> QED BY <3>1, <3>2 DEF LookupInv, ResolvedTruly, Lookup!ResolvedTruly
  <2> QED BY <2>2, <2>3
<1>7. CASE Lookup!Tick
  BY <1>7, TickLookup
<1> QED BY <1>1, <1>2, <1>3, <1>4, <1>5, <1>6, <1>7 DEF Lookup!Next

(* A lookup that succeeds has found the address of the very name it was given,       *)
(* although the requests are told apart by nothing but a number made of the clock,   *)
(* answers are lost, late and overtaken, and the number comes round: no answer lives *)
(* as long as that takes (DNSClient::getHostByName, ProcessResponse).                *)
THEOREM LookupCorrect ==
  ASSUME NumericTrue
  PROVE  AllSpec => []ResolvedTruly
<1>1. AllInit => LookupInv
  BY InitLookup DEF AllInit
<1>2. LookupInv => ResolvedTruly
  BY DEF LookupInv
<1>3. LookupInv /\ [AllNext]_allVars => LookupInv'
  BY NextLookup
<1> QED BY <1>1, <1>2, <1>3, PTL DEF AllSpec
=============================================================================
