---------------------------------- MODULE Dhcp ----------------------------------
(***************************************************************************)
(* The DHCP client of the Ethernet library (DhcpNtp.cpp) under             *)
(* Ethernet.begin(mac) and Ethernet.maintain() (EthernetNtp.cpp).  A call  *)
(* blocks the program for as long as it asks; between calls two counters   *)
(* of seconds run down, by the time that maintain() finds has passed.      *)
(*                                                                         *)
(* Time is counted in ticks, several to a second, and millis() wraps.  A   *)
(* server is named by the one address it gives.  Servers and the net are   *)
(* external: a message is answered by any, some or none, and the answers   *)
(* come in any order, late, or never.  Masks, gateways and host names are  *)
(* left out.                                                               *)
(***************************************************************************)
EXTENDS Integers, FiniteSets

CONSTANTS
  Servers,
  NoAddress,         \* 0.0.0.0
  Leases,            \* [lease, t1, t2] that servers grant; 0 is an option not given
  DEFAULT_LEASE,
  Second,            \* ticks to a second
  MillisSize,        \* millis() counts modulo this
  TIMEOUT,           \* of a call, in ticks
  RESPONSE_TIMEOUT,  \* of an answer, in ticks
  MaxGap,            \* the program calls maintain() this often
  MaxInFlight,       \* bound on the answers under way
  MaxTries,          \* bound on the messages of a call that servers answer
  Horizon            \* bound on the time that is looked at, if less than MillisSize

(* Of a lease of one second the halves are 0 seconds, and it would be rebound  *)
(* in the call that renews it.                                                  *)
DhcpConstants ==
  /\ NoAddress \notin Servers
  /\ {Second, MillisSize, TIMEOUT, RESPONSE_TIMEOUT, MaxGap, MaxInFlight, MaxTries,
      Horizon} \subseteq Nat \ {0}
  /\ DEFAULT_LEASE \in Nat \ {0, 1}
  /\ \A l \in Leases : l.lease \in Nat \ {1} /\ l.t1 \in Nat /\ l.t2 \in Nat

ASSUME DhcpAssumption == DhcpConstants

VARIABLES
  _dhcp_state,
  xid,               \* transactions since _dhcpInitialTransactionId
  _dhcpLocalIp, _dhcpDhcpServerIp,
  _dhcpLeaseTime, _dhcpT1, _dhcpT2,
  _renewInSec, _rebindInSec,
  _lastCheck,        \* is it other than 0?
  _secTimeout,
  request,           \* the call that asks for a lease: "none", "begin", "renew" or "rebind"
  elapsed, waited,   \* ticks since request_DHCP_lease and parseDHCPResponse began
  localIp,           \* the address the W5500 uses
  millis,
  gap,               \* ticks since the last call returned
  answers,           \* answers under way
  granted,           \* the address last acknowledged to the client
  age                \* ticks since the lease was acknowledged

identity == <<_dhcpLocalIp, _dhcpDhcpServerIp>>
leased   == <<_dhcpLeaseTime, _dhcpT1, _dhcpT2>>
counters == <<_renewInSec, _rebindInSec>>
checks   == <<_lastCheck, _secTimeout>>
asking   == <<request, xid, elapsed, waited>>
dhcpVars == <<_dhcp_state, identity, leased, counters, checks, asking, localIp, millis, gap,
          answers, granted, age>>

Capped(n, most) == IF n < most THEN n ELSE most
MaxAge == MillisSize

(* begin(): new DhcpClass() is all zero, and begins to ask. *)
DhcpInit ==
  /\ request = "begin" /\ _dhcp_state = "START" /\ xid = 0 /\ elapsed = 0 /\ waited = 0
  /\ _dhcpLocalIp = NoAddress /\ _dhcpDhcpServerIp = NoAddress /\ localIp = NoAddress
  /\ _dhcpLeaseTime = 0 /\ _dhcpT1 = 0 /\ _dhcpT2 = 0
  /\ _renewInSec = 0 /\ _rebindInSec = 0 /\ _lastCheck = FALSE /\ _secTimeout = 0
  /\ millis = 1 /\ gap = 0 /\ answers = {} /\ granted = NoAddress /\ age = 0

-----------------------------------------------------------------------------
(* send_DHCP_MESSAGE *)
DhcpMessage(type, x, address, server) ==
  IF type = "REQUEST"
  THEN [type |-> type, xid |-> x, dhcpRequestedIPaddr |-> address,
        dhcpServerIdentifier |-> server]
  ELSE [type |-> type, xid |-> x]

(* The servers.  One that finds its own name in a request grants its own     *)
(* address and refuses another; the rest are silent.                          *)
NoLease == [lease |-> 0, t1 |-> 0, t2 |-> 0]
AnswersTo(q) ==
  IF q.xid > MaxTries THEN {}
  ELSE IF q.type = "DISCOVER"
  THEN [type : {"OFFER"}, xid : {q.xid}, from : Servers, lease : Leases]
  ELSE IF q.dhcpServerIdentifier = NoAddress THEN {}
  ELSE IF q.dhcpRequestedIPaddr = q.dhcpServerIdentifier
  THEN [type : {"ACK"}, xid : {q.xid}, from : {q.dhcpServerIdentifier}, lease : Leases]
  ELSE [type : {"NAK"}, xid : {q.xid}, from : {q.dhcpServerIdentifier}, lease : {NoLease}]

Sends(q, underway) ==
  \E B \in SUBSET AnswersTo(q) :
    /\ Cardinality(underway \cup B) <= MaxInFlight
    /\ answers' = underway \cup B

Lose ==
  /\ \E m \in answers : answers' = answers \ {m}
  /\ UNCHANGED <<_dhcp_state, identity, leased, counters, checks, asking, localIp, millis, gap,
                 granted, age>>

-----------------------------------------------------------------------------
(* The loop of request_DHCP_lease ends with a lease, or after the first pass *)
(* that ends past the timeout, whatever its state.                            *)
MutantOver == _dhcp_state = "LEASED"
Over == _dhcp_state = "LEASED" \/ (waited = 0 /\ elapsed > TIMEOUT)

Passes ==
  /\ request # "none" /\ ~Over /\ waited' = 0
  /\ UNCHANGED <<checks, request, elapsed, localIp, millis, gap>>

Discover ==
  /\ Passes /\ _dhcp_state = "START" /\ _dhcp_state' = "DISCOVER"
  /\ xid' = xid + 1
  /\ Sends(DhcpMessage("DISCOVER", xid', NoAddress, NoAddress), answers)
  /\ UNCHANGED <<identity, leased, counters, granted, age>>

Rerequest ==
  /\ Passes /\ _dhcp_state = "REREQUEST" /\ _dhcp_state' = "REQUEST"
  /\ xid' = xid + 1
  /\ Sends(DhcpMessage("REQUEST", xid', _dhcpLocalIp, _dhcpDhcpServerIp), answers)
  /\ UNCHANGED <<identity, leased, counters, granted, age>>

(* parseDHCPResponse, of a message whose transaction is one of this call's.  *)
(* Each sets the address; of the servers only the first is ever remembered;  *)
(* what the message does not give is left as it was.                          *)
Taken(m) == m.xid <= xid

MutantAddress(m) == IF m.type = "OFFER" THEN m.from ELSE _dhcpLocalIp
Address(m) == IF m.type = "NAK" THEN NoAddress ELSE m.from

Given(new, old) == IF new = 0 THEN old ELSE new

Waits == _dhcp_state \in {"DISCOVER", "REQUEST"}

Parse(m) ==
  /\ Waits /\ Passes /\ Taken(m)
  /\ _dhcpLocalIp' = Address(m)
  /\ _dhcpDhcpServerIp' = IF _dhcpDhcpServerIp = NoAddress THEN m.from ELSE _dhcpDhcpServerIp

StoreLease(m) ==
  /\ _dhcpLeaseTime' = Given(m.lease.lease, _dhcpLeaseTime)
  /\ _dhcpT1' = Given(m.lease.t1, _dhcpT1)
  /\ _dhcpT2' = Given(m.lease.t2, _dhcpT2)
  /\ _renewInSec' = Given(m.lease.lease, _renewInSec) /\ UNCHANGED _rebindInSec

TakeOffer(m) ==
  /\ _dhcp_state = "DISCOVER" /\ m.type = "OFFER" /\ Parse(m) /\ StoreLease(m)
  /\ _dhcp_state' = "REQUEST" /\ xid' = m.xid
  /\ Sends(DhcpMessage("REQUEST", m.xid, _dhcpLocalIp', _dhcpDhcpServerIp'), answers \ {m})
  /\ UNCHANGED <<granted, age>>

TakeAck(m) ==
  /\ _dhcp_state = "REQUEST" /\ m.type = "ACK" /\ Parse(m)
  /\ _dhcp_state' = "LEASED" /\ age' = 0 /\ granted' = m.from
  /\ _dhcpLeaseTime' = Given(Given(m.lease.lease, _dhcpLeaseTime), DEFAULT_LEASE)
  /\ _dhcpT1' = Given(Given(m.lease.t1, _dhcpT1), _dhcpLeaseTime' \div 2)
  /\ _dhcpT2' = Given(Given(m.lease.t2, _dhcpT2), _dhcpT1' * 2)
  /\ _renewInSec' = _dhcpT1' /\ _rebindInSec' = _dhcpT2'
  /\ answers' = answers \ {m} /\ UNCHANGED xid

TakeOther(m) ==
  /\ m.type # (IF _dhcp_state = "DISCOVER" THEN "OFFER" ELSE "ACK")
  /\ Parse(m) /\ StoreLease(m)
  /\ _dhcp_state' =
       IF _dhcp_state = "REQUEST" /\ m.type = "NAK" THEN "START" ELSE _dhcp_state
  /\ answers' = answers \ {m} /\ UNCHANGED <<xid, granted, age>>

(* Another's packet, or one of a transaction that is out of range, ends the  *)
(* wait and changes nothing.                                                  *)
TakeForeign ==
  /\ Waits /\ Passes
  /\ \/ UNCHANGED answers
     \/ \E m \in answers : ~Taken(m) /\ answers' = answers \ {m}
  /\ UNCHANGED <<_dhcp_state, xid, identity, leased, counters, granted, age>>

Silence ==
  /\ Waits /\ Passes /\ waited > RESPONSE_TIMEOUT /\ _dhcp_state' = "START"
  /\ UNCHANGED <<xid, identity, leased, counters, answers, granted, age>>

-----------------------------------------------------------------------------
(* request_DHCP_lease to its loop.  Without a socket it returns, and leaves   *)
(* the state as it is.                                                        *)
Asks(what, state) ==
  /\ request' \in {what, "none"} /\ _dhcp_state' = state
  /\ xid' = 0 /\ elapsed' = 0 /\ waited' = 0 /\ gap' = 0 /\ age' = 0

Rebinding(rebindIn) == _dhcp_state \in {"LEASED", "START"} /\ rebindIn <= 0

ResetLease == _dhcpLocalIp' = NoAddress /\ _dhcpDhcpServerIp' = NoAddress
Rebind == Asks("rebind", "START") /\ ResetLease

(* The W5500 gets the address of a new lease. *)
Configure == localIp' = IF _dhcp_state = "LEASED" THEN _dhcpLocalIp ELSE localIp

(* request_DHCP_lease returns: to the rest of checkLease if it was to renew,  *)
(* and then, from begin() or maintain(), to the program.                       *)
RequestReturns ==
  /\ request # "none" /\ Over
  /\ IF request = "renew" /\ Rebinding(_rebindInSec)
     THEN Rebind /\ UNCHANGED localIp
     ELSE /\ request' = "none" /\ xid' = 0 /\ elapsed' = 0 /\ waited' = 0 /\ gap' = 0
          /\ Configure /\ UNCHANGED <<_dhcp_state, identity, age>>
  /\ UNCHANGED <<leased, counters, checks, millis, answers, granted>>

Signed(n) ==
  LET m == n % MillisSize IN IF m < MillisSize \div 2 THEN m ELSE m - MillisSize

(* checkLease counts the seconds since the last one; what is left of less     *)
(* than two such steps is counted early rather than late.                      *)
MutantLess(counter, factor) == IF counter = 0 THEN 0 ELSE counter - 1
Less(counter, factor) == IF counter < factor * 2 THEN 0 ELSE counter - factor

CountDown ==
  LET late   == Signed(millis - _secTimeout)
      factor == late \div Second + 1
  IN  IF late >= 0
      THEN /\ _secTimeout' = (millis + Second - (late % Second)) % MillisSize
           /\ _renewInSec' = Less(_renewInSec, factor)
           /\ _rebindInSec' = Less(_rebindInSec, factor)
      ELSE UNCHANGED <<_secTimeout, counters>>

Maintain ==
  /\ request = "none" /\ _lastCheck' = (millis # 0)
  /\ IF _lastCheck THEN CountDown
     ELSE _secTimeout' = (millis + Second) % MillisSize /\ UNCHANGED counters
  /\ IF _lastCheck /\ _dhcp_state = "LEASED" /\ _renewInSec' <= 0
     THEN Asks("renew", "REREQUEST") /\ UNCHANGED identity
     ELSE IF _lastCheck /\ Rebinding(_rebindInSec')
     THEN Rebind
     ELSE gap' = 0 /\ UNCHANGED <<_dhcp_state, asking, identity, age>>
  /\ UNCHANGED <<leased, localIp, millis, answers, granted>>

Tick ==
  /\ millis < Horizon
  /\ IF request = "none"
     THEN gap < MaxGap /\ gap' = gap + 1 /\ UNCHANGED <<elapsed, waited>>
     ELSE /\ Waits /\ ~Over /\ waited <= RESPONSE_TIMEOUT /\ waited' = waited + 1
          /\ elapsed' = Capped(elapsed + 1, TIMEOUT + 1) /\ UNCHANGED gap
  /\ millis' = (millis + 1) % MillisSize
  /\ age' = IF _dhcp_state = "LEASED" THEN Capped(age + 1, MaxAge) ELSE 0
  /\ UNCHANGED <<_dhcp_state, identity, leased, counters, checks, request, xid, localIp,
                 answers, granted>>

InPass ==
  \/ Discover \/ Rerequest \/ Silence \/ RequestReturns
  \/ \E m \in answers : TakeOffer(m) \/ TakeAck(m) \/ TakeOther(m)

DhcpNext == InPass \/ TakeForeign \/ Maintain \/ Tick \/ Lose

-----------------------------------------------------------------------------
DhcpTypeOK ==
  /\ _dhcp_state \in {"START", "DISCOVER", "REQUEST", "LEASED", "REREQUEST"}
  /\ {_dhcpLocalIp, _dhcpDhcpServerIp, localIp, granted} \subseteq Servers \cup {NoAddress}
  /\ {_dhcpLeaseTime, _dhcpT1, _dhcpT2, xid, elapsed, waited, gap, age} \subseteq Nat
  /\ {_renewInSec, _rebindInSec} \subseteq Int
  /\ request \in {"none", "begin", "renew", "rebind"}
  /\ _lastCheck \in BOOLEAN /\ {millis, _secTimeout} \subseteq 0 .. MillisSize - 1
  /\ Cardinality(answers) <= MaxInFlight

(* Between calls the W5500 uses the address that was last acknowledged,        *)
(* however the offers and acknowledgements of servers, and those of earlier    *)
(* messages, are mixed.                                                         *)
AddressGranted == request = "none" => localIp = granted

(* However irregularly the program calls maintain(), a lease is renewed in     *)
(* time: the age of one that is not being renewed passes T1 by less than the   *)
(* two gaps that the counters miss, the last one and the one before the first  *)
(* check or after a check at which millis() was 0, and a second that such a     *)
(* check had begun to count.                                                    *)
RenewsInTime ==
  _dhcp_state = "LEASED" /\ request = "none" =>
    age < (_dhcpT1 + 1) * Second + 2 * MaxGap

(* What that takes: millis() goes round, 49 days, slowly enough that two calls *)
(* of the client and a gap are less than half of it, and that no T1 comes near *)
(* the whole.                                                                   *)
CallTime == TIMEOUT + RESPONSE_TIMEOUT + 1
Short(t1) == t1 \in Nat /\ (t1 + 1) * Second + 2 * MaxGap + 2 * CallTime <= MillisSize
RoundIsLong ==
  /\ 2 * CallTime + MaxGap <= MillisSize \div 2 /\ Second <= MillisSize \div 2
  /\ \A l \in Leases : Short(l.t1) /\ Short(l.lease \div 2)
  /\ Short(DEFAULT_LEASE \div 2)
=============================================================================
