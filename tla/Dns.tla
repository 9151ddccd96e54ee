---------------------------------- MODULE Dns -----------------------------------
(***************************************************************************)
(* The lookup of a name (DnsNtp.cpp): a numeric address is converted, for  *)
(* another name the server is asked once and waited for three times.       *)
(*                                                                         *)
(* A name is a sequence of labels, a label a sequence of the differences   *)
(* of its characters to the character 0.  Of an answer there are its       *)
(* identifier, its port and the first address in it, if it has one.  The   *)
(* server and the net are external: answers are late, lost or doubled, but *)
(* none lives as long as the identifiers take to come round.               *)
(***************************************************************************)
EXTENDS Integers, Sequences, FiniteSets, SequencesExt

CONSTANTS
  Names,
  Truth,             \* the address of each name that has one, of four bytes
  IntSize,           \* int counts modulo this
  IdSize,            \* iRequestId does
  PortCount,         \* the number of ports that a lookup may use
  WAIT,              \* milliseconds that ProcessResponse waits
  MaxLife,           \* bound on the life of an answer, in milliseconds
  MaxReplies         \* bound on the answers under way

DnsConstants ==
  /\ {IntSize, IdSize, PortCount, WAIT, MaxLife, MaxReplies} \subseteq Nat \ {0}
  /\ MaxLife < IdSize /\ DOMAIN Truth \subseteq Names

VARIABLES
  aHostname,         \* the name of the last lookup
  aResult,           \* its address, or NoResult
  lookup,            \* does it wait?
  iRequestId, port,
  wait_retries, waitedFor,
  msec,              \* millis()
  replies            \* answers under way

waiting == <<wait_retries, waitedFor>>
vars == <<aHostname, aResult, lookup, iRequestId, port, waiting, msec, replies>>

NoResult == <<>>

Init ==
  /\ aHostname \in Names /\ aResult = NoResult /\ lookup = FALSE
  /\ iRequestId = 0 /\ port = 0 /\ wait_retries = 0 /\ waitedFor = 0
  /\ msec = 1 /\ replies = {}

-----------------------------------------------------------------------------
(* inet_aton.  Its test for characters that are not in an address lets all   *)
(* of them pass, so that it is the value of the labels that decides.          *)
Wrapped(n) ==
  LET m == n % IntSize IN IF m < IntSize \div 2 THEN m ELSE m - IntSize

SegmentValue(label) == FoldLeft(LAMBDA v, c : Wrapped(v * 10 + c), 0, label)

inet_aton(name) ==
  IF Len(name) <= 4 /\ \A i \in DOMAIN name : SegmentValue(name[i]) <= 255
  THEN [i \in 1 .. 4 |-> IF i <= Len(name) THEN SegmentValue(name[i]) % 256 ELSE 0]
  ELSE NoResult

-----------------------------------------------------------------------------
(* getHostByName of a numeric address, or without a socket. *)
Convert(name) ==
  /\ ~lookup /\ aHostname' = name /\ aResult' = inet_aton(name)
  /\ UNCHANGED <<lookup, iRequestId, port, waiting, msec, replies>>

(* BuildRequest *)
Question(name, id) == [iRequestId |-> id, aName |-> name]

Answers(q, p) ==
  [id : {q.iRequestId}, port : {p}, left : {MaxLife},
   address : {NoResult} \cup (IF q.aName \in DOMAIN Truth THEN {Truth[q.aName]} ELSE {})]

(* getHostByName up to its wait, in another millisecond than the last one.    *)
Ask(name) ==
  /\ ~lookup /\ inet_aton(name) = NoResult /\ msec % IdSize # iRequestId
  /\ aHostname' = name /\ aResult' = NoResult /\ lookup' = TRUE
  /\ iRequestId' = msec % IdSize /\ port' = msec % PortCount
  /\ wait_retries' = 0 /\ waitedFor' = 0
  /\ replies' \in {replies} \cup
       {replies \cup {m} : m \in {n \in Answers(Question(name, iRequestId'), port') :
                                    Cardinality(replies) < MaxReplies}}
  /\ UNCHANGED msec

Ends(address) ==
  /\ lookup' = FALSE /\ aResult' = address /\ wait_retries' = 0 /\ waitedFor' = 0
  /\ UNCHANGED <<aHostname, iRequestId, port, msec>>

(* ProcessResponse: the first packet ends the lookup, whatever it is.          *)
MutantAccepted(m) == TRUE
Accepted(m) == m.id = iRequestId

Take(m) ==
  /\ lookup /\ m.port = port
  /\ Ends(IF Accepted(m) THEN m.address ELSE NoResult)
  /\ replies' \in {replies, replies \ {m}}

TakeForeign == lookup /\ Ends(NoResult) /\ UNCHANGED replies

LastWait == wait_retries = 2

WaitEnds ==
  /\ lookup /\ waitedFor > WAIT
  /\ IF LastWait THEN Ends(NoResult)
     ELSE /\ wait_retries' = wait_retries + 1 /\ waitedFor' = 0
          /\ UNCHANGED <<aHostname, aResult, lookup, iRequestId, port, msec>>
  /\ UNCHANGED replies

Tick ==
  /\ IF lookup THEN waitedFor <= WAIT /\ waitedFor' = waitedFor + 1 ELSE UNCHANGED waitedFor
  /\ msec' = (msec + 1) % (IdSize * PortCount)
  /\ replies' = {[m EXCEPT !.left = @ - 1] : m \in {n \in replies : n.left > 0}}
  /\ UNCHANGED <<aHostname, aResult, lookup, iRequestId, port, wait_retries>>

Next ==
  \/ \E name \in Names : Convert(name) \/ Ask(name)
  \/ \E m \in replies : Take(m)
  \/ TakeForeign \/ WaitEnds \/ Tick

-----------------------------------------------------------------------------
TypeOK ==
  /\ aHostname \in Names /\ lookup \in BOOLEAN
  /\ iRequestId \in 0 .. IdSize - 1 /\ port \in 0 .. PortCount - 1
  /\ wait_retries \in 0 .. 2 /\ waitedFor \in 0 .. WAIT + 1
  /\ Cardinality(replies) <= MaxReplies

(* A lookup that succeeds gives the address of its name: what comes late for  *)
(* another name on the same port is not taken for it, and the conversion of   *)
(* numeric addresses takes the names that it should.                           *)
ResolvedTruly ==
  aResult # NoResult => aHostname \in DOMAIN Truth /\ aResult = Truth[aHostname]
=============================================================================
