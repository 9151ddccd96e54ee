---------------------------- MODULE EthernetSockets ----------------------------
(***************************************************************************)
(* The sockets of the W5500 and the objects of the library that share them *)
(* (EthernetClientNtp.cpp, EthernetServerNtp.cpp, EthernetUdpNtp.cpp,      *)
(* utility/socket.cpp).  No object owns a socket: each looks for one by    *)
(* the status in the chip, and the chip changes it whenever the peer or    *)
(* a timeout does.  The clock's own UDP socket is the first and is open;   *)
(* the sketch uses no other, a larger program would.                        *)
(***************************************************************************)
EXTENDS Naturals, FiniteSets

CONSTANTS
  MAX_SOCK_NUM,
  Ports,            \* the ports of the servers
  PeerInHaste       \* may a peer close a connection before connect() sees it?

ASSUME SocketsAssumption ==
  MAX_SOCK_NUM \in Nat \ {0} /\ Ports \subseteq Nat \ {0} /\ PeerInHaste \in BOOLEAN

VARIABLES
  status,           \* SnSR of each socket
  _server_port,     \* EthernetClass::_server_port of each socket
  rx,               \* a socket has unread data
  client,           \* _sock of a client that connects, MAX_SOCK_NUM if it has none
  held,             \* _sock of the client that a server returned
  resolver,         \* _sock of a UDP object of DNS or DHCP
  call,             \* the call that is waiting, or "none"
  sock,             \* the socket it waits for
  scan, listening, serving   \* accept(): the next socket, what it saw, for which port

acceptVars == <<scan, listening, serving>>
chip       == <<status, rx>>
handles    == <<client, held, resolver>>
vars == <<chip, _server_port, handles, call, sock, acceptVars>>

Sockets == 0 .. MAX_SOCK_NUM - 1
Ntp     == 0
Statuses ==
  {"CLOSED", "INIT", "LISTEN", "SYNSENT", "ESTABLISHED", "FIN_WAIT", "CLOSE_WAIT", "LAST_ACK",
   "UDP"}

With(st) == {s \in Sockets : status[s] \in st}
Lowest(S) == {s \in S : \A t \in S : s <= t}

Init ==
  /\ status = [s \in Sockets |-> IF s = Ntp THEN "UDP" ELSE "CLOSED"]
  /\ _server_port = [s \in Sockets |-> 0] /\ rx = [s \in Sockets |-> FALSE]
  /\ client = MAX_SOCK_NUM /\ held = MAX_SOCK_NUM /\ resolver = MAX_SOCK_NUM
  /\ call = "none" /\ sock = MAX_SOCK_NUM
  /\ scan = 0 /\ listening = FALSE /\ serving = 0

-----------------------------------------------------------------------------
(* socket() closes the socket and opens it, which empties it. *)
Open(s, st) ==
  /\ status' = [status EXCEPT ![s] = st]
  /\ rx' = [rx EXCEPT ![s] = FALSE]

Close(s) == Open(s, "CLOSED")

(* The sockets that connect() takes: one of a peer that has closed is among  *)
(* them, whether it was read or not, and whosever it was.                     *)
MutantFreeForClient == With(Statuses \ {"LISTEN", "ESTABLISHED"})
FreeForClient == With({"CLOSED", "FIN_WAIT", "CLOSE_WAIT"})
FreeForUdp    == With({"CLOSED", "FIN_WAIT"})

(* ::connect: an address that it refuses leaves the socket open, and no one   *)
(* has it.                                                                     *)
Dial(s) ==
  \/ Open(s, "SYNSENT") /\ client' = s /\ call' = "connecting" /\ sock' = s
  \/ Open(s, "INIT") /\ UNCHANGED <<client, call, sock>>

(* EthernetClient::connect: _server_port keeps its value. *)
Connect ==
  /\ call = "none" /\ client = MAX_SOCK_NUM
  /\ \E s \in Lowest(FreeForClient) : Dial(s)
  /\ UNCHANGED <<_server_port, held, resolver, acceptVars>>

Return == call' = "none" /\ sock' = MAX_SOCK_NUM

ConnectEnds ==
  /\ call = "connecting" /\ status[sock] \in {"ESTABLISHED", "CLOSED"}
  /\ Return
  /\ client' = IF status[sock] = "CLOSED" THEN MAX_SOCK_NUM ELSE client
  /\ UNCHANGED <<chip, _server_port, held, resolver, acceptVars>>

(* EthernetClient::connected, which the program asks before it writes. *)
Connected(h) ==
  /\ h # MAX_SOCK_NUM
  /\ status[h] \notin {"LISTEN", "CLOSED", "FIN_WAIT"} /\ (status[h] = "CLOSE_WAIT" => rx[h])

(* send() to the wait for SEND_OK; the loop for free space is part of it. *)
Write ==
  /\ call = "none"
  /\ \E h \in {client, held} : Connected(h) /\ sock' = h
  /\ call' = "sending"
  /\ UNCHANGED <<chip, _server_port, handles, acceptVars>>

SendEnds ==
  /\ call = "sending" /\ Return
  /\ \/ status[sock] \in {"ESTABLISHED", "CLOSE_WAIT", "UDP"} /\ UNCHANGED chip
     \/ status[sock] = "CLOSED" /\ Close(sock)
  /\ UNCHANGED <<_server_port, handles, acceptVars>>

(* recv() of all that has come. *)
Read ==
  /\ call = "none"
  /\ \E h \in {client, held} \ {MAX_SOCK_NUM} : rx[h] /\ rx' = [rx EXCEPT ![h] = FALSE]
  /\ UNCHANGED <<status, _server_port, handles, call, sock, acceptVars>>

-----------------------------------------------------------------------------
AfterDisconnect(st) ==
  CASE st = "ESTABLISHED" -> "FIN_WAIT" [] st = "CLOSE_WAIT" -> "LAST_ACK" [] OTHER -> st

Disconnect(s) == status' = [status EXCEPT ![s] = AfterDisconnect(@)] /\ UNCHANGED rx

(* EthernetClient::stop: a second for the connection to close, then close(). *)
Stop ==
  /\ call = "none"
  /\ \E h \in {client, held} \ {MAX_SOCK_NUM} : Disconnect(h) /\ sock' = h
  /\ call' = "stopping"
  /\ UNCHANGED <<_server_port, handles, acceptVars>>

StopEnds ==
  /\ call \in {"stopping", "stopping in accept"}
  /\ IF status[sock] = "CLOSED" THEN UNCHANGED chip ELSE Close(sock)
  /\ _server_port' = [_server_port EXCEPT ![sock] = 0]
  /\ \/ /\ call = "stopping" /\ Return /\ UNCHANGED scan
        /\ \/ client = sock /\ client' = MAX_SOCK_NUM /\ UNCHANGED held
           \/ held = sock /\ held' = MAX_SOCK_NUM /\ UNCHANGED client
     \/ /\ call = "stopping in accept" /\ call' = "accepting" /\ scan' = scan + 1
        /\ sock' = MAX_SOCK_NUM /\ UNCHANGED <<client, held>>
  /\ UNCHANGED <<resolver, listening, serving>>

(* The program lets go of a server's client without stopping it. *)
DropHeld ==
  /\ call = "none" /\ held # MAX_SOCK_NUM /\ held' = MAX_SOCK_NUM
  /\ UNCHANGED <<chip, _server_port, client, resolver, call, sock, acceptVars>>

(* EthernetUDP::begin and stop, around a lookup or a lease. *)
ResolverBegins ==
  /\ call = "none" /\ resolver = MAX_SOCK_NUM
  /\ \E s \in Lowest(FreeForUdp) : resolver' = s /\ Open(s, "UDP")
  /\ UNCHANGED <<_server_port, client, held, call, sock, acceptVars>>

ResolverStops ==
  /\ call = "none" /\ resolver # MAX_SOCK_NUM
  /\ Close(resolver) /\ _server_port' = [_server_port EXCEPT ![resolver] = 0]
  /\ resolver' = MAX_SOCK_NUM
  /\ UNCHANGED <<client, held, call, sock, acceptVars>>

-----------------------------------------------------------------------------
(* EthernetServer::available: accept() looks at every socket of its port. *)
MutantOwn(s) == _server_port[s] # 0
Own(s) == _server_port[s] = serving

Available(p) ==
  /\ call = "none" /\ call' = "accepting"
  /\ serving' = p
  /\ UNCHANGED <<chip, _server_port, handles, sock, scan, listening>>

Look ==
  /\ call = "accepting" /\ scan < MAX_SOCK_NUM
  /\ IF Own(scan) /\ status[scan] = "CLOSE_WAIT" /\ ~rx[scan]
     THEN /\ Disconnect(scan) /\ call' = "stopping in accept" /\ sock' = scan
          /\ UNCHANGED <<scan, listening>>
     ELSE /\ listening' = (listening \/ (Own(scan) /\ status[scan] = "LISTEN"))
          /\ scan' = scan + 1
          /\ UNCHANGED <<chip, call, sock>>
  /\ UNCHANGED <<_server_port, handles, serving>>

(* begin() opens a socket if none listens and one is closed. *)
Begin ==
  IF ~listening /\ With({"CLOSED"}) # {}
  THEN \E s \in Lowest(With({"CLOSED"})) :
         Open(s, "LISTEN") /\ _server_port' = [_server_port EXCEPT ![s] = serving]
  ELSE UNCHANGED <<chip, _server_port>>

(* The lowest socket with data is returned. *)
Waiting ==
  {s \in Sockets : /\ _server_port'[s] = serving /\ rx'[s]
                   /\ status'[s] \in {"ESTABLISHED", "CLOSE_WAIT"}}

AcceptEnds ==
  /\ call = "accepting" /\ scan = MAX_SOCK_NUM /\ Return
  /\ scan' = 0 /\ listening' = FALSE /\ serving' = 0
  /\ Begin
  /\ IF Waiting = {} THEN UNCHANGED held ELSE held' \in Lowest(Waiting)
  /\ UNCHANGED <<client, resolver>>

-----------------------------------------------------------------------------
(* What peers, and the chip's own timeouts, do to a socket. *)
Becomes(s, st) ==
  /\ status' = [status EXCEPT ![s] = st]
  /\ UNCHANGED <<rx, _server_port, handles, call, sock, acceptVars>>

PeerConnects(s) == status[s] = "LISTEN" /\ Becomes(s, "ESTABLISHED")
PeerAnswers(s)  == status[s] = "SYNSENT" /\ \E st \in {"ESTABLISHED", "CLOSED"} : Becomes(s, st)
PeerResets(s)   == status[s] \in {"ESTABLISHED", "CLOSE_WAIT"} /\ Becomes(s, "CLOSED")
ClosingEnds(s)  == status[s] \in {"FIN_WAIT", "LAST_ACK"} /\ Becomes(s, "CLOSED")
PeerCloses(s) ==
  /\ status[s] = "ESTABLISHED" /\ (call = "connecting" /\ sock = s => PeerInHaste)
  /\ Becomes(s, "CLOSE_WAIT")
DataArrives(s) ==
  /\ status[s] = "ESTABLISHED" /\ ~rx[s] /\ rx' = [rx EXCEPT ![s] = TRUE]
  /\ UNCHANGED <<status, _server_port, handles, call, sock, acceptVars>>

Peers == \E s \in Sockets : \/ PeerConnects(s) \/ PeerAnswers(s) \/ PeerResets(s)
                            \/ ClosingEnds(s) \/ PeerCloses(s) \/ DataArrives(s)

InCall == ConnectEnds \/ SendEnds \/ StopEnds \/ Look \/ AcceptEnds

(* The chip's answer, or its timeout, to the socket that a call waits for. *)
Settles == sock \in Sockets /\ (PeerAnswers(sock) \/ ClosingEnds(sock))

Next ==
  \/ Connect \/ Write \/ Read \/ Stop \/ DropHeld \/ ResolverBegins \/ ResolverStops
  \/ \E p \in Ports : Available(p)
  \/ InCall \/ Peers

-----------------------------------------------------------------------------
TypeOK ==
  /\ status \in [Sockets -> Statuses] /\ rx \in [Sockets -> BOOLEAN]
  /\ _server_port \in [Sockets -> Ports \cup {0}]
  /\ {client, held, resolver, sock} \subseteq Sockets \cup {MAX_SOCK_NUM}
  /\ call \in {"none", "connecting", "sending", "stopping", "stopping in accept", "accepting"}
  /\ scan \in 0 .. MAX_SOCK_NUM /\ listening \in BOOLEAN /\ serving \in Ports \cup {0}

(* Whatever the connections do, and although a handle may be older than the  *)
(* connection its socket carries, no call closes or takes the clock's UDP     *)
(* socket.                                                                     *)
UdpKept == status[Ntp] = "UDP"

(* A call that waits for the chip comes back, if the program asks connected() *)
(* before it writes; but for a socket that a refused connect() left open       *)
(* under an older handle.                                                       *)
Refused == call = "sending" /\ status[sock] = "INIT"
Pending == call # "none" /\ ~Refused

(* A program that asks each of its servers in turn has each heard: it listens  *)
(* again and again, while a socket is closed, though the chip takes the        *)
(* listening socket away at every connection.                                   *)
Heard(p) ==
  \/ \E s \in Sockets : status[s] = "LISTEN" /\ _server_port[s] = p
  \/ With({"CLOSED"}) = {}

(* A server takes no other connection than one it accepted: violated, for     *)
(* connect() leaves _server_port as it was.                                    *)
OwnPeersOnly == client # MAX_SOCK_NUM /\ call = "none" => _server_port[client] = 0
=============================================================================
