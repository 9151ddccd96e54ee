------------------------------ MODULE EthernetUdp ------------------------------
(***************************************************************************)
(* The datagrams of a UDP object in the W5500's two buffers                *)
(* (EthernetUdpNtp.cpp, utility/socket.cpp, utility/w5500.cpp).            *)
(*                                                                         *)
(* Datagrams arrive at any moment, each behind a header of its length.  The *)
(* size of what is there is a register of two bytes, read one after the    *)
(* other, so that an arrival between them tears it.  A byte is named by its *)
(* place in its datagram.                                                   *)
(*                                                                         *)
(* What is to be sent is written in pieces, at an offset from the write    *)
(* pointer.  The code adds the offset to the pointer it reads each time,    *)
(* so the chip has to read back the old one until the datagram is sent.     *)
(***************************************************************************)
EXTENDS Integers, FiniteSets, SequencesExt

CONSTANTS
  Lengths,       \* of the datagrams that arrive
  HEADER,        \* bytes before a datagram: 8
  RSIZE, SSIZE,  \* the buffers
  Half,          \* values of half a register
  Sizes,         \* of the program's buffer, when it reads, and of the pieces that it writes
  PointerSize,   \* values of the write pointer, a multiple of SSIZE
  MaxPacket      \* bound: what is written to a datagram; the code has none

UdpConstants ==
  /\ Lengths \subseteq Nat /\ Sizes \subseteq Nat \ {0}
  /\ {HEADER, RSIZE, SSIZE, Half, PointerSize} \subseteq Nat \ {0}
  /\ PointerSize % SSIZE = 0 /\ PointerSize > SSIZE
  /\ MaxPacket \in Nat

VARIABLES
  received,      \* the bytes from SnRX_RD to the end
  recvIr,        \* SnIR::RECV
  _remaining,
  doing, want,   \* the recv() that is under way, and how much it is to read
  reading, high, val1, val,   \* getRXReceivedSize
  open,          \* history: between beginPacket and endPacket
  _offset,
  SnTX_RD, SnTX_WR, memory,
  written, sent  \* history: what the program wrote since beginPacket, what endPacket sent

sizeVars    == <<reading, high, val1, val>>
receiveVars == <<received, recvIr, _remaining, doing, want, sizeVars>>
sendVars    == <<open, _offset, SnTX_RD, SnTX_WR, memory, written, sent>>

Less(n, m) == IF n < m THEN n ELSE m

NoByte == <<"none", 0>>

UdpInit ==
  /\ received = <<>> /\ recvIr = FALSE /\ _remaining = 0
  /\ doing = "none" /\ want = 0
  /\ reading = "val1" /\ high = -1 /\ val1 = 0 /\ val = 0
  /\ open = FALSE /\ _offset = 0 /\ SnTX_RD = 0 /\ SnTX_WR = 0
  /\ memory = [a \in 0 .. SSIZE - 1 |-> NoByte]
  /\ written = <<>> /\ sent = <<>>

-----------------------------------------------------------------------------
(* The chip: a datagram that has room is added whole, behind its header.     *)

Datagram(length) == [i \in 1 .. HEADER + length |-> [of |-> length, at |-> i - 1]]

Arrive ==
  /\ \E length \in Lengths :
       /\ Len(received) + HEADER + length <= RSIZE
       /\ received' = received \o Datagram(length)
  /\ recvIr' = TRUE
  /\ UNCHANGED <<_remaining, doing, want, sizeVars>>

-----------------------------------------------------------------------------
(* getRXReceivedSize: until two values agree, or both are none.              *)

ReadSize == reading' = "val1" /\ high' = -1 /\ val1' = 0 /\ val' = 0

ReadHigh ==
  /\ reading \in {"val1", "val"} /\ high = -1
  /\ high' = Len(received) \div Half
  /\ UNCHANGED <<reading, val1, val>>

MutantAfterVal1(value) ==   \* one reading is enough
  val' = value /\ reading' = "done"

AfterVal1(value) ==
  /\ reading' = IF value # 0 THEN "val" ELSE IF val = 0 THEN "done" ELSE "val1"
  /\ val' = val

AfterVal(value) == reading' = (IF value = val1 THEN "done" ELSE "val1") /\ val' = value

ReadLow ==
  /\ reading \in {"val1", "val"} /\ high # -1
  /\ high' = -1
  /\ LET value == high * Half + (Len(received) % Half)
     IN  \/ reading = "val1" /\ val1' = value /\ AfterVal1(value)
         \/ reading = "val" /\ UNCHANGED val1 /\ AfterVal(value)

GetReceivedSize ==
  /\ doing # "none"
  /\ ReadHigh \/ ReadLow
  /\ UNCHANGED <<received, recvIr, _remaining, doing, want>>

-----------------------------------------------------------------------------
(* recv(): as much as was asked for, or as there is.                         *)

Got == Less(val, want)

Recv(what, length) == doing' = what /\ want' = length /\ ReadSize

Returns == Recv("none", 0)

(* The bytes are copied and given back to the chip. *)
TakeBytes == received' = SubSeq(received, Got + 1, Len(received))

(* RECV is cleared with a datagram's last byte, whatever has come since. *)
CountBytes ==
  /\ _remaining' = _remaining - Got
  /\ recvIr' = (recvIr /\ _remaining' # 0)

ParsePacket ==
  /\ doing = "none"
  /\ IF _remaining > 0 THEN Recv("flush", 1) ELSE Recv("parsePacket", 0)
  /\ UNCHANGED <<received, recvIr, _remaining>>

(* flush() reads byte by byte, as long as it takes; it clears RECV once more, *)
(* which is as if the last read had done it.                                   *)
FlushByte ==
  /\ doing = "flush" /\ reading = "done"
  /\ IF Got = 0
       THEN UNCHANGED <<received, recvIr, _remaining>>
       ELSE TakeBytes /\ CountBytes
  /\ IF _remaining' > 0 THEN Recv("flush", 1) ELSE Recv("parsePacket", 0)

AnyPacket ==
  /\ doing = "parsePacket" /\ reading = "done"
  /\ IF val > 0 THEN Recv("header", HEADER) ELSE Returns
  /\ UNCHANGED <<received, recvIr, _remaining>>

(* The length is the header's last two bytes; where they were not read, it is *)
(* whatever the buffer held.                                                    *)
TakeHeader ==
  /\ doing = "header" /\ reading = "done"
  /\ TakeBytes /\ UNCHANGED recvIr
  /\ IF Got = 0 THEN UNCHANGED _remaining
     ELSE IF Got = HEADER THEN _remaining' = received[HEADER].of
     ELSE _remaining' \in 0 .. RSIZE
  /\ Returns

Read ==
  /\ doing = "none" /\ _remaining > 0
  /\ \E len \in Sizes : Recv("read", Less(_remaining, len))
  /\ UNCHANGED <<received, recvIr, _remaining>>

ReadEnds ==
  /\ doing = "read" /\ reading = "done"
  /\ IF Got = 0
       THEN UNCHANGED <<received, recvIr, _remaining>>
       ELSE TakeBytes /\ CountBytes
  /\ Returns

InRecv == GetReceivedSize \/ FlushByte \/ AnyPacket \/ TakeHeader \/ ReadEnds

Receives == Arrive \/ ParsePacket \/ Read \/ InRecv

-----------------------------------------------------------------------------
(* The program writes datagrams one after the other, each in pieces, and may  *)
(* leave one unsent.                                                          *)

MutantBeginPacket ==   \* writes on where it had got to
  /\ open' = TRUE
  /\ written' = <<>> /\ sent' = <<>>
  /\ UNCHANGED <<_offset, SnTX_RD, SnTX_WR, memory>>

BeginPacket ==
  /\ _offset' = 0
  /\ open' = TRUE
  /\ written' = <<>> /\ sent' = <<>>
  /\ UNCHANGED <<SnTX_RD, SnTX_WR, memory>>

Place(pointer) == pointer % SSIZE

(* All of the buffer is free when nothing is being sent. *)
Write ==
  /\ open
  /\ \E size \in Sizes, mark \in {"a", "b"} :
       LET len == Less(size, SSIZE)
           ptr == (SnTX_RD + _offset) % PointerSize
           byte(i) == <<mark, Len(written) + i>>
       IN  /\ Len(written) + len <= MaxPacket
           /\ memory' = [a \in 0 .. SSIZE - 1 |->
                           LET i == (a - ptr) % SSIZE IN IF i < len THEN byte(i) ELSE memory[a]]
           /\ SnTX_WR' = (ptr + len) % PointerSize
           /\ written' = written \o [i \in 1 .. len |-> byte(i - 1)]
           /\ _offset' = _offset + len
  /\ UNCHANGED <<open, SnTX_RD, sent>>

EndPacket ==
  /\ open /\ written # <<>>
  /\ open' = FALSE
  /\ sent' = [i \in 1 .. (SnTX_WR - SnTX_RD) % PointerSize |-> memory[Place(SnTX_RD + i - 1)]]
  /\ SnTX_RD' = SnTX_WR
  /\ UNCHANGED <<_offset, SnTX_WR, memory, written>>

Sends == BeginPacket \/ Write \/ EndPacket

-----------------------------------------------------------------------------
UdpTypeOK ==
  /\ Len(received) <= RSIZE /\ recvIr \in BOOLEAN
  /\ _remaining \in 0 .. RSIZE /\ want \in 0 .. RSIZE
  /\ doing \in {"none", "flush", "parsePacket", "header", "read"}
  /\ reading \in {"val1", "val", "done"}
  /\ high \in -1 .. RSIZE \div Half /\ {val1, val} \subseteq 0 .. RSIZE
  /\ open \in BOOLEAN /\ _offset \in 0 .. MaxPacket
  /\ {SnTX_RD, SnTX_WR} \subseteq 0 .. PointerSize - 1

(* Whatever arrives while the driver reads, and although the size that it     *)
(* reads may be torn: what remains of a datagram is its end, and after it     *)
(* comes a header.                                                            *)
DatagramsApart ==
  doing = "none" =>
    /\ _remaining = 0 => received = <<>> \/ received[1].at = 0
    /\ _remaining > 0 =>
         /\ _remaining <= Len(received)
         /\ \A i \in 1 .. _remaining :
              received[i] = [of |-> received[1].of, at |-> HEADER + received[1].of - _remaining + i - 1]

(* A datagram that is sent is what was written to it since beginPacket, in    *)
(* pieces and across the end of the buffer, and whatever was left unsent      *)
(* before; violated if more is written than the buffer holds.                 *)
SentIsWritten == sent # <<>> => sent = written

(* "this should clear the interrupt" (StratumTen.ino:637): violated when a     *)
(* datagram is empty, whose RECV nothing clears.                               *)
RecvCleared == doing = "none" /\ _remaining = 0 /\ received = <<>> => ~recvIr

(* read() finds what remains: violated when an arrival tears the size to 0.    *)
ReadsWhatRemains == [][doing = "read" /\ doing' = "none" => _remaining' < _remaining]_receiveVars
=============================================================================
