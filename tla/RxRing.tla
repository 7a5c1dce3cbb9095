------------------------------- MODULE RxRing -------------------------------
(***************************************************************************)
(* How a packet gets from the network card into rx_queue: the card stores  *)
(* packets in the ring at the front of rx_buffer while process_rx_buffer   *)
(* takes them out, each with a position of its own.  The lock of RxState   *)
(* and the interrupts are in Rtl8139.                                      *)
(*                                                                         *)
(* rxBuffer holds what is whole in rx_buffer: the packets no byte of which *)
(* was overwritten.  A frame is its length and a mark that the card puts   *)
(* on every other packet.                                                  *)
(*                                                                         *)
(* An operator Name_Defect is Name with a plausible mistake in the code;   *)
(* it is not part of the specification.                                    *)
(***************************************************************************)
EXTENDS Integers, PacketQueue

CONSTANTS
  RingSize,    \* 8192 in the code; see RingAssumption
  BufferSize,  \* RX_BUFFER_SIZE: what the ring has behind its end is for the last packet
  SlotSize,    \* bytes of an EthernetFrame (2048)
  Lengths      \* lengths of packets, the CRC of 4 bytes among them

(* The sizes are literals in the code.  Two smaller ones are for TLC. *)
ASSUME RingAssumption ==
  /\ RingSize \in {32, 64, 8192}
  /\ BufferSize \in Nat /\ BufferSize >= RingSize
  /\ Lengths \subseteq 4 .. RingSize - 8
  /\ Frames = [len : {n - 4 : n \in Lengths}, mark : BOOLEAN]
  /\ TooLarge = {f \in Frames : f.len > SlotSize}

VARIABLES
  pc,           \* where process_rx_buffer is
  rxReadOffset, \* rx_read_offset
  (* the card *)
  capr,         \* CAPR, 16 bits
  wr,           \* where it stores the next packet
  rxBuffer,
  (* history *)
  held,         \* the packets between CAPR and wr, as they were stored
  mark          \* of the next packet

queueVars == <<buffer, head, tail, size, dropped, result>>
rxVars == <<queueVars, pc, rxReadOffset, capr, wr, rxBuffer, held, mark>>

Packets == [at : 0 .. RingSize - 1, len : Lengths, ok : BOOLEAN, mark : BOOLEAN]

(* RxState::new; after software_reset CAPR is 0xfff0. *)
RxInit ==
  /\ Init
  /\ pc = "idle" /\ rxReadOffset = 0
  /\ capr = 65520 /\ wr = 0 /\ rxBuffer = {}
  /\ held = <<>> /\ mark = FALSE
-----------------------------------------------------------------------------
Aligned(n) == ((n + 3) \div 4) * 4

(* The card reads CAPR as 16 less than where the driver reads next. *)
CardRead == (capr + 16) % RingSize
BufferEmpty == CardRead = wr
Space == IF BufferEmpty THEN RingSize ELSE (CardRead - wr) % RingSize

Overlap(p, q) == p.at < q.at + 4 + q.len /\ q.at < p.at + 4 + p.len

(* q begins among the bytes of p that go beyond the end of the ring. *)
AtStart(p, q) == q.at < p.at + 4 + p.len - RingSize

(* With WRAP set the card stores a packet, 4 bytes of header in front, in  *)
(* one piece, past the end of the ring if need be: the driver takes it for *)
(* one slice.  A comment there says that the card writes the overflowing   *)
(* bytes to the start of the ring even so; here it may write them there as *)
(* well.  The next packet goes to where the ring would have gone on.       *)
CardStore(n, ok) ==
  LET p == [at |-> wr, len |-> n, ok |-> ok, mark |-> mark] IN
  /\ Aligned(4 + n) < Space
  /\ dropped + Len(held) < MaxDropped   \* bound: all of them may be dropped
  /\ \E copies \in BOOLEAN :
       rxBuffer' = {q \in rxBuffer : ~Overlap(p, q) /\ ~(copies /\ AtStart(p, q))}
                   \cup {p}
  /\ wr' = (wr + Aligned(4 + n)) % RingSize
  /\ held' = Append(held, p) /\ mark' = ~mark
  /\ UNCHANGED <<queueVars, pc, rxReadOffset, capr>>
-----------------------------------------------------------------------------
(* process_rx_buffer, called by the handler. *)
ProcessRxBuffer ==
  /\ pc = "idle" /\ pc' = "loop"
  /\ UNCHANGED <<queueVars, rxReadOffset, capr, wr, rxBuffer, held, mark>>

RxBufferEmpty ==
  /\ pc = "loop"
  /\ pc' = IF BufferEmpty THEN "idle" ELSE "packet"
  /\ UNCHANGED <<queueVars, rxReadOffset, capr, wr, rxBuffer, held, mark>>

(* Whatever is at rx_read_offset is taken for a header: that of a packet   *)
(* stored there, or any bytes.                                             *)
Headers ==
  LET there == {p \in rxBuffer : p.at = rxReadOffset} IN
  IF there # {} THEN there
  ELSE [at : {rxReadOffset}, len : Lengths, ok : BOOLEAN, mark : BOOLEAN]

NextOffset_NoAlign(offset, length) == (offset + 4 + length) % RingSize
NextOffset(offset, length) == (((offset + 4 + length + 3) \div 4) * 4) % RingSize
Frame(p) == [len |-> p.len - 4, mark |-> p.mark]

RxPacket_NoStatus ==
  \E p \in Headers :
    /\ pc = "packet" /\ pc' = "capr"
    /\ rxReadOffset' = NextOffset(rxReadOffset, p.len)
    /\ \/ /\ rxReadOffset + 4 + (p.len - 4) <= BufferSize
          /\ Push(Frame(p)) \/ PushDrops(Frame(p))
       \/ /\ rxReadOffset + 4 + (p.len - 4) > BufferSize
          /\ UNCHANGED queueVars
    /\ UNCHANGED <<capr, wr, rxBuffer, held, mark>>

(* A packet with ROK that ends inside the buffer goes to rx_queue. *)
RxPacket ==
  \E p \in Headers :
    /\ pc = "packet" /\ pc' = "capr"
    /\ rxReadOffset' = NextOffset(rxReadOffset, p.len)
    /\ \/ /\ p.ok /\ rxReadOffset + 4 + (p.len - 4) <= BufferSize
          /\ Push(Frame(p)) \/ PushDrops(Frame(p))
       \/ /\ ~p.ok \/ rxReadOffset + 4 + (p.len - 4) > BufferSize
          /\ UNCHANGED queueVars
    /\ UNCHANGED <<capr, wr, rxBuffer, held, mark>>

(* wrapping_sub on the low 16 bits of the offset *)
WriteCapr ==
  /\ pc = "capr" /\ pc' = "loop"
  /\ capr' = (rxReadOffset - 16) % 65536
  /\ held' = Tail(held)
  /\ UNCHANGED <<queueVars, rxReadOffset, wr, rxBuffer, mark>>

(* receive_packet; the handler runs with interrupts off *)
ReceivePacket ==
  /\ pc = "idle" /\ (Pop \/ PopEmpty)
  /\ UNCHANGED <<pc, rxReadOffset, capr, wr, rxBuffer, held, mark>>

RxNext ==
  \/ \E n \in Lengths, ok \in BOOLEAN : CardStore(n, ok)
  \/ ProcessRxBuffer \/ RxBufferEmpty \/ RxPacket \/ WriteCapr \/ ReceivePacket

RxSpec == RxInit /\ [][RxNext]_rxVars
-----------------------------------------------------------------------------
(* Bytes a packet takes in the ring, and how far from CAPR a position is. *)
Room(p) == Aligned(4 + p.len)
Ahead(x) == (x - CardRead) % RingSize

(* The card and the driver, which keep their positions apart from each     *)
(* other and add up lengths on their own, never disagree: what is between  *)
(* CAPR and the write position is packet after packet, whole, and the      *)
(* driver is at the start of one (just behind the first one until it has   *)
(* told the card).  So no packet is overwritten before it is read, not     *)
(* even at the start of the ring by the end of the one that wraps, and     *)
(* BUFFER_EMPTY means none is left.                                        *)
RingOK ==
  /\ wr \in 0 .. RingSize - 1 /\ wr % 4 = 0
  /\ capr \in Nat /\ rxReadOffset \in 0 .. RingSize - 1
  /\ held \in Seq(Packets) /\ rxBuffer \subseteq Packets
  /\ \A p, q \in rxBuffer : p.at = q.at => p = q
  /\ pc \in {"idle", "loop", "packet", "capr"} /\ mark \in BOOLEAN
  /\ held = <<>> <=> BufferEmpty
  /\ pc \in {"packet", "capr"} => held # <<>>
  /\ rxReadOffset = (CardRead + IF pc = "capr" THEN Room(held[1]) ELSE 0) % RingSize
  /\ held # <<>> => held[1].at = CardRead
  /\ \A i \in 1 .. Len(held) :
       /\ held[i] \in rxBuffer /\ held[i].at % 4 = 0
       /\ Ahead(held[i].at) + Room(held[i])
            = IF i = Len(held) THEN Ahead(wr) ELSE Ahead(held[i + 1].at)
  /\ \A i, j \in 1 .. Len(held) :
       i < j => Ahead(held[i].at) + Room(held[i]) <= Ahead(held[j].at)

(* What enters rx_queue is the oldest packet still in the ring, and a good *)
(* one, with its own length.                                               *)
OldestDelivered ==
  [][size' > size => Head(held).ok /\ Contents'[size'] = Frame(Head(held))]_rxVars
=============================================================================
