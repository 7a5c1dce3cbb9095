------------------------------ MODULE Rtl8139 ------------------------------
(***************************************************************************)
(* The driver of the RTL8139 network card: threads that send, receive and  *)
(* log, the interrupt handler, and the card, which runs beside them.       *)
(*                                                                         *)
(* pc[c] is where a thread or the handler (Isr) is.  The handler runs with *)
(* interrupts off on the one CPU: while it is active no thread moves, but  *)
(* the card does.  Threads preempt each other anywhere (see Scheduler).    *)
(* The packet queues are sequences: see PacketQueue.                       *)
(*                                                                         *)
(* Frames are numbered in the order transmit pushes them, packets in the   *)
(* order the card receives them.                                           *)
(*                                                                         *)
(* An operator Name_Defect is Name with a plausible mistake in the code;   *)
(* it is not part of the specification.                                    *)
(***************************************************************************)
EXTENDS Naturals, Sequences, FiniteSets

CONSTANTS
  Threads, Isr,
  Descriptors,   \* transmit descriptors of the card (4)
  QueueCapacity, \* QUEUE_CAPACITY (64)
  RingCapacity,  \* packets the card's receive ring holds
  MaxFrames,     \* bound on calls of send_packet
  MaxPackets     \* bound on packets received by the card

ASSUME Rtl8139Assumption ==
  /\ Isr \notin Threads
  /\ {Descriptors, QueueCapacity, RingCapacity} \subseteq Nat \ {0}
  /\ {MaxFrames, MaxPackets} \subseteq Nat

VARIABLES
  txLock, txQueue, current,  \* TxState: lock bit, tx_queue, current_tx_descriptor
  buffers,                   \* tx_buffers
  rxLock, rxQueue,           \* RxState: lock bit, rx_queue
  com1,                      \* lock bit of the serial port, taken by warn!
  pc,
  status,                    \* the status word read by the handler
  (* the card *)
  own,       \* OWN bit of each TSD: the driver may use the descriptor
  sending,   \* descriptor the card transmits next
  ring,      \* packets in rx_buffer between CAPR and the write position
  isrReg,    \* ISR register
  (* history *)
  sent,      \* calls of send_packet so far
  accepted,  \* frames pushed to tx_queue
  wire,      \* frames transmitted
  arrived, delivered, lost  \* packets: number, returned by receive_packet, number dropped

tx      == <<txLock, txQueue, current, buffers>>
rx      == <<rxLock, rxQueue>>
card    == <<own, sending, ring, isrReg>>
history == <<sent, accepted, wire, arrived, delivered, lost>>
vars    == <<tx, rx, com1, pc, status, card, history>>

Flags == {"RECEIVE_OK", "TRANSMIT_OK", "RX_OVERFLOW"}
Descs == 0 .. Descriptors - 1
NextDesc(d) == (d + 1) % Descriptors
PCs == {"idle", "log", "tx_lock", "tx_push", "tx_warn", "tx_warning", "big_warn",
        "big_warning", "flush_try", "flush", "flush_pop", "flush_start", "flush_done",
        "rx_pop", "read_status", "rx_try", "rx_loop", "rx_warn", "ack"}

TypeOK ==
  /\ {txLock, rxLock, com1} \subseteq BOOLEAN
  /\ txQueue \in Seq(1 .. MaxFrames) /\ Len(txQueue) <= QueueCapacity
  /\ rxQueue \in Seq(1 .. MaxPackets) /\ Len(rxQueue) <= QueueCapacity
  /\ current \in Descs /\ sending \in Descs
  /\ buffers \in [Descs -> 0 .. MaxFrames] /\ own \in [Descs -> BOOLEAN]
  /\ pc \in [Threads \cup {Isr} -> PCs]
  /\ status \subseteq Flags /\ isrReg \subseteq Flags
  /\ ring \in Seq([id : 1 .. MaxPackets, ok : BOOLEAN])
  /\ Len(ring) <= RingCapacity

(* init_rtl8139 has reset the card, given it the buffer, enabled its three *)
(* interrupts, the receiver and the transmitter.                           *)
Init ==
  /\ txLock = FALSE /\ txQueue = <<>> /\ current = 0
  /\ buffers = [d \in Descs |-> 0]
  /\ rxLock = FALSE /\ rxQueue = <<>> /\ com1 = FALSE
  /\ pc = [c \in Threads \cup {Isr} |-> "idle"]
  /\ status = {} /\ isrReg = {}
  /\ own = [d \in Descs |-> TRUE] /\ sending = 0 /\ ring = <<>>
  /\ sent = 0 /\ accepted = <<>> /\ wire = <<>>
  /\ arrived = 0 /\ delivered = <<>> /\ lost = 0

At(c, l) == pc[c] = l /\ (c = Isr \/ pc[Isr] = "idle")
Goto(c, l) == pc' = [pc EXCEPT ![c] = l]
-----------------------------------------------------------------------------
(* transmit *)

SendPacket(t) ==
  /\ At(t, "idle") /\ sent < MaxFrames
  /\ sent' = sent + 1
  /\ Goto(t, "tx_lock")
  /\ UNCHANGED <<tx, rx, com1, status, card, accepted, wire, arrived,
                 delivered, lost>>

TransmitLock(t) ==
  /\ At(t, "tx_lock") /\ ~txLock
  /\ txLock' = TRUE
  /\ \/ Goto(t, "tx_push")
     \/ Goto(t, "big_warn")   \* data.len() > 1792
  /\ UNCHANGED <<txQueue, current, buffers, rx, com1, status, card, history>>

(* push, drop(tx), or the warning of push when the queue is full *)
TransmitPush(t) ==
  /\ At(t, "tx_push")
  /\ \/ /\ Len(txQueue) < QueueCapacity
        /\ txQueue' = Append(txQueue, Len(accepted) + 1)
        /\ accepted' = Append(accepted, Len(accepted) + 1)
        /\ txLock' = FALSE
        /\ Goto(t, "flush_try")
     \/ /\ Len(txQueue) = QueueCapacity
        /\ Goto(t, "tx_warn")
        /\ UNCHANGED <<txLock, txQueue, accepted>>
  /\ UNCHANGED <<current, buffers, rx, com1, status, card, sent, wire, arrived,
                 delivered, lost>>

(* warn! locks the serial port while the lock on TxState is held. *)
WarnLock(t) ==
  /\ \/ At(t, "tx_warn") /\ Goto(t, "tx_warning")
     \/ At(t, "big_warn") /\ Goto(t, "big_warning")
  /\ ~com1 /\ com1' = TRUE
  /\ UNCHANGED <<tx, rx, status, card, history>>

WarnUnlock(t) ==
  /\ \/ At(t, "tx_warning") /\ Goto(t, "flush_try")
     \/ At(t, "big_warning") /\ Goto(t, "idle")
  /\ com1' = FALSE /\ txLock' = FALSE
  /\ UNCHANGED <<txQueue, current, buffers, rx, status, card, history>>

(* Any other log message of a thread. *)
LogLock(t) ==
  /\ At(t, "idle") /\ ~com1
  /\ com1' = TRUE
  /\ Goto(t, "log")
  /\ UNCHANGED <<tx, rx, status, card, history>>

LogUnlock(t) ==
  /\ At(t, "log")
  /\ com1' = FALSE
  /\ Goto(t, "idle")
  /\ UNCHANGED <<tx, rx, status, card, history>>
-----------------------------------------------------------------------------
(* flush_tx_queue, called by transmit and by the handler *)

FlushReturn(c) == Goto(c, IF c = Isr THEN "ack" ELSE "idle")

FlushTryLock_Ignored(c) ==
  /\ At(c, "flush_try")
  /\ txLock' = TRUE
  /\ Goto(c, "flush")
  /\ UNCHANGED <<txQueue, current, buffers, rx, com1, status, card, history>>

FlushTryLock(c) ==
  /\ At(c, "flush_try")
  /\ txLock' = TRUE
  /\ \/ txLock /\ FlushReturn(c)
     \/ ~txLock /\ Goto(c, "flush")
  /\ UNCHANGED <<txQueue, current, buffers, rx, com1, status, card, history>>

FlushCheck_DropsLock(c) ==
  /\ At(c, "flush")
  /\ txQueue # <<>> /\ own[current]
  /\ txLock' = FALSE
  /\ Goto(c, "flush_pop")
  /\ UNCHANGED <<txQueue, current, buffers, rx, com1, status, card, history>>

(* tx_descriptor_free reads OWN; what it says is used a step later. *)
FlushCheck(c) ==
  /\ At(c, "flush")
  /\ txQueue # <<>> /\ own[current]
  /\ Goto(c, "flush_pop")
  /\ UNCHANGED <<tx, rx, com1, status, card, history>>

(* pop, and the copy into the buffer of current_tx_descriptor *)
FlushPop(c) ==
  /\ At(c, "flush_pop") /\ txQueue # <<>>
  /\ buffers' = [buffers EXCEPT ![current] = Head(txQueue)]
  /\ txQueue' = Tail(txQueue)
  /\ Goto(c, "flush_start")
  /\ UNCHANGED <<txLock, current, rx, com1, status, card, history>>

(* The length written to TSD clears OWN: the card transmits. *)
FlushStart(c) ==
  /\ At(c, "flush_start")
  /\ own' = [own EXCEPT ![current] = FALSE]
  /\ current' = NextDesc(current)
  /\ Goto(c, "flush")
  /\ UNCHANGED <<txLock, txQueue, buffers, rx, com1, status, sending, ring,
                 isrReg, history>>

FlushStop(c) ==
  /\ At(c, "flush")
  /\ txQueue = <<>> \/ ~own[current]
  /\ Goto(c, "flush_done")
  /\ UNCHANGED <<tx, rx, com1, status, card, history>>

FlushUnlock(c) ==
  /\ At(c, "flush_done")
  /\ txLock' = FALSE
  /\ FlushReturn(c)
  /\ UNCHANGED <<txQueue, current, buffers, rx, com1, status, card, history>>
-----------------------------------------------------------------------------
(* receive_packet *)

ReceiveLock(t) ==
  /\ At(t, "idle") /\ ~rxLock
  /\ rxLock' = TRUE
  /\ Goto(t, "rx_pop")
  /\ UNCHANGED <<tx, rxQueue, com1, status, card, history>>

ReceivePop(t) ==
  /\ At(t, "rx_pop")
  /\ rxLock' = FALSE
  /\ IF rxQueue = <<>> THEN UNCHANGED <<rxQueue, delivered>>
     ELSE /\ rxQueue' = Tail(rxQueue)
          /\ delivered' = Append(delivered, Head(rxQueue))
  /\ Goto(t, "idle")
  /\ UNCHANGED <<tx, com1, status, card, sent, accepted, wire, arrived, lost>>
-----------------------------------------------------------------------------
(* Rtl8139ISR::trigger *)

Interrupt ==
  /\ pc[Isr] = "idle" /\ isrReg # {}
  /\ Goto(Isr, "read_status")
  /\ UNCHANGED <<tx, rx, com1, status, card, history>>

AfterRx == IF "TRANSMIT_OK" \in status THEN "flush_try" ELSE "ack"

ReadStatus ==
  /\ At(Isr, "read_status")
  /\ status' = isrReg
  /\ Goto(Isr, IF isrReg \cap {"RECEIVE_OK", "RX_OVERFLOW"} # {} THEN "rx_try"
               ELSE "flush_try")
  /\ UNCHANGED <<tx, rx, com1, card, history>>

(* process_rx_buffer *)
RxTryLock ==
  /\ At(Isr, "rx_try")
  /\ rxLock' = TRUE
  /\ Goto(Isr, IF rxLock THEN AfterRx ELSE "rx_loop")
  /\ UNCHANGED <<tx, rxQueue, com1, status, card, history>>

RxPacket_DropsOldest ==
  /\ At(Isr, "rx_loop") /\ ring # <<>> /\ Head(ring).ok
  /\ ring' = Tail(ring)
  /\ rxQueue' = Append(IF Len(rxQueue) < QueueCapacity THEN rxQueue
                       ELSE Tail(rxQueue), Head(ring).id)
  /\ UNCHANGED <<tx, rxLock, com1, pc, status, own, sending, isrReg, history>>

(* A packet with ROK goes to the queue unless that is full. *)
RxPacket ==
  /\ At(Isr, "rx_loop") /\ ring # <<>> /\ Head(ring).ok
  /\ Len(rxQueue) < QueueCapacity
  /\ ring' = Tail(ring)
  /\ rxQueue' = Append(rxQueue, Head(ring).id)
  /\ UNCHANGED <<tx, rxLock, com1, pc, status, own, sending, isrReg, history>>

RxBad ==
  /\ At(Isr, "rx_loop") /\ ring # <<>> /\ ~Head(ring).ok
  /\ ring' = Tail(ring)
  /\ lost' = lost + 1
  /\ UNCHANGED <<tx, rx, com1, pc, status, own, sending, isrReg, sent,
                 accepted, wire, arrived, delivered>>

RxFull ==
  /\ At(Isr, "rx_loop") /\ ring # <<>> /\ Head(ring).ok
  /\ Len(rxQueue) = QueueCapacity
  /\ lost' = lost + 1
  /\ Goto(Isr, "rx_warn")
  /\ UNCHANGED <<tx, rx, com1, status, card, sent, accepted, wire, arrived,
                 delivered>>

(* warn! in the handler: it spins while the serial port is locked.  CAPR   *)
(* is moved behind the packet only afterwards.                             *)
RxWarn ==
  /\ At(Isr, "rx_warn") /\ ~com1
  /\ ring' = Tail(ring)
  /\ Goto(Isr, "rx_loop")
  /\ UNCHANGED <<tx, rx, com1, status, own, sending, isrReg, history>>

RxDone ==
  /\ At(Isr, "rx_loop") /\ ring = <<>>
  /\ rxLock' = FALSE
  /\ Goto(Isr, AfterRx)
  /\ UNCHANGED <<tx, rxQueue, com1, status, card, history>>

Acknowledge ==
  /\ At(Isr, "ack")
  /\ isrReg' = isrReg \ status
  /\ Goto(Isr, "idle")
  /\ UNCHANGED <<tx, rx, com1, status, own, sending, ring, history>>
-----------------------------------------------------------------------------
(* The card *)

CardTransmit ==
  /\ ~own[sending]
  /\ own' = [own EXCEPT ![sending] = TRUE]
  /\ wire' = Append(wire, buffers[sending])
  /\ sending' = NextDesc(sending)
  /\ isrReg' = isrReg \cup {"TRANSMIT_OK"}
  /\ UNCHANGED <<tx, rx, com1, pc, status, ring, sent, accepted, arrived,
                 delivered, lost>>

CardReceive(ok) ==
  /\ arrived < MaxPackets
  /\ arrived' = arrived + 1
  /\ \/ /\ Len(ring) < RingCapacity
        /\ ring' = Append(ring, [id |-> arrived', ok |-> ok])
        /\ isrReg' = isrReg \cup {"RECEIVE_OK"}
        /\ UNCHANGED lost
     \/ /\ Len(ring) = RingCapacity
        /\ isrReg' = isrReg \cup {"RX_OVERFLOW"}
        /\ lost' = lost + 1
        /\ UNCHANGED ring
  /\ UNCHANGED <<tx, rx, com1, pc, status, own, sending, sent, accepted, wire,
                 delivered>>
-----------------------------------------------------------------------------
Flush(c) == FlushTryLock(c) \/ FlushCheck(c) \/ FlushPop(c) \/ FlushStart(c)
            \/ FlushStop(c) \/ FlushUnlock(c)
ThreadStep(t) == TransmitLock(t) \/ TransmitPush(t) \/ WarnLock(t)
                 \/ WarnUnlock(t) \/ LogUnlock(t) \/ ReceivePop(t) \/ Flush(t)
Call(t) == SendPacket(t) \/ LogLock(t) \/ ReceiveLock(t)
IsrStep == ReadStatus \/ RxTryLock \/ RxPacket \/ RxBad \/ RxFull \/ RxWarn
           \/ RxDone \/ Flush(Isr) \/ Acknowledge

Next ==
  \/ \E t \in Threads : ThreadStep(t) \/ Call(t)
  \/ Interrupt \/ IsrStep
  \/ CardTransmit \/ \E ok \in BOOLEAN : CardReceive(ok)

Spec == Init /\ [][Next]_vars
-----------------------------------------------------------------------------
(* Properties *)

InFlight ==
  LET n == Cardinality({d \in Descs : ~own[d]})
  IN  [i \in 1 .. n |-> buffers[(sending + i - 1) % Descriptors]]
Starting == IF \E c \in DOMAIN pc : pc[c] = "flush_start"
            THEN <<buffers[current]>> ELSE <<>>

(* Frames leave in the order send_packet queued them, none twice and none  *)
(* lost between queue, descriptor and wire, although threads and the       *)
(* handler flush the queue in turns.  (The variables have their types.)    *)
TxOrder == TypeOK /\ wire \o InFlight \o Starting \o txQueue = accepted

(* The driver never writes to the buffer of a descriptor the card uses:    *)
(* what tx_descriptor_free has read still holds when the frame is copied,  *)
(* although the card, other threads and the handler went on in between.    *)
NoOverwrite == [][\A d \in Descs : buffers'[d] # buffers[d] => own[d]]_vars

(* Every packet the card received is, in order, with the receiver, in the  *)
(* queue or in the ring, or counted as dropped.                            *)
RxAccounted ==
  LET kept == delivered \o rxQueue \o [i \in DOMAIN ring |-> ring[i].id]
  IN  /\ \A i, j \in DOMAIN kept : i < j => kept[i] < kept[j]
      /\ Len(kept) + lost = arrived + (IF pc[Isr] = "rx_warn" THEN 1 ELSE 0)

(* "Cannot transmit, hardware uses all descriptors" (rtl8139.rs:395): a    *)
(* frame stays in the queue, with nobody at work on it, only while the     *)
(* card has yet to report a transmission.                                  *)
LeftQueuedOnlyIfBusy ==
  /\ txQueue # <<>>
  /\ \A c \in DOMAIN pc : pc[c] = "idle"
  /\ "TRANSMIT_OK" \notin isrReg
  => \E d \in Descs : ~own[d]
=============================================================================
