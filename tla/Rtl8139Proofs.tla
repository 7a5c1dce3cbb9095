--------------------------- MODULE Rtl8139Proofs ----------------------------
(***************************************************************************)
(* The driver of the network card keeps its promises for any number of     *)
(* threads, descriptors, queue entries, frames and packets.                *)
(***************************************************************************)
EXTENDS Rtl8139, Integers, TLAPS

Contexts == Threads \cup {Isr}

(* Places between taking and releasing the lock on TxState. *)
Held == {"tx_push", "tx_warn", "tx_warning", "big_warn", "big_warning",
         "flush", "flush_pop", "flush_start", "flush_done"}

LockInv ==
  /\ \A c \in Contexts : pc[c] \in Held => txLock
  /\ \A c, d \in Contexts : pc[c] \in Held /\ pc[d] \in Held => c = d

(* What tx_descriptor_free answered still holds when the frame is copied:  *)
(* only the holder of the lock hands a descriptor over or moves current.   *)
FreeInv == \A c \in Contexts : pc[c] = "flush_pop" => own[current]

(* Frames and packets are numbered, so a queue is a run of numbers. *)
Follows(q, k) == \A i \in DOMAIN q : q[i] = k + i

(* Descriptors between the one the card transmits next and d. *)
Ahead(d) == IF d >= sending THEN d - sending ELSE d + Descriptors - sending

Starts == \E c \in Contexts : pc[c] = "flush_start"
InStart == IF Starts THEN 1 ELSE 0

(* n descriptors, from the one transmitted next to the one before current, *)
(* hold the frames behind those on the wire; the queue follows them.       *)
InOrder(n) ==
  /\ \A d \in Descs : /\ ~own[d] <=> Ahead(d) < n
                      /\ ~own[d] => buffers[d] = Len(wire) + 1 + Ahead(d)
  /\ current = IF sending + n < Descriptors THEN sending + n
               ELSE sending + n - Descriptors
  /\ Follows(wire, 0) /\ Follows(accepted, 0)
  /\ Starts => own[current] /\ buffers[current] = Len(wire) + n + 1
  /\ Follows(txQueue, Len(wire) + n + InStart)
  /\ Len(accepted) = Len(wire) + n + InStart + Len(txQueue)

TxInv == \E n \in 0 .. Descriptors : InOrder(n)

(* The calls of send_packet that have yet to push their frame. *)
Pending == {t \in Threads : pc[t] \in {"tx_lock", "tx_push"}}
CallsInv == IsFiniteSet(Pending) /\ Cardinality(Pending) + Len(accepted) <= sent

Increasing(q) == \A i, j \in DOMAIN q : i < j => q[i] < q[j]
Before(p, q) == \A i \in DOMAIN p, j \in DOMAIN q : p[i] < q[j]
UpTo(q, n) == \A i \in DOMAIN q : q[i] <= n
Ids(r) == [i \in DOMAIN r |-> r[i].id]

RxInv ==
  /\ Increasing(delivered) /\ Increasing(rxQueue) /\ Increasing(Ids(ring))
  /\ Before(delivered, rxQueue) /\ Before(delivered, Ids(ring))
  /\ Before(rxQueue, Ids(ring))
  /\ UpTo(delivered, arrived) /\ UpTo(rxQueue, arrived) /\ UpTo(Ids(ring), arrived)
  /\ Len(delivered) + Len(rxQueue) + Len(ring) + lost =
       arrived + (IF pc[Isr] = "rx_warn" THEN 1 ELSE 0)
  /\ pc[Isr] = "rx_warn" => ring # <<>>

HistoryOK ==
  /\ sent \in 0 .. MaxFrames /\ arrived \in 0 .. MaxPackets /\ lost \in Nat
  /\ accepted \in Seq(Nat) /\ wire \in Seq(Nat) /\ delivered \in Seq(Nat)

IInv == TypeOK /\ HistoryOK /\ LockInv /\ FreeInv /\ TxInv /\ CallsInv /\ RxInv

-----------------------------------------------------------------------------
(* A step of one context *)

LEMMA GotoOK ==
  ASSUME TypeOK, NEW c \in Contexts, NEW l, Goto(c, l)
  PROVE  /\ pc'[c] = l /\ \A d \in Contexts : d # c => pc'[d] = pc[d]
         /\ l \in PCs => pc' \in [Contexts -> PCs]
BY DEF TypeOK, Goto, Contexts

(* What a step from pc[c] to l may do with the lock on TxState. *)
LockStep(c, l) ==
  /\ Goto(c, l)
  /\ l \in Held /\ pc[c] \in Held => txLock'
  /\ l \in Held /\ pc[c] \notin Held => ~txLock /\ txLock'
  /\ l \notin Held /\ pc[c] \notin Held => (txLock => txLock')

LEMMA LockStepOK ==
  ASSUME TypeOK, LockInv, NEW c \in Contexts, NEW l, LockStep(c, l)
  PROVE  LockInv'
<1>1. pc'[c] = l /\ \A d \in Contexts : d # c => pc'[d] = pc[d]
  BY GotoOK DEF LockStep
<1>2. CASE pc[c] \in Held
  <2>1. \A d \in Contexts : d # c => pc'[d] \notin Held
    BY <1>1, <1>2 DEF LockInv
  <2> QED BY <1>1, <1>2, <2>1 DEF LockInv, LockStep, Contexts
<1>3. CASE pc[c] \notin Held
  BY <1>1, <1>3 DEF LockInv, LockStep, Contexts
<1> QED BY <1>2, <1>3

LEMMA NextLockInv ==
  ASSUME TypeOK, LockInv, Next
  PROVE  LockInv'
<1> USE DEF At, tx, LockStep, Held, Contexts
<1>1. ASSUME NEW t \in Threads, ThreadStep(t) \/ Call(t), ~Flush(t)
      PROVE  LockInv'
  <2>1. CASE SendPacket(t)
    BY <2>1, LockStepOK DEF SendPacket
  <2>2. CASE TransmitLock(t)
    BY <2>2, LockStepOK DEF TransmitLock
  <2>3. CASE TransmitPush(t)
    BY SMTT(30), <2>3, LockStepOK DEF TransmitPush, LockInv
  <2>4. CASE WarnLock(t)
    BY <2>4, LockStepOK DEF WarnLock, LockInv
  <2>5. CASE WarnUnlock(t)
    BY <2>5, LockStepOK DEF WarnUnlock
  <2>6. CASE LogLock(t)
    BY <2>6, LockStepOK DEF LogLock
  <2>7. CASE LogUnlock(t)
    BY <2>7, LockStepOK DEF LogUnlock
  <2>8. CASE ReceiveLock(t)
    BY <2>8, LockStepOK DEF ReceiveLock
  <2>9. CASE ReceivePop(t)
    BY <2>9, LockStepOK DEF ReceivePop
  <2> QED BY <1>1, <2>1, <2>2, <2>3, <2>4, <2>5, <2>6, <2>7, <2>8, <2>9
          DEF ThreadStep, Call
<1>2. ASSUME NEW c \in Contexts, Flush(c) PROVE LockInv'
  <2>1. CASE FlushTryLock(c)
    BY <2>1, LockStepOK DEF FlushTryLock, FlushReturn
  <2>2. CASE FlushPop(c)
    BY <2>2, LockStepOK DEF FlushPop, LockInv
  <2>3. CASE FlushStart(c)
    BY <2>3, LockStepOK DEF FlushStart, LockInv
  <2>4. CASE FlushStop(c)
    BY <2>4, LockStepOK DEF FlushStop, LockInv
  <2>5. CASE FlushUnlock(c)
    BY <2>5, LockStepOK DEF FlushUnlock, FlushReturn
  <2>6. CASE FlushCheck(c)
    BY <2>6, LockStepOK DEF FlushCheck, LockInv
  <2> QED BY <1>2, <2>1, <2>2, <2>3, <2>4, <2>5, <2>6 DEF Flush
<1>3. ASSUME Interrupt \/ IsrStep, ~Flush(Isr) PROVE LockInv'
  <2>1. CASE Interrupt
    BY <2>1, LockStepOK DEF Interrupt
  <2>2. CASE ReadStatus
    BY <2>2, LockStepOK DEF ReadStatus
  <2>3. CASE RxTryLock
    BY <2>3, LockStepOK DEF RxTryLock, AfterRx
  <2>4. CASE RxPacket \/ RxBad
    BY <2>4 DEF RxPacket, RxBad, LockInv
  <2>5. CASE RxFull
    BY <2>5, LockStepOK DEF RxFull
  <2>6. CASE RxWarn
    BY <2>6, LockStepOK DEF RxWarn
  <2>7. CASE RxDone
    BY <2>7, LockStepOK DEF RxDone, AfterRx
  <2>8. CASE Acknowledge
    BY <2>8, LockStepOK DEF Acknowledge
  <2> QED BY <1>3, <2>1, <2>2, <2>3, <2>4, <2>5, <2>6, <2>7, <2>8 DEF IsrStep
<1>4. CASE CardTransmit \/ \E ok \in BOOLEAN : CardReceive(ok)
  <2>1. pc' = pc /\ txLock' = txLock
    BY <1>4, Zenon DEF CardTransmit, CardReceive
  <2> QED BY <2>1 DEF LockInv
<1>5. CASE \E t \in Threads : ThreadStep(t) \/ Call(t)
  BY <1>1, <1>2, <1>5, Zenon
<1>6. CASE Interrupt \/ IsrStep
  BY <1>2, <1>3, <1>6, Zenon
<1> QED BY <1>4, <1>5, <1>6, Zenon DEF Next

-----------------------------------------------------------------------------
(* Transmission *)

LEMMA Wrap ==
  ASSUME NEW D \in Nat \ {0}, NEW s \in 0 .. D - 1, NEW i \in 0 .. D
  PROVE  (s + i) % D = IF s + i < D THEN s + i ELSE s + i - D
<1>1. \A x \in 0 .. D - 1 : x % D = x
  OBVIOUS
<1>2. \A x \in 0 .. D - 1 : (x + D) % D = x
  OBVIOUS
<1>3. CASE s + i < D
  BY <1>1, <1>3
<1>4. CASE ~(s + i < D)
  <2>1. s + i - D \in 0 .. D - 1 /\ (s + i - D) + D = s + i
    BY <1>4
  <2> QED BY <1>2, <1>4, <2>1
<1> QED BY <1>3, <1>4

LEMMA NextDescOK ==
  ASSUME NEW d \in Descs
  PROVE  /\ NextDesc(d) = IF d + 1 < Descriptors THEN d + 1 ELSE 0
         /\ NextDesc(d) \in Descs /\ Descriptors \in Nat \ {0}
<1>1. Descriptors \in Nat \ {0}
  BY Rtl8139Assumption
<1>2. NextDesc(d) = IF d + 1 < Descriptors THEN d + 1 ELSE d + 1 - Descriptors
  BY <1>1, Wrap, 1 \in 0 .. Descriptors, Zenon DEF NextDesc, Descs
<1> QED BY <1>1, <1>2 DEF Descs

LEMMA FollowsAppend ==
  ASSUME NEW S \in SUBSET Nat, NEW q \in Seq(S), NEW k \in Nat, Follows(q, k),
         NEW x, x = k + Len(q) + 1
  PROVE  Follows(Append(q, x), k) /\ Len(Append(q, x)) = Len(q) + 1
<1>1. /\ Len(Append(q, x)) = Len(q) + 1 /\ DOMAIN Append(q, x) = 1 .. Len(q) + 1
      /\ \A i \in 1 .. Len(q) : Append(q, x)[i] = q[i]
      /\ Append(q, x)[Len(q) + 1] = x /\ DOMAIN q = 1 .. Len(q) /\ Len(q) \in Nat
  OBVIOUS
<1> DEFINE g == Append(q, x)
<1> HIDE DEF g
<1>2. ASSUME NEW i \in 1 .. Len(q) + 1 PROVE g[i] = k + i
  <2>1. CASE i \in 1 .. Len(q)
    BY <1>1, <2>1 DEF g, Follows
  <2>2. CASE i = Len(q) + 1
    BY <1>1, <2>2 DEF g
  <2> QED BY <1>1, <2>1, <2>2
<1> QED BY <1>1, <1>2 DEF g, Follows

LEMMA NonEmpty ==
  ASSUME NEW S, NEW q \in Seq(S), q # <<>>
  PROVE  Len(q) # 0
OBVIOUS

LEMMA FollowsTail ==
  ASSUME NEW S \in SUBSET Nat, NEW q \in Seq(S), q # <<>>, NEW k \in Nat, Follows(q, k)
  PROVE  /\ Head(q) = k + 1 /\ Follows(Tail(q), k + 1)
         /\ Tail(q) \in Seq(S) /\ Len(Tail(q)) = Len(q) - 1 /\ Len(q) >= 1
<1>1. /\ Len(q) \in Nat /\ Len(q) >= 1 /\ DOMAIN q = 1 .. Len(q)
      /\ Head(q) = q[1] /\ Tail(q) \in Seq(S) /\ Len(Tail(q)) = Len(q) - 1
      /\ DOMAIN Tail(q) = 1 .. Len(q) - 1
      /\ \A i \in 1 .. Len(q) - 1 : Tail(q)[i] = q[i + 1]
  BY NonEmpty
<1> DEFINE g == Tail(q)
<1> HIDE DEF g
<1>2. ASSUME NEW i \in 1 .. Len(q) - 1 PROVE g[i] = k + 1 + i
  <2>1. i + 1 \in 1 .. Len(q)
    BY <1>1
  <2>2. q[i + 1] = k + (i + 1)
    BY <1>1, <2>1 DEF Follows
  <2> QED BY <1>1, <2>2 DEF g
<1>3. Head(q) = k + 1
  BY <1>1 DEF Follows
<1> QED BY <1>1, <1>2, <1>3 DEF g, Follows

(* A step that starts no transmission and completes no start. *)
LEMMA SameStarts ==
  ASSUME TypeOK, NEW c \in Contexts, NEW l, Goto(c, l),
         pc[c] # "flush_start", l # "flush_start"
  PROVE  Starts' = Starts
<1>1. pc'[c] = l /\ \A d \in Contexts : d # c => pc'[d] = pc[d]
  BY GotoOK
<1>2. Starts' => Starts
  BY <1>1 DEF Starts, Contexts
<1>3. Starts => Starts'
  BY <1>1 DEF Starts, Contexts
<1> QED BY <1>2, <1>3 DEF Starts

txFrames == <<txQueue, current, buffers, own, sending, accepted, wire>>

LEMMA SameTxInv ==
  ASSUME TxInv, UNCHANGED txFrames, Starts' = Starts
  PROVE  TxInv'
<1>1. PICK n \in 0 .. Descriptors : InOrder(n)
  BY DEF TxInv
<1>2. InOrder(n)'
  BY <1>1 DEF InOrder, txFrames, Ahead, InStart, Follows, Descs
<1> QED BY <1>2 DEF TxInv

LEMMA TypeFacts ==
  ASSUME TypeOK, HistoryOK
  PROVE  /\ sending \in Descs /\ current \in Descs
         /\ 1 .. MaxFrames \in SUBSET Nat /\ txQueue \in Seq(1 .. MaxFrames)
         /\ wire \in Seq(Nat) /\ accepted \in Seq(Nat) /\ Nat \in SUBSET Nat
         /\ Len(txQueue) \in Nat /\ Len(wire) \in Nat /\ Len(accepted) \in Nat
         /\ DOMAIN own = Descs /\ DOMAIN buffers = Descs
         /\ \A d \in Descs : own[d] \in BOOLEAN
         /\ pc \in [Contexts -> PCs]
         /\ Descriptors \in Nat \ {0} /\ Descs = 0 .. Descriptors - 1
<1>1. /\ sending \in Descs /\ current \in Descs /\ txQueue \in Seq(1 .. MaxFrames)
      /\ wire \in Seq(Nat) /\ accepted \in Seq(Nat)
      /\ own \in [Descs -> BOOLEAN] /\ buffers \in [Descs -> 0 .. MaxFrames]
      /\ pc \in [Contexts -> PCs]
  BY DEF TypeOK, HistoryOK, Contexts
<1>2. Descriptors \in Nat \ {0} /\ Descs = 0 .. Descriptors - 1
  BY Rtl8139Assumption DEF Descs
<1>3. 1 .. MaxFrames \in SUBSET Nat
  BY Rtl8139Assumption
<1> QED BY <1>1, <1>2, <1>3

(* transmit queues a frame behind all others. *)
LEMMA PushTxInv ==
  ASSUME TypeOK, HistoryOK, TxInv, NEW t \in Threads, TransmitPush(t)
  PROVE  TxInv'
<1>1. CASE Goto(t, "tx_warn") /\ UNCHANGED <<txQueue, accepted>>
  <2>1. pc[t] # "flush_start"
    BY DEF TransmitPush, At
  <2>2. Starts' = Starts
    BY <1>1, <2>1, SameStarts DEF Contexts
  <2> QED BY <1>1, <2>2, SameTxInv DEF TransmitPush, txFrames, card
<1>2. CASE /\ txQueue' = Append(txQueue, Len(accepted) + 1)
           /\ accepted' = Append(accepted, Len(accepted) + 1)
           /\ Goto(t, "flush_try")
  <2>1. pc[t] # "flush_start"
    BY DEF TransmitPush, At
  <2>2. Starts' = Starts
    BY <1>2, <2>1, SameStarts DEF Contexts
  <2>3. UNCHANGED <<current, buffers, own, sending, wire>>
    BY DEF TransmitPush, card
  <2>4. PICK n \in 0 .. Descriptors : InOrder(n)
    BY DEF TxInv
  <2> DEFINE k == Len(wire) + n + InStart
             x == Len(accepted) + 1
  <2>5. k \in Nat /\ x = k + Len(txQueue) + 1 /\ x = 0 + Len(accepted) + 1
    BY <2>4, TypeFacts DEF InOrder, InStart
  <2>6. Follows(txQueue, k) /\ Follows(accepted, 0)
    BY <2>4 DEF InOrder
  <2> HIDE DEF k, x
  <2>7. Follows(txQueue', k) /\ Len(txQueue') = Len(txQueue) + 1
    BY <1>2, <2>5, <2>6, TypeFacts, FollowsAppend, Zenon DEF x
  <2>8. Follows(accepted', 0) /\ Len(accepted') = Len(accepted) + 1
    BY <1>2, <2>5, <2>6, TypeFacts, FollowsAppend, Zenon DEF x
  <2>9. InStart' = InStart /\ k' = k
    BY <2>2, <2>3 DEF InStart, k
  <2>10. Len(accepted') = k + Len(txQueue')
    BY <2>4, <2>5, <2>7, <2>8, TypeFacts DEF k, InOrder
  <2>11. InOrder(n)'
    BY <2>2, <2>3, <2>4, <2>7, <2>8, <2>9, <2>10 DEF InOrder, Ahead, k, Follows
  <2> QED BY <2>11 DEF TxInv
<1> QED BY <1>1, <1>2 DEF TransmitPush

(* flush_tx_queue copies the next frame to the buffer of current, which    *)
(* the card does not use.                                                  *)
LEMMA PopTxInv ==
  ASSUME TypeOK, HistoryOK, LockInv, FreeInv, TxInv, NEW c \in Contexts, FlushPop(c)
  PROVE  TxInv'
<1>1. /\ pc[c] = "flush_pop" /\ txQueue # <<>> /\ own[current]
      /\ buffers' = [buffers EXCEPT ![current] = Head(txQueue)]
      /\ txQueue' = Tail(txQueue) /\ Goto(c, "flush_start")
      /\ UNCHANGED <<current, own, sending, wire, accepted>>
  BY DEF FlushPop, FreeInv, At, card, history
<1>2. ~Starts
  BY <1>1 DEF Starts, LockInv, Held
<1>3. Starts'
  BY <1>1, GotoOK DEF Starts
<1>4. PICK n \in 0 .. Descriptors : InOrder(n)
  BY DEF TxInv
<1>5. InStart = 0 /\ InStart' = 1
  BY <1>2, <1>3 DEF InStart
<1> DEFINE k == Len(wire) + n
<1>6. k \in Nat /\ Follows(txQueue, k)
  BY <1>4, <1>5, TypeFacts DEF InOrder
<1> HIDE DEF k
<1>7. /\ Head(txQueue) = k + 1 /\ Follows(txQueue', k + 1)
      /\ Len(txQueue') = Len(txQueue) - 1
  BY <1>1, <1>6, TypeFacts, FollowsTail, Zenon
<1>8. /\ buffers'[current] = k + 1
      /\ \A d \in Descs : d # current => buffers'[d] = buffers[d]
  BY <1>1, <1>7, TypeFacts
<1>9. InOrder(n)'
  <2>1. \A d \in Descs : /\ ~own'[d] <=> Ahead(d)' < n
                         /\ ~own'[d] => buffers'[d] = Len(wire') + 1 + Ahead(d)'
    BY <1>1, <1>4, <1>8 DEF InOrder, Ahead
  <2>2. current' = IF sending' + n < Descriptors THEN sending' + n
                   ELSE sending' + n - Descriptors
    BY <1>1, <1>4 DEF InOrder
  <2>3. Follows(wire', 0) /\ Follows(accepted', 0)
    BY <1>1, <1>4 DEF InOrder
  <2>4. own'[current'] /\ buffers'[current'] = Len(wire') + n + 1
    BY <1>1, <1>8 DEF k
  <2>5. Follows(txQueue', Len(wire') + n + InStart')
    BY <1>1, <1>5, <1>7 DEF k
  <2>6. Len(accepted') = Len(wire') + n + InStart' + Len(txQueue')
    BY <1>1, <1>4, <1>5, <1>7, TypeFacts DEF InOrder
  <2> QED BY <2>1, <2>2, <2>3, <2>4, <2>5, <2>6 DEF InOrder
<1> QED BY <1>9 DEF TxInv

(* flush_tx_queue hands the descriptor to the card. *)
LEMMA StartTxInv ==
  ASSUME TypeOK, HistoryOK, LockInv, TxInv, NEW c \in Contexts, FlushStart(c)
  PROVE  TxInv'
<1>1. /\ pc[c] = "flush_start" /\ Goto(c, "flush")
      /\ own' = [own EXCEPT ![current] = FALSE] /\ current' = NextDesc(current)
      /\ UNCHANGED <<txQueue, buffers, sending, wire, accepted>>
  BY DEF FlushStart, At, history
<1>2. Starts
  BY <1>1 DEF Starts
<1>3. ~Starts'
  <2>1. pc'[c] = "flush" /\ \A d \in Contexts : d # c => pc'[d] = pc[d]
    BY <1>1, GotoOK
  <2> QED BY <1>1, <2>1 DEF Starts, LockInv, Held
<1>4. PICK n \in 0 .. Descriptors : InOrder(n)
  BY DEF TxInv
<1>5. InStart = 1 /\ InStart' = 0
  BY <1>2, <1>3 DEF InStart
<1>6. own[current] /\ buffers[current] = Len(wire) + n + 1
  BY <1>2, <1>4 DEF InOrder
<1>7. /\ sending \in 0 .. Descriptors - 1 /\ current \in 0 .. Descriptors - 1
      /\ Descriptors \in Nat \ {0} /\ Descs = 0 .. Descriptors - 1
  BY TypeFacts
<1>8. current = IF sending + n < Descriptors THEN sending + n
                ELSE sending + n - Descriptors
  BY <1>4 DEF InOrder
<1>9. \A d \in Descs : /\ ~own[d] <=> Ahead(d) < n
                       /\ ~own[d] => buffers[d] = Len(wire) + 1 + Ahead(d)
  BY <1>4 DEF InOrder
<1>10. n < Descriptors /\ Ahead(current) = n
  <2>1. Ahead(current) < Descriptors
    BY <1>7 DEF Ahead
  <2>2. n # Descriptors
    BY <1>6, <1>7, <1>9, <2>1
  <2> QED BY <1>7, <1>8, <2>2 DEF Ahead
<1>11. ASSUME NEW d \in Descs
       PROVE  /\ ~own'[d] <=> Ahead(d)' < n + 1
              /\ ~own'[d] => buffers'[d] = Len(wire') + 1 + Ahead(d)'
  <2>1. Ahead(d)' = Ahead(d) /\ Ahead(d) \in Nat
    BY <1>1, <1>7 DEF Ahead
  <2>2. CASE d = current
    BY <1>1, <1>6, <1>10, <2>1, <2>2, TypeFacts
  <2>3. CASE d # current
    <3>1. Ahead(d) # n
      BY <1>7, <1>8, <1>10, <2>3 DEF Ahead
    <3>2. own'[d] = own[d]
      BY <1>1, <2>3, TypeFacts
    <3>3. Ahead(d) < n + 1 <=> Ahead(d) < n
      BY <2>1, <3>1
    <3> QED BY <1>1, <1>9, <2>1, <3>2, <3>3, Zenon
  <2> QED BY <2>2, <2>3
<1>12. current' = IF sending' + (n + 1) < Descriptors THEN sending' + (n + 1)
                  ELSE sending' + (n + 1) - Descriptors
  <2>1. current' = IF current + 1 < Descriptors THEN current + 1 ELSE 0
    BY <1>1, NextDescOK, TypeFacts
  <2> QED BY <1>1, <1>7, <1>8, <1>10, <2>1
<1>13. Len(wire') + (n + 1) + InStart' = Len(wire) + n + InStart
  BY <1>1, <1>5, TypeFacts
<1>14. InOrder(n + 1)'
  <2>1. Follows(txQueue', Len(wire') + (n + 1) + InStart')
    BY <1>1, <1>4, <1>13 DEF InOrder
  <2>2. Len(accepted') = Len(wire') + (n + 1) + InStart' + Len(txQueue')
    BY <1>1, <1>4, <1>13 DEF InOrder
  <2>3. Follows(wire', 0) /\ Follows(accepted', 0)
    BY <1>1, <1>4 DEF InOrder
  <2> QED BY <1>3, <1>11, <1>12, <2>1, <2>2, <2>3 DEF InOrder
<1>15. n + 1 \in 0 .. Descriptors
  BY <1>7, <1>10
<1> QED BY <1>14, <1>15 DEF TxInv

(* The card transmits the oldest frame it holds. *)
LEMMA CardTxInv ==
  ASSUME TypeOK, HistoryOK, TxInv, CardTransmit
  PROVE  TxInv'
<1>1. /\ ~own[sending] /\ own' = [own EXCEPT ![sending] = TRUE]
      /\ wire' = Append(wire, buffers[sending]) /\ sending' = NextDesc(sending)
      /\ UNCHANGED <<txQueue, current, buffers, pc, accepted>>
  BY DEF CardTransmit, tx
<1>2. PICK n \in 0 .. Descriptors : InOrder(n)
  BY DEF TxInv
<1>3. /\ sending \in 0 .. Descriptors - 1 /\ current \in 0 .. Descriptors - 1
      /\ Descriptors \in Nat \ {0} /\ Descs = 0 .. Descriptors - 1
      /\ Len(wire) \in Nat
  BY TypeFacts
<1>4. current = IF sending + n < Descriptors THEN sending + n
                ELSE sending + n - Descriptors
  BY <1>2 DEF InOrder
<1>5. \A d \in Descs : /\ ~own[d] <=> Ahead(d) < n
                       /\ ~own[d] => buffers[d] = Len(wire) + 1 + Ahead(d)
  BY <1>2 DEF InOrder
<1>6. Ahead(sending) = 0 /\ n >= 1 /\ buffers[sending] = Len(wire) + 1
  <2>1. Ahead(sending) = 0
    BY <1>3 DEF Ahead
  <2> QED BY <1>1, <1>3, <1>5, <2>1
<1>7. Follows(wire, 0) /\ Follows(accepted, 0)
  BY <1>2 DEF InOrder
<1>8. Follows(wire', 0) /\ Len(wire') = Len(wire) + 1
  <2>1. 0 \in Nat /\ buffers[sending] = 0 + Len(wire) + 1
    BY <1>3, <1>6
  <2> QED BY <1>1, <1>7, <2>1, TypeFacts, FollowsAppend, Zenon
<1>9. sending' = IF sending + 1 < Descriptors THEN sending + 1 ELSE 0
  BY <1>1, NextDescOK, TypeFacts
<1>10. Starts' = Starts
  BY <1>1 DEF Starts
<1>11. InStart' = InStart /\ InStart \in Nat
  BY <1>10 DEF InStart
<1>12. ASSUME NEW d \in Descs
       PROVE  /\ ~own'[d] <=> Ahead(d)' < n - 1
              /\ ~own'[d] => buffers'[d] = Len(wire') + 1 + Ahead(d)'
  <2>1. CASE d = sending
    <3>1. Ahead(d)' = Descriptors - 1
      BY <1>3, <1>9, <2>1 DEF Ahead
    <3>2. own'[d]
      BY <1>1, <2>1, TypeFacts
    <3> QED BY <1>3, <3>1, <3>2
  <2>2. CASE d # sending
    <3>1. Ahead(d)' = Ahead(d) - 1 /\ Ahead(d) \in Nat
      BY <1>3, <1>9, <2>2 DEF Ahead
    <3>2. own'[d] = own[d]
      BY <1>1, <2>2, TypeFacts
    <3>3. /\ Ahead(d)' < n - 1 <=> Ahead(d) < n
          /\ Len(wire') + 1 + Ahead(d)' = Len(wire) + 1 + Ahead(d)
      BY <1>3, <1>8, <3>1
    <3> QED BY <1>1, <1>5, <3>2, <3>3, Zenon
  <2> QED BY <2>1, <2>2
<1>13. current' = IF sending' + (n - 1) < Descriptors THEN sending' + (n - 1)
                  ELSE sending' + (n - 1) - Descriptors
  BY <1>1, <1>3, <1>4, <1>6, <1>9
<1>14. Starts => own'[current'] /\ buffers'[current'] = Len(wire') + (n - 1) + 1
  <2> SUFFICES ASSUME Starts
               PROVE  own'[current'] /\ buffers'[current'] = Len(wire') + (n - 1) + 1
    OBVIOUS
  <2>1. own[current] /\ buffers[current] = Len(wire) + n + 1
    BY <1>2 DEF InOrder
  <2>2. current # sending
    BY <1>1, <2>1
  <2> QED BY <1>1, <1>3, <1>8, <2>1, <2>2, TypeFacts
<1>15. Len(wire') + (n - 1) + InStart' = Len(wire) + n + InStart
  BY <1>3, <1>8, <1>11
<1>16. InOrder(n - 1)'
  <2>1. Follows(txQueue', Len(wire') + (n - 1) + InStart')
    BY <1>1, <1>2, <1>15 DEF InOrder
  <2>2. Len(accepted') = Len(wire') + (n - 1) + InStart' + Len(txQueue')
    BY <1>1, <1>2, <1>15 DEF InOrder
  <2>3. Follows(accepted', 0)
    BY <1>1, <1>7
  <2> QED BY <1>8, <1>10, <1>12, <1>13, <1>14, <2>1, <2>2, <2>3 DEF InOrder
<1>17. n - 1 \in 0 .. Descriptors
  BY <1>3, <1>6
<1> QED BY <1>16, <1>17 DEF TxInv

(* All other steps of a thread or the handler: they leave frames, and      *)
(* calls that wait to queue one, as they are.                              *)
Apart == {"flush_pop", "flush_start", "tx_lock", "tx_push"}
Ordinary ==
  /\ UNCHANGED <<txFrames, sent>>
  /\ \E c \in Contexts, l \in PCs \ Apart : Goto(c, l) /\ pc[c] \notin Apart

LEMMA OrdinarySteps ==
  ASSUME TypeOK, Next
  PROVE  \/ Ordinary
         \/ \E t \in Threads : SendPacket(t) \/ TransmitLock(t) \/ TransmitPush(t)
         \/ \E c \in Contexts : FlushCheck(c) \/ FlushPop(c) \/ FlushStart(c)
         \/ CardTransmit
         \/ UNCHANGED <<txFrames, sent, pc>>
<1> DEFINE Goal == \/ Ordinary
                   \/ \E t \in Threads : SendPacket(t) \/ TransmitLock(t) \/ TransmitPush(t)
                   \/ \E c \in Contexts : FlushCheck(c) \/ FlushPop(c) \/ FlushStart(c)
                   \/ CardTransmit
                   \/ UNCHANGED <<txFrames, sent, pc>>
<1> SUFFICES Goal
  OBVIOUS
<1> USE DEF At, tx, card, history, txFrames
<1>1. ASSUME NEW c \in Contexts, NEW l \in PCs \ Apart, Goto(c, l), pc[c] \notin Apart,
             UNCHANGED <<txFrames, sent>>
      PROVE  Goal
  BY <1>1 DEF Ordinary
<1>2. Isr \in Contexts /\ \A t \in Threads : t \in Contexts
  BY DEF Contexts
<1> HIDE DEF Goal
<1> USE DEF Apart, PCs
<1>3. ASSUME NEW t \in Threads, ThreadStep(t) \/ Call(t), ~Flush(t)
      PROVE  Goal
  <2>1. CASE WarnLock(t)
    BY <1>1, <1>2, <2>1 DEF WarnLock
  <2>2. CASE WarnUnlock(t)
    BY <1>1, <1>2, <2>2 DEF WarnUnlock
  <2>3. CASE LogLock(t)
    BY <1>1, <1>2, <2>3 DEF LogLock
  <2>4. CASE LogUnlock(t)
    BY <1>1, <1>2, <2>4 DEF LogUnlock
  <2>5. CASE ReceiveLock(t)
    BY <1>1, <1>2, <2>5 DEF ReceiveLock
  <2>6. CASE ReceivePop(t)
    BY <1>1, <1>2, <2>6 DEF ReceivePop
  <2>7. CASE SendPacket(t) \/ TransmitLock(t) \/ TransmitPush(t)
    BY <2>7, Zenon DEF Goal
  <2> HIDE DEF At
  <2> QED BY <1>3, <2>1, <2>2, <2>3, <2>4, <2>5, <2>6, <2>7, Zenon DEF ThreadStep, Call
<1>4. ASSUME NEW c \in Contexts, Flush(c) PROVE Goal
  <2>1. CASE FlushTryLock(c)
    BY <1>1, <2>1 DEF FlushTryLock, FlushReturn
  <2>2. CASE FlushStop(c)
    BY <1>1, <2>2 DEF FlushStop
  <2>3. CASE FlushUnlock(c)
    BY <1>1, <2>3 DEF FlushUnlock, FlushReturn
  <2>4. CASE FlushCheck(c) \/ FlushPop(c) \/ FlushStart(c)
    BY <2>4, Zenon DEF Goal
  <2> QED BY <1>4, <2>1, <2>2, <2>3, <2>4, Zenon DEF Flush
<1>5. ASSUME Interrupt \/ IsrStep, ~Flush(Isr) PROVE Goal
  <2>1. CASE Interrupt
    BY <1>1, <1>2, <2>1 DEF Interrupt
  <2>2. CASE ReadStatus
    BY <1>1, <1>2, <2>2 DEF ReadStatus
  <2>3. CASE RxTryLock
    BY <1>1, <1>2, <2>3 DEF RxTryLock, AfterRx
  <2>4. CASE RxPacket \/ RxBad
    BY <2>4, Zenon DEF RxPacket, RxBad, Goal
  <2>5. CASE RxFull
    BY <1>1, <1>2, <2>5 DEF RxFull
  <2>6. CASE RxWarn
    BY <1>1, <1>2, <2>6 DEF RxWarn
  <2>7. CASE RxDone
    BY <1>1, <1>2, <2>7 DEF RxDone, AfterRx
  <2>8. CASE Acknowledge
    BY <1>1, <1>2, <2>8 DEF Acknowledge
  <2> QED BY <1>5, <2>1, <2>2, <2>3, <2>4, <2>5, <2>6, <2>7, <2>8, Zenon DEF IsrStep
<1>6. CASE CardTransmit \/ \E ok \in BOOLEAN : CardReceive(ok)
  BY <1>6, Zenon DEF CardReceive, Goal
<1>7. CASE \E t \in Threads : ThreadStep(t) \/ Call(t)
  BY <1>2, <1>3, <1>4, <1>7, Zenon
<1>8. CASE Interrupt \/ IsrStep
  BY <1>2, <1>4, <1>5, <1>8, Zenon
<1> QED BY <1>6, <1>7, <1>8, Zenon DEF Next

LEMMA NextTxInv ==
  ASSUME TypeOK, HistoryOK, LockInv, FreeInv, TxInv, Next
  PROVE  TxInv'
<1>1. ASSUME NEW c \in Contexts, NEW l, Goto(c, l), pc[c] # "flush_start",
             l # "flush_start", UNCHANGED txFrames
      PROVE  TxInv'
  BY <1>1, SameStarts, SameTxInv
<1>2. CASE Ordinary
  BY <1>1, <1>2, Zenon DEF Ordinary, Apart
<1>3. ASSUME NEW t \in Threads, SendPacket(t) PROVE TxInv'
  BY <1>1, <1>3 DEF SendPacket, At, tx, card, txFrames, Contexts
<1>4. ASSUME NEW t \in Threads, TransmitLock(t) PROVE TxInv'
  BY <1>1, <1>4 DEF TransmitLock, At, card, history, txFrames, Contexts
<1>5. CASE UNCHANGED <<txFrames, sent, pc>>
  BY <1>5, SameTxInv DEF Starts
<1>6. ASSUME NEW c \in Contexts, FlushCheck(c) PROVE TxInv'
  BY <1>1, <1>6 DEF FlushCheck, At, tx, card, history, txFrames
<1> QED BY <1>2, <1>3, <1>4, <1>5, <1>6, OrdinarySteps, PushTxInv, PopTxInv, StartTxInv,
           CardTxInv, Zenon

LEMMA NextFreeInv ==
  ASSUME TypeOK, LockInv, FreeInv, Next
  PROVE  FreeInv'
<1>1. ASSUME NEW c \in Contexts, NEW l, Goto(c, l), l # "flush_pop",
             UNCHANGED <<own, current>>
      PROVE  FreeInv'
  BY <1>1, GotoOK DEF FreeInv, Contexts
<1>2. CASE Ordinary
  BY <1>1, <1>2 DEF Ordinary, Apart, txFrames
<1>3. ASSUME NEW t \in Threads, SendPacket(t) \/ TransmitLock(t) \/ TransmitPush(t)
      PROVE  FreeInv'
  BY <1>1, <1>3 DEF SendPacket, TransmitLock, TransmitPush, tx, card, Contexts
<1>4. ASSUME NEW c \in Contexts, FlushCheck(c) PROVE FreeInv'
  BY <1>4 DEF FlushCheck, FreeInv, tx, card
<1>5. ASSUME NEW c \in Contexts, FlushPop(c) PROVE FreeInv'
  BY <1>1, <1>5 DEF FlushPop, card
<1>6. ASSUME NEW c \in Contexts, FlushStart(c) PROVE FreeInv'
  <2>1. pc'[c] = "flush" /\ \A d \in Contexts : d # c => pc'[d] = pc[d]
    BY <1>6, GotoOK DEF FlushStart
  <2>2. \A d \in Contexts : d # c => pc[d] \notin Held
    BY <1>6 DEF FlushStart, At, LockInv, Held
  <2> QED BY <2>1, <2>2 DEF FreeInv, Held, Contexts
<1>7. CASE CardTransmit
  BY <1>7 DEF CardTransmit, FreeInv, TypeOK, tx, Contexts
<1>8. CASE UNCHANGED <<txFrames, sent, pc>>
  BY <1>8 DEF FreeInv, txFrames, Contexts
<1> QED BY <1>2, <1>3, <1>4, <1>5, <1>6, <1>7, <1>8, OrdinarySteps, Zenon

-----------------------------------------------------------------------------
(* Reception *)

LEMMA AppendFacts ==
  ASSUME NEW S, NEW q \in Seq(S), NEW x
  PROVE  /\ DOMAIN q = 1 .. Len(q) /\ Len(q) \in Nat /\ Len(Append(q, x)) = Len(q) + 1
         /\ DOMAIN Append(q, x) = 1 .. Len(q) + 1
         /\ Append(q, x)[Len(q) + 1] = x
         /\ \A i \in 1 .. Len(q) + 1 : i # Len(q) + 1 =>
              i \in 1 .. Len(q) /\ Append(q, x)[i] = q[i]
OBVIOUS

LEMMA TailFacts ==
  ASSUME NEW S, NEW q \in Seq(S), q # <<>>
  PROVE  /\ DOMAIN q = 1 .. Len(q) /\ Len(q) \in Nat /\ 1 \in 1 .. Len(q)
         /\ Head(q) = q[1] /\ Head(q) \in S
         /\ Tail(q) \in Seq(S) /\ Len(Tail(q)) = Len(q) - 1
         /\ DOMAIN Tail(q) = 1 .. Len(q) - 1
         /\ \A i \in 1 .. Len(q) - 1 : i + 1 \in 1 .. Len(q) /\ Tail(q)[i] = q[i + 1]
<1>1. Len(q) \in Nat /\ Len(q) # 0
  BY NonEmpty
<1> QED BY <1>1

LEMMA AppendRx ==
  ASSUME NEW q \in Seq(Nat), NEW x \in Nat
  PROVE  /\ Increasing(q) /\ (\A i \in DOMAIN q : q[i] < x) => Increasing(Append(q, x))
         /\ \A n : UpTo(q, n) /\ x <= n => UpTo(Append(q, x), n)
         /\ \A p : Before(p, q) /\ (\A i \in DOMAIN p : p[i] < x) => Before(p, Append(q, x))
         /\ \A p : Before(q, p) /\ (\A i \in DOMAIN p : x < p[i]) => Before(Append(q, x), p)
<1> DEFINE g == Append(q, x)
           m == Len(q) + 1
<1>1. /\ DOMAIN q = 1 .. Len(q) /\ m \in Nat /\ DOMAIN g = 1 .. m /\ g[m] = x
      /\ \A i \in 1 .. m : i # m => i \in 1 .. Len(q) /\ g[i] = q[i] /\ i < m
  BY AppendFacts
<1> HIDE DEF g, m
<1>2. ASSUME Increasing(q), \A i \in DOMAIN q : q[i] < x, NEW i \in 1 .. m, NEW j \in 1 .. m,
             i < j
      PROVE  g[i] < g[j]
  <2>1. i # m
    BY <1>1, <1>2
  <2> QED BY ZenonT(30), SMTT(30), <1>1, <1>2, <2>1 DEF Increasing
<1>3. Increasing(q) /\ (\A i \in DOMAIN q : q[i] < x) => Increasing(g)
  BY <1>1, <1>2 DEF Increasing
<1>4. \A n : UpTo(q, n) /\ x <= n => UpTo(g, n)
  BY <1>1, Zenon DEF UpTo
<1>5. \A p : Before(p, q) /\ (\A i \in DOMAIN p : p[i] < x) => Before(p, g)
  BY <1>1, Zenon DEF Before
<1>6. \A p : Before(q, p) /\ (\A i \in DOMAIN p : x < p[i]) => Before(g, p)
  BY <1>1, Zenon DEF Before
<1> QED BY <1>3, <1>4, <1>5, <1>6 DEF g

LEMMA TailRx ==
  ASSUME NEW q \in Seq(Nat), q # <<>>
  PROVE  /\ Increasing(q) => /\ Increasing(Tail(q))
                             /\ \A i \in DOMAIN Tail(q) : Head(q) < Tail(q)[i]
         /\ \A n : UpTo(q, n) => UpTo(Tail(q), n) /\ Head(q) <= n
         /\ \A p : Before(p, q) => Before(p, Tail(q)) /\ \A i \in DOMAIN p : p[i] < Head(q)
         /\ \A p : Before(q, p) => Before(Tail(q), p) /\ \A i \in DOMAIN p : Head(q) < p[i]
<1> DEFINE g == Tail(q)
           h == Head(q)
           D == 1 .. Len(q) - 1
<1>1. /\ DOMAIN q = 1 .. Len(q) /\ 1 \in DOMAIN q /\ h = q[1] /\ DOMAIN g = D
      /\ \A i \in D : i + 1 \in DOMAIN q /\ g[i] = q[i + 1]
  BY TailFacts
<1>2. \A i, j \in D : 1 < i + 1 /\ (i < j => i + 1 < j + 1)
  BY TailFacts
<1> HIDE DEF g, h, D
<1>3. Increasing(q) => Increasing(g) /\ \A i \in D : h < g[i]
  BY <1>1, <1>2, Zenon DEF Increasing
<1>4. \A n : UpTo(q, n) => UpTo(g, n) /\ h <= n
  BY <1>1, Zenon DEF UpTo
<1>5. \A p : Before(p, q) => Before(p, g) /\ \A i \in DOMAIN p : p[i] < h
  BY <1>1, Zenon DEF Before
<1>6. \A p : Before(q, p) => Before(g, p) /\ \A i \in DOMAIN p : h < p[i]
  BY <1>1, Zenon DEF Before
<1> QED BY <1>1, <1>3, <1>4, <1>5, <1>6, Zenon DEF g, h

Slots == [id : 1 .. MaxPackets, ok : BOOLEAN]

LEMMA IdsOK ==
  ASSUME NEW r \in Seq(Slots)
  PROVE  /\ Ids(r) \in Seq(Nat) /\ Len(Ids(r)) = Len(r) /\ Len(r) \in Nat
         /\ \A s \in Slots : Ids(Append(r, s)) = Append(Ids(r), s.id) /\ s.id \in Nat
         /\ r # <<>> => /\ Ids(r) # <<>> /\ Ids(Tail(r)) = Tail(Ids(r))
                        /\ Head(Ids(r)) = Head(r).id /\ Head(r) \in Slots
<1>1. MaxPackets \in Nat
  BY Rtl8139Assumption
<1>2. /\ Ids(r) \in Seq(Nat) /\ Len(Ids(r)) = Len(r) /\ Len(r) \in Nat
      /\ \A i \in 1 .. Len(r) : Ids(r)[i] = r[i].id
  <2>1. Len(r) \in Nat /\ DOMAIN r = 1 .. Len(r) /\ \A i \in 1 .. Len(r) : r[i] \in Slots
    OBVIOUS
  <2>2. \A i \in 1 .. Len(r) : r[i].id \in Nat
    BY <1>1, <2>1 DEF Slots
  <2>3. Ids(r) \in [1 .. Len(r) -> Nat] /\ \A i \in 1 .. Len(r) : Ids(r)[i] = r[i].id
    BY <2>1, <2>2 DEF Ids
  <2> HIDE DEF Ids
  <2>4. Ids(r) \in Seq(Nat)
    BY <2>1, <2>3 DEF Seq
  <2>5. Len(Ids(r)) = Len(r)
    BY <2>1, <2>3, <2>4
  <2> QED BY <2>1, <2>3, <2>4, <2>5
<1>3. ASSUME NEW s \in Slots PROVE Ids(Append(r, s)) = Append(Ids(r), s.id) /\ s.id \in Nat
  BY <1>1, <1>2 DEF Slots, Ids
<1>4. ASSUME r # <<>>
      PROVE  /\ Ids(r) # <<>> /\ Ids(Tail(r)) = Tail(Ids(r))
             /\ Head(Ids(r)) = Head(r).id /\ Head(r) \in Slots
  <2>1. /\ Len(r) # 0 /\ Head(r) = r[1] /\ Head(r) \in Slots /\ 1 \in 1 .. Len(r)
        /\ Tail(r) \in Seq(Slots) /\ Len(Tail(r)) = Len(r) - 1
        /\ DOMAIN Tail(r) = 1 .. Len(r) - 1
        /\ \A i \in 1 .. Len(r) - 1 : i + 1 \in 1 .. Len(r) /\ Tail(r)[i] = r[i + 1]
    BY <1>2, <1>4, TailFacts
  <2>2. Ids(r) # <<>>
    BY <1>2, <2>1
  <2>3. /\ Head(Ids(r)) = Ids(r)[1] /\ DOMAIN Tail(Ids(r)) = 1 .. Len(r) - 1
        /\ Tail(Ids(r)) \in Seq(Nat)
        /\ \A i \in 1 .. Len(r) - 1 : Tail(Ids(r))[i] = Ids(r)[i + 1]
    BY <1>2, <2>2, TailFacts
  <2> DEFINE u == Ids(Tail(r))
             v == Tail(Ids(r))
  <2>4. u = [i \in 1 .. Len(r) - 1 |-> v[i]]
    <3>1. \A i \in 1 .. Len(r) - 1 : Tail(r)[i].id = v[i]
      BY <1>2, <2>1, <2>3
    <3> HIDE DEF v
    <3> QED BY <2>1, <3>1 DEF Ids
  <2>5. v = [i \in 1 .. Len(r) - 1 |-> v[i]]
    <3>1. v \in Seq(Nat) /\ DOMAIN v = 1 .. Len(r) - 1
      BY <2>3
    <3> HIDE DEF v
    <3>2. v \in [1 .. Len(v) -> Nat]
      BY <3>1
    <3> QED BY <3>1, <3>2
  <2> QED BY ZenonT(30), SMTT(30), <1>2, <2>1, <2>2, <2>3, <2>4, <2>5
<1> QED BY <1>2, <1>3, <1>4

LEMMA RxTypes ==
  ASSUME TypeOK, HistoryOK
  PROVE  /\ rxQueue \in Seq(Nat) /\ ring \in Seq(Slots) /\ delivered \in Seq(Nat)
         /\ arrived \in Nat /\ lost \in Nat
         /\ Len(rxQueue) \in Nat /\ Len(ring) \in Nat /\ Len(delivered) \in Nat
         /\ Ids(ring) \in Seq(Nat)
<1>1. /\ rxQueue \in Seq(1 .. MaxPackets) /\ ring \in Seq(Slots)
      /\ delivered \in Seq(Nat) /\ arrived \in 0 .. MaxPackets /\ lost \in Nat
  BY DEF TypeOK, HistoryOK, Slots
<1>2. MaxPackets \in Nat
  BY Rtl8139Assumption
<1>3. rxQueue \in Seq(Nat) /\ arrived \in Nat
  BY <1>1, <1>2
<1> QED BY <1>1, <1>3, IdsOK

LEMMA RxLengths ==
  ASSUME TypeOK, HistoryOK
  PROVE  /\ Len(rxQueue) \in Nat /\ Len(ring) \in Nat /\ Len(delivered) \in Nat
         /\ arrived \in Nat /\ lost \in Nat
BY RxTypes

rxPackets == <<delivered, rxQueue, ring, arrived, lost>>

LEMMA SameRxInv ==
  ASSUME RxInv, UNCHANGED rxPackets, pc'[Isr] = "rx_warn" <=> pc[Isr] = "rx_warn"
  PROVE  RxInv'
BY DEF RxInv, rxPackets, Increasing, Before, UpTo, Ids

LEMMA ReceiveRxInv ==
  ASSUME TypeOK, HistoryOK, RxInv, NEW t \in Threads, ReceivePop(t)
  PROVE  RxInv'
<1>1. /\ UNCHANGED <<ring, arrived, lost>> /\ Goto(t, "idle")
      /\ IF rxQueue = <<>> THEN UNCHANGED <<rxQueue, delivered>>
         ELSE /\ rxQueue' = Tail(rxQueue)
              /\ delivered' = Append(delivered, Head(rxQueue))
  BY DEF ReceivePop, card
<1>2. pc'[Isr] = pc[Isr]
  BY <1>1, GotoOK, Rtl8139Assumption DEF Contexts
<1>3. CASE rxQueue = <<>>
  BY <1>1, <1>2, <1>3, SameRxInv DEF rxPackets
<1>4. CASE rxQueue # <<>>
  <2> DEFINE h == Head(rxQueue)
             g == Ids(ring)
  <2>1. /\ rxQueue \in Seq(Nat) /\ delivered \in Seq(Nat) /\ h \in Nat
        /\ Len(Tail(rxQueue)) = Len(rxQueue) - 1
        /\ Len(Append(delivered, h)) = Len(delivered) + 1
    BY <1>4, RxTypes, TailFacts, AppendFacts
  <2> HIDE DEF h, g
  <2>2. /\ Increasing(Tail(rxQueue)) /\ \A i \in DOMAIN Tail(rxQueue) : h < Tail(rxQueue)[i]
        /\ Before(delivered, Tail(rxQueue)) /\ \A i \in DOMAIN delivered : delivered[i] < h
        /\ Before(Tail(rxQueue), g) /\ \A i \in DOMAIN g : h < g[i]
        /\ UpTo(Tail(rxQueue), arrived) /\ h <= arrived
    BY <1>4, <2>1, TailRx, Zenon DEF RxInv, h, g
  <2>3. /\ Increasing(Append(delivered, h)) /\ Before(Append(delivered, h), Tail(rxQueue))
        /\ Before(Append(delivered, h), g) /\ UpTo(Append(delivered, h), arrived)
    BY <2>1, <2>2, AppendRx, Zenon DEF RxInv, g
  <2>4. delivered' = Append(delivered, h) /\ rxQueue' = Tail(rxQueue) /\ Ids(ring') = g
    BY <1>1, <1>4 DEF h, g
  <2>5. Len(delivered') = Len(delivered) + 1 /\ Len(rxQueue') = Len(rxQueue) - 1
    BY <2>1, <2>4, Zenon
  <2>6. Len(delivered') + Len(rxQueue') = Len(delivered) + Len(rxQueue)
    BY <2>5, RxLengths
  <2> QED BY <1>1, <1>2, <2>2, <2>3, <2>4, <2>6, Zenon DEF RxInv, g
<1> QED BY <1>3, <1>4

LEMMA PacketRxInv ==
  ASSUME TypeOK, HistoryOK, RxInv, RxPacket
  PROVE  RxInv'
<1> DEFINE g == Ids(ring)
           h == Head(g)
<1>1. /\ ring # <<>> /\ ring' = Tail(ring) /\ rxQueue' = Append(rxQueue, Head(ring).id)
      /\ UNCHANGED <<delivered, arrived, lost, pc>> /\ pc[Isr] = "rx_loop"
  BY DEF RxPacket, At, history
<1>2. /\ g \in Seq(Nat) /\ g # <<>> /\ Ids(ring') = Tail(g) /\ rxQueue' = Append(rxQueue, h)
      /\ h \in Nat /\ rxQueue \in Seq(Nat) /\ Len(rxQueue') = Len(rxQueue) + 1
      /\ Len(ring') = Len(ring) - 1
  BY SMTT(30), <1>1, RxTypes, IdsOK, TailFacts, AppendFacts
<1> HIDE DEF g, h
<1>3. /\ Increasing(Tail(g)) /\ \A i \in DOMAIN Tail(g) : h < Tail(g)[i]
      /\ Before(delivered, Tail(g)) /\ \A i \in DOMAIN delivered : delivered[i] < h
      /\ Before(rxQueue, Tail(g)) /\ \A i \in DOMAIN rxQueue : rxQueue[i] < h
      /\ UpTo(Tail(g), arrived) /\ h <= arrived
  BY <1>2, TailRx, Zenon DEF RxInv, g, h
<1>4. /\ Increasing(rxQueue') /\ Before(rxQueue', Tail(g))
      /\ Before(delivered, rxQueue') /\ UpTo(rxQueue', arrived)
  BY <1>2, <1>3, AppendRx, Zenon DEF RxInv
<1>5. Len(delivered') + Len(rxQueue') + Len(ring') + lost' =
        arrived' + (IF pc'[Isr] = "rx_warn" THEN 1 ELSE 0)
  <2>1. Len(delivered') = Len(delivered) /\ lost' = lost /\ arrived' = arrived /\ pc' = pc
    BY <1>1
  <2>2. Len(delivered) + Len(rxQueue) + Len(ring) + lost =
          arrived + (IF pc[Isr] = "rx_warn" THEN 1 ELSE 0)
    BY DEF RxInv
  <2> QED BY <1>2, <2>1, <2>2, RxLengths
<1> QED BY <1>1, <1>2, <1>3, <1>4, <1>5, Zenon DEF RxInv

(* A packet that leaves the ring, dropped. *)
LEMMA DropRxInv ==
  ASSUME TypeOK, HistoryOK, RxInv, RxBad \/ RxWarn
  PROVE  RxInv'
<1> DEFINE g == Ids(ring)
<1>1. /\ ring # <<>> /\ ring' = Tail(ring) /\ UNCHANGED <<delivered, rxQueue, arrived>>
  BY DEF RxBad, RxWarn, At, rx, history, RxInv
<1>2. /\ g \in Seq(Nat) /\ g # <<>> /\ Ids(ring') = Tail(g) /\ Len(ring') = Len(ring) - 1
  BY <1>1, RxTypes, IdsOK, TailFacts
<1> HIDE DEF g
<1>3. /\ Increasing(Tail(g)) /\ Before(delivered, Tail(g)) /\ Before(rxQueue, Tail(g))
      /\ UpTo(Tail(g), arrived)
  BY <1>2, TailRx, Zenon DEF RxInv, g
<1>4. /\ pc'[Isr] # "rx_warn"
      /\ lost' = IF pc[Isr] = "rx_warn" THEN lost ELSE lost + 1
  <2>1. CASE RxBad
    BY <2>1, RxTypes DEF RxBad, At
  <2>2. CASE RxWarn
    <3>1. pc'[Isr] = "rx_loop" /\ pc[Isr] = "rx_warn" /\ lost' = lost
      BY <2>2, GotoOK DEF RxWarn, At, Contexts, history
    <3> QED BY <3>1, RxTypes
  <2> QED BY <2>1, <2>2
<1>5. Len(delivered') + Len(rxQueue') + Len(ring') + lost' = arrived'
  <2> DEFINE w == IF pc[Isr] = "rx_warn" THEN 1 ELSE 0
  <2>0. (w = 0 /\ lost' = lost + 1) \/ (w = 1 /\ lost' = lost)
    BY <1>4
  <2>1. Len(delivered) + Len(rxQueue) + Len(ring) + lost = arrived + w
    BY DEF RxInv
  <2> HIDE DEF w
  <2>2. lost' \in Nat
    BY RxLengths DEF RxBad, RxWarn, history
  <2>3. Len(delivered') = Len(delivered) /\ Len(rxQueue') = Len(rxQueue) /\ arrived' = arrived
    BY <1>1
  <2>4. Len(ring') = Len(ring) - 1
    BY <1>2
  <2> DEFINE t == Len(delivered) + Len(rxQueue) + Len(ring)
  <2>5. t \in Nat /\ t + lost = arrived + w /\ arrived \in Nat /\ lost \in Nat
    BY <2>1, RxLengths
  <2>6. Len(delivered') + Len(rxQueue') + Len(ring') = t - 1
    BY <2>3, <2>4, RxLengths
  <2>7. PICK y \in Nat : y = lost'
    BY <2>2
  <2> HIDE DEF t
  <2>8. (w = 0 /\ y = lost + 1) \/ (w = 1 /\ y = lost)
    BY <2>0, <2>7
  <2>9. (t - 1) + y = arrived
    BY <2>5, <2>8
  <2> QED BY <2>9, <2>3, <2>6, <2>7, Zenon
<1>6. arrived' = arrived' + 0
  BY SMTT(30), <1>1, RxLengths
<1> QED BY <1>1, <1>2, <1>3, <1>4, <1>5, <1>6, Zenon DEF RxInv

(* The queue is full: the packet is counted as lost before it leaves the   *)
(* ring.                                                                   *)
LEMMA FullRxInv ==
  ASSUME TypeOK, HistoryOK, RxInv, RxFull
  PROVE  RxInv'
<1>1. /\ UNCHANGED <<delivered, rxQueue, ring, arrived>> /\ lost' = lost + 1
      /\ pc[Isr] = "rx_loop" /\ pc'[Isr] = "rx_warn" /\ ring # <<>>
  BY ZenonT(30), SMTT(30), GotoOK DEF RxFull, At, rx, card, Contexts
<1> DEFINE t == Len(delivered) + Len(rxQueue) + Len(ring)
<1>2. t + lost = arrived + 0
  BY <1>1 DEF RxInv
<1>3. t \in Nat /\ arrived \in Nat /\ lost \in Nat
  BY RxLengths
<1> HIDE DEF t
<1>4. t + (lost + 1) = arrived + 1
  BY <1>2, <1>3
<1>5. Len(delivered') + Len(rxQueue') + Len(ring') + lost' = arrived' + 1
  BY <1>1, <1>4, Zenon DEF t
<1> QED BY <1>1, <1>5 DEF RxInv, Increasing, Before, UpTo, Ids

(* A packet comes in: it is newer than all others. *)
LEMMA CardRxInv ==
  ASSUME TypeOK, HistoryOK, RxInv, NEW ok \in BOOLEAN, CardReceive(ok)
  PROVE  RxInv'
<1> DEFINE x == arrived + 1
           g == Ids(ring)
           s == [id |-> x, ok |-> ok]
           t == Len(delivered) + Len(rxQueue)
           w == IF pc[Isr] = "rx_warn" THEN 1 ELSE 0
<1>1. /\ arrived < MaxPackets /\ arrived' = x /\ UNCHANGED <<delivered, rxQueue, pc>>
      /\ \/ ring' = Append(ring, s) /\ lost' = lost
         \/ ring' = ring /\ lost' = lost + 1
  BY DEF CardReceive, rx
<1>2. /\ delivered \in Seq(Nat) /\ rxQueue \in Seq(Nat) /\ g \in Seq(Nat)
      /\ ring \in Seq(Slots) /\ arrived \in Nat /\ lost \in Nat
      /\ Len(ring) \in Nat /\ t \in Nat
  BY RxTypes
<1>3. x \in Nat /\ s \in Slots
  BY <1>1, <1>2, Rtl8139Assumption DEF Slots
<1>4. t + Len(ring) + lost = arrived + w /\ w \in Nat
  BY DEF RxInv
<1> HIDE DEF t, w
<1>5. Len(ring') + lost' = Len(ring) + lost + 1
  <2>1. CASE ring' = Append(ring, s) /\ lost' = lost
    <3>1. Len(ring') = Len(ring) + 1
      BY <1>2, <2>1, AppendFacts
    <3> QED BY <1>2, <2>1, <3>1
  <2>2. CASE ring' = ring /\ lost' = lost + 1
    BY <1>2, <2>2
  <2> QED BY <1>1, <2>1, <2>2
<1>6. Len(delivered') + Len(rxQueue') + Len(ring') + lost' =
        arrived' + (IF pc'[Isr] = "rx_warn" THEN 1 ELSE 0)
  <2>1. PICK m \in Nat, y \in Nat : m = Len(ring') /\ y = lost'
    <3>1. Len(ring') \in Nat /\ lost' \in Nat
      BY <1>1, <1>2, AppendFacts
    <3> QED BY <3>1
  <2>2. PICK r \in Nat : r = Len(ring)
    BY <1>2
  <2>3. m + y = r + lost + 1 /\ t + r + lost = arrived + w
    BY <1>4, <1>5, <2>1, <2>2, Zenon
  <2>4. t \in Nat /\ w \in Nat /\ arrived \in Nat /\ lost \in Nat
    BY <1>2, <1>4
  <2>5. t + m + y = (arrived + 1) + w
    BY ONLY <2>3, <2>4, m \in Nat, y \in Nat, r \in Nat
  <2> QED BY <1>1, <2>1, <2>5, Zenon DEF t, w
<1>7. ASSUME NEW q \in Seq(Nat), UpTo(q, arrived)
      PROVE  (\A i \in DOMAIN q : q[i] < x) /\ UpTo(q, x)
  BY <1>2, <1>7 DEF UpTo
<1>8. UpTo(delivered', arrived') /\ UpTo(rxQueue', arrived') /\ UpTo(g, x)
  BY <1>1, <1>2, <1>7 DEF RxInv
<1>9. CASE ring' = ring
  <2>1. Ids(ring') = g
    BY <1>9
  <2>2. pc'[Isr] = "rx_warn" => ring' # <<>>
    BY <1>1, <1>9 DEF RxInv
  <2> HIDE DEF g, x
  <2> QED BY <1>1, <1>6, <1>8, <2>1, <2>2, Zenon DEF RxInv, g
<1>10. CASE ring' = Append(ring, s)
  <2>1. Ids(ring') = Append(g, x) /\ ring' # <<>>
    <3>1. Ids(ring') = Append(g, s.id) /\ s.id = x
      BY <1>2, <1>3, <1>10, IdsOK
    <3>2. Len(ring') = Len(ring) + 1
      BY <1>2, <1>10, AppendFacts
    <3>3. ring' # <<>>
      BY <1>2, <3>2
    <3> QED BY <3>1, <3>3
  <2>2. /\ \A i \in DOMAIN delivered : delivered[i] < x
        /\ \A i \in DOMAIN rxQueue : rxQueue[i] < x
        /\ \A i \in DOMAIN g : g[i] < x
    BY <1>2, <1>7 DEF RxInv
  <2>3. x <= x
    BY <1>3
  <2> HIDE DEF g, x
  <2>4. /\ Increasing(Append(g, x)) /\ UpTo(Append(g, x), x)
        /\ Before(delivered, Append(g, x)) /\ Before(rxQueue, Append(g, x))
    BY <1>2, <1>3, <1>8, <2>2, <2>3, AppendRx, Zenon DEF RxInv, g
  <2> QED BY <1>1, <1>6, <1>8, <2>1, <2>4, Zenon DEF RxInv
<1> QED BY <1>1, <1>9, <1>10

LEMMA NextRxInv ==
  ASSUME TypeOK, HistoryOK, RxInv, Next
  PROVE  RxInv'
<1> USE DEF At, rx, card, history, rxPackets
<1>1. ASSUME NEW c \in Contexts, NEW l, Goto(c, l), UNCHANGED rxPackets,
             c = Isr => pc[c] # "rx_warn" /\ l # "rx_warn"
      PROVE  RxInv'
  <2>1. pc'[Isr] = "rx_warn" <=> pc[Isr] = "rx_warn"
    BY <1>1, GotoOK DEF Contexts
  <2> QED BY <1>1, <2>1, SameRxInv
<1>2. Isr \in Contexts /\ \A t \in Threads : t \in Contexts /\ t # Isr
  BY Rtl8139Assumption DEF Contexts
<1>3. ASSUME NEW t \in Threads, ThreadStep(t) \/ Call(t), ~Flush(t)
      PROVE  RxInv'
  <2>1. CASE SendPacket(t)
    BY <1>1, <1>2, <2>1 DEF SendPacket
  <2>2. CASE TransmitLock(t)
    BY <1>1, <1>2, <2>2 DEF TransmitLock
  <2>3. CASE TransmitPush(t)
    BY <1>1, <1>2, <2>3 DEF TransmitPush
  <2>4. CASE WarnLock(t) \/ WarnUnlock(t)
    BY <1>1, <1>2, <2>4 DEF WarnLock, WarnUnlock
  <2>5. CASE LogLock(t) \/ LogUnlock(t)
    BY <1>1, <1>2, <2>5 DEF LogLock, LogUnlock
  <2>6. CASE ReceiveLock(t)
    BY <1>1, <1>2, <2>6 DEF ReceiveLock
  <2> HIDE DEF At
  <2> QED BY <1>3, <2>1, <2>2, <2>3, <2>4, <2>5, <2>6, ReceiveRxInv, Zenon
          DEF ThreadStep, Call
<1>4. ASSUME NEW c \in Contexts, Flush(c) PROVE RxInv'
  <2>1. CASE FlushTryLock(c) \/ FlushUnlock(c)
    BY <1>1, <2>1 DEF FlushTryLock, FlushUnlock, FlushReturn
  <2>2. CASE FlushPop(c) \/ FlushStart(c)
    BY <1>1, <2>2 DEF FlushPop, FlushStart
  <2>3. CASE FlushCheck(c) \/ FlushStop(c)
    BY <1>1, <2>3 DEF FlushCheck, FlushStop
  <2> QED BY <1>4, <2>1, <2>2, <2>3, Zenon DEF Flush
<1>5. ASSUME Interrupt \/ IsrStep, ~Flush(Isr) PROVE RxInv'
  <2>1. CASE Interrupt \/ ReadStatus
    BY <1>1, <1>2, <2>1 DEF Interrupt, ReadStatus
  <2>2. CASE RxTryLock \/ RxDone
    BY <1>1, <1>2, <2>2 DEF RxTryLock, RxDone, AfterRx
  <2>3. CASE Acknowledge
    BY <1>1, <1>2, <2>3 DEF Acknowledge
  <2> HIDE DEF At
  <2> QED BY <1>5, <2>1, <2>2, <2>3, PacketRxInv, DropRxInv, FullRxInv, Zenon DEF IsrStep
<1>6. CASE CardTransmit
  <2>1. UNCHANGED rxPackets /\ pc' = pc
    BY <1>6 DEF CardTransmit
  <2> QED BY <2>1, SameRxInv
<1>7. CASE \E ok \in BOOLEAN : CardReceive(ok)
  BY <1>7, CardRxInv, Zenon
<1>8. CASE \E t \in Threads : ThreadStep(t) \/ Call(t)
  BY <1>2, <1>3, <1>4, <1>8, Zenon
<1>9. CASE Interrupt \/ IsrStep
  BY <1>2, <1>4, <1>5, <1>9, Zenon
<1> QED BY <1>6, <1>7, <1>8, <1>9, Zenon DEF Next

-----------------------------------------------------------------------------
(* Types *)

(* A queue with a new element, and without its first. *)
LEMMA QueueTypes ==
  ASSUME NEW S, NEW q \in Seq(S), NEW N \in Nat, Len(q) <= N
  PROVE  /\ \A x \in S : /\ Append(q, x) \in Seq(S)
                         /\ Len(q) < N => Len(Append(q, x)) <= N
         /\ q # <<>> => Head(q) \in S /\ Tail(q) \in Seq(S) /\ Len(Tail(q)) <= N
OBVIOUS

(* Steps that only move one context and lock or unlock. *)
kept == <<txQueue, rxQueue, current, sending, buffers, own, ring>>

LEMMA SameTypes ==
  ASSUME TypeOK, pc' \in [Contexts -> PCs], {txLock', rxLock', com1'} \subseteq BOOLEAN,
         status' \subseteq Flags, isrReg' \subseteq Flags, UNCHANGED kept
  PROVE  TypeOK'
BY DEF TypeOK, kept, Contexts

LEMMA ThreadTypes ==
  ASSUME TypeOK, HistoryOK, NEW t \in Threads, ThreadStep(t) \/ Call(t), ~Flush(t),
         pc[t] = "tx_push" => Len(accepted) + 1 \in 1 .. MaxFrames
  PROVE  TypeOK'
<1> USE DEF At, tx, rx, card, history, kept, PCs
<1>1. t \in Contexts
  BY DEF Contexts
<1>2. {txLock, rxLock, com1} \subseteq BOOLEAN /\ status \subseteq Flags /\ isrReg \subseteq Flags
  BY DEF TypeOK
<1>3. CASE SendPacket(t)
  BY <1>1, <1>2, <1>3, GotoOK, SameTypes DEF SendPacket
<1>4. CASE TransmitLock(t)
  BY <1>1, <1>2, <1>4, GotoOK, SameTypes DEF TransmitLock
<1>5. CASE TransmitPush(t)
  <2>1. CASE Len(txQueue) = QueueCapacity /\ Goto(t, "tx_warn") /\ UNCHANGED <<txLock, txQueue>>
    BY <1>1, <1>2, <1>5, <2>1, GotoOK, SameTypes DEF TransmitPush
  <2>2. CASE /\ Len(txQueue) < QueueCapacity /\ Goto(t, "flush_try") /\ txLock' = FALSE
             /\ txQueue' = Append(txQueue, Len(accepted) + 1)
    <3>1. Len(accepted) + 1 \in 1 .. MaxFrames
      BY <1>5, Zenon DEF TransmitPush
    <3>2. /\ txQueue \in Seq(1 .. MaxFrames) /\ QueueCapacity \in Nat
          /\ Len(txQueue) <= QueueCapacity
      BY Rtl8139Assumption DEF TypeOK
    <3>3. txQueue' \in Seq(1 .. MaxFrames) /\ Len(txQueue') <= QueueCapacity
      BY <2>2, <3>1, <3>2, QueueTypes
    <3>4. pc' \in [Threads \cup {Isr} -> PCs]
      BY <1>1, <2>2, GotoOK, Zenon DEF Contexts
    <3>5. UNCHANGED <<current, buffers, rxLock, rxQueue, com1, status, own, sending, ring, isrReg>>
      BY <1>5 DEF TransmitPush
    <3> QED BY <2>2, <3>3, <3>4, <3>5, Zenon DEF TypeOK
  <2> QED BY <1>5, <2>1, <2>2, Zenon DEF TransmitPush
<1>6. CASE WarnLock(t) \/ WarnUnlock(t)
  BY <1>1, <1>2, <1>6, GotoOK, SameTypes, Zenon DEF WarnLock, WarnUnlock
<1>7. CASE LogLock(t) \/ LogUnlock(t)
  BY <1>1, <1>2, <1>7, GotoOK, SameTypes, Zenon DEF LogLock, LogUnlock
<1>8. CASE ReceiveLock(t)
  BY <1>1, <1>2, <1>8, GotoOK, SameTypes DEF ReceiveLock
<1>9. CASE ReceivePop(t)
  <2>1. /\ rxQueue \in Seq(1 .. MaxPackets) /\ QueueCapacity \in Nat
        /\ Len(rxQueue) <= QueueCapacity
    BY Rtl8139Assumption DEF TypeOK
  <2>2. rxQueue' \in Seq(1 .. MaxPackets) /\ Len(rxQueue') <= QueueCapacity
    BY <1>9, <2>1, QueueTypes, Zenon DEF ReceivePop
  <2>3. pc' \in [Threads \cup {Isr} -> PCs]
    BY <1>1, <1>9, GotoOK, Zenon DEF Contexts, ReceivePop
  <2>4. /\ UNCHANGED <<txLock, txQueue, current, buffers, com1, status, own, sending, ring, isrReg>>
        /\ rxLock' = FALSE
    BY <1>9 DEF ReceivePop
  <2> QED BY <2>2, <2>3, <2>4, Zenon DEF TypeOK
<1> HIDE DEF At
<1> QED BY <1>3, <1>4, <1>5, <1>6, <1>7, <1>8, <1>9, Zenon DEF ThreadStep, Call

LEMMA FlushTypes ==
  ASSUME TypeOK, NEW c \in Contexts, Flush(c)
  PROVE  TypeOK'
<1> USE DEF At, tx, rx, card, history, kept, PCs
<1>1. {txLock, rxLock, com1} \subseteq BOOLEAN /\ status \subseteq Flags /\ isrReg \subseteq Flags
  BY DEF TypeOK
<1>2. CASE FlushTryLock(c) \/ FlushUnlock(c)
  BY <1>1, <1>2, GotoOK, SameTypes, Zenon DEF FlushTryLock, FlushUnlock, FlushReturn
<1>3. CASE FlushCheck(c) \/ FlushStop(c)
  BY <1>1, <1>3, GotoOK, SameTypes, Zenon DEF FlushCheck, FlushStop
<1>4. CASE FlushPop(c)
  <2>1. /\ txQueue \in Seq(1 .. MaxFrames) /\ QueueCapacity \in Nat /\ MaxFrames \in Nat
        /\ Len(txQueue) <= QueueCapacity /\ txQueue # <<>>
    BY <1>4, Rtl8139Assumption DEF TypeOK, FlushPop
  <2>2. /\ txQueue' \in Seq(1 .. MaxFrames) /\ Len(txQueue') <= QueueCapacity
        /\ Head(txQueue) \in 1 .. MaxFrames
    BY <1>4, <2>1, QueueTypes, Zenon DEF FlushPop
  <2>3. pc' \in [Threads \cup {Isr} -> PCs]
    BY <1>4, GotoOK, Zenon DEF Contexts, FlushPop
  <2>4. Head(txQueue) \in 0 .. MaxFrames
    BY <2>1, <2>2
  <2>5. buffers' \in [Descs -> 0 .. MaxFrames]
    BY <1>4, <2>4 DEF TypeOK, FlushPop
  <2>6. UNCHANGED <<txLock, rxLock, rxQueue, current, com1, status, own, sending, ring, isrReg>>
    BY <1>4 DEF FlushPop
  <2> QED BY ZenonT(30), <2>2, <2>3, <2>5, <2>6 DEF TypeOK
<1>5. CASE FlushStart(c)
  <2>1. pc' \in [Threads \cup {Isr} -> PCs]
    BY <1>5, GotoOK, Zenon DEF Contexts, FlushStart
  <2>2. current' \in Descs
    BY <1>5, NextDescOK DEF TypeOK, FlushStart
  <2>3. own' \in [Descs -> BOOLEAN]
    BY <1>5 DEF TypeOK, FlushStart
  <2>4. UNCHANGED <<txLock, rxLock, rxQueue, txQueue, com1, status, buffers, sending, ring, isrReg>>
    BY <1>5 DEF FlushStart
  <2> QED BY <2>1, <2>2, <2>3, <2>4, Zenon DEF TypeOK
<1> HIDE DEF At
<1> QED BY <1>2, <1>3, <1>4, <1>5, Zenon DEF Flush

LEMMA IsrTypes ==
  ASSUME TypeOK, RxInv, Interrupt \/ IsrStep, ~Flush(Isr)
  PROVE  TypeOK'
<1> USE DEF At, tx, rx, card, history, kept, PCs
<1>1. /\ {txLock, rxLock, com1} \subseteq BOOLEAN /\ status \subseteq Flags
      /\ isrReg \subseteq Flags /\ Isr \in Contexts
  BY SMTT(30) DEF TypeOK, Contexts
<1>2. CASE Interrupt \/ ReadStatus
  BY ZenonT(30), <1>1, <1>2, GotoOK, SameTypes DEF Interrupt, ReadStatus
<1>3. CASE RxTryLock \/ RxDone
  BY <1>1, <1>3, GotoOK, SameTypes, Zenon DEF RxTryLock, RxDone, AfterRx
<1>4. CASE RxFull
  BY <1>1, <1>4, GotoOK, SameTypes, Zenon DEF RxFull
<1>5. CASE Acknowledge
  <2>1. isrReg' \subseteq Flags
    BY <1>1, <1>5 DEF Acknowledge
  <2> QED BY <1>1, <1>5, <2>1, GotoOK, SameTypes, Zenon DEF Acknowledge
<1>6. CASE RxPacket \/ RxBad \/ RxWarn
  <2>1. ring # <<>> /\ ring' = Tail(ring) /\ pc' \in [Contexts -> PCs]
    BY <1>1, <1>6, GotoOK, Zenon DEF RxPacket, RxBad, RxWarn, RxInv, TypeOK, Contexts
  <2>2. /\ rxQueue \in Seq(1 .. MaxPackets) /\ Len(rxQueue) <= QueueCapacity
        /\ QueueCapacity \in Nat /\ RingCapacity \in Nat
        /\ ring \in Seq(Slots) /\ Len(ring) <= RingCapacity
    BY Rtl8139Assumption DEF TypeOK, Slots
  <2>3. ring' \in Seq(Slots) /\ Len(ring') <= RingCapacity /\ Head(ring).id \in 1 .. MaxPackets
    <3>1. ring' \in Seq(Slots) /\ Len(ring') <= RingCapacity /\ Head(ring) \in Slots
      BY <2>1, <2>2, QueueTypes, Zenon
    <3> QED BY <3>1 DEF Slots
  <2>4. rxQueue' \in Seq(1 .. MaxPackets) /\ Len(rxQueue') <= QueueCapacity
    <3>1. CASE RxPacket
      BY <2>2, <2>3, <3>1, QueueTypes, Zenon DEF RxPacket
    <3>2. CASE RxBad \/ RxWarn
      BY <2>2, <3>2, Zenon DEF RxBad, RxWarn
    <3> QED BY <1>6, <3>1, <3>2
  <2>5. UNCHANGED <<txLock, txQueue, current, buffers, rxLock, com1, status, own, sending, isrReg>>
    BY <1>6, Zenon DEF RxPacket, RxBad, RxWarn
  <2> QED BY <2>1, <2>3, <2>4, <2>5, Zenon DEF TypeOK, Slots, Contexts
<1> HIDE DEF At
<1> QED BY <1>2, <1>3, <1>4, <1>5, <1>6, Zenon DEF IsrStep

LEMMA CardTypes ==
  ASSUME TypeOK, HistoryOK, CardTransmit \/ \E ok \in BOOLEAN : CardReceive(ok)
  PROVE  TypeOK'
<1> USE DEF tx, rx
<1>1. CASE CardTransmit
  <2>1. isrReg' \subseteq Flags
    BY <1>1 DEF TypeOK, CardTransmit, Flags
  <2>2. sending' \in Descs
    BY <1>1, NextDescOK DEF TypeOK, CardTransmit
  <2>3. own' \in [Descs -> BOOLEAN]
    BY <1>1 DEF TypeOK, CardTransmit
  <2>4. UNCHANGED <<tx, rx, com1, pc, status, ring>>
    BY <1>1 DEF CardTransmit
  <2> QED BY ZenonT(30), <2>1, <2>2, <2>3, <2>4 DEF TypeOK
<1>2. ASSUME NEW ok \in BOOLEAN, CardReceive(ok) PROVE TypeOK'
  <2>1. isrReg' \subseteq Flags
    BY <1>2, Zenon DEF TypeOK, CardReceive, Flags
  <2>2. ring \in Seq(Slots) /\ Len(ring) <= RingCapacity /\ RingCapacity \in Nat
    BY Rtl8139Assumption DEF TypeOK, Slots
  <2>3. [id |-> arrived + 1, ok |-> ok] \in Slots
    BY <1>2, Rtl8139Assumption DEF CardReceive, HistoryOK, Slots
  <2>4. ring' \in Seq(Slots) /\ Len(ring') <= RingCapacity
    BY <1>2, <2>2, <2>3, QueueTypes, Zenon DEF CardReceive
  <2>5. UNCHANGED <<tx, rx, com1, pc, status, own, sending>>
    BY <1>2 DEF CardReceive
  <2> QED BY <2>1, <2>4, <2>5, Zenon DEF TypeOK, Slots
<1> QED BY <1>1, <1>2, Zenon

LEMMA NextHistoryOK ==
  ASSUME TypeOK, HistoryOK, Next
  PROVE  HistoryOK'
<1> USE DEF history
<1>1. CASE UNCHANGED history
  BY <1>1 DEF HistoryOK
<1>2. MaxFrames \in Nat /\ MaxPackets \in Nat
  BY Rtl8139Assumption
<1>3. ASSUME NEW t \in Threads, ThreadStep(t) \/ Call(t), ~Flush(t)
      PROVE  HistoryOK'
  <2>1. CASE SendPacket(t)
    BY <1>2, <2>1 DEF SendPacket, HistoryOK
  <2>2. CASE TransmitPush(t)
    <3>1. accepted \in Seq(Nat) /\ Len(accepted) + 1 \in Nat
      BY DEF HistoryOK
    <3>2. Append(accepted, Len(accepted) + 1) \in Seq(Nat)
      BY <3>1
    <3>3. accepted' \in Seq(Nat)
      BY <2>2, <3>1, <3>2, Zenon DEF TransmitPush
    <3> QED BY <2>2, <3>3, Zenon DEF TransmitPush, HistoryOK
  <2>3. CASE ReceivePop(t)
    <3>1. rxQueue # <<>> => Head(rxQueue) \in Nat
      BY <1>2 DEF TypeOK
    <3>2. /\ delivered \in Seq(Nat)
          /\ rxQueue # <<>> => Append(delivered, Head(rxQueue)) \in Seq(Nat)
      BY <3>1 DEF HistoryOK
    <3>3. delivered' \in Seq(Nat)
      BY <2>3, <3>2, Zenon DEF ReceivePop
    <3> QED BY <2>3, <3>3, Zenon DEF ReceivePop, HistoryOK
  <2> QED BY <1>1, <1>3, <2>1, <2>2, <2>3, Zenon
          DEF ThreadStep, Call, TransmitLock, WarnLock, WarnUnlock, LogLock, LogUnlock,
              ReceiveLock
<1>4. ASSUME NEW c \in Contexts, Flush(c) PROVE HistoryOK'
  BY <1>1, <1>4, Zenon
     DEF Flush, FlushTryLock, FlushCheck, FlushPop, FlushStart, FlushStop, FlushUnlock
<1>5. ASSUME Interrupt \/ IsrStep, ~Flush(Isr) PROVE HistoryOK'
  <2>1. CASE RxBad \/ RxFull
    BY <2>1 DEF RxBad, RxFull, HistoryOK
  <2> QED BY <1>1, <1>5, <2>1, Zenon
          DEF IsrStep, Interrupt, ReadStatus, RxTryLock, RxPacket, RxWarn, RxDone, Acknowledge
<1>6. CASE CardTransmit
  <2>1. buffers[sending] \in Nat
    BY <1>2 DEF TypeOK
  <2>2. wire' \in Seq(Nat)
    BY <1>6, <2>1 DEF CardTransmit, HistoryOK
  <2> QED BY <1>6, <2>2, Zenon DEF CardTransmit, HistoryOK
<1>7. CASE \E ok \in BOOLEAN : CardReceive(ok)
  BY <1>2, <1>7 DEF CardReceive, HistoryOK
<1>8. Isr \in Contexts /\ \A t \in Threads : t \in Contexts
  BY DEF Contexts
<1>9. CASE \E t \in Threads : ThreadStep(t) \/ Call(t)
  BY <1>3, <1>4, <1>8, <1>9, Zenon
<1>10. CASE Interrupt \/ IsrStep
  BY <1>4, <1>5, <1>8, <1>10, Zenon
<1> QED BY <1>6, <1>7, <1>9, <1>10, Zenon DEF Next

-----------------------------------------------------------------------------
(* What the invariant says *)

(* Runs of numbers, one behind the other. *)
LEMMA FollowsConcat ==
  ASSUME NEW p \in Seq(Nat), NEW q \in Seq(Nat), NEW k \in Nat,
         Follows(p, k), Follows(q, k + Len(p))
  PROVE  Follows(p \o q, k) /\ p \o q \in Seq(Nat) /\ Len(p \o q) = Len(p) + Len(q)
<1>1. /\ p \o q \in Seq(Nat) /\ Len(p \o q) = Len(p) + Len(q)
      /\ \A i \in 1 .. Len(p) + Len(q) : (p \o q)[i] =
           IF i <= Len(p) THEN p[i] ELSE q[i - Len(p)]
  OBVIOUS
<1> DEFINE r == p \o q
<1> HIDE DEF r
<1>2. DOMAIN p = 1 .. Len(p) /\ DOMAIN q = 1 .. Len(q) /\ DOMAIN r = 1 .. Len(p) + Len(q)
  BY <1>1 DEF r
<1>3. PICK a \in Nat, b \in Nat : a = Len(p) /\ b = Len(q)
  OBVIOUS
<1>4. /\ \A i \in 1 .. a + b : r[i] = IF i <= a THEN p[i] ELSE q[i - a]
      /\ \A i \in 1 .. a : p[i] = k + i
      /\ \A i \in 1 .. b : q[i] = k + a + i
  BY <1>1, <1>2, <1>3, Zenon DEF r, Follows
<1>5. ASSUME NEW i \in 1 .. a + b PROVE r[i] = k + i
  <2>1. CASE i <= a
    BY <1>4, <2>1
  <2>2. CASE i > a
    <3>1. i - a \in 1 .. b
      BY <2>2
    <3>2. r[i] = q[i - a] /\ q[i - a] = k + a + (i - a)
      BY <1>4, <2>2, <3>1
    <3> QED BY <3>2
  <2> QED BY <2>1, <2>2
<1> QED BY <1>1, <1>2, <1>3, <1>5, Zenon DEF r, Follows

LEMMA SameSeq ==
  ASSUME NEW S, NEW p \in Seq(S), NEW q \in Seq(S),
         Len(p) = Len(q), \A i \in 1 .. Len(p) : p[i] = q[i]
  PROVE  p = q
OBVIOUS

(* The numbers of a run are determined by its length. *)
LEMMA FollowsSame ==
  ASSUME NEW p \in Seq(Nat), NEW q \in Seq(Nat), NEW k \in Nat,
         Follows(p, k), Follows(q, k), Len(p) = Len(q)
  PROVE  p = q
<1>1. DOMAIN p = 1 .. Len(p) /\ DOMAIN q = 1 .. Len(p)
  OBVIOUS
<1>2. \A i \in 1 .. Len(p) : p[i] = q[i]
  BY <1>1, Zenon DEF Follows
<1> QED BY <1>2, SameSeq, Zenon

(* The descriptors the card has are the n from sending on. *)
InFlightFrom(n) == [i \in 1 .. n |-> buffers[(sending + i - 1) % Descriptors]]

LEMMA OrderFrom ==
  ASSUME IInv, NEW n \in 0 .. Descriptors, InOrder(n), InFlight = InFlightFrom(n)
  PROVE  TxOrder
<1>1. InOrder(n)
  OBVIOUS
<1>2. /\ wire \in Seq(Nat) /\ accepted \in Seq(Nat) /\ txQueue \in Seq(Nat)
      /\ Len(wire) \in Nat /\ Len(accepted) \in Nat /\ Len(txQueue) \in Nat
      /\ Descriptors \in Nat \ {0} /\ sending \in Descs /\ current \in Descs
      /\ n \in Nat /\ InStart \in Nat
  <2>1. TypeOK /\ HistoryOK /\ MaxFrames \in Nat /\ Descriptors \in Nat \ {0}
    BY Rtl8139Assumption DEF IInv
  <2>2. wire \in Seq(Nat) /\ accepted \in Seq(Nat) /\ txQueue \in Seq(1 .. MaxFrames)
    BY <2>1 DEF TypeOK, HistoryOK
  <2>3. txQueue \in Seq(Nat)
    BY <2>1, <2>2
  <2>4. sending \in Descs /\ current \in Descs
    BY <2>1 DEF TypeOK
  <2> QED BY <2>1, <2>2, <2>3, <2>4 DEF InStart
<1> DEFINE g == InFlight
           s == Starting
<1>3. g \in Seq(Nat) /\ Len(g) = n /\ Follows(g, Len(wire))
  <2>1. g = InFlightFrom(n)
    OBVIOUS
  <2>2. ASSUME NEW i \in 1 .. n
        PROVE  buffers[(sending + i - 1) % Descriptors] = Len(wire) + i
    <3> DEFINE d == (sending + i - 1) % Descriptors
    <3>1. i - 1 \in 0 .. Descriptors /\ sending + (i - 1) = sending + i - 1
      BY <1>2 DEF Descs
    <3>2. d = IF sending + (i - 1) < Descriptors THEN sending + (i - 1)
              ELSE sending + (i - 1) - Descriptors
      BY <1>2, <3>1, Wrap, Zenon DEF Descs
    <3> HIDE DEF d
    <3>3. d \in Descs /\ Ahead(d) = i - 1
      BY <1>2, <3>1, <3>2 DEF Descs, Ahead
    <3>4. buffers[d] = Len(wire) + 1 + (i - 1)
      BY <1>1, <3>3 DEF InOrder
    <3> QED BY <1>2, <3>4 DEF d
  <2>3. g = [i \in 1 .. n |-> Len(wire) + i]
    BY <2>1, <2>2 DEF InFlightFrom
  <2> HIDE DEF g
  <2>4. g \in [1 .. n -> Nat]
    BY <1>2, <2>3
  <2>5. g \in Seq(Nat) /\ Len(g) = n
    BY <1>2, <2>4
  <2> QED BY <2>3, <2>5 DEF Follows
<1>4. s \in Seq(Nat) /\ Len(s) = InStart /\ Follows(s, Len(wire) + n)
  <2>1. DOMAIN pc = Contexts
    BY DEF IInv, TypeOK, Contexts
  <2>2. CASE Starts
    <3>1. s = <<Len(wire) + n + 1>> /\ InStart = 1
      BY <1>1, <2>1, <2>2 DEF Starting, Starts, InOrder, InStart
    <3> HIDE DEF s
    <3> QED BY <1>2, <3>1 DEF Follows
  <2>3. CASE ~Starts
    <3>1. s = <<>> /\ InStart = 0
      BY <2>1, <2>3 DEF Starting, Starts, InStart
    <3> HIDE DEF s
    <3> QED BY <3>1 DEF Follows
  <2> QED BY <2>2, <2>3
<1> HIDE DEF g, s
<1>5. Follows(wire, 0) /\ Follows(accepted, 0)
      /\ Follows(txQueue, Len(wire) + n + InStart)
      /\ Len(accepted) = Len(wire) + n + InStart + Len(txQueue)
  BY <1>1 DEF InOrder
<1> DEFINE a == wire \o g
           b == a \o s
           c == b \o txQueue
<1>6. a \in Seq(Nat) /\ Len(a) = Len(wire) + n /\ Follows(a, 0)
  <2>1. 0 + Len(wire) = Len(wire)
    BY <1>2
  <2> QED BY <1>2, <1>3, <1>5, <2>1, 0 \in Nat, FollowsConcat, Zenon
<1> HIDE DEF a
<1>7. b \in Seq(Nat) /\ Len(b) = Len(wire) + n + InStart /\ Follows(b, 0)
  <2>1. 0 + Len(a) = Len(wire) + n
    BY <1>2, <1>6
  <2> QED BY <1>4, <1>6, <2>1, 0 \in Nat, FollowsConcat, Zenon
<1> HIDE DEF b
<1>8. c \in Seq(Nat) /\ Len(c) = Len(accepted) /\ Follows(c, 0)
  <2>1. 0 + Len(b) = Len(wire) + n + InStart
    BY <1>2, <1>7
  <2>2. c \in Seq(Nat) /\ Len(c) = Len(b) + Len(txQueue) /\ Follows(c, 0)
    BY <1>2, <1>5, <1>7, <2>1, 0 \in Nat, FollowsConcat, Zenon
  <2> QED BY <1>5, <1>7, <2>2, Zenon
<1> HIDE DEF c
<1>9. c = accepted
  BY <1>2, <1>5, <1>8, FollowsSame
<1> QED BY <1>9, Zenon DEF TxOrder, IInv, a, b, c, g, s

LEMMA IncreasingConcat ==
  ASSUME NEW p \in Seq(Nat), NEW q \in Seq(Nat), Increasing(p), Increasing(q), Before(p, q)
  PROVE  /\ Increasing(p \o q) /\ p \o q \in Seq(Nat) /\ Len(p \o q) = Len(p) + Len(q)
         /\ \A g \in Seq(Nat) : Before(p, g) /\ Before(q, g) => Before(p \o q, g)
<1> DEFINE r == p \o q
<1>1. /\ r \in Seq(Nat) /\ Len(r) = Len(p) + Len(q)
      /\ \A i \in 1 .. Len(p) + Len(q) : r[i] = IF i <= Len(p) THEN p[i] ELSE q[i - Len(p)]
  OBVIOUS
<1> HIDE DEF r
<1>2. DOMAIN p = 1 .. Len(p) /\ DOMAIN q = 1 .. Len(q) /\ DOMAIN r = 1 .. Len(p) + Len(q)
  BY <1>1
<1>3. PICK a \in Nat, b \in Nat : a = Len(p) /\ b = Len(q)
  OBVIOUS
<1>4. ASSUME NEW i \in 1 .. a + b
      PROVE  \/ i \in 1 .. a /\ r[i] = p[i]
             \/ i > a /\ i - a \in 1 .. b /\ r[i] = q[i - a]
  <2>1. r[i] = IF i <= a THEN p[i] ELSE q[i - a]
    BY <1>1, <1>3, Zenon
  <2> QED BY <2>1
<1>5. DOMAIN p = 1 .. a /\ DOMAIN q = 1 .. b /\ DOMAIN r = 1 .. a + b
  BY <1>2, <1>3, Zenon
<1>6. Increasing(r)
  <2> SUFFICES ASSUME NEW i \in 1 .. a + b, NEW j \in 1 .. a + b, i < j PROVE r[i] < r[j]
    BY <1>5, Zenon DEF Increasing
  <2>1. CASE j \in 1 .. a /\ r[j] = p[j]
    <3>1. i \in 1 .. a /\ ~(i > a)
      BY <2>1
    <3> QED BY <1>4, <1>5, <2>1, <3>1, Zenon DEF Increasing
  <2>2. CASE /\ j > a /\ j - a \in 1 .. b /\ r[j] = q[j - a]
             /\ i > a /\ i - a \in 1 .. b /\ r[i] = q[i - a]
    <3>1. i - a < j - a
      BY <2>2
    <3> QED BY <1>5, <2>2, <3>1, Zenon DEF Increasing
  <2>3. CASE /\ j > a /\ j - a \in 1 .. b /\ r[j] = q[j - a]
             /\ i \in 1 .. a /\ r[i] = p[i]
    BY <1>5, <2>3, Zenon DEF Before
  <2> QED BY <1>4, <2>1, <2>2, <2>3
<1>7. ASSUME NEW g \in Seq(Nat), Before(p, g), Before(q, g) PROVE Before(r, g)
  BY <1>4, <1>5, <1>7, Zenon DEF Before
<1> QED BY <1>1, <1>6, <1>7, Zenon DEF r

LEMMA InvRxAccounted ==
  ASSUME IInv
  PROVE  RxAccounted
<1>1. TypeOK /\ HistoryOK /\ RxInv
  BY DEF IInv
<1>2. /\ delivered \in Seq(Nat) /\ rxQueue \in Seq(Nat) /\ Ids(ring) \in Seq(Nat)
      /\ Len(Ids(ring)) = Len(ring)
  BY <1>1, RxTypes, IdsOK, Zenon
<1> DEFINE g == Ids(ring)
           a == delivered \o rxQueue
           b == a \o g
<1> HIDE DEF g
<1>3. a \in Seq(Nat) /\ Increasing(a) /\ Before(a, g) /\ Len(a) = Len(delivered) + Len(rxQueue)
  BY <1>1, <1>2, IncreasingConcat, Zenon DEF RxInv, g
<1> HIDE DEF a
<1>4. Increasing(b) /\ Len(b) = Len(a) + Len(g)
  BY <1>1, <1>2, <1>3, IncreasingConcat, Zenon DEF RxInv, g
<1> HIDE DEF b
<1>5. Len(b) = Len(delivered) + Len(rxQueue) + Len(ring)
  BY <1>2, <1>3, <1>4, Zenon DEF g
<1>6. Len(b) + lost = arrived + (IF pc[Isr] = "rx_warn" THEN 1 ELSE 0)
  BY <1>1, <1>5, Zenon DEF RxInv
<1>7. b = delivered \o rxQueue \o [i \in DOMAIN ring |-> ring[i].id]
  BY Zenon DEF a, b, g, Ids
<1> QED BY <1>4, <1>6, <1>7, Zenon DEF RxAccounted, Increasing

-----------------------------------------------------------------------------
(* Counting: calls that are under way, and descriptors in flight *)

INSTANCE FiniteSetTheorems

LEMMA PendingStep ==
  ASSUME TypeOK, NEW c \in Contexts, NEW l, Goto(c, l)
  PROVE  Pending' = IF c \in Threads /\ l \in {"tx_lock", "tx_push"}
                    THEN Pending \cup {c} ELSE Pending \ {c}
<1>1. pc'[c] = l /\ \A d \in Contexts : d # c => pc'[d] = pc[d]
  BY GotoOK
<1> QED BY ZenonT(30), <1>1 DEF Pending, Contexts

LEMMA NextCallsInv ==
  ASSUME TypeOK, HistoryOK, CallsInv, Next
  PROVE  CallsInv'
<1>1. /\ IsFiniteSet(Pending) /\ Cardinality(Pending) \in Nat
      /\ Cardinality(Pending) + Len(accepted) <= sent
      /\ Len(accepted) \in Nat /\ sent \in Nat
  BY FS_CardinalityType DEF CallsInv, HistoryOK
<1>2. \A c : /\ IsFiniteSet(Pending \ {c}) /\ IsFiniteSet(Pending \cup {c})
             /\ Cardinality(Pending \ {c}) =
                  IF c \in Pending THEN Cardinality(Pending) - 1 ELSE Cardinality(Pending)
             /\ Cardinality(Pending \cup {c}) =
                  IF c \in Pending THEN Cardinality(Pending) ELSE Cardinality(Pending) + 1
  BY <1>1, FS_RemoveElement, FS_AddElement, Zenon
<1>3. ASSUME Pending' = Pending, UNCHANGED <<accepted, sent>> PROVE CallsInv'
  BY <1>3 DEF CallsInv
<1>4. CASE Ordinary
  <2>1. PICK c \in Contexts, l \in PCs \ Apart : Goto(c, l) /\ pc[c] \notin Apart
    BY ZenonT(30), <1>4 DEF Ordinary
  <2>2. Pending' = Pending \ {c} /\ c \notin Pending
    BY <2>1, PendingStep DEF Apart, Pending
  <2> QED BY <1>3, <1>4, <2>2 DEF Ordinary, txFrames
<1>5. ASSUME NEW t \in Threads, SendPacket(t) PROVE CallsInv'
  <2>1. Pending' = Pending \cup {t} /\ sent' = sent + 1 /\ accepted' = accepted
    BY <1>5, PendingStep DEF SendPacket, Contexts
  <2>2. /\ IsFiniteSet(Pending')
        /\ Cardinality(Pending') \in {Cardinality(Pending), Cardinality(Pending) + 1}
    BY <1>2, <2>1, Zenon
  <2> QED BY <1>1, <2>1, <2>2 DEF CallsInv
<1>6. ASSUME NEW t \in Threads, TransmitLock(t) PROVE CallsInv'
  <2>1. t \in Pending /\ UNCHANGED <<accepted, sent>>
    BY <1>6 DEF TransmitLock, At, Pending, history
  <2>2. Pending' = Pending \cup {t} \/ Pending' = Pending \ {t}
    BY <1>6, PendingStep DEF TransmitLock, Contexts
  <2>3. /\ IsFiniteSet(Pending')
        /\ Cardinality(Pending') \in {Cardinality(Pending), Cardinality(Pending) - 1}
    BY <1>2, <2>1, <2>2, Zenon
  <2> QED BY <1>1, <2>1, <2>3 DEF CallsInv
<1>7. ASSUME NEW t \in Threads, TransmitPush(t) PROVE CallsInv'
  <2>1. t \in Pending /\ sent' = sent /\ Pending' = Pending \ {t}
    BY <1>7, PendingStep DEF TransmitPush, At, Pending, Contexts
  <2>2. Len(accepted') \in Nat /\ Len(accepted') <= Len(accepted) + 1
    BY <1>1, <1>7 DEF TransmitPush, HistoryOK
  <2>3. Cardinality(Pending') = Cardinality(Pending) - 1 /\ IsFiniteSet(Pending')
    BY <1>2, <2>1, Zenon
  <2> QED BY SMTT(30), <1>1, <2>1, <2>2, <2>3 DEF CallsInv
<1>8. ASSUME NEW c \in Contexts, FlushCheck(c) \/ FlushPop(c) \/ FlushStart(c)
      PROVE  CallsInv'
  <2>1. c \notin Pending /\ UNCHANGED <<accepted, sent>>
    BY ZenonT(30), <1>8 DEF FlushCheck, FlushPop, FlushStart, At, Pending, history
  <2>2. Pending' = Pending \ {c}
    BY <1>8, PendingStep DEF FlushCheck, FlushPop, FlushStart
  <2> QED BY ZenonT(30), SMTT(30), <1>3, <2>1, <2>2
<1>9. CASE CardTransmit \/ UNCHANGED <<txFrames, sent, pc>>
  BY <1>3, <1>9 DEF CardTransmit, Pending, txFrames
<1> QED BY ZenonT(30), <1>4, <1>5, <1>6, <1>7, <1>8, <1>9, OrdinarySteps

(* A call of send_packet in progress has a number of its own. *)
LEMMA RoomForCall ==
  ASSUME HistoryOK, CallsInv, NEW t \in Threads, pc[t] = "tx_push"
  PROVE  Len(accepted) + 1 \in 1 .. MaxFrames
<1>1. /\ IsFiniteSet(Pending) /\ Cardinality(Pending) \in Nat
      /\ Cardinality(Pending) + Len(accepted) <= sent
      /\ Len(accepted) \in Nat /\ sent \in 0 .. MaxFrames /\ MaxFrames \in Nat
  BY FS_CardinalityType, Rtl8139Assumption DEF CallsInv, HistoryOK
<1>2. IsFiniteSet(Pending \ {t}) /\ Cardinality(Pending \ {t}) = Cardinality(Pending) - 1
  BY <1>1, FS_RemoveElement, Zenon DEF Pending
<1>3. Cardinality(Pending \ {t}) \in Nat
  BY <1>2, FS_CardinalityType
<1> QED BY <1>1, <1>2, <1>3

LEMMA NextTypeOK ==
  ASSUME TypeOK, HistoryOK, CallsInv, RxInv, Next
  PROVE  TypeOK'
<1>1. Isr \in Contexts /\ \A t \in Threads : t \in Contexts
  BY DEF Contexts
<1>2. CASE \E t \in Threads : ThreadStep(t) \/ Call(t)
  BY <1>1, <1>2, RoomForCall, ThreadTypes, FlushTypes, Zenon
<1>3. CASE Interrupt \/ IsrStep
  BY <1>1, <1>3, IsrTypes, FlushTypes, Zenon
<1> QED BY <1>2, <1>3, CardTypes, Zenon DEF Next

LEMMA InitIInv ==
  ASSUME Init
  PROVE  IInv
<1> USE DEF Init
<1>1. Descriptors \in Nat \ {0} /\ QueueCapacity \in Nat \ {0} /\ RingCapacity \in Nat \ {0}
      /\ MaxFrames \in Nat /\ MaxPackets \in Nat
  BY Rtl8139Assumption
<1>2. 0 \in Descs /\ 0 \in 0 .. MaxFrames /\ 0 \in 0 .. MaxPackets
  BY <1>1 DEF Descs
<1>3. \A S : <<>> \in Seq(S) /\ Len(<<>>) = 0 /\ DOMAIN <<>> = {}
  OBVIOUS
<1>4. \A c \in Contexts : pc[c] = "idle"
  BY DEF Contexts
<1>5. TypeOK
  <2>1. buffers \in [Descs -> 0 .. MaxFrames] /\ own \in [Descs -> BOOLEAN]
        /\ pc \in [Threads \cup {Isr} -> PCs]
    BY <1>2 DEF PCs
  <2>2. Len(<<>>) <= QueueCapacity /\ Len(<<>>) <= RingCapacity
    BY <1>1
  <2> QED BY ZenonT(30), <1>2, <1>3, <2>1, <2>2 DEF TypeOK
<1>6. HistoryOK
  BY ZenonT(30), <1>2, <1>3 DEF HistoryOK
<1>7. LockInv /\ FreeInv
  BY <1>4 DEF LockInv, FreeInv, Held
<1>8. TxInv
  <2>1. ~Starts
    BY <1>4 DEF Starts
  <2>2. \A d \in Descs : ~(Ahead(d) < 0) /\ own[d]
    BY <1>1 DEF Ahead, Descs
  <2>3. InOrder(0)
    BY <1>1, <1>3, <2>1, <2>2 DEF InOrder, InStart, Follows
  <2> QED BY <1>1, <2>3 DEF TxInv
<1>9. CallsInv
  <2>1. Pending = {}
    BY <1>4 DEF Pending, Contexts
  <2>2. IsFiniteSet({}) /\ Cardinality({}) = 0
    BY ZenonT(30), FS_EmptySet
  <2> QED BY <1>3, <2>1, <2>2 DEF CallsInv
<1>10. RxInv
  <2>1. pc[Isr] = "idle"
    BY <1>4 DEF Contexts
  <2>2. Ids(<<>>) = <<>>
    BY DEF Ids
  <2> QED BY <1>3, <2>1, <2>2 DEF RxInv, Increasing, Before, UpTo
<1> QED BY ZenonT(30), SMTT(30), <1>5, <1>6, <1>7, <1>8, <1>9, <1>10 DEF IInv

LEMMA NextIInv ==
  ASSUME IInv, [Next]_vars
  PROVE  IInv'
<1>1. CASE UNCHANGED vars
  <2> USE DEF vars, tx, rx, card, history
  <2>1. TypeOK' /\ HistoryOK' /\ LockInv' /\ FreeInv' /\ CallsInv'
    BY ZenonT(30), <1>1 DEF IInv, TypeOK, HistoryOK, LockInv, FreeInv, CallsInv, Pending
  <2>2. TxInv'
    BY ZenonT(30), <1>1, SameTxInv DEF IInv, txFrames, Starts
  <2>3. RxInv'
    BY <1>1, SameRxInv DEF IInv, rxPackets
  <2> QED BY ZenonT(30), SMTT(30), <2>1, <2>2, <2>3 DEF IInv
<1>2. CASE Next
  BY ZenonT(30), <1>2, NextTypeOK, NextHistoryOK, NextLockInv, NextFreeInv,
     NextTxInv, NextCallsInv, NextRxInv DEF IInv
<1> QED BY <1>1, <1>2

LEMMA DescriptorsInFlight ==
  ASSUME TypeOK, NEW n \in 0 .. Descriptors, InOrder(n)
  PROVE  InFlight = InFlightFrom(n)
<1> DEFINE B == {d \in Descs : ~own[d]}
           at(i) == (sending + i - 1) % Descriptors
           f == [i \in 1 .. n |-> at(i)]
<1>1. Descriptors \in Nat \ {0} /\ sending \in 0 .. Descriptors - 1 /\ Descs = 0 .. Descriptors - 1
  BY Rtl8139Assumption DEF TypeOK, Descs
<1>2. ASSUME NEW i \in 1 .. n
      PROVE  at(i) = IF sending + i <= Descriptors THEN sending + i - 1
                     ELSE sending + i - 1 - Descriptors
  <2>1. i - 1 \in 0 .. Descriptors /\ sending + (i - 1) = sending + i - 1
    BY <1>1
  <2>2. (sending + (i - 1)) % Descriptors =
          IF sending + (i - 1) < Descriptors THEN sending + (i - 1)
          ELSE sending + (i - 1) - Descriptors
    BY ZenonT(30), <1>1, <2>1, Wrap
  <2> QED BY <1>1, <2>1, <2>2
<1> HIDE DEF at
<1>3. ASSUME NEW i \in 1 .. n PROVE at(i) \in Descs /\ Ahead(at(i)) = i - 1
  BY <1>1, <1>2 DEF Ahead
<1>4. ASSUME NEW d \in Descs, Ahead(d) < n
      PROVE  Ahead(d) + 1 \in 1 .. n /\ at(Ahead(d) + 1) = d
  BY SMTT(30), <1>1, <1>2, <1>4 DEF Ahead
<1>5. f \in [1 .. n -> B]
  BY <1>1, <1>3 DEF InOrder
<1>6. \A a, b \in 1 .. n : f[a] = f[b] => a = b
  BY <1>2, <1>3
<1>7. \A d \in B : \E i \in 1 .. n : f[i] = d
  <2> SUFFICES ASSUME NEW d \in Descs, ~own[d] PROVE \E i \in 1 .. n : f[i] = d
    OBVIOUS
  <2>1. Ahead(d) < n
    BY DEF InOrder
  <2> QED BY <1>4, <2>1
<1> HIDE DEF f, B
<1>8. f \in Bijection(1 .. n, B)
  BY <1>5, <1>6, <1>7 DEF Bijection, Injection, Surjection, IsInjective
<1>9. Cardinality(B) = n
  BY <1>8, FS_CountingElements DEF ExistsBijection
<1> QED BY <1>9 DEF InFlight, InFlightFrom, B

LEMMA InvTxOrder ==
  ASSUME IInv
  PROVE  TxOrder
<1>1. PICK n \in 0 .. Descriptors : InOrder(n)
  BY DEF IInv, TxInv
<1>2. InFlight = InFlightFrom(n)
  BY <1>1, DescriptorsInFlight, Zenon DEF IInv
<1> QED BY <1>1, <1>2, OrderFrom, Zenon

-----------------------------------------------------------------------------
(* Theorems *)

(* The invariant of the driver: the lock on TxState is held by one context *)
(* at most, and what it learnt of its descriptor holds while it does;      *)
(* descriptors, in turn, carry consecutive frames, the queue the frames    *)
(* behind them; every call of send_packet that is under way has a frame    *)
(* number left; delivered, queued and ringed packets are in order and,     *)
(* with the lost ones, all that arrived.                                   *)
THEOREM Invariance == Spec => []IInv
<1>1. Init => IInv
  BY InitIInv
<1>2. IInv /\ [Next]_vars => IInv'
  BY NextIInv
<1> QED BY <1>1, <1>2, PTL DEF Spec

(* Whatever the interleaving of senders and handler in flush_tx_queue,     *)
(* frames go out in the order transmit queued them, none twice, none lost. *)
THEOREM TransmitOrder == Spec => []TxOrder
<1>1. IInv => TxOrder
  BY InvTxOrder
<1> QED BY <1>1, Invariance, PTL

(* process_rx_buffer and receive_packet neither lose, repeat nor reorder a *)
(* packet without counting it as dropped.                                  *)
THEOREM PacketsAccounted == Spec => []RxAccounted
<1>1. IInv => RxAccounted
  BY InvRxAccounted
<1> QED BY <1>1, Invariance, PTL

(* Only flush_tx_queue writes to a transmit buffer. It reads OWN first and *)
(* copies later; senders, the handler and the card take any steps between, *)
(* yet the buffer it writes to is still not one the card may be reading.   *)
THEOREM BuffersSafe == Spec => NoOverwrite
<1> DEFINE Safe == \A d \in Descs : buffers'[d] # buffers[d] => own[d]
<1>1. IInv /\ [Next]_vars => [Safe]_vars
  <2> SUFFICES ASSUME IInv, Next PROVE Safe
    OBVIOUS
  <2>1. ASSUME NEW c \in Contexts, FlushPop(c) PROVE Safe
    BY <2>1 DEF FlushPop, At, IInv, FreeInv, TypeOK
  <2>2. CASE buffers' = buffers
    BY <2>2
  <2> HIDE DEF Safe
  <2>3. CASE Ordinary \/ UNCHANGED <<txFrames, sent, pc>>
    BY <2>2, <2>3, Zenon DEF Ordinary, txFrames
  <2>4. CASE CardTransmit \/ \E c \in Contexts : FlushCheck(c) \/ FlushStart(c)
    BY <2>2, <2>4, Zenon DEF CardTransmit, FlushCheck, FlushStart, tx
  <2>5. CASE \E t \in Threads : SendPacket(t) \/ TransmitLock(t) \/ TransmitPush(t)
    BY <2>2, <2>5, Zenon DEF SendPacket, TransmitLock, TransmitPush, tx
  <2> QED BY ZenonT(30), <2>1, <2>3, <2>4, <2>5, OrdinarySteps DEF IInv
<1> HIDE DEF Safe
<1>2. Spec => [][Safe]_vars
  BY <1>1, Invariance, PTL DEF Spec
<1> QED BY <1>2 DEF NoOverwrite, Safe
=============================================================================
