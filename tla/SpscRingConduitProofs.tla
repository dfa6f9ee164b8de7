----------------------- MODULE SpscRingConduitProofs -----------------------
(***************************************************************************)
(* The zero-copy interface keeps the invariant of SpscConduit.  Its steps  *)
(* reduce to the ones proved there: a commit publishes a prefix of what    *)
(* was written, a consume retires a prefix of what was looked at.          *)
(***************************************************************************)
EXTENDS SpscRingConduit, SpscConduitProofs

(* A sequence cut to its first n elements. *)
LEMMA PrefixFacts ==
  ASSUME NEW S, NEW s \in Seq(S), NEW n \in 0..Len(s)
  PROVE  /\ SubSeq(s, 1, n) \in Seq(S) /\ Len(SubSeq(s, 1, n)) = n
         /\ \A j \in 1..n : SubSeq(s, 1, n)[j] = s[j]
  OBVIOUS

(* The first n elements and one more. *)
LEMMA ExtendFacts ==
  ASSUME NEW S, NEW s \in Seq(S), NEW n \in 0..Len(s), NEW x \in S
  PROVE  /\ Append(SubSeq(s, 1, n), x) \in Seq(S)
         /\ Len(Append(SubSeq(s, 1, n), x)) = n + 1
         /\ \A j \in 1..n : Append(SubSeq(s, 1, n), x)[j] = s[j]
         /\ Append(SubSeq(s, 1, n), x)[n + 1] = x
<1> DEFINE t == SubSeq(s, 1, n)
<1>1. t \in Seq(S) /\ Len(t) = n /\ \A j \in 1..n : t[j] = s[j]
  BY PrefixFacts
<1>2. /\ Append(t, x) \in Seq(S) /\ Len(Append(t, x)) = Len(t) + 1
      /\ \A j \in 1..Len(t) : Append(t, x)[j] = t[j]
      /\ Append(t, x)[Len(t) + 1] = x
  BY ONLY <1>1, x \in S
<1> QED BY ONLY <1>1, <1>2

(* Reserving one slot more, by reserve or reserve_at, stays inside the room. *)
LEMMA ReserveAtInv ==
  ASSUME RingInv, NEW item \in Item, ReserveAt(item)
  PROVE  RingInv'
<1> USE DEF RingInv, Inv, ReservingFills
<1>0. /\ Reserved \in 0..Len(p_batch) /\ Len(p_batch) \in Nat
      /\ ShadowHeadFor(Reserved) \in Nat
  BY DEF Reserved, ShadowHeadFor, TypeOK
<1>1. CursorOrder'
  BY <1>0, SizeAssumption DEF ReserveAt, ShadowHeadFor, CursorOrder, TypeOK, consumerVars
<1>2. HistoryLength' /\ LiveSlotsIntact' /\ FifoOrder'
  BY DEF ReserveAt, consumerVars, HistoryLength, LiveSlotsIntact, FifoOrder
<1>3. CASE RoomAt(Reserved) <= 0
  <2>1. UNCHANGED <<p_pc, p_batch, p_done, reserving>>
    BY <1>3, <1>0, SizeAssumption DEF ReserveAt, RoomAt, TypeOK
  <2>2. TypeOK'
    BY <1>0, <2>1, <1>3, SizeAssumption DEF ReserveAt, consumerVars, TypeOK, RoomAt
  <2>3. ClaimFits'
    BY <1>0, <2>1, SizeAssumption
    DEF ReserveAt, consumerVars, ClaimFits, ShadowHeadFor, CursorOrder, TypeOK
  <2>4. PartialCopies'
    BY <2>1 DEF ReserveAt, consumerVars, PartialCopies
  <2> QED BY <1>1, <1>2, <2>1, <2>2, <2>3, <2>4
<1>4. CASE RoomAt(Reserved) > 0
  <2>1. /\ p_batch' = Append(SubSeq(p_batch, 1, Reserved), item)
        /\ p_pc' = "fill" /\ p_done' = Reserved /\ p_result' = "none" /\ reserving' = TRUE
    BY <1>4, <1>0, SizeAssumption DEF ReserveAt, RoomAt, TypeOK
  <2>2. /\ p_batch' \in Seq(Item) /\ Len(p_batch') = Reserved + 1
        /\ \A j \in 1..Reserved : p_batch'[j] = p_batch[j]
    <3>1. p_batch \in Seq(Item) /\ item \in Item
      BY DEF TypeOK
    <3> QED BY ONLY <3>1, <2>1, <1>0, ExtendFacts
  <2>3. TypeOK'
    BY <1>0, <2>1, <2>2 DEF ReserveAt, consumerVars, TypeOK
  <2>4. local_ingress_cursor + Reserved + 1 <= cached_egress_cursor' + Size
    BY <1>0, <1>4, SizeAssumption DEF ReserveAt, RoomAt, TypeOK
  <2>5. ClaimFits'
    <3>1. p_batch' # <<>>
      BY <2>2, <1>0
    <3>2. local_ingress_cursor' + Len(p_batch') <= cached_egress_cursor' + Size
      BY <1>0, <2>2, <2>4 DEF ReserveAt, TypeOK
    <3>3. p_done' <= Len(p_batch')
      BY <1>0, <2>1, <2>2
    <3> QED BY <2>1, <3>1, <3>2, <3>3 DEF ReserveAt, consumerVars, ClaimFits
  <2>6. PartialCopies'
    <3>1. ASSUME NEW j \in 0..Reserved-1
          PROVE  buffer[Slot(local_ingress_cursor + j)] = p_batch'[j + 1]
      <4>1. reserving /\ p_done = Len(p_batch) /\ j \in 0..p_done-1 /\ j + 1 \in 1..Reserved
        BY <1>0 DEF ReserveAt, Reserved, TypeOK
      <4>2. buffer[Slot(local_ingress_cursor + j)] = p_batch[j + 1]
        BY <4>1 DEF PartialCopies
      <4> QED BY <4>1, <4>2, <2>2
    <3> QED BY <3>1, <2>1 DEF ReserveAt, consumerVars, PartialCopies
  <2> QED BY <1>1, <1>2, <2>1, <2>3, <2>5, <2>6
<1> QED BY <1>3, <1>4, <1>0, SizeAssumption DEF RoomAt, TypeOK

(* What reserve_batch_space grants fits into the room. *)
LEMMA ReserveBatchInv ==
  ASSUME RingInv, NEW batch \in Seq(Item), batch # <<>>, ReserveBatchSpace(batch)
  PROVE  RingInv'
<1> USE DEF RingInv, Inv, ReservingFills
<1> DEFINE avail == Size - (local_ingress_cursor - ShadowHeadFor(Len(batch)))
           n == Least(avail, Len(batch))
<1>0. /\ ShadowHeadFor(Len(batch)) \in Nat /\ Len(batch) \in Nat /\ Len(batch) > 0
      /\ avail \in Int /\ avail >= 0
  BY SizeAssumption DEF ShadowHeadFor, TypeOK, CursorOrder
<1>1. CursorOrder'
  BY <1>0, SizeAssumption DEF ReserveBatchSpace, ShadowHeadFor, CursorOrder, TypeOK, consumerVars
<1>2. HistoryLength' /\ LiveSlotsIntact' /\ FifoOrder'
  BY DEF ReserveBatchSpace, consumerVars, HistoryLength, LiveSlotsIntact, FifoOrder
<1>3. CASE avail = 0
  <2>1. UNCHANGED <<p_pc, p_batch, p_done, reserving>> /\ p_result' = "full" /\ p_pc = "idle"
    BY <1>3 DEF ReserveBatchSpace
  <2>2. TypeOK' /\ ClaimFits' /\ PartialCopies'
    BY <1>0, <2>1 DEF ReserveBatchSpace, consumerVars, TypeOK, ClaimFits, PartialCopies
  <2> QED BY <1>1, <1>2, <2>1, <2>2
<1>4. CASE avail > 0
  <2>1. /\ p_batch' = SubSeq(batch, 1, n) /\ n \in 1..Len(batch) /\ n <= avail
        /\ p_pc' = "fill" /\ p_done' = 0 /\ p_result' = "none" /\ reserving' = TRUE
    BY <1>4, <1>0 DEF ReserveBatchSpace, Least
  <2>2. p_batch' \in Seq(Item) /\ Len(p_batch') = n /\ p_batch' # <<>>
    <3>1. batch \in Seq(Item) /\ n \in 0..Len(batch)
      BY <2>1, <1>0
    <3>2. p_batch' \in Seq(Item) /\ Len(p_batch') = n
      BY ONLY <3>1, <2>1, PrefixFacts
    <3> QED BY ONLY <2>1, <3>2
  <2>3. TypeOK'
    BY <1>0, <2>1, <2>2 DEF ReserveBatchSpace, consumerVars, TypeOK
  <2>4. ClaimFits'
    <3>1. local_ingress_cursor' + Len(p_batch') <= cached_egress_cursor' + Size
      <4>1. /\ local_ingress_cursor' = local_ingress_cursor
            /\ cached_egress_cursor' = ShadowHeadFor(Len(batch))
        BY DEF ReserveBatchSpace
      <4>2. local_ingress_cursor \in Nat /\ n \in Int /\ n <= avail /\ Len(p_batch') = n
        BY <2>1, <2>2, <1>0 DEF TypeOK
      <4> HIDE DEF n
      <4> QED BY ONLY <4>1, <4>2, <1>0, SizeAssumption
    <3>2. p_done' <= Len(p_batch')
      BY <2>1, <2>2
    <3> QED BY <2>1, <2>2, <3>1, <3>2 DEF ReserveBatchSpace, consumerVars, ClaimFits
  <2>5. PartialCopies'
    BY <2>1 DEF ReserveBatchSpace, consumerVars, PartialCopies
  <2> QED BY <1>1, <1>2, <2>1, <2>3, <2>4, <2>5
<1> QED BY <1>3, <1>4, <1>0

(* commit_n publishes the first k slots written. *)
LEMMA CommitInv ==
  ASSUME RingInv, NEW k \in Nat, CommitN(k)
  PROVE  RingInv'
<1> DEFINE cut == SubSeq(p_batch, 1, k)
<1>1. p_batch \in Seq(Item) /\ k \in 0..Len(p_batch) /\ k \in 1..p_done /\ p_pc = "fill"
  BY DEF RingInv, Inv, TypeOK, ClaimFits, ReservingFills, CommitN
<1>2. cut \in Seq(Item) /\ Len(cut) = k /\ \A j \in 1..k : cut[j] = p_batch[j]
  BY ONLY <1>1, PrefixFacts
<1>3. Inv'
  BY <1>1, <1>2, PublishInv DEF RingInv, CommitN
<1> QED BY <1>3 DEF RingInv, ReservingFills, CommitN

(* Looking one slot further reads a published slot. *)
LEMMA PeekAtInv == RingInv /\ PeekAt => RingInv'
<1> SUFFICES ASSUME RingInv, PeekAt PROVE RingInv'
  OBVIOUS
<1> USE DEF RingInv, Inv, ReservingFills
<1> DEFINE item == buffer[Slot(local_egress_cursor + LookedAt)]
<1>0. /\ LookedAt \in 0..Len(c_out) /\ Len(c_out) \in Nat
      /\ Horizon \in Nat /\ Horizon <= physical_ingress_gate /\ cached_ingress_cursor <= Horizon
  BY DEF LookedAt, Horizon, TypeOK, CursorOrder
<1>1. CursorOrder' /\ HistoryLength' /\ LiveSlotsIntact' /\ FifoOrder' /\ ReservingFills'
  BY <1>0 DEF PeekAt, producerVars, CursorOrder, HistoryLength, LiveSlotsIntact, FifoOrder, TypeOK
<1>2. CASE local_egress_cursor + LookedAt >= Horizon
  <2>1. UNCHANGED <<c_pc, c_count, c_out>> /\ c_result' \in {"empty", c_result}
    BY <1>2, <1>0 DEF PeekAt, TypeOK
  <2>2. TypeOK' /\ ClaimFits' /\ PartialCopies'
    BY <1>0, <2>1 DEF PeekAt, producerVars, TypeOK, ClaimFits, PartialCopies
  <2> QED BY <1>1, <2>2
<1>3. CASE local_egress_cursor + LookedAt < Horizon
  <2>1. /\ c_out' = Append(SubSeq(c_out, 1, LookedAt), item)
        /\ c_count' = LookedAt + 1 /\ c_pc' = "peeked" /\ c_result' = "none"
    BY <1>3, <1>0 DEF PeekAt, TypeOK
  <2>2. item \in Item /\ item = sent[local_egress_cursor + LookedAt + 1]
    <3>1. /\ local_egress_cursor + LookedAt \in physical_egress_gate..physical_ingress_gate-1
          /\ local_egress_cursor + LookedAt + 1 \in 1..Len(sent)
      BY <1>3, <1>0 DEF CursorOrder, HistoryLength, TypeOK
    <3>2. sent[local_egress_cursor + LookedAt + 1] \in Item
      BY <3>1 DEF TypeOK
    <3> QED BY <3>1, <3>2 DEF LiveSlotsIntact
  <2>3. /\ c_out' \in Seq(Item) /\ Len(c_out') = LookedAt + 1
        /\ \A j \in 1..LookedAt : c_out'[j] = c_out[j]
        /\ c_out'[LookedAt + 1] = item
    <3>1. c_out \in Seq(Item)
      BY DEF TypeOK
    <3> QED BY ONLY <3>1, <2>1, <2>2, <1>0, ExtendFacts
  <2>4. TypeOK' /\ ClaimFits'
    BY <1>0, <1>3, <2>1, <2>3 DEF PeekAt, producerVars, TypeOK, ClaimFits
  <2>5. PartialCopies'
    <3>1. ASSUME NEW j \in 1..Len(c_out')
          PROVE  c_out'[j] = sent[local_egress_cursor + j]
      <4>1. CASE j = LookedAt + 1
        BY <4>1, <2>2, <2>3, <1>0 DEF TypeOK
      <4>2. CASE j \in 1..LookedAt
        <5>1. c_pc = "peeked" /\ j \in 1..Len(c_out)
          BY <4>2, <1>0 DEF LookedAt
        <5> QED BY <4>2, <5>1, <2>3 DEF PartialCopies
      <4> QED BY <4>1, <4>2, <2>3, <1>0
    <3> QED BY <3>1, <2>1 DEF PeekAt, producerVars, PartialCopies
  <2> QED BY <1>1, <2>4, <2>5
<1> QED BY <1>2, <1>3, <1>0 DEF TypeOK

(* consume_n retires the first k slots looked at. *)
LEMMA ConsumeInv ==
  ASSUME RingInv, NEW k \in Nat, ConsumeN(k)
  PROVE  RingInv'
<1> DEFINE cut == SubSeq(c_out, 1, k)
<1>1. /\ c_out \in Seq(Item) /\ k \in 0..Len(c_out) /\ k \in 1..c_count
      /\ Len(c_out) = c_count
  BY DEF RingInv, Inv, TypeOK, ClaimFits, ConsumeN
<1>2. cut \in Seq(Item) /\ Len(cut) = k /\ \A j \in 1..k : cut[j] = c_out[j]
  BY ONLY <1>1, PrefixFacts
<1>3. Inv'
  BY <1>1, <1>2, RetireInv DEF RingInv, ConsumeN
<1> QED BY <1>3 DEF RingInv, ReservingFills, ConsumeN, producerVars

(* Every step of the ring conduit keeps the invariant. *)
LEMMA RingNextInv == RingInv /\ [RingNext]_ringVars => RingInv'
<1> SUFFICES ASSUME RingInv, [RingNext]_ringVars PROVE RingInv'
  OBVIOUS
<1>1. CASE CopyingNext
  <2>1. Next
    BY <1>1 DEF CopyingNext, Next, ProducerStep
  <2>2. Inv'
    BY <2>1, NextInv DEF RingInv
  <2>3. ReservingFills'
    BY <1>1 DEF RingInv, ReservingFills, CopyingNext, CallTryPush, CallPushBatch, CallPush,
       ClaimPush, FillSlot, PublishPush, CallTryPop, CallPopBatch, CallPop, ConsumerStep,
       ClaimPop, DrainSlot, RetirePop, Peek, Consume, producerVars
  <2> QED BY <2>2, <2>3 DEF RingInv
<1>2. CASE \E item \in Item : ReserveAt(item)
  BY <1>2, ReserveAtInv
<1>3. CASE \E n \in 1..MaxBatch : \E batch \in [1..n -> Item] : ReserveBatchSpace(batch)
  BY <1>3, ReserveBatchInv
<1>4. CASE \E k \in 1..MaxBatch : CommitN(k)
  BY <1>4, CommitInv
<1>5. CASE Abandon
  BY <1>5 DEF Abandon, consumerVars, RingInv, ReservingFills, Inv, TypeOK, CursorOrder,
     HistoryLength, ClaimFits, LiveSlotsIntact, PartialCopies, FifoOrder
<1>6. CASE AvailableToPeek
  BY <1>6 DEF AvailableToPeek, ShadowTail, producerVars, RingInv, ReservingFills, Inv, TypeOK,
     CursorOrder, HistoryLength, ClaimFits, LiveSlotsIntact, PartialCopies, FifoOrder
<1>7. CASE PeekAt
  BY <1>7, PeekAtInv
<1>8. CASE \E k \in 1..Size : ConsumeN(k)
  BY <1>8, ConsumeInv, SizeAssumption
<1>9. CASE UNCHANGED ringVars
  <2>1. UNCHANGED vars
    BY <1>9 DEF ringVars
  <2>2. Inv'
    BY <2>1, NextInv DEF RingInv
  <2> QED BY <2>1, <2>2, <1>9 DEF RingInv, ReservingFills, ringVars, vars, producerVars
<1> QED BY <1>1, <1>2, <1>3, <1>4, <1>5, <1>6, <1>7, <1>8, <1>9 DEF RingNext, Reserve, LookAhead

\* Whatever mix of copying calls, in-place bursts and look-ahead the two threads
\* use, and for every ring size, every state satisfies the invariant.
THEOREM RingInvariance == RingSpec => []RingInv
<1>1. RingInit => RingInv
  BY InitInv DEF RingInit, RingInv, ReservingFills
<1> QED BY <1>1, RingNextInv, PTL DEF RingSpec

\* What was popped or consumed is, in order, a prefix of what was pushed or committed.
THEOREM RingFifoOrder == RingSpec => []FifoOrder
<1>1. RingInv => FifoOrder
  BY DEF RingInv, Inv
<1> QED BY <1>1, RingInvariance, PTL

\* Every pointer handed out by peek, peek_at or get_peek_slot keeps its item until
\* the slot is consumed.
THEOREM LookAheadIsStable == RingSpec => []LookAheadStable
<1>1. RingInv => LookAheadStable
  <2> SUFFICES ASSUME RingInv, c_pc = "peeked", NEW j \in 1..Len(c_out)
               PROVE  buffer[Slot(local_egress_cursor + j - 1)] = c_out[j]
    BY DEF LookAheadStable
  <2>0. Inv
    BY DEF RingInv
  <2>1. /\ j - 1 \in Nat /\ local_egress_cursor + (j - 1) < cached_ingress_cursor
        /\ local_egress_cursor + (j - 1) = local_egress_cursor + j - 1
        /\ local_egress_cursor + (j - 1) + 1 = local_egress_cursor + j
    BY <2>0 DEF Inv, ClaimFits, TypeOK
  <2>2. buffer[Slot(local_egress_cursor + (j - 1))] = sent[local_egress_cursor + (j - 1) + 1]
    BY <2>0, <2>1, LiveSlotIsSent
  <2>3. c_out[j] = sent[local_egress_cursor + j]
    BY <2>0 DEF Inv, PartialCopies
  <2> QED BY <2>1, <2>2, <2>3
<1> QED BY <1>1, RingInvariance, PTL

(* reserve, reserve_at and reserve_batch_space answer "full" only when it is true. *)
LEMMA ReserveStep ==
  ASSUME RingInv, Reserve
  PROVE  Fifo!FifoNext \/ UNCHANGED <<sent, received, p_result, c_result>>
<1> USE DEF RingInv, Inv
<1>1. CASE \E item \in Item : ReserveAt(item)
  <2>1. PICK item \in Item : ReserveAt(item)
    BY <1>1
  <2>2. CASE RoomAt(Reserved) <= 0 /\ ~reserving
    <3>1. p_result' = "full" /\ UNCHANGED <<sent, received, c_result>>
      BY <2>1, <2>2, SizeAssumption DEF ReserveAt, RoomAt, Reserved, ShadowHeadFor, TypeOK, consumerVars
    <3>2. Fifo!Occupancy = Size
      BY <2>2, SizeAssumption
      DEF RoomAt, Reserved, ShadowHeadFor, Fifo!Occupancy, TypeOK, CursorOrder, HistoryLength
    <3> QED BY <3>1, <3>2 DEF Fifo!FifoNext, Fifo!RefusePush
  <2>3. CASE RoomAt(Reserved) <= 0 /\ reserving
    <3>1. RoomAt(Reserved) \in Int
      BY SizeAssumption DEF RoomAt, Reserved, ShadowHeadFor, TypeOK
    <3>2. ~(RoomAt(Reserved) > 0)
      BY ONLY <2>3, <3>1
    <3>3. p_result' = p_result /\ UNCHANGED <<sent, received, c_result>>
      BY <2>1, <2>3, <3>2 DEF ReserveAt, consumerVars
    <3> QED BY ONLY <3>3
  <2>4. CASE ~(RoomAt(Reserved) <= 0)
    <3>1. p_result' = "none" /\ UNCHANGED <<sent, received, c_result>>
      BY <2>1, <2>4 DEF ReserveAt, consumerVars
    <3>2. Fifo!CallPush
      BY <3>1 DEF Fifo!CallPush
    <3> QED BY ONLY <3>2 DEF Fifo!FifoNext
  <2> QED BY <2>2, <2>3, <2>4
<1>2. CASE \E n \in 1..MaxBatch : \E batch \in [1..n -> Item] : ReserveBatchSpace(batch)
  <2>1. PICK n \in 1..MaxBatch : \E batch \in [1..n -> Item] : ReserveBatchSpace(batch)
    BY <1>2
  <2>2. PICK batch \in [1..n -> Item] : ReserveBatchSpace(batch)
    BY <2>1
  <2>3. Len(batch) \in Nat /\ Len(batch) > 0
    BY BoundAssumption
  <2> DEFINE avail == Size - (local_ingress_cursor - ShadowHeadFor(Len(batch)))
  <2>4. CASE avail = 0
    <3>1. p_result' = "full" /\ UNCHANGED <<sent, received, c_result>>
      BY <2>2, <2>4 DEF ReserveBatchSpace, consumerVars
    <3>2. Fifo!Occupancy = Size
      BY <2>3, <2>4, SizeAssumption
      DEF ShadowHeadFor, Fifo!Occupancy, TypeOK, CursorOrder, HistoryLength
    <3> QED BY <3>1, <3>2 DEF Fifo!FifoNext, Fifo!RefusePush
  <2>5. CASE avail # 0
    <3>1. p_result' = "none" /\ UNCHANGED <<sent, received, c_result>>
      BY <2>2, <2>5 DEF ReserveBatchSpace, consumerVars
    <3>2. Fifo!CallPush
      BY <3>1 DEF Fifo!CallPush
    <3> QED BY ONLY <3>2 DEF Fifo!FifoNext
  <2> QED BY <2>4, <2>5
<1>3. CASE \E k \in 1..MaxBatch : CommitN(k)
  <2>1. PICK k \in 1..MaxBatch : CommitN(k)
    BY <1>3
  <2> DEFINE cut == SubSeq(p_batch, 1, k)
  <2>2. p_batch \in Seq(Item) /\ k \in 0..Len(p_batch) /\ k \in 1..p_done /\ p_pc = "fill"
    BY <2>1 DEF TypeOK, ClaimFits, ReservingFills, CommitN
  <2>3. cut \in Seq(Item) /\ Len(cut) = k
    BY ONLY <2>2, PrefixFacts
  <2>4. sent' = sent \o cut /\ p_result' = "ok" /\ UNCHANGED <<received, c_result>>
    BY <2>1 DEF CommitN, consumerVars
  <2> QED BY <2>2, <2>3, <2>4, EnqueueStep
<1>4. CASE Abandon
  BY <1>4 DEF Abandon, consumerVars
<1> QED BY <1>1, <1>2, <1>3, <1>4 DEF Reserve

(* Looking ahead answers "empty" only when it is true; consuming dequeues. *)
LEMMA LookAheadStep ==
  ASSUME RingInv, LookAhead
  PROVE  Fifo!FifoNext \/ UNCHANGED <<sent, received, p_result, c_result>>
<1> USE DEF RingInv, Inv
<1>1. CASE AvailableToPeek
  <2>1. CASE ShadowTail = local_egress_cursor
    <3>1. Fifo!Occupancy = 0
      BY <2>1 DEF ShadowTail, Fifo!Occupancy, TypeOK, CursorOrder, HistoryLength
    <3> QED BY <1>1, <2>1, <3>1 DEF AvailableToPeek, producerVars, Fifo!FifoNext, Fifo!RefusePop
  <2>2. CASE ShadowTail # local_egress_cursor
    BY <1>1, <2>2 DEF AvailableToPeek, producerVars, Fifo!FifoNext, Fifo!CallPop
  <2> QED BY <2>1, <2>2
<1>2. CASE PeekAt
  <2>1. CASE c_result' = "none"
    BY <1>2, <2>1 DEF PeekAt, producerVars, Fifo!FifoNext, Fifo!CallPop
  <2>2. CASE c_result' # "none" /\ c_pc = "idle"
    <3>1. c_result' = "empty" /\ local_egress_cursor >= Horizon
      BY <1>2, <2>2 DEF PeekAt, LookedAt, TypeOK
    <3>2. Fifo!Occupancy = 0
      BY <2>2, <3>1 DEF Horizon, LookedAt, Fifo!Occupancy, TypeOK, CursorOrder, HistoryLength
    <3> QED BY <1>2, <3>1, <3>2 DEF PeekAt, producerVars, Fifo!FifoNext, Fifo!RefusePop
  <2>3. CASE c_result' # "none" /\ c_pc # "idle"
    BY <1>2, <2>3 DEF PeekAt, producerVars
  <2> QED BY <2>1, <2>2, <2>3
<1>3. CASE \E k \in 1..Size : ConsumeN(k)
  <2>1. PICK k \in 1..Size : ConsumeN(k)
    BY <1>3
  <2> DEFINE cut == SubSeq(c_out, 1, k)
  <2>2. /\ c_out \in Seq(Item) /\ k \in 0..Len(c_out) /\ k \in 1..c_count
        /\ Len(c_out) = c_count /\ c_pc = "peeked"
    BY <2>1, SizeAssumption DEF TypeOK, ClaimFits, ConsumeN
  <2>3. cut \in Seq(Item) /\ Len(cut) = k /\ \A j \in 1..k : cut[j] = c_out[j]
    BY ONLY <2>2, PrefixFacts
  <2>4. received' = received \o cut /\ c_result' = "ok" /\ UNCHANGED <<sent, p_result>>
    BY <2>1 DEF ConsumeN, producerVars
  <2> QED BY <2>2, <2>3, <2>4, DequeueStep
<1> QED BY <1>1, <1>2, <1>3 DEF LookAhead

\* With the zero-copy interface too the conduit is the bounded queue: reserved and
\* abandoned slots leave no trace in it.
THEOREM RingRefinement == RingSpec => ImplementsFifo
<1>1. RingInit => Fifo!FifoInit
  BY DEF RingInit, Init, Fifo!FifoInit
<1>2. RingInv /\ [RingNext]_ringVars => [Fifo!FifoNext]_(Fifo!fifoVars)
  <2> SUFFICES ASSUME RingInv, [RingNext]_ringVars
               PROVE  Fifo!FifoNext \/ UNCHANGED <<sent, received, p_result, c_result>>
    BY DEF Fifo!fifoVars
  <2>1. CASE CopyingNext \/ UNCHANGED ringVars
    <3>1. Inv /\ [Next]_vars
      BY <2>1 DEF RingInv, CopyingNext, Next, ProducerStep, ringVars
    <3> QED BY <3>1, NextStep DEF Fifo!fifoVars
  <2>2. CASE Reserve
    BY <2>2, ReserveStep
  <2>3. CASE LookAhead
    BY <2>3, LookAheadStep
  <2> QED BY <2>1, <2>2, <2>3 DEF RingNext
<1> QED BY RingInvariance, <1>1, <1>2, PTL DEF RingSpec, ImplementsFifo, Fifo!FifoSpec
=============================================================================
