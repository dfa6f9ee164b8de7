------------------------- MODULE SpscConduitProofs -------------------------
EXTENDS SpscConduit, SequenceTheorems, TLAPS

(* A masked cursor is a slot index (position & Mask). *)
LEMMA SlotType == \A i \in Nat : Slot(i) \in 0..Size-1
  BY SizeAssumption DEF Slot

\* Two positions less than one ring apart never share a slot: the arithmetic
\* behind every claim that the producer spares unread slots.
LEMMA SlotDistinct ==
  ASSUME NEW i \in Nat, NEW j \in Nat, i < j, j < i + Size
  PROVE  Slot(i) # Slot(j)
<1>1. /\ i \div Size \in Int /\ j \div Size \in Int
      /\ i % Size \in Int /\ j % Size \in Int
  BY SizeAssumption
<1>2. i = Size * (i \div Size) + (i % Size)
  BY SizeAssumption
<1>3. j = Size * (j \div Size) + (j % Size)
  BY SizeAssumption
<1>4. ASSUME NEW m \in Int, NEW n \in Int, NEW r \in Int,
             i = Size * m + r, j = Size * n + r
      PROVE  FALSE
  <2>1. j - i = Size * (n - m)
    BY <1>4, SizeAssumption
  <2>2. CASE n - m <= 0
    <3>1. Size * (n - m) <= 0
       BY <2>2, SizeAssumption
    <3> QED BY <3>1, <2>1
  <2>3. CASE n - m >= 1
    <3>1. Size * (n - m) >= Size
      BY <2>3, SizeAssumption
    <3> QED BY <3>1, <2>1, SizeAssumption
  <2> QED BY <2>2, <2>3
<1> QED BY <1>1, <1>2, <1>3, <1>4 DEF Slot

(* Elements and length of a concatenation. *)
LEMMA ConcatFacts ==
  ASSUME NEW S, NEW s \in Seq(S), NEW t \in Seq(S)
  PROVE  /\ s \o t \in Seq(S) /\ Len(s \o t) = Len(s) + Len(t)
         /\ \A i \in 1..Len(s) : (s \o t)[i] = s[i]
         /\ \A j \in 1..Len(t) : (s \o t)[Len(s) + j] = t[j]
  OBVIOUS

(* Appending one copied item (pop_batch's copy loop). *)
LEMMA SingletonFacts ==
  ASSUME NEW S, NEW x \in S
  PROVE  <<x>> \in Seq(S) /\ Len(<<x>>) = 1 /\ <<x>>[1] = x /\ <<x>> # << >>
  OBVIOUS

(* A batch cut to the room left (push_batch) keeps its first items. *)
LEMMA CutFacts ==
  ASSUME NEW S, NEW s \in Seq(S), NEW m \in Nat, NEW n \in Nat, m + n <= Len(s)
  PROVE  /\ SubSeq(s, m + 1, m + n) \in Seq(S)
         /\ Len(SubSeq(s, m + 1, m + n)) = n
         /\ \A j \in 1..n : SubSeq(s, m + 1, m + n)[j] = s[m + j]
  OBVIOUS

(* The constructor's state satisfies the invariant. *)
LEMMA InitInv == Init => Inv
  BY SizeAssumption, ItemAssumption
  DEF Init, Inv, TypeOK, CursorOrder, HistoryLength, ClaimFits, LiveSlotsIntact,
      PartialCopies, FifoOrder

(* Entering try_push or push_batch disturbs nothing. *)
LEMMA CallPushInv ==
  ASSUME Inv, NEW batch \in Seq(Item), batch # <<>>, CallPush(batch)
  PROVE  Inv'
  BY DEF CallPush, consumerVars, Inv, TypeOK, CursorOrder, HistoryLength, ClaimFits,
         LiveSlotsIntact, PartialCopies, FifoOrder

(* Refreshing the shadow head and cutting the batch keeps the invariant. *)
LEMMA ClaimPushInv == Inv /\ ClaimPush => Inv'
<1> SUFFICES ASSUME Inv, ClaimPush PROVE Inv'
  OBVIOUS
<1> USE DEF Inv, ClaimPush, consumerVars
<1>0. \A n \in 1..Len(p_batch) : SubSeq(p_batch, 1, n) \in Seq(Item)
  BY DEF TypeOK
<1>1. TypeOK'
  <2>1. ShadowHead \in Nat
    BY DEF ShadowHead, TypeOK
  <2>2. p_batch' \in Seq(Item)
    <3> DEFINE room == Size - (local_ingress_cursor - ShadowHead)
    <3>1. CASE room <= 0
      BY <3>1 DEF TypeOK
    <3>2. CASE ~(room <= 0)
      <4>1. Least(room, Len(p_batch)) \in 1..Len(p_batch)
        BY <3>2, <2>1, SizeAssumption DEF Least, TypeOK, ClaimFits
      <4> QED BY <3>2, <4>1, <1>0
    <3> QED BY <3>1, <3>2
  <2> QED BY <2>1, <2>2 DEF TypeOK
<1>2. CursorOrder'
  BY SizeAssumption DEF CursorOrder, ShadowHead, TypeOK
<1>3. ClaimFits'
  BY SizeAssumption DEF ClaimFits, CursorOrder, ShadowHead, TypeOK, Least
<1>4. HistoryLength' /\ LiveSlotsIntact' /\ FifoOrder'
  BY DEF HistoryLength, LiveSlotsIntact, FifoOrder
<1>5. PartialCopies'
  BY DEF PartialCopies, ClaimFits, TypeOK
<1> QED BY <1>1, <1>2, <1>3, <1>4, <1>5

(* Writing a claimed slot leaves every unread slot alone. *)
LEMMA FillSlotInv == Inv /\ FillSlot => Inv'
<1> SUFFICES ASSUME Inv, FillSlot PROVE Inv'
  OBVIOUS
<1> USE DEF Inv, FillSlot, consumerVars
<1> DEFINE pos == local_ingress_cursor + p_done
<1>0. pos \in Nat /\ pos < cached_egress_cursor + Size
      /\ physical_ingress_gate <= pos
  BY SizeAssumption DEF ClaimFits, CursorOrder, TypeOK
<1>1. TypeOK'
  <2>1. p_batch[p_done + 1] \in Item
    BY DEF TypeOK
  <2>2. Slot(pos) \in 0..Size-1
    BY SlotType, <1>0
  <2>3. buffer' \in [0..Size-1 -> Item \cup {NoItem}]
    BY <2>1, <2>2 DEF TypeOK
  <2> QED BY <2>3 DEF TypeOK
<1>2. CursorOrder' /\ HistoryLength' /\ ClaimFits' /\ FifoOrder'
  BY DEF CursorOrder, HistoryLength, ClaimFits, FifoOrder, TypeOK
<1>3. LiveSlotsIntact'
  <2> SUFFICES ASSUME NEW i \in physical_egress_gate..physical_ingress_gate-1
               PROVE  buffer'[Slot(i)] = sent[i + 1]
    BY DEF LiveSlotsIntact
  <2>1. i \in Nat /\ i < pos /\ pos < i + Size
    BY <1>0, SizeAssumption DEF CursorOrder, TypeOK
  <2>2. Slot(i) # Slot(pos)
    BY <2>1, <1>0, SlotDistinct
  <2> QED BY <2>1, <2>2, <1>0, SlotType DEF LiveSlotsIntact, TypeOK
<1>4. PartialCopies'
  <2>1. ASSUME NEW j \in 0..p_done'-1
        PROVE  buffer'[Slot(local_ingress_cursor + j)] = p_batch[j + 1]
    <3>1. CASE j = p_done
      BY <3>1, <1>0, SlotType DEF TypeOK
    <3>2. CASE j < p_done
      <4>0. /\ local_ingress_cursor + j \in Nat /\ local_ingress_cursor + j < pos
            /\ pos < local_ingress_cursor + j + Size
        BY <3>2, <1>0, SizeAssumption DEF CursorOrder, TypeOK
      <4>1. Slot(local_ingress_cursor + j) # Slot(pos)
        BY <4>0, <1>0, SlotDistinct
      <4> QED BY <4>1, <3>2, <1>0, SlotType DEF PartialCopies, TypeOK
    <3> QED BY <3>1, <3>2 DEF TypeOK
  <2> QED BY <2>1 DEF PartialCopies
<1> QED BY <1>1, <1>2, <1>3, <1>4

(* The release store of the ingress gate publishes exactly the slots written: *)
(* all of a push's batch, or the first slots of a reserved burst.             *)
LEMMA PublishInv ==
  ASSUME Inv, p_pc = "fill",
         NEW cut \in Seq(Item), Len(cut) \in 1..p_done,
         \A j \in 1..Len(cut) : cut[j] = p_batch[j],
         local_ingress_cursor' = local_ingress_cursor + Len(cut),
         physical_ingress_gate' = local_ingress_cursor + Len(cut),
         sent' = sent \o cut, p_pc' = "idle", p_result' = "ok",
         UNCHANGED <<buffer, cached_egress_cursor, p_batch, p_done, consumerVars>>
  PROVE  Inv'
<1> USE DEF Inv, consumerVars
<1>0. /\ sent' \in Seq(Item) /\ Len(sent') = Len(sent) + Len(cut)
      /\ \A i \in 1..Len(sent) : sent'[i] = sent[i]
      /\ \A j \in 1..Len(cut) : sent'[Len(sent) + j] = cut[j]
  <2>1. sent \in Seq(Item) /\ cut \in Seq(Item) /\ sent' = sent \o cut
    BY DEF TypeOK
  <2> QED BY ONLY <2>1, ConcatFacts
<1>1. TypeOK'
  BY <1>0 DEF TypeOK
<1>2. CursorOrder' /\ HistoryLength' /\ ClaimFits'
  BY <1>0, SizeAssumption DEF CursorOrder, HistoryLength, ClaimFits, TypeOK
<1>3. LiveSlotsIntact'
  <2> SUFFICES ASSUME NEW i \in physical_egress_gate..physical_ingress_gate'-1
               PROVE  buffer[Slot(i)] = sent'[i + 1]
    BY DEF LiveSlotsIntact
  <2>1. CASE i < physical_ingress_gate
    <3>1. i \in physical_egress_gate..physical_ingress_gate-1 /\ i + 1 \in 1..Len(sent)
      BY <2>1 DEF HistoryLength, TypeOK
    <3>2. buffer[Slot(i)] = sent[i + 1]
      BY <3>1 DEF LiveSlotsIntact
    <3>3. sent'[i + 1] = sent[i + 1]
      BY ONLY <3>1, <1>0
    <3> QED BY ONLY <3>2, <3>3
  <2>2. CASE i >= physical_ingress_gate
    <3> DEFINE j == i - physical_ingress_gate
    <3>1. /\ j \in 0..p_done-1 /\ j + 1 \in 1..Len(cut)
          /\ i = local_ingress_cursor + j /\ i + 1 = Len(sent) + (j + 1)
      BY <2>2 DEF CursorOrder, HistoryLength, TypeOK
    <3>2. buffer[Slot(i)] = p_batch[j + 1]
      BY <3>1 DEF PartialCopies
    <3>3. cut[j + 1] = p_batch[j + 1]
      BY <3>1
    <3>4. sent'[Len(sent) + (j + 1)] = cut[j + 1]
      BY <3>1, <1>0
    <3>5. sent'[i + 1] = sent'[Len(sent) + (j + 1)]
      BY <3>1
    <3> QED BY ONLY <3>2, <3>3, <3>4, <3>5
  <2>3. i < physical_ingress_gate \/ i >= physical_ingress_gate
    BY DEF TypeOK
  <2> QED BY ONLY <2>1, <2>2, <2>3
<1>4. FifoOrder'
  <2>1. Len(received) <= Len(sent) /\ Len(sent) <= Len(sent')
    BY <1>0 DEF FifoOrder, TypeOK
  <2>2. \A i \in 1..Len(received) : received[i] = sent'[i]
    BY <1>0, <2>1 DEF FifoOrder, TypeOK
  <2> QED BY <2>1, <2>2 DEF FifoOrder, TypeOK
<1>5. PartialCopies'
  <2>1. ASSUME c_pc \in {"drain", "peeked"}, NEW j \in 1..Len(c_out)
        PROVE  c_out[j] = sent'[local_egress_cursor + j]
    <3>1. local_egress_cursor + j \in 1..Len(sent)
      BY <2>1 DEF ClaimFits, CursorOrder, HistoryLength, TypeOK
    <3>2. c_out[j] = sent[local_egress_cursor + j]
      BY <2>1 DEF PartialCopies
    <3> QED BY ONLY <3>1, <3>2, <1>0
  <2> QED BY <2>1 DEF PartialCopies
<1> QED BY <1>1, <1>2, <1>3, <1>4, <1>5

(* push and push_batch publish the whole batch. *)
LEMMA PublishPushInv == Inv /\ PublishPush => Inv'
<1> SUFFICES ASSUME Inv, PublishPush PROVE Inv'
  OBVIOUS
<1>1. p_batch \in Seq(Item) /\ Len(p_batch) \in 1..p_done
  BY DEF Inv, TypeOK, ClaimFits, PublishPush
<1> QED BY <1>1, PublishInv DEF PublishPush

(* Entering try_pop or pop_batch disturbs nothing. *)
LEMMA CallPopInv ==
  ASSUME Inv, NEW max \in Nat \ {0}, CallPop(max)
  PROVE  Inv'
  BY DEF CallPop, producerVars, Inv, TypeOK, CursorOrder, HistoryLength, ClaimFits,
         LiveSlotsIntact, PartialCopies, FifoOrder

(* Refreshing the shadow tail claims only published slots. *)
LEMMA ClaimPopInv == Inv /\ ClaimPop => Inv'
<1> SUFFICES ASSUME Inv, ClaimPop PROVE Inv'
  OBVIOUS
<1> USE DEF Inv, ClaimPop, producerVars
<1>1. TypeOK' /\ CursorOrder' /\ ClaimFits'
  BY DEF TypeOK, CursorOrder, ClaimFits, ShadowTail, Least
<1>2. HistoryLength' /\ LiveSlotsIntact' /\ FifoOrder'
  BY DEF HistoryLength, LiveSlotsIntact, FifoOrder
<1>3. PartialCopies'
  BY DEF PartialCopies, ClaimFits
<1> QED BY <1>1, <1>2, <1>3

(* The slot the consumer copies is live, so it holds what was sent. *)
LEMMA LiveSlotIsSent ==
  ASSUME Inv, NEW j \in Nat, local_egress_cursor + j < cached_ingress_cursor
  PROVE  /\ local_egress_cursor + j + 1 \in 1..Len(sent)
         /\ buffer[Slot(local_egress_cursor + j)] = sent[local_egress_cursor + j + 1]
         /\ buffer[Slot(local_egress_cursor + j)] \in Item
<1>1. /\ local_egress_cursor + j \in physical_egress_gate..physical_ingress_gate-1
      /\ local_egress_cursor + j + 1 \in 1..Len(sent)
  BY DEF Inv, CursorOrder, HistoryLength, TypeOK
<1>2. sent[local_egress_cursor + j + 1] \in Item
  BY <1>1 DEF Inv, TypeOK
<1> QED BY <1>1, <1>2 DEF Inv, LiveSlotsIntact

(* Copying a claimed slot yields what was sent into it. *)
LEMMA DrainSlotInv == Inv /\ DrainSlot => Inv'
<1> SUFFICES ASSUME Inv, DrainSlot PROVE Inv'
  OBVIOUS
<1> USE DEF Inv, DrainSlot, producerVars
<1> DEFINE item == buffer[Slot(local_egress_cursor + Len(c_out))]
<1>0. /\ Len(c_out) \in Nat
      /\ local_egress_cursor + Len(c_out) < cached_ingress_cursor
  BY DEF TypeOK, ClaimFits
<1>1. item \in Item /\ item = sent[local_egress_cursor + Len(c_out) + 1]
  BY <1>0, LiveSlotIsSent
<1>2. /\ c_out' \in Seq(Item) /\ Len(c_out') = Len(c_out) + 1
      /\ \A j \in 1..Len(c_out) : c_out'[j] = c_out[j]
      /\ c_out'[Len(c_out) + 1] = item
  BY <1>1 DEF TypeOK
<1>3. TypeOK' /\ ClaimFits'
  BY <1>0, <1>2 DEF TypeOK, ClaimFits
<1>4. CursorOrder' /\ HistoryLength' /\ LiveSlotsIntact' /\ FifoOrder'
  BY DEF CursorOrder, HistoryLength, LiveSlotsIntact, FifoOrder
<1>5. PartialCopies'
  <2>1. ASSUME NEW j \in 1..Len(c_out')
        PROVE  c_out'[j] = sent[local_egress_cursor + j]
    <3>1. CASE j = Len(c_out) + 1
      BY <3>1, <1>0, <1>1, <1>2 DEF TypeOK
    <3>2. CASE j \in 1..Len(c_out)
      BY <3>2, <1>2 DEF PartialCopies
    <3> QED BY <3>1, <3>2, <1>0, <1>2
  <2> QED BY <2>1 DEF PartialCopies
<1> QED BY <1>3, <1>4, <1>5

(* Retiring the first items copied or looked at extends the received prefix. *)
LEMMA RetireInv ==
  ASSUME Inv, c_pc \in {"drain", "peeked"}, Len(c_out) = c_count,
         NEW cut \in Seq(Item), Len(cut) \in 1..c_count,
         \A j \in 1..Len(cut) : cut[j] = c_out[j],
         local_egress_cursor' = local_egress_cursor + Len(cut),
         physical_egress_gate' = local_egress_cursor + Len(cut),
         received' = received \o cut,
         c_pc' = "idle", c_result' = "ok",
         UNCHANGED <<buffer, cached_ingress_cursor, c_count, c_out, producerVars>>
  PROVE  Inv'
<1> USE DEF Inv, producerVars
<1>0. /\ received' \in Seq(Item) /\ Len(received') = Len(received) + Len(cut)
      /\ \A i \in 1..Len(received) : received'[i] = received[i]
      /\ \A j \in 1..Len(cut) : received'[Len(received) + j] = cut[j]
  <2>1. received \in Seq(Item) /\ cut \in Seq(Item) /\ received' = received \o cut
    BY DEF TypeOK
  <2> QED BY ONLY <2>1, ConcatFacts
<1>1. TypeOK'
  BY <1>0 DEF TypeOK
<1>2. CursorOrder' /\ HistoryLength' /\ ClaimFits'
  BY <1>0 DEF TypeOK, CursorOrder, HistoryLength, ClaimFits
<1>3. LiveSlotsIntact' /\ PartialCopies'
  BY DEF LiveSlotsIntact, PartialCopies, CursorOrder, TypeOK
<1>4. FifoOrder'
  <2>1. Len(received') <= Len(sent)
    BY <1>0 DEF TypeOK, CursorOrder, HistoryLength, ClaimFits
  <2>2. ASSUME NEW i \in 1..Len(received')
        PROVE  received'[i] = sent[i]
    <3>1. CASE i \in 1..Len(received)
      BY <3>1, <1>0 DEF FifoOrder
    <3>2. CASE i > Len(received)
      <4> DEFINE j == i - Len(received)
      <4>1. /\ j \in 1..Len(cut) /\ j \in 1..Len(c_out)
            /\ i = Len(received) + j /\ i = local_egress_cursor + j
        BY <3>2, <1>0 DEF TypeOK, CursorOrder, HistoryLength
      <4>2. received'[Len(received) + j] = cut[j] /\ cut[j] = c_out[j]
        BY <4>1, <1>0
      <4>3. c_out[j] = sent[local_egress_cursor + j]
        BY <4>1 DEF PartialCopies
      <4> QED BY <4>1, <4>2, <4>3
    <3> QED BY <3>1, <3>2, <1>0 DEF TypeOK
  <2> QED BY <2>1, <2>2 DEF FifoOrder
<1> QED BY <1>1, <1>2, <1>3, <1>4

(* peek() claims one published slot, or answers empty. *)
LEMMA PeekInv == Inv /\ Peek => Inv'
<1> SUFFICES ASSUME Inv, Peek PROVE Inv'
  OBVIOUS
<1> USE DEF Inv, Peek, producerVars
<1>1. CursorOrder' /\ HistoryLength' /\ LiveSlotsIntact' /\ FifoOrder'
  BY DEF CursorOrder, HistoryLength, LiveSlotsIntact, FifoOrder, ShadowTail, TypeOK
<1>2. CASE ShadowTail = local_egress_cursor
  BY <1>1, <1>2 DEF TypeOK, ClaimFits, PartialCopies, CursorOrder
<1>3. CASE ShadowTail # local_egress_cursor
  <2>1. /\ local_egress_cursor \in physical_egress_gate..physical_ingress_gate-1
        /\ local_egress_cursor + 1 \in 1..Len(sent)
        /\ local_egress_cursor + 1 <= cached_ingress_cursor'
    BY <1>3 DEF ShadowTail, CursorOrder, HistoryLength, TypeOK
  <2>2. /\ buffer[Slot(local_egress_cursor)] = sent[local_egress_cursor + 1]
        /\ sent[local_egress_cursor + 1] \in Item
    BY <2>1 DEF LiveSlotsIntact, TypeOK
  <2>3. c_out' \in Seq(Item) /\ Len(c_out') = 1 /\ c_out'[1] = sent[local_egress_cursor + 1]
    BY <1>3, <2>2, SingletonFacts
  <2>4. TypeOK' /\ ClaimFits'
    BY <1>3, <2>1, <2>3 DEF TypeOK, ClaimFits, ShadowTail
  <2>5. PartialCopies'
    BY <1>3, <2>3 DEF PartialCopies
  <2> QED BY <1>1, <2>4, <2>5
<1> QED BY <1>2, <1>3

(* Every operation, and a step of someone else, keeps the invariant. *)
LEMMA NextInv == Inv /\ [Next]_vars => Inv'
<1> SUFFICES ASSUME Inv, [Next]_vars PROVE Inv'
  OBVIOUS
<1>1. CASE CallTryPush
  BY <1>1, CallPushInv, SingletonFacts DEF CallTryPush
<1>2. CASE CallPushBatch
  BY <1>2, CallPushInv DEF CallPushBatch
<1>3. CASE ProducerStep
  BY <1>3, ClaimPushInv, FillSlotInv, PublishPushInv DEF ProducerStep
<1>4. CASE CallTryPop \/ CallPopBatch
  BY <1>4, CallPopInv, BoundAssumption DEF CallTryPop, CallPopBatch
<1>5. CASE ClaimPop \/ DrainSlot
  BY <1>5, ClaimPopInv, DrainSlotInv
<1>6. CASE RetirePop \/ Consume
  <2>1. c_out \in Seq(Item) /\ Len(c_out) = c_count /\ Len(c_out) \in 1..c_count
    BY <1>6 DEF RetirePop, Consume, Inv, TypeOK, ClaimFits
  <2> QED BY <1>6, <2>1, RetireInv DEF RetirePop, Consume
<1>7. CASE Peek
  BY <1>7, PeekInv
<1>8. CASE UNCHANGED vars
  BY <1>8 DEF vars, producerVars, consumerVars, Inv, TypeOK, CursorOrder, HistoryLength,
              ClaimFits, LiveSlotsIntact, PartialCopies, FifoOrder
<1> QED BY <1>1, <1>2, <1>3, <1>4, <1>5, <1>6, <1>7, <1>8 DEF Next, ConsumerStep

\* Every state of the ring, for every Size and batch bound, satisfies Inv: no
\* try_push, push_batch, pop or peek ever loses or overwrites an unread item.
THEOREM Invariance == Spec => []Inv
  BY InitInv, NextInv, PTL DEF Spec

(* What pop, pop_batch and consume delivered is a prefix of what was pushed. *)
THEOREM FifoOrderHolds == Spec => []FifoOrder
  BY Invariance, PTL DEF Inv

(* The pointer peek() returned keeps pointing at the item until consume(). *)
THEOREM PeekStableHolds == Spec => []PeekStable
<1>1. Inv => PeekStable
  <2> SUFFICES ASSUME Inv, c_pc = "peeked" PROVE buffer[Slot(local_egress_cursor)] = c_out[1]
    BY DEF PeekStable
  <2>1. /\ local_egress_cursor \in physical_egress_gate..physical_ingress_gate-1
        /\ 1 \in 1..Len(c_out)
    <3>1. /\ c_count > 0 /\ Len(c_out) = c_count /\ c_count \in Nat
          /\ local_egress_cursor + c_count <= cached_ingress_cursor
      BY DEF Inv, ClaimFits, TypeOK
    <3> QED BY <3>1 DEF Inv, TypeOK, CursorOrder
  <2>2. buffer[Slot(local_egress_cursor)] = sent[local_egress_cursor + 1]
    BY <2>1 DEF Inv, LiveSlotsIntact
  <2>3. c_out[1] = sent[local_egress_cursor + 1]
    BY <2>1 DEF Inv, PartialCopies
  <2> QED BY <2>2, <2>3
<1> QED BY Invariance, <1>1, PTL

(* Storing the ingress gate is the abstract queue's Enqueue. *)
LEMMA EnqueueStep ==
  ASSUME Inv, p_pc = "fill", NEW cut \in Seq(Item), Len(cut) \in 1..p_done,
         sent' = sent \o cut, p_result' = "ok", UNCHANGED <<received, c_result>>
  PROVE  Fifo!FifoNext
<1>1. Len(cut) \in 1..Size /\ cut \in [1..Len(cut) -> Item]
  BY SizeAssumption DEF Inv, TypeOK, ClaimFits, CursorOrder
<1>2. Fifo!Enqueue(cut)
  BY SizeAssumption DEF Fifo!Enqueue, Fifo!Occupancy, Inv, TypeOK, ClaimFits, CursorOrder,
     HistoryLength
<1> QED BY <1>1, <1>2 DEF Fifo!FifoNext

(* Storing the egress gate is the abstract queue's Dequeue. *)
LEMMA DequeueStep ==
  ASSUME Inv, c_pc \in {"drain", "peeked"}, Len(c_out) = c_count,
         NEW cut \in Seq(Item), Len(cut) \in 1..c_count,
         \A j \in 1..Len(cut) : cut[j] = c_out[j],
         received' = received \o cut, c_result' = "ok",
         UNCHANGED <<sent, p_result>>
  PROVE  Fifo!FifoNext
<1>1. /\ Len(cut) \in 1..Size /\ Len(cut) \in Nat
      /\ Len(received) + Len(cut) <= Len(sent)
      /\ sent \in Seq(Item) /\ Len(received) \in Nat
      /\ Len(received) = local_egress_cursor
  BY SizeAssumption DEF Inv, TypeOK, ClaimFits, CursorOrder, HistoryLength
<1> DEFINE oldest == SubSeq(sent, Len(received) + 1, Len(received) + Len(cut))
<1>2. /\ oldest \in Seq(Item) /\ Len(oldest) = Len(cut)
      /\ \A j \in 1..Len(cut) : oldest[j] = sent[Len(received) + j]
  <2>1. /\ sent \in Seq(Item) /\ Len(received) \in Nat /\ Len(cut) \in Nat
        /\ Len(received) + Len(cut) <= Len(sent)
    BY <1>1
  <2> QED BY ONLY <2>1, CutFacts
<1>3. \A j \in 1..Len(cut) : cut[j] = sent[Len(received) + j]
  BY <1>1 DEF Inv, PartialCopies
<1>4. cut = oldest
  BY <1>2, <1>3, SeqEqual
<1>5. Fifo!Dequeue(Len(cut))
  <2>1. Len(cut) <= Fifo!Occupancy
    BY <1>1 DEF Fifo!Occupancy
  <2>2. received' = received \o oldest
    BY <1>4
  <2> QED BY <2>1, <2>2 DEF Fifo!Dequeue
<1> QED BY <1>1, <1>5 DEF Fifo!FifoNext

(* Every step of the conduit is a step of the abstract queue, or none at all. *)
LEMMA NextStep == Inv /\ [Next]_vars => [Fifo!FifoNext]_(Fifo!fifoVars)
<1> SUFFICES ASSUME Inv, [Next]_vars
             PROVE  Fifo!FifoNext \/ UNCHANGED <<sent, received, p_result, c_result>>
  BY DEF Fifo!fifoVars
<1>1. CASE CallTryPush \/ CallPushBatch
  BY <1>1 DEF CallTryPush, CallPushBatch, CallPush, consumerVars, Fifo!FifoNext, Fifo!CallPush
<1>2. CASE ClaimPush
  <2> DEFINE room == Size - (local_ingress_cursor - ShadowHead)
  <2>1. CASE room <= 0
    <3>1. Fifo!Occupancy = Size
      BY <2>1, SizeAssumption DEF ShadowHead, Fifo!Occupancy, Inv, TypeOK, CursorOrder,
         HistoryLength
    <3> QED BY <1>2, <2>1, <3>1
        DEF ClaimPush, consumerVars, Fifo!FifoNext, Fifo!RefusePush
  <2>2. CASE ~(room <= 0)
    BY <1>2, <2>2 DEF ClaimPush, consumerVars
  <2> QED BY <2>1, <2>2
<1>3. CASE FillSlot
  BY <1>3 DEF FillSlot, consumerVars
<1>4. CASE PublishPush
  <2>1. p_batch \in Seq(Item) /\ Len(p_batch) \in 1..p_done
    BY <1>4 DEF Inv, TypeOK, ClaimFits, PublishPush
  <2> QED BY <1>4, <2>1, EnqueueStep DEF PublishPush, consumerVars
<1>5. CASE CallTryPop \/ CallPopBatch
  BY <1>5 DEF CallTryPop, CallPopBatch, CallPop, producerVars, Fifo!FifoNext, Fifo!CallPop
<1>6. CASE ClaimPop \/ Peek
  <2>1. CASE ShadowTail = local_egress_cursor
    <3>1. Fifo!Occupancy = 0
      BY <2>1 DEF ShadowTail, Fifo!Occupancy, Inv, TypeOK, CursorOrder, HistoryLength
    <3> QED BY <1>6, <2>1, <3>1
        DEF ClaimPop, Peek, producerVars, Fifo!FifoNext, Fifo!RefusePop
  <2>2. CASE ShadowTail # local_egress_cursor
    BY <1>6, <2>2 DEF ClaimPop, Peek, producerVars, Fifo!FifoNext, Fifo!CallPop
  <2> QED BY <2>1, <2>2
<1>7. CASE DrainSlot
  BY <1>7 DEF DrainSlot, producerVars
<1>8. CASE RetirePop \/ Consume
  <2>1. c_out \in Seq(Item) /\ Len(c_out) = c_count /\ Len(c_out) \in 1..c_count
    BY <1>8 DEF RetirePop, Consume, Inv, TypeOK, ClaimFits
  <2> QED BY <1>8, <2>1, DequeueStep DEF RetirePop, Consume, producerVars
<1>9. CASE UNCHANGED vars
  BY <1>9 DEF vars, producerVars, consumerVars
<1> QED BY <1>1, <1>2, <1>3, <1>4, <1>5, <1>6, <1>7, <1>8, <1>9
    DEF Next, ProducerStep, ConsumerStep

\* The conduit implements the atomic bounded queue: batches enter and leave at
\* one instant, and full and empty are answered only when true.
THEOREM Refinement == Spec => ImplementsFifo
<1>1. Init => Fifo!FifoInit
  BY DEF Init, Fifo!FifoInit
<1> QED BY Invariance, <1>1, NextStep, PTL DEF Spec, ImplementsFifo, Fifo!FifoSpec
=============================================================================
