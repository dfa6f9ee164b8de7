---------------------------- MODULE SpscConduit ----------------------------
(***************************************************************************)
(* core/spsc_conduit.hpp: the single-producer single-consumer ring.        *)
(*                                                                         *)
(* One producer thread and one consumer thread share buffer_ and the two   *)
(* published cursors (the "physical gates").  Each side also keeps its own *)
(* cursor and a shadow copy of the other side's gate, which it refreshes   *)
(* only when the shadow says the ring is full (or empty).  A step is one   *)
(* access to shared memory: the load of a gate, the copy of one slot, the  *)
(* release store of a gate.  Accesses of one thread keep their order (the  *)
(* gates are loaded with acquire and stored with release).                 *)
(*                                                                         *)
(* sent and received are history: the items whose publication, or whose    *)
(* retirement, has reached the shared gate.                                *)
(***************************************************************************)
EXTENDS Integers, Sequences

CONSTANTS Item,      \* the trivially copyable element values
          NoItem,    \* T{}: what an empty slot holds
          Size,      \* slots; a power of two in the code, any positive number here
          MaxBatch,  \* bound: the largest batch a caller passes
          MaxSent    \* bound: items the producer sends in one run

ASSUME SizeAssumption == Size \in Nat \ {0}
ASSUME ItemAssumption == NoItem \notin Item
ASSUME BoundAssumption == MaxBatch \in Nat \ {0} /\ MaxSent \in Nat

VARIABLES
  buffer,                 \* buffer_
  local_ingress_cursor,   \* producer: next position to write
  physical_ingress_gate,  \* shared: published tail
  cached_egress_cursor,   \* producer: shadow head
  local_egress_cursor,    \* consumer: next position to read
  physical_egress_gate,   \* shared: published head
  cached_ingress_cursor,  \* consumer: shadow tail
  p_pc, p_batch, p_done,  \* producer: where it is, its argument, slots written
  c_pc, c_count, c_out,   \* consumer: where it is, items asked/claimed, items copied out
  p_result, c_result,     \* the last answer of each side
  sent, received          \* history

producerVars == <<local_ingress_cursor, physical_ingress_gate, cached_egress_cursor,
                  p_pc, p_batch, p_done, p_result, sent>>
consumerVars == <<local_egress_cursor, physical_egress_gate, cached_ingress_cursor,
                  c_pc, c_count, c_out, c_result, received>>
vars == <<buffer, producerVars, consumerVars>>

Slot(position) == position % Size
Least(a, b) == IF a < b THEN a ELSE b

Init ==
  /\ buffer = [i \in 0..Size-1 |-> NoItem]
  /\ local_ingress_cursor = 0 /\ physical_ingress_gate = 0 /\ cached_egress_cursor = 0
  /\ local_egress_cursor = 0 /\ physical_egress_gate = 0 /\ cached_ingress_cursor = 0
  /\ p_pc = "idle" /\ p_batch = <<>> /\ p_done = 0 /\ p_result = "none"
  /\ c_pc = "idle" /\ c_count = 0 /\ c_out = <<>> /\ c_result = "none"
  /\ sent = <<>> /\ received = <<>>
-----------------------------------------------------------------------------
(* The producer: try_push, push_batch.  The blocking push repeats try_push *)
(* until it succeeds.                                                      *)

CallPush(batch) ==
  /\ p_pc = "idle"
  /\ Len(sent) + Len(batch) <= MaxSent
  /\ p_pc' = "claim" /\ p_batch' = batch /\ p_done' = 0 /\ p_result' = "none"
  /\ UNCHANGED <<buffer, local_ingress_cursor, physical_ingress_gate,
                 cached_egress_cursor, sent, consumerVars>>

CallPushBatch == \E n \in 1..MaxBatch : \E batch \in [1..n -> Item] : CallPush(batch)
CallTryPush == \E item \in Item : CallPush(<<item>>)

\* Mutant of ShadowHead: the gate is never loaded again.
ShadowHeadNeverRefreshed == cached_egress_cursor

\* The gate is loaded only when the shadow head says the ring is full.
ShadowHead ==
  IF local_ingress_cursor - cached_egress_cursor >= Size
  THEN physical_egress_gate ELSE cached_egress_cursor

\* Full after the refresh: false (or 0) is returned.  Otherwise the batch is
\* cut to the room the shadow head leaves.
ClaimPush ==
  /\ p_pc = "claim"
  /\ cached_egress_cursor' = ShadowHead
  /\ LET room == Size - (local_ingress_cursor - ShadowHead)
     IN  IF room <= 0
         THEN /\ p_pc' = "idle" /\ p_result' = "full"
              /\ UNCHANGED p_batch
         ELSE /\ p_pc' = "fill"
              /\ p_batch' = SubSeq(p_batch, 1, Least(room, Len(p_batch)))
              /\ UNCHANGED p_result
  /\ UNCHANGED <<buffer, local_ingress_cursor, physical_ingress_gate, p_done, sent,
                 consumerVars>>

FillSlot ==
  /\ p_pc = "fill" /\ p_done < Len(p_batch)
  /\ buffer' = [buffer EXCEPT ![Slot(local_ingress_cursor + p_done)] = p_batch[p_done + 1]]
  /\ p_done' = p_done + 1
  /\ UNCHANGED <<local_ingress_cursor, physical_ingress_gate, cached_egress_cursor,
                 p_pc, p_batch, p_result, sent, consumerVars>>

\* Mutant of PublishPush: the gate is stored before the last slot is written.
PublishBeforeFill ==
  /\ p_pc = "fill" /\ p_done >= Len(p_batch) - 1
  /\ local_ingress_cursor' = local_ingress_cursor + Len(p_batch)
  /\ physical_ingress_gate' = local_ingress_cursor + Len(p_batch)
  /\ sent' = sent \o p_batch
  /\ p_pc' = "idle" /\ p_result' = "ok"
  /\ UNCHANGED <<buffer, cached_egress_cursor, p_batch, p_done, consumerVars>>

PublishPush ==
  /\ p_pc = "fill" /\ p_done = Len(p_batch)
  /\ local_ingress_cursor' = local_ingress_cursor + Len(p_batch)
  /\ physical_ingress_gate' = local_ingress_cursor + Len(p_batch)
  /\ sent' = sent \o p_batch
  /\ p_pc' = "idle" /\ p_result' = "ok"
  /\ UNCHANGED <<buffer, cached_egress_cursor, p_batch, p_done, consumerVars>>
-----------------------------------------------------------------------------
(* The consumer: try_pop, pop_batch, peek and consume.                     *)

\* A call may follow a peek that was never consumed.
CallPop(max) ==
  /\ c_pc \in {"idle", "peeked"}
  /\ c_pc' = "claim" /\ c_count' = max /\ c_out' = <<>> /\ c_result' = "none"
  /\ UNCHANGED <<buffer, local_egress_cursor, physical_egress_gate,
                 cached_ingress_cursor, received, producerVars>>

CallPopBatch == \E max \in 1..MaxBatch : CallPop(max)
CallTryPop == CallPop(1)

\* Mutant of ShadowTail: the gate is never loaded again.
ShadowTailNeverRefreshed == cached_ingress_cursor

\* The gate is loaded only when the shadow tail says the ring is empty.
ShadowTail ==
  IF local_egress_cursor = cached_ingress_cursor
  THEN physical_ingress_gate ELSE cached_ingress_cursor

ClaimPop ==
  /\ c_pc = "claim"
  /\ cached_ingress_cursor' = ShadowTail
  /\ IF ShadowTail = local_egress_cursor
     THEN /\ c_pc' = "idle" /\ c_result' = "empty"
          /\ UNCHANGED c_count
     ELSE /\ c_pc' = "drain"
          /\ c_count' = Least(ShadowTail - local_egress_cursor, c_count)
          /\ UNCHANGED c_result
  /\ UNCHANGED <<buffer, local_egress_cursor, physical_egress_gate, c_out, received,
                 producerVars>>

DrainSlot ==
  /\ c_pc = "drain" /\ Len(c_out) < c_count
  /\ c_out' = Append(c_out, buffer[Slot(local_egress_cursor + Len(c_out))])
  /\ UNCHANGED <<buffer, local_egress_cursor, physical_egress_gate, cached_ingress_cursor,
                 c_pc, c_count, c_result, received, producerVars>>

RetirePop ==
  /\ c_pc = "drain" /\ Len(c_out) = c_count
  /\ local_egress_cursor' = local_egress_cursor + c_count
  /\ physical_egress_gate' = local_egress_cursor + c_count
  /\ received' = received \o c_out
  /\ c_pc' = "idle" /\ c_result' = "ok"
  /\ UNCHANGED <<buffer, cached_ingress_cursor, c_count, c_out, producerVars>>

\* peek hands out a pointer into the ring; the user reads the slot through it.
Peek ==
  /\ c_pc \in {"idle", "peeked"}
  /\ cached_ingress_cursor' = ShadowTail
  /\ IF ShadowTail = local_egress_cursor
     THEN /\ c_pc' = "idle" /\ c_result' = "empty"
          /\ UNCHANGED <<c_count, c_out>>
     ELSE /\ c_pc' = "peeked" /\ c_result' = "none" /\ c_count' = 1
          /\ c_out' = <<buffer[Slot(local_egress_cursor)]>>
  /\ UNCHANGED <<buffer, local_egress_cursor, physical_egress_gate, received, producerVars>>

\* What was peeked (one item) is retired.
Consume ==
  /\ c_pc = "peeked"
  /\ local_egress_cursor' = local_egress_cursor + c_count
  /\ physical_egress_gate' = local_egress_cursor + c_count
  /\ received' = received \o c_out
  /\ c_pc' = "idle" /\ c_result' = "ok"
  /\ UNCHANGED <<buffer, cached_ingress_cursor, c_count, c_out, producerVars>>
-----------------------------------------------------------------------------
ProducerStep == ClaimPush \/ FillSlot \/ PublishPush
ConsumerStep == ClaimPop \/ DrainSlot \/ RetirePop

Next ==
  \/ CallTryPush \/ CallPushBatch \/ ProducerStep
  \/ CallTryPop \/ CallPopBatch \/ ConsumerStep
  \/ Peek \/ Consume

Spec == Init /\ [][Next]_vars

\* Both threads keep running, and the consumer polls: the service loops call
\* pop_batch again and again.
Fairness == WF_vars(ProducerStep) /\ WF_vars(ConsumerStep) /\ WF_vars(CallPopBatch)
FairSpec == Spec /\ Fairness
-----------------------------------------------------------------------------
(* What is checked.                                                        *)

\* Cursors are naturals, slots hold items, batches are sequences of items.
TypeOK ==
  /\ buffer \in [0..Size-1 -> Item \cup {NoItem}]
  /\ local_ingress_cursor \in Nat /\ physical_ingress_gate \in Nat
  /\ cached_egress_cursor \in Nat /\ local_egress_cursor \in Nat
  /\ physical_egress_gate \in Nat /\ cached_ingress_cursor \in Nat
  /\ p_pc \in {"idle", "claim", "fill"} /\ c_pc \in {"idle", "claim", "drain", "peeked"}
  /\ p_batch \in Seq(Item) /\ p_done \in Nat
  /\ c_out \in Seq(Item) /\ c_count \in Nat
  /\ p_result \in {"none", "ok", "full"} /\ c_result \in {"none", "ok", "empty"}
  /\ sent \in Seq(Item) /\ received \in Seq(Item)

\* The cursors of the two sides: each gate is its owner's cursor, a shadow is
\* never ahead of the gate it copies, and the head never passes the tail.
CursorOrder ==
  /\ local_ingress_cursor = physical_ingress_gate
  /\ local_egress_cursor = physical_egress_gate
  /\ cached_egress_cursor <= physical_egress_gate
  /\ physical_egress_gate <= cached_ingress_cursor
  /\ cached_ingress_cursor <= physical_ingress_gate
  /\ physical_ingress_gate <= cached_egress_cursor + Size

\* The history counts what the gates count.
HistoryLength ==
  /\ Len(sent) = physical_ingress_gate
  /\ Len(received) = physical_egress_gate

\* What a call has claimed fits: the producer inside the room its shadow head
\* leaves, the consumer below its shadow tail.
ClaimFits ==
  /\ p_pc # "idle" => p_batch # <<>> /\ p_done <= Len(p_batch)
  /\ p_pc = "fill" => local_ingress_cursor + Len(p_batch) <= cached_egress_cursor + Size
  /\ p_pc # "fill" => p_pc = "idle" \/ p_done = 0
  /\ c_pc = "claim" => c_count > 0 /\ c_out = <<>>
  /\ c_pc = "drain" => c_count > 0 /\ Len(c_out) <= c_count
  /\ c_pc = "peeked" => c_count > 0 /\ Len(c_out) = c_count
  /\ c_pc \in {"drain", "peeked"} =>
       local_egress_cursor + c_count <= cached_ingress_cursor

\* Every published slot that is not yet retired still holds the item that was
\* sent into it, however often the ring has wrapped: the producer's stale view
\* of the head (cached_egress_cursor_ in try_push and push_batch) never lets
\* it overwrite an unread slot.
LiveSlotsIntact ==
  \A i \in physical_egress_gate..physical_ingress_gate-1 : buffer[Slot(i)] = sent[i + 1]

\* The slots of a batch that is being filled hold its items, and the consumer
\* has copied what was sent.
PartialCopies ==
  /\ p_pc = "fill" => \A j \in 0..p_done-1 :
                        buffer[Slot(local_ingress_cursor + j)] = p_batch[j + 1]
  /\ c_pc \in {"drain", "peeked"} =>
       \A j \in 1..Len(c_out) : c_out[j] = sent[local_egress_cursor + j]

\* First in, first out, nothing lost, duplicated or torn: what pop, pop_batch
\* and peek/consume have delivered is a prefix of what was pushed.
FifoOrder ==
  /\ Len(received) <= Len(sent)
  /\ \A i \in 1..Len(received) : received[i] = sent[i]

\* The pointer peek() returned stays valid until consume(): the slot behind it
\* keeps its item whatever the producer does meanwhile.
PeekStable ==
  c_pc = "peeked" => buffer[Slot(local_egress_cursor)] = c_out[1]

\* The strengthening that makes FifoOrder and PeekStable inductive.
Inv ==
  /\ TypeOK /\ CursorOrder /\ HistoryLength /\ ClaimFits
  /\ LiveSlotsIntact /\ PartialCopies /\ FifoOrder

\* The conduit is a bounded queue whose operations take effect at the release
\* store of a gate; "full" and "empty" are answered only when they are true
\* at the instant the gate is loaded.  (In the ring conduit, slots reserved but
\* not committed never reach the consumer.)
Fifo == INSTANCE BoundedFifo WITH Capacity <- Size
ImplementsFifo == Fifo!FifoSpec

\* Under a polling consumer every item pushed is eventually popped.
EveryItemDelivered ==
  \A n \in 1..MaxSent : Len(sent) >= n ~> Len(received) >= n
=============================================================================
