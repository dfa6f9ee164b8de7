-------------------------- MODULE SpscRingConduit --------------------------
(***************************************************************************)
(* core/spsc_ring_conduit.hpp: the conduit of SpscConduit (its try_push,   *)
(* push_batch, try_pop, pop_batch and peek have the same steps) with a     *)
(* zero-copy interface on top.  The producer reserves slots (reserve,      *)
(* reserve_at, reserve_batch_space), writes them in place and publishes a  *)
(* prefix with commit_n; the consumer looks ahead (available_to_peek,      *)
(* peek_at, get_peek_slot) and retires a prefix with consume_n.            *)
(***************************************************************************)
EXTENDS SpscConduit

VARIABLE reserving   \* the slots being filled were reserved, not passed to a push

ringVars == <<vars, reserving>>

RingInit == Init /\ reserving = FALSE
-----------------------------------------------------------------------------
(* The producer: reserve, fill in place, commit. *)

\* Slots of the burst under way: the offset of the next reserve_at.
Reserved == IF reserving THEN Len(p_batch) ELSE 0

\* The gate is loaded when the shadow head leaves no room for n slots and one more.
ShadowHeadFor(n) ==
  IF local_ingress_cursor + n - cached_egress_cursor >= Size
  THEN physical_egress_gate ELSE cached_egress_cursor

\* Mutant of RoomAt: one slot more than there is.
RoomAtPlusOne(offset) == Size + 1 - (local_ingress_cursor + offset - ShadowHeadFor(offset))

\* The slots free behind the first offset ones.
RoomAt(offset) == Size - (local_ingress_cursor + offset - ShadowHeadFor(offset))

\* reserve (a first slot) and reserve_at: a slot, or nullptr when there is no room.
ReserveAt(item) ==
  /\ p_pc = "idle" \/ (reserving /\ p_done = Len(p_batch))
  /\ Len(sent) + Reserved + 1 <= MaxSent
  /\ cached_egress_cursor' = ShadowHeadFor(Reserved)
  /\ \/ /\ RoomAt(Reserved) <= 0
        /\ p_result' = IF reserving THEN p_result ELSE "full"
        /\ UNCHANGED <<p_pc, p_batch, p_done, reserving>>
     \/ /\ RoomAt(Reserved) > 0
        /\ p_batch' = Append(SubSeq(p_batch, 1, Reserved), item)
        /\ p_pc' = "fill" /\ p_done' = Reserved /\ p_result' = "none"
        /\ reserving' = TRUE
  /\ UNCHANGED <<buffer, local_ingress_cursor, physical_ingress_gate, sent, consumerVars>>

\* reserve_batch_space(Len(batch)): the slots it grants are filled through
\* get_reserved_slot, which does not test anything.
ReserveBatchSpace(batch) ==
  /\ p_pc = "idle" /\ Len(sent) + Len(batch) <= MaxSent
  /\ cached_egress_cursor' = ShadowHeadFor(Len(batch))
  /\ LET avail == Size - (local_ingress_cursor - ShadowHeadFor(Len(batch)))
     IN  \/ /\ avail = 0
            /\ p_result' = "full"
            /\ UNCHANGED <<p_pc, p_batch, p_done, reserving>>
         \/ /\ avail > 0
            /\ p_batch' = SubSeq(batch, 1, Least(avail, Len(batch)))
            /\ p_pc' = "fill" /\ p_done' = 0 /\ p_result' = "none"
            /\ reserving' = TRUE
  /\ UNCHANGED <<buffer, local_ingress_cursor, physical_ingress_gate, sent, consumerVars>>

\* commit_push (k = 1) and commit_n: the first k slots written are published.
CommitN(k) ==
  /\ reserving /\ k \in 1..p_done
  /\ local_ingress_cursor' = local_ingress_cursor + k
  /\ physical_ingress_gate' = local_ingress_cursor + k
  /\ sent' = sent \o SubSeq(p_batch, 1, k)
  /\ p_pc' = "idle" /\ p_result' = "ok" /\ reserving' = FALSE
  /\ UNCHANGED <<buffer, cached_egress_cursor, p_batch, p_done, consumerVars>>

\* A burst that is never committed: its slots stay free.
Abandon ==
  /\ reserving
  /\ p_pc' = "idle" /\ reserving' = FALSE
  /\ UNCHANGED <<buffer, local_ingress_cursor, physical_ingress_gate, cached_egress_cursor,
                 p_batch, p_done, p_result, sent, consumerVars>>
-----------------------------------------------------------------------------
(* The consumer: look ahead, consume. *)

\* is_data_available, available_to_peek: the horizon is refreshed when it is reached.
AvailableToPeek ==
  /\ c_pc = "idle"
  /\ cached_ingress_cursor' = ShadowTail
  /\ c_result' = IF ShadowTail = local_egress_cursor THEN "empty" ELSE "none"
  /\ UNCHANGED <<buffer, local_egress_cursor, physical_egress_gate, c_pc, c_count, c_out,
                 received, producerVars, reserving>>

LookedAt == IF c_pc = "peeked" THEN Len(c_out) ELSE 0

\* Mutant of Horizon: the gate is not consulted again past the first look.
HorizonOnce == IF local_egress_cursor = cached_ingress_cursor THEN physical_ingress_gate
               ELSE cached_ingress_cursor + LookedAt

Horizon ==
  IF local_egress_cursor + LookedAt >= cached_ingress_cursor
  THEN physical_ingress_gate ELSE cached_ingress_cursor

\* peek_at(LookedAt), get_peek_slot: one slot further than the last look.
PeekAt ==
  /\ c_pc \in {"idle", "peeked"}
  /\ cached_ingress_cursor' = Horizon
  /\ \/ /\ local_egress_cursor + LookedAt >= Horizon
        /\ c_result' = IF c_pc = "idle" THEN "empty" ELSE c_result
        /\ UNCHANGED <<c_pc, c_count, c_out>>
     \/ /\ local_egress_cursor + LookedAt < Horizon
        /\ c_out' = Append(SubSeq(c_out, 1, LookedAt),
                           buffer[Slot(local_egress_cursor + LookedAt)])
        /\ c_count' = LookedAt + 1
        /\ c_pc' = "peeked" /\ c_result' = "none"
  /\ UNCHANGED <<buffer, local_egress_cursor, physical_egress_gate, received, producerVars,
                 reserving>>

\* consume (k = 1) and consume_n: the first k slots looked at are retired.
ConsumeN(k) ==
  /\ c_pc = "peeked" /\ k \in 1..Len(c_out)
  /\ local_egress_cursor' = local_egress_cursor + k
  /\ physical_egress_gate' = local_egress_cursor + k
  /\ received' = received \o SubSeq(c_out, 1, k)
  /\ c_pc' = "idle" /\ c_result' = "ok"
  /\ UNCHANGED <<buffer, cached_ingress_cursor, c_count, c_out, producerVars, reserving>>
-----------------------------------------------------------------------------
Reserve ==
  \/ \E item \in Item : ReserveAt(item)
  \/ \E n \in 1..MaxBatch : \E batch \in [1..n -> Item] : ReserveBatchSpace(batch)
  \/ \E k \in 1..MaxBatch : CommitN(k)
  \/ Abandon
LookAhead == AvailableToPeek \/ PeekAt \/ \E k \in 1..Size : ConsumeN(k)

\* The operations of SpscConduit; Consume retires all that was looked at.
CopyingNext ==
  /\ \/ CallTryPush \/ CallPushBatch \/ ClaimPush \/ FillSlot
     \/ (~reserving /\ PublishPush)
     \/ CallTryPop \/ CallPopBatch \/ ConsumerStep \/ Peek \/ Consume
  /\ UNCHANGED reserving

RingNext == CopyingNext \/ Reserve \/ LookAhead
RingSpec == RingInit /\ [][RingNext]_ringVars

\* Both threads run, and the consumer polls with pop_batch.
RingFairness ==
  /\ WF_ringVars((ClaimPush \/ FillSlot \/ (~reserving /\ PublishPush)) /\ UNCHANGED reserving)
  /\ WF_ringVars(ConsumerStep /\ UNCHANGED reserving)
  /\ WF_ringVars(CallPopBatch /\ UNCHANGED reserving)
RingFairSpec == RingSpec /\ RingFairness
-----------------------------------------------------------------------------
(* What is checked.                                                        *)

\* A burst is always in the filling phase.
ReservingFills == reserving \in BOOLEAN /\ (reserving => p_pc = "fill")

\* The strengthening that makes the properties below inductive.
RingInv == Inv /\ ReservingFills

\* Every pointer the consumer got from peek, peek_at or get_peek_slot stays valid
\* until consume_n: the producer, reserving and writing in place from a stale
\* cached_egress_cursor_, never writes a slot the consumer is looking at.
LookAheadStable ==
  c_pc = "peeked" =>
    \A j \in 1..Len(c_out) : buffer[Slot(local_egress_cursor + j - 1)] = c_out[j]
=============================================================================
