---------------------------- MODULE BoundedFifo ----------------------------
(***************************************************************************)
(* What a single-producer single-consumer conduit promises its two users:  *)
(* a bounded first-in first-out queue whose operations take effect in one  *)
(* step.  The queue itself is the part of "sent" that is not yet           *)
(* "received".  p_result and c_result are what the producer's and the      *)
(* consumer's last call returned: "full" may be answered only when the     *)
(* queue is full, "empty" only when it is empty.                           *)
(***************************************************************************)
EXTENDS Naturals, Sequences

CONSTANTS Item,      \* the values a slot can carry
          Capacity   \* the number of slots

VARIABLES sent,      \* every item ever enqueued, in order
          received,  \* every item ever dequeued, in order
          p_result,  \* the producer's last answer
          c_result   \* the consumer's last answer

fifoVars == <<sent, received, p_result, c_result>>

Occupancy == Len(sent) - Len(received)

FifoInit ==
  /\ sent = <<>>
  /\ received = <<>>
  /\ p_result = "none"
  /\ c_result = "none"

\* A call begins: the previous answer is forgotten.
CallPush == p_result' = "none" /\ UNCHANGED <<sent, received, c_result>>
CallPop  == c_result' = "none" /\ UNCHANGED <<sent, received, p_result>>

\* A batch enters the queue at one instant, behind everything sent before.
Enqueue(batch) ==
  /\ Occupancy + Len(batch) <= Capacity
  /\ sent' = sent \o batch
  /\ p_result' = "ok"
  /\ UNCHANGED <<received, c_result>>

RefusePush ==
  /\ Occupancy = Capacity
  /\ p_result' = "full"
  /\ UNCHANGED <<sent, received, c_result>>

\* The oldest n items leave the queue at one instant, in order.
Dequeue(n) ==
  /\ n <= Occupancy
  /\ received' = received \o SubSeq(sent, Len(received) + 1, Len(received) + n)
  /\ c_result' = "ok"
  /\ UNCHANGED <<sent, p_result>>

RefusePop ==
  /\ Occupancy = 0
  /\ c_result' = "empty"
  /\ UNCHANGED <<sent, received, p_result>>

FifoNext ==
  \/ CallPush
  \/ CallPop
  \/ RefusePush
  \/ RefusePop
  \/ \E n \in 1..Capacity : Dequeue(n)
  \/ \E n \in 1..Capacity : \E batch \in [1..n -> Item] : Enqueue(batch)

FifoSpec == FifoInit /\ [][FifoNext]_fifoVars
=============================================================================
