------------------------------ MODULE MpscPool ------------------------------
(***************************************************************************)
(* core/mpsc_pool.hpp: one producer allocates from a private stack, any    *)
(* thread returns nodes through a ring of tickets, and the producer sweeps *)
(* the ring back into its stack: on demand, or (reclaim_strategy           *)
(* automatic) whenever the stack cannot serve a call.                      *)
(*                                                                         *)
(* A step is one access to the ring.  The stack belongs to the producer.   *)
(***************************************************************************)
EXTENDS Integers, Sequences, FiniteSets

CONSTANTS Releaser,    \* threads that return nodes
          Capacity,    \* nodes, and slots of the return ring
          Automatic,   \* Strategy = reclaim_strategy::automatic
          MaxBurst,    \* MAX_RECLAIM_BURST
          MaxBatch,    \* bound: nodes a batch call handles
          MaxTickets   \* bound: tickets drawn in one run

Node == 0..Capacity-1

MpscAssumption ==
  /\ \E k \in 0..30 : Capacity = 2^k   \* the static_assert
  /\ Automatic \in BOOLEAN
  /\ MaxBurst \in Nat \ {0} /\ MaxBatch \in Nat \ {0} /\ MaxTickets \in Nat

VARIABLES
  lifo_stack,                    \* lifo_stack_[0 .. lifo_head_-1]
  return_sequences, return_ptrs, \* the ring: tickets and pointers
  return_push, return_pop,       \* next ticket to draw, next ticket to sweep
  live,                          \* nodes in the hands of users
  r_pc, r_nodes, r_pos, r_done,  \* releasers: step, batch, first ticket, slots published
  m_pc, m_want,                  \* producer: step, nodes still to allocate
  p, push_idx, burst             \* locals of reclaim_returns

ringVars == <<return_sequences, return_ptrs, return_push>>
releaserVars == <<r_pc, r_nodes, r_pos, r_done>>
producerVars == <<lifo_stack, return_pop, m_pc, m_want, p, push_idx, burst>>
vars == <<ringVars, live, releaserVars, producerVars>>

Slot(ticket) == ticket % Capacity
Least(a, b) == IF a < b THEN a ELSE b

Init ==
  /\ lifo_stack = [i \in 1..Capacity |-> i - 1]
  /\ return_sequences = [i \in Node |-> i]
  /\ return_ptrs = [i \in Node |-> 0]
  /\ return_push = 0 /\ return_pop = 0
  /\ live = {}
  /\ r_pc = [t \in Releaser |-> "idle"] /\ r_nodes = [t \in Releaser |-> <<>>]
  /\ r_pos = [t \in Releaser |-> 0] /\ r_done = [t \in Releaser |-> 0]
  /\ m_pc = "idle" /\ m_want = 0 /\ p = 0 /\ push_idx = 0 /\ burst = 0
-----------------------------------------------------------------------------
(* The producer. *)

\* make_raw, make_batch: up to n nodes leave the top of the stack.
Allocate(n, stack) ==
  LET k == Least(n, Len(stack))
  IN  /\ live' = live \cup {stack[i] : i \in Len(stack)-k+1..Len(stack)}
      /\ lifo_stack' = SubSeq(stack, 1, Len(stack) - k)

BeginSweep(n) ==
  /\ m_pc' = "sweep" /\ m_want' = n
  /\ p' = return_pop /\ push_idx' = return_push /\ burst' = 0
  /\ UNCHANGED <<ringVars, live, lifo_stack, return_pop, releaserVars>>

CallMake(n) ==
  /\ m_pc = "idle"
  /\ IF Automatic /\ Len(lifo_stack) < n
     THEN BeginSweep(n)
     ELSE /\ Allocate(n, lifo_stack)
          /\ UNCHANGED <<ringVars, return_pop, m_pc, m_want, p, push_idx, burst, releaserVars>>

CallMakeBatch == \E n \in 1..MaxBatch : CallMake(n)

\* reclaim_returns called by the producer itself.
CallReclaim == m_pc = "idle" /\ BeginSweep(0)

\* Mutant of Swept: the burst is not bounded.
SweptUnbounded == p < push_idx /\ return_sequences[Slot(p)] = p + 1

\* The loop of reclaim_returns goes on: a published slot, within the burst.
Swept == p < push_idx /\ burst < MaxBurst /\ return_sequences[Slot(p)] = p + 1

\* Mutant of SweepSlot: the slot is recycled for the lap it is already in.
SweepSlotSameLap ==
  /\ m_pc = "sweep" /\ Swept
  /\ lifo_stack' = Append(lifo_stack, return_ptrs[Slot(p)])
  /\ return_sequences' = [return_sequences EXCEPT ![Slot(p)] = p]
  /\ p' = p + 1 /\ burst' = burst + 1
  /\ UNCHANGED <<return_ptrs, return_push, live, return_pop, m_pc, m_want, push_idx, releaserVars>>

SweepSlot ==
  /\ m_pc = "sweep" /\ Swept
  /\ lifo_stack' = Append(lifo_stack, return_ptrs[Slot(p)])
  /\ return_sequences' = [return_sequences EXCEPT ![Slot(p)] = p + Capacity]
  /\ p' = p + 1 /\ burst' = burst + 1
  /\ UNCHANGED <<return_ptrs, return_push, live, return_pop, m_pc, m_want, push_idx, releaserVars>>

\* Mutant of EndSweep: the sweep position is not written back.
EndSweepForgetful ==
  /\ m_pc = "sweep" /\ ~Swept
  /\ m_pc' = "idle" /\ m_want' = 0 /\ p' = 0 /\ push_idx' = 0 /\ burst' = 0
  /\ Allocate(m_want, lifo_stack)
  /\ UNCHANGED <<ringVars, return_pop, releaserVars>>

\* A gap, the end of the ring or of the burst: the call that swept is served.
EndSweep ==
  /\ m_pc = "sweep" /\ ~Swept
  /\ return_pop' = p
  /\ m_pc' = "idle" /\ m_want' = 0 /\ p' = 0 /\ push_idx' = 0 /\ burst' = 0
  /\ Allocate(m_want, lifo_stack)
  /\ UNCHANGED <<ringVars, releaserVars>>
-----------------------------------------------------------------------------
(* Releasers: release is release_batch of one node. *)

\* fetch_add draws the tickets of the whole batch.
CallRelease(t, batch) ==
  /\ r_pc[t] = "idle" /\ return_push + Len(batch) <= MaxTickets
  /\ \A i \in 1..Len(batch) : batch[i] \in live
  /\ \A i, j \in 1..Len(batch) : i # j => batch[i] # batch[j]
  /\ live' = live \ {batch[i] : i \in 1..Len(batch)}
  /\ r_nodes' = [r_nodes EXCEPT ![t] = batch]
  /\ r_pos' = [r_pos EXCEPT ![t] = return_push]
  /\ return_push' = return_push + Len(batch)
  /\ r_pc' = [r_pc EXCEPT ![t] = "wait"]
  /\ UNCHANGED <<return_sequences, return_ptrs, r_done, producerVars>>

CallReleaseBatch(t) ==
  \E k \in 1..MaxBatch : \E batch \in [1..k -> Node] : CallRelease(t, batch)

TicketOf(t) == r_pos[t] + r_done[t]

\* The slot is recycled: the pointer is written.
WriteSlot(t) ==
  /\ r_pc[t] = "wait"
  /\ return_sequences[Slot(TicketOf(t))] = TicketOf(t)
  /\ return_ptrs' = [return_ptrs EXCEPT ![Slot(TicketOf(t))] = r_nodes[t][r_done[t] + 1]]
  /\ r_pc' = [r_pc EXCEPT ![t] = "publish"]
  /\ UNCHANGED <<return_sequences, return_push, live, r_nodes, r_pos, r_done, producerVars>>

\* Mutant of PublishSlot: the ticket is not advanced.
PublishNothing(t) ==
  /\ r_pc[t] = "publish"
  /\ IF r_done[t] + 1 = Len(r_nodes[t])
     THEN /\ r_pc' = [r_pc EXCEPT ![t] = "idle"] /\ r_nodes' = [r_nodes EXCEPT ![t] = <<>>]
          /\ r_pos' = [r_pos EXCEPT ![t] = 0] /\ r_done' = [r_done EXCEPT ![t] = 0]
     ELSE /\ r_pc' = [r_pc EXCEPT ![t] = "wait"] /\ r_done' = [r_done EXCEPT ![t] = @ + 1]
          /\ UNCHANGED <<r_nodes, r_pos>>
  /\ UNCHANGED <<return_sequences, return_ptrs, return_push, live, producerVars>>

PublishSlot(t) ==
  /\ r_pc[t] = "publish"
  /\ return_sequences' = [return_sequences EXCEPT ![Slot(TicketOf(t))] = TicketOf(t) + 1]
  /\ IF r_done[t] + 1 = Len(r_nodes[t])
     THEN /\ r_pc' = [r_pc EXCEPT ![t] = "idle"] /\ r_nodes' = [r_nodes EXCEPT ![t] = <<>>]
          /\ r_pos' = [r_pos EXCEPT ![t] = 0] /\ r_done' = [r_done EXCEPT ![t] = 0]
     ELSE /\ r_pc' = [r_pc EXCEPT ![t] = "wait"] /\ r_done' = [r_done EXCEPT ![t] = @ + 1]
          /\ UNCHANGED <<r_nodes, r_pos>>
  /\ UNCHANGED <<return_ptrs, return_push, live, producerVars>>
-----------------------------------------------------------------------------
Sweep == SweepSlot \/ EndSweep
ReleaseStep(t) == WriteSlot(t) \/ PublishSlot(t)
Next ==
  \/ CallMakeBatch \/ CallReclaim \/ Sweep
  \/ \E t \in Releaser : CallReleaseBatch(t) \/ ReleaseStep(t)
Spec == Init /\ [][Next]_vars

\* The producer's loop sweeps again and again; releasers run.
FairSpec ==
  /\ Spec /\ WF_vars(Sweep) /\ WF_vars(CallReclaim)
  /\ \A t \in Releaser : WF_vars(ReleaseStep(t))
-----------------------------------------------------------------------------
(* What is checked.                                                        *)

\* Stack and ring hold nodes; the counters are naturals.
TypeOK ==
  /\ lifo_stack \in Seq(Node) /\ live \in SUBSET Node
  /\ return_sequences \in [Node -> Nat] /\ return_ptrs \in [Node -> Node]
  /\ return_push \in 0..MaxTickets /\ return_pop \in 0..MaxTickets
  /\ r_pc \in [Releaser -> {"idle", "wait", "publish"}] /\ r_nodes \in [Releaser -> Seq(Node)]
  /\ r_pos \in [Releaser -> Nat] /\ r_done \in [Releaser -> Nat]
  /\ m_pc \in {"idle", "sweep"} /\ m_want \in 0..MaxBatch
  /\ p \in Nat /\ push_idx \in Nat /\ burst \in 0..MaxBurst

\* The first ticket not yet swept.
SweptTo == IF m_pc = "sweep" THEN p ELSE return_pop
InRing(n) == {q \in SweptTo..return_push-1 :
                return_sequences[Slot(q)] = q + 1 /\ return_ptrs[Slot(q)] = n}
InHand(n) == {<<t, i>> \in Releaser \X (1..Capacity) :
                i > r_done[t] /\ i <= Len(r_nodes[t]) /\ r_nodes[t][i] = n}
OnStack(n) == {i \in 1..Len(lifo_stack) : lifo_stack[i] = n}

\* Every node is in one place: in use, being returned, in the ring, or on the
\* stack.  None is lost by a gap or a cut burst, none comes back twice.
NodesConserved ==
  \A n \in Node :
    Cardinality(OnStack(n)) + Cardinality(InRing(n)) + Cardinality(InHand(n))
      + (IF n \in live THEN 1 ELSE 0) = 1

\* The wait in release and release_batch never waits: the ring has a slot for every
\* node, and a slot is recycled before its node can be allocated and come back.
ReleaseNeverWaits ==
  \A t \in Releaser : r_pc[t] = "wait" => return_sequences[Slot(TicketOf(t))] = TicketOf(t)

\* A node whose ticket was drawn is back on the stack, or in use again, in the end.
NodesComeBack ==
  \A n \in Node : (InHand(n) # {} \/ InRing(n) # {}) ~> (OnStack(n) # {} \/ n \in live)
=============================================================================
