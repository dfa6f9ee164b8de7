----------------------------- MODULE MCProgress -----------------------------
(***************************************************************************)
(* The components that wait for one another's steps, with the fairness of  *)
(* each: the calls of the two pools and the flush of the journal.  They    *)
(* share no state; the variable active picks one and the others stand.     *)
(***************************************************************************)
EXTENDS UringJournal

CONSTANTS Thread, NumLanes, Capacity, Nil, EpochModulus, MaxBatch, MaxCalls,  \* mpmc_pool
          Releaser, RingSlots, Automatic, MaxBurst, MaxTickets                \* mpsc_pool

VARIABLES head, next_indices, holders, home, pool_pc, offset, old_head, want, nodes, rest,
          alone, calls
VARIABLES lifo_stack, return_sequences, return_ptrs, return_push, return_pop, live,
          r_pc, r_nodes, r_pos, r_done, m_pc, m_want, p, push_idx, burst
VARIABLE active

Pool    == INSTANCE MpmcPool WITH pc <- pool_pc
Returns == INSTANCE MpscPool WITH Capacity <- RingSlots

ASSUME PoolsAssumption == Pool!PoolAssumption /\ Returns!MpscAssumption

poolState    == <<head, next_indices, holders, home, pool_pc, offset, old_head, want, nodes, rest,
                  alone, calls>>
returnsState == <<lifo_stack, return_sequences, return_ptrs, return_push, return_pop, live,
                  r_pc, r_nodes, r_pos, r_done, m_pc, m_want, p, push_idx, burst>>
journalState == vars
mcVars == <<poolState, returnsState, journalState, active>>

\* The home lanes of a pool that stands are pinned.
MCInit == /\ active \in {"pool", "returns", "journal"}
          /\ Pool!Init /\ (active # "pool" => home = [t \in Thread |-> 0])
          /\ Returns!Init /\ Init

\* A step of one component is a step of the whole that leaves the others alone.
InPool(A)    == active = "pool" /\ A /\ UNCHANGED <<returnsState, journalState, active>>
InReturns(A) == active = "returns" /\ A /\ UNCHANGED <<poolState, journalState, active>>
InJournal(A) == active = "journal" /\ A /\ UNCHANGED <<poolState, returnsState, active>>

MCNext == InPool(Pool!Next) \/ InReturns(Returns!Next) \/ InJournal(Next)

\* Pools: a thread in a call is scheduled, and the producer sweeps again and
\* again.  Journal: as in UringJournal.
PoolProgress    == \A t \in Thread : WF_mcVars(InPool(Pool!Step(t)))
ReturnsProgress == /\ WF_mcVars(InReturns(Returns!Sweep))
                   /\ WF_mcVars(InReturns(Returns!CallReclaim))
                   /\ \A t \in Releaser : WF_mcVars(InReturns(Returns!ReleaseStep(t)))
JournalProgress ==
  /\ WF_mcVars(InJournal(FlushStep)) /\ WF_mcVars(InJournal(PollerStep))
  /\ WF_mcVars(InJournal(FsyncDone \/ FsyncFails))
  /\ \A s \in SlotIds : WF_mcVars(InJournal(WriteDone(s) \/ WriteRefused(s)))

MCSpec == MCInit /\ [][MCNext]_mcVars /\ PoolProgress /\ ReturnsProgress /\ JournalProgress

-----------------------------------------------------------------------------
(* The properties of the pools, stated in their modules.                   *)

\* mpmc_pool: links and heads are nodes or Nil, batches within their bound.
PoolTypeOK == Pool!TypeOK
\* mpmc_pool: a node is in the hands of one user at a time.
NoDoubleAllocation == Pool!NoDoubleAllocation
\* mpmc_pool: a node is on one free stack or in one user's hands.
PoolConserved == Pool!NodesConserved
\* mpmc_pool: a call that ran alone answers nullptr only when every node is held.
HonestExhaustion == Pool!HonestExhaustion
\* mpmc_pool: every call ends.
CallsEnd == Pool!CallsEnd

\* mpsc_pool: stack and ring hold nodes, a sweep stays within its burst.
ReturnsTypeOK == Returns!TypeOK
\* mpsc_pool: a node is in use, being returned, in the ring or on the stack, once.
ReturnsConserved == Returns!NodesConserved
\* mpsc_pool: the slot of a drawn ticket is ready, so no releaser waits.
ReleaseNeverWaits == Returns!ReleaseNeverWaits
\* mpsc_pool: a released node comes back to the stack or into use.
NodesComeBack == Returns!NodesComeBack
=============================================================================
