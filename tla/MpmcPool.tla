------------------------------ MODULE MpmcPool ------------------------------
(***************************************************************************)
(* core/mpmc_pool.hpp: the slab pool any thread allocates from and releases*)
(* to.  Free nodes form one stack per lane, linked by index through        *)
(* next_indices_; a head is an index packed with an epoch that every       *)
(* successful compare-and-swap increments.  make_raw is make_batch of one  *)
(* node, release is release_batch of one.                                  *)
(*                                                                         *)
(* A step is one access to a shared word, except the links inside a batch  *)
(* that is being released: nobody else can reach those nodes.              *)
(***************************************************************************)
EXTENDS Integers, Sequences, FiniteSets

CONSTANTS Thread, NumLanes,
          Capacity,      \* nodes of the slab
          Nil,           \* 0xFFFFFFFF
          EpochModulus,  \* epochs wrap here: 2^32
          MaxBatch,      \* bound: nodes a batch call handles
          MaxCalls       \* bound: calls of one run

Lane == 0..NumLanes-1
Node == 0..Capacity-1

PoolAssumption ==
  /\ NumLanes \in Nat \ {0} /\ Capacity \in Nat \ {0} /\ Capacity % NumLanes = 0 /\ Nil \notin Node
  /\ EpochModulus \in Nat \ {0} /\ MaxBatch \in Nat \ {0} /\ MaxCalls \in Nat

VARIABLES
  head,          \* per lane: [index, epoch]
  next_indices,  \* per node: the link
  holders,       \* per node: how many users hold it
  home,          \* per thread: cached_core_idx
  pc, offset,    \* per thread: where it is, lanes tried before this one
  old_head,      \* per thread: the head it loaded
  want, nodes,   \* per thread: nodes asked for; nodes collected, or being released
  rest,          \* per thread: what the head will point to
  alone,         \* per thread: no other call overlapped this one
  calls          \* calls made so far

slabVars == <<head, next_indices, holders>>
vars == <<slabVars, home, pc, offset, old_head, want, nodes, rest, alone, calls>>

LaneOf(t) == (home[t] + offset[t]) % NumLanes
NoHead == [index |-> Nil, epoch |-> 0]

NodesPerLane == Capacity \div NumLanes

\* Lane l starts with the nodes l*NodesPerLane .. (l+1)*NodesPerLane-1; the slab
\* is zero-filled, so a link nobody initialised is 0.
Init ==
  /\ head = [l \in Lane |-> [index |-> l * NodesPerLane, epoch |-> 0]]
  /\ next_indices = [n \in Node |->
       IF n >= NumLanes * NodesPerLane THEN 0
       ELSE IF (n + 1) % NodesPerLane = 0 THEN Nil ELSE n + 1]
  /\ holders = [n \in Node |-> 0]
  /\ home \in [Thread -> Lane]
  /\ pc = [t \in Thread |-> "idle"] /\ offset = [t \in Thread |-> 0]
  /\ old_head = [t \in Thread |-> NoHead]
  /\ want = [t \in Thread |-> 0] /\ nodes = [t \in Thread |-> <<>>]
  /\ rest = [t \in Thread |-> Nil]
  /\ alone = [t \in Thread |-> FALSE]
  /\ calls = 0

\* Mutant of NextEpoch: the head is swapped without a new epoch.
SameEpoch(epoch) == epoch

NextEpoch(epoch) == (epoch + 1) % EpochModulus

Enter(t) ==
  /\ pc[t] = "idle" /\ calls < MaxCalls
  /\ calls' = calls + 1
  /\ alone' = [u \in Thread |-> u = t /\ \A v \in Thread \ {t} : pc[v] = "idle"]
  /\ UNCHANGED <<head, holders, home, offset, old_head, rest>>

\* The locals of a call that returns.
Leave(t) ==
  /\ pc' = [pc EXCEPT ![t] = "idle"] /\ offset' = [offset EXCEPT ![t] = 0]
  /\ old_head' = [old_head EXCEPT ![t] = NoHead]
  /\ want' = [want EXCEPT ![t] = 0] /\ nodes' = [nodes EXCEPT ![t] = <<>>]
  /\ rest' = [rest EXCEPT ![t] = Nil] /\ alone' = [alone EXCEPT ![t] = FALSE]
-----------------------------------------------------------------------------
(* make_raw, make_batch. *)

CallMakeBatch(t) ==
  /\ Enter(t)
  /\ \E n \in 1..MaxBatch : want' = [want EXCEPT ![t] = n]
  /\ pc' = [pc EXCEPT ![t] = "load"]
  /\ UNCHANGED <<next_indices, nodes>>

\* Mutant of Examine: an empty lane ends the call.
ExamineHomeOnly(t, h) ==
  \/ /\ h.index # Nil
     /\ old_head' = [old_head EXCEPT ![t] = h]
     /\ nodes' = [nodes EXCEPT ![t] = <<h.index>>]
     /\ pc' = [pc EXCEPT ![t] = "walk"]
     /\ UNCHANGED <<offset, want, rest, alone>>
  \/ /\ h.index = Nil
     /\ Leave(t)

\* A head was loaded (or returned by a failed compare-and-swap): an empty lane is
\* left for the next one, after the last the call answers nullptr (or 0).
Examine(t, h) ==
  \/ /\ h.index # Nil
     /\ old_head' = [old_head EXCEPT ![t] = h]
     /\ nodes' = [nodes EXCEPT ![t] = <<h.index>>]
     /\ pc' = [pc EXCEPT ![t] = "walk"]
     /\ UNCHANGED <<offset, want, rest, alone>>
  \/ /\ h.index = Nil /\ offset[t] + 1 < NumLanes
     /\ offset' = [offset EXCEPT ![t] = @ + 1]
     /\ nodes' = [nodes EXCEPT ![t] = <<>>]
     /\ pc' = [pc EXCEPT ![t] = "load"]
     /\ UNCHANGED <<old_head, want, rest, alone>>
  \/ /\ h.index = Nil /\ offset[t] + 1 = NumLanes
     /\ Leave(t)

LoadHead(t) ==
  /\ pc[t] = "load"
  /\ Examine(t, head[LaneOf(t)])
  /\ UNCHANGED <<slabVars, home, calls>>

\* Mutant of Walk: the end of the chain is not looked for.
WalkPastEnd(t) ==
  /\ pc[t] = "walk"
  /\ LET next == next_indices[nodes[t][Len(nodes[t])]]
     IN  IF Len(nodes[t]) < want[t]
         THEN nodes' = [nodes EXCEPT ![t] = Append(@, next)] /\ UNCHANGED <<pc, rest>>
         ELSE /\ rest' = [rest EXCEPT ![t] = next]
              /\ pc' = [pc EXCEPT ![t] = "detach"]
              /\ UNCHANGED nodes
  /\ UNCHANGED <<slabVars, home, offset, old_head, want, alone, calls>>

\* The chain is followed until the batch is complete or the link is Nil.
Walk(t) ==
  /\ pc[t] = "walk"
  /\ LET next == next_indices[nodes[t][Len(nodes[t])]]
     IN  IF Len(nodes[t]) < want[t] /\ next # Nil
         THEN nodes' = [nodes EXCEPT ![t] = Append(@, next)] /\ UNCHANGED <<pc, rest>>
         ELSE IF Len(nodes[t]) < want[t]
         THEN pc' = [pc EXCEPT ![t] = "reload"] /\ UNCHANGED <<nodes, rest>>
         ELSE /\ rest' = [rest EXCEPT ![t] = next]
              /\ pc' = [pc EXCEPT ![t] = "detach"]
              /\ UNCHANGED nodes
  /\ UNCHANGED <<slabVars, home, offset, old_head, want, alone, calls>>

\* The last link is loaded once more for the new head.
LoadRemaining(t) ==
  /\ pc[t] = "reload"
  /\ rest' = [rest EXCEPT ![t] = next_indices[nodes[t][Len(nodes[t])]]]
  /\ pc' = [pc EXCEPT ![t] = "detach"]
  /\ UNCHANGED <<slabVars, home, offset, old_head, want, nodes, alone, calls>>

\* History: the users of the nodes of s, k more or fewer.
Hold(n, s, k) == IF \E i \in 1..Len(s) : s[i] = n THEN holders[n] + k ELSE holders[n]

Detach(t) ==
  /\ pc[t] = "detach"
  /\ IF head[LaneOf(t)] = old_head[t]
     THEN /\ head' = [head EXCEPT ![LaneOf(t)] =
                        [index |-> rest[t], epoch |-> NextEpoch(old_head[t].epoch)]]
          /\ holders' = [n \in Node |-> Hold(n, nodes[t], 1)]
          /\ Leave(t)
     ELSE /\ Examine(t, head[LaneOf(t)])
          /\ UNCHANGED <<head, holders>>
  /\ UNCHANGED <<next_indices, home, calls>>
-----------------------------------------------------------------------------
(* release, release_batch: any thread may give back nodes that are held. *)

\* The nodes of release calls under way: a caller gives a node back once.
Releasing == UNION {{nodes[t][i] : i \in 1..Len(nodes[t])} :
                      t \in {u \in Thread : pc[u] \in {"peek", "link", "attach"}}}

\* The destructors have run; the batch is linked first to last.
CallReleaseBatch(t, batch) ==
  /\ Enter(t)
  /\ \A i \in 1..Len(batch) : holders[batch[i]] > 0 /\ batch[i] \notin Releasing
  /\ \A i, j \in 1..Len(batch) : i # j => batch[i] # batch[j]
  /\ nodes' = [nodes EXCEPT ![t] = batch]
  /\ next_indices' = [n \in Node |->
       IF \E i \in 1..Len(batch)-1 : batch[i] = n
       THEN batch[(CHOOSE i \in 1..Len(batch)-1 : batch[i] = n) + 1]
       ELSE next_indices[n]]
  /\ pc' = [pc EXCEPT ![t] = "peek"]
  /\ UNCHANGED want

CallRelease(t) == \E k \in 1..MaxBatch : \E batch \in [1..k -> Node] : CallReleaseBatch(t, batch)

PeekHead(t) ==
  /\ pc[t] = "peek"
  /\ old_head' = [old_head EXCEPT ![t] = head[LaneOf(t)]]
  /\ pc' = [pc EXCEPT ![t] = "link"]
  /\ UNCHANGED <<slabVars, home, offset, want, nodes, rest, alone, calls>>

\* Mutant of LinkLast: the link is not renewed after a failed compare-and-swap.
LinkLastOnce(t) ==
  /\ pc[t] = "link"
  /\ next_indices' = [next_indices EXCEPT ![nodes[t][Len(nodes[t])]] =
                        IF rest[t] = Nil THEN old_head[t].index ELSE rest[t]]
  /\ rest' = [rest EXCEPT ![t] = IF @ = Nil THEN old_head[t].index ELSE @]
  /\ pc' = [pc EXCEPT ![t] = "attach"]
  /\ UNCHANGED <<head, holders, home, offset, old_head, want, nodes, alone, calls>>

LinkLast(t) ==
  /\ pc[t] = "link"
  /\ next_indices' = [next_indices EXCEPT ![nodes[t][Len(nodes[t])]] = old_head[t].index]
  /\ pc' = [pc EXCEPT ![t] = "attach"]
  /\ UNCHANGED <<head, holders, home, offset, old_head, want, nodes, rest, alone, calls>>

\* Mutant of Attach: the head is not reloaded after a failed compare-and-swap.
AttachStaleHead(t) ==
  /\ pc[t] = "attach"
  /\ IF head[LaneOf(t)] = old_head[t]
     THEN /\ head' = [head EXCEPT ![LaneOf(t)] =
                        [index |-> nodes[t][1], epoch |-> NextEpoch(old_head[t].epoch)]]
          /\ holders' = [n \in Node |-> Hold(n, nodes[t], -1)]
          /\ Leave(t)
     ELSE /\ pc' = [pc EXCEPT ![t] = "link"]
          /\ UNCHANGED <<head, holders, offset, old_head, want, nodes, rest, alone>>
  /\ UNCHANGED <<next_indices, home, calls>>

Attach(t) ==
  /\ pc[t] = "attach"
  /\ IF head[LaneOf(t)] = old_head[t]
     THEN /\ head' = [head EXCEPT ![LaneOf(t)] =
                        [index |-> nodes[t][1], epoch |-> NextEpoch(old_head[t].epoch)]]
          /\ holders' = [n \in Node |-> Hold(n, nodes[t], -1)]
          /\ Leave(t)
     ELSE /\ old_head' = [old_head EXCEPT ![t] = head[LaneOf(t)]]
          /\ pc' = [pc EXCEPT ![t] = "link"]
          /\ UNCHANGED <<head, holders, offset, want, nodes, rest, alone>>
  /\ UNCHANGED <<next_indices, home, calls>>
-----------------------------------------------------------------------------
MakeStep(t) == LoadHead(t) \/ Walk(t) \/ LoadRemaining(t) \/ Detach(t)
ReleaseStep(t) == PeekHead(t) \/ LinkLast(t) \/ Attach(t)
Step(t) == MakeStep(t) \/ ReleaseStep(t)
Next == \E t \in Thread : CallMakeBatch(t) \/ CallRelease(t) \/ Step(t)
Spec == Init /\ [][Next]_vars
FairSpec == Spec /\ \A t \in Thread : WF_vars(Step(t))
-----------------------------------------------------------------------------
(* What is checked.                                                        *)

\* Links are nodes or Nil; heads are an index and an epoch below the modulus.
TypeOK ==
  /\ head \in [Lane -> [index : Node \cup {Nil}, epoch : 0..EpochModulus-1]]
  /\ next_indices \in [Node -> Node \cup {Nil}]
  /\ holders \in [Node -> Nat]
  /\ home \in [Thread -> Lane] /\ offset \in [Thread -> Lane]
  /\ pc \in [Thread -> {"idle", "load", "walk", "reload", "detach", "peek", "link", "attach"}]
  /\ old_head \in [Thread -> [index : Node \cup {Nil}, epoch : 0..EpochModulus-1]]
  /\ want \in [Thread -> 0..MaxBatch] /\ nodes \in [Thread -> Seq(Node)]
  /\ rest \in [Thread -> Node \cup {Nil}] /\ alone \in [Thread -> BOOLEAN]
  /\ calls \in 0..MaxCalls

\* A node is in the hands of one user at a time, although threads read links of
\* nodes that others take, release and take again under them (ABA).
NoDoubleAllocation == \A n \in Node : holders[n] <= 1

\* The nodes on lane l's free stack.
Free(l) ==
  LET reach[k \in 0..Capacity] ==
        IF k = 0 THEN {head[l].index} \ {Nil}
        ELSE reach[k-1] \cup ({next_indices[n] : n \in reach[k-1]} \ {Nil})
  IN  reach[Capacity]

\* Every node of the lanes is on exactly one free stack or held by a user: none
\* is lost, none is on two stacks, none is free and in use.
NodesConserved ==
  \A n \in 0..(NumLanes * NodesPerLane)-1 :
    Cardinality({l \in Lane : n \in Free(l)}) + holders[n] = 1

\* make_raw and make_batch answer nullptr (or 0), when no other call overlaps, only
\* if every node of the lanes is held: a lane that is empty sends the caller on.
HonestExhaustion ==
  [][\A t \in Thread :
       (pc[t] \in {"load", "detach"} /\ pc'[t] = "idle" /\ alone[t] /\ holders' = holders) =>
         \A n \in 0..(NumLanes * NodesPerLane)-1 : holders[n] = 1]_vars

\* Every call ends: a compare-and-swap fails only because another call's succeeded.
CallsEnd == \A t \in Thread : pc[t] # "idle" ~> pc[t] = "idle"
=============================================================================
