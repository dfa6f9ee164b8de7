---------------------------- MODULE MpmcConduit ----------------------------
(***************************************************************************)
(* core/mpmc_conduit.hpp: the multi-producer multi-consumer conduit, a     *)
(* matrix of lanes.  A lane is a ring of slots, each with a ticket         *)
(* (sequences_), and two gates that threads advance by compare-and-swap.   *)
(* A push at position p waits for ticket p and leaves p + 1; a pop at p    *)
(* waits for p + 1 and leaves p + LaneCapacity.                            *)
(*                                                                         *)
(* try_push, try_pop, push_batch and pop_batch have the same shape, so one *)
(* set of actions models them: load the gate, load the ticket, (batches)   *)
(* load the other gate for the room, compare-and-swap, copy, publish the   *)
(* tickets.  A step is one access to shared memory, except that the slots  *)
(* of a claim, which no other thread may touch, are copied in one step.    *)
(* push and pop (blocking) repeat the call until it succeeds.              *)
(***************************************************************************)
EXTENDS Integers, Sequences

CONSTANTS Producer, Consumer,  \* the threads of each role
          NumLanes,            \* lanes
          LaneCapacity,        \* slots of a lane (TotalSize / NumLanes)
          Width,               \* slots per vector copy: 8
          Wide,                \* T is trivially copyable and 8 bytes long
          Junk,                \* what lies behind the caller's array
          MaxBatch,            \* bound: items a batch call may carry
          MaxItems             \* bound: items a producer makes in one run

Thread == Producer \cup Consumer
Lane == 0..NumLanes-1
Payload == Producer \X (1..MaxItems)

ASSUME MpmcAssumption ==
  /\ NumLanes \in Nat \ {0} /\ LaneCapacity \in Nat \ {0, 1} /\ Width \in Nat \ {0}
  /\ Wide \in BOOLEAN /\ Junk \notin Payload
  /\ MaxBatch \in Nat \ {0} /\ MaxItems \in Nat
  /\ Producer \cap Consumer = {}

VARIABLES
  sequences, data,   \* per lane: the tickets and the slots
  gate,              \* gate["push"]: physical_ingress_gate_, gate["pop"]: physical_egress_gate_
  home,              \* per thread: cached_core_idx, sampled once
  made,              \* per producer: items made so far
  pc, op, batch,     \* per thread: where it is, "push" or "pop", a batch call or not
  offset,            \* per thread: lanes tried before this one
  pos, count, done,  \* per thread: position, slots claimed, slots published
  args, out, want,   \* per thread: items to push; items popped; items asked for
  result, alone,     \* per thread: last answer; no other call overlapped this one
  written            \* history: per lane, the items in ticket order

laneVars == <<sequences, data, gate, written>>
callVars == <<op, args, home, made>>
vars == <<laneVars, callVars, batch, want, pc, offset, pos, count, done, out, result, alone>>

Slot(position) == position % LaneCapacity
Least(a, b) == IF a < b THEN a ELSE b
LaneOf(t) == (home[t] + offset[t]) % NumLanes
Ticket(t, position) == sequences[LaneOf(t)][Slot(position)]

\* Mutant of Released: a pop leaves the ticket of the lap before.
ReleasedBackwards(t, position) ==
  IF op[t] = "push" THEN position + 1 ELSE position - LaneCapacity

\* The ticket a call waits for, and the one it leaves.
Awaited(t, position) == IF op[t] = "push" THEN position ELSE position + 1
Released(t, position) == IF op[t] = "push" THEN position + 1 ELSE position + LaneCapacity

Init ==
  /\ sequences = [l \in Lane |-> [i \in 0..LaneCapacity-1 |-> i]]
  /\ data = [l \in Lane |-> [i \in 0..LaneCapacity-1 |-> Junk]]
  /\ gate = [k \in {"push", "pop"} |-> [l \in Lane |-> 0]]
  /\ home \in [Thread -> Lane]
  /\ made = [t \in Producer |-> 0]
  /\ pc = [t \in Thread |-> "idle"]
  /\ op = [t \in Thread |-> IF t \in Producer THEN "push" ELSE "pop"]
  /\ batch = [t \in Thread |-> FALSE]
  /\ offset = [t \in Thread |-> 0] /\ pos = [t \in Thread |-> 0]
  /\ count = [t \in Thread |-> 0] /\ done = [t \in Thread |-> 0]
  /\ args = [t \in Thread |-> <<>>] /\ out = [t \in Thread |-> <<>>]
  /\ want = [t \in Thread |-> 0]
  /\ result = [t \in Thread |-> "none"] /\ alone = [t \in Thread |-> FALSE]
  /\ written = [l \in Lane |-> <<>>]
-----------------------------------------------------------------------------
(* Calls. *)

\* A call overlaps every call that is under way.
Enter(t, n, isBatch) ==
  /\ pc[t] = "idle"
  /\ pc' = [pc EXCEPT ![t] = "gate"]
  /\ batch' = [batch EXCEPT ![t] = isBatch]
  /\ want' = [want EXCEPT ![t] = n]
  /\ result' = [result EXCEPT ![t] = "none"]
  /\ alone' = [u \in Thread |-> u = t /\ \A v \in Thread \ {t} : pc[v] = "idle"]
  /\ UNCHANGED <<laneVars, op, home, offset, pos, count, done, out>>

CallPush(t, n, isBatch) ==
  /\ t \in Producer /\ made[t] + n <= MaxItems
  /\ made' = [made EXCEPT ![t] = @ + n]
  /\ args' = [args EXCEPT ![t] = [k \in 1..n |-> <<t, made[t] + k>>]]
  /\ Enter(t, n, isBatch)

CallPop(t, n, isBatch) ==
  /\ t \in Consumer
  /\ Enter(t, n, isBatch)
  /\ UNCHANGED <<made, args>>

\* A producer whose push was refused tries the same items again.
RetryPush(t) ==
  /\ t \in Producer /\ result[t] = "refused"
  /\ Enter(t, Len(args[t]), batch[t])
  /\ UNCHANGED <<made, args>>

CallTryPush(t) == CallPush(t, 1, FALSE)
CallPushBatch(t) == \E n \in 1..MaxBatch : CallPush(t, n, TRUE)
CallTryPop(t) == CallPop(t, 1, FALSE)
CallPopBatch(t) == \E n \in 1..MaxBatch : CallPop(t, n, TRUE)
-----------------------------------------------------------------------------
(* The claim. *)

LoadGate(t) ==
  /\ pc[t] = "gate"
  /\ pos' = [pos EXCEPT ![t] = gate[op[t]][LaneOf(t)]]
  /\ pc' = [pc EXCEPT ![t] = "ticket"]
  /\ UNCHANGED <<laneVars, callVars, batch, want, offset, count, done, out, result, alone>>

\* Mutant of LanesLeft: the scan stops one lane early.
LanesLeftButOne(t) == offset[t] + 2 < NumLanes

LanesLeft(t) == offset[t] + 1 < NumLanes

\* The slot is not ready: the next lane is tried, after the last one the call
\* answers false (or 0).
NextLane(t) ==
  IF LanesLeft(t)
  THEN /\ offset' = [offset EXCEPT ![t] = @ + 1]
       /\ pc' = [pc EXCEPT ![t] = "gate"]
       /\ UNCHANGED <<pos, result, batch, want, alone>>
  ELSE /\ offset' = [offset EXCEPT ![t] = 0]
       /\ pos' = [pos EXCEPT ![t] = 0]
       /\ pc' = [pc EXCEPT ![t] = "idle"]
       /\ result' = [result EXCEPT ![t] = "refused"]
       /\ want' = [want EXCEPT ![t] = 0]
       /\ alone' = [alone EXCEPT ![t] = FALSE]
       /\ batch' = [batch EXCEPT ![t] = @ /\ t \in Producer]

\* Mutant of LoadTicket: a ticket from behind is taken for the awaited one.
LoadTicketAtMost(t) ==
  /\ pc[t] = "ticket"
  /\ IF Ticket(t, pos[t]) <= Awaited(t, pos[t])
     THEN /\ pc' = [pc EXCEPT ![t] = IF batch[t] THEN "avail" ELSE "cas"]
          /\ count' = [count EXCEPT ![t] = 1]
          /\ UNCHANGED <<offset, pos, result, batch, want, alone>>
     ELSE /\ pc' = [pc EXCEPT ![t] = "gate"]
          /\ UNCHANGED <<offset, pos, count, result, batch, want, alone>>
  /\ UNCHANGED <<laneVars, callVars, done, out>>

LoadTicket(t) ==
  /\ pc[t] = "ticket"
  /\ \/ /\ Ticket(t, pos[t]) = Awaited(t, pos[t])
        /\ pc' = [pc EXCEPT ![t] = IF batch[t] THEN "avail" ELSE "cas"]
        /\ count' = [count EXCEPT ![t] = 1]
        /\ UNCHANGED <<offset, pos, result, batch, want, alone>>
     \/ /\ Ticket(t, pos[t]) < Awaited(t, pos[t])
        /\ NextLane(t)
        /\ UNCHANGED count
     \/ /\ Ticket(t, pos[t]) > Awaited(t, pos[t])
        /\ pc' = [pc EXCEPT ![t] = "gate"]
        /\ UNCHANGED <<offset, pos, count, result, batch, want, alone>>
  /\ UNCHANGED <<laneVars, callVars, done, out>>

\* Mutant of Avail: the room is taken for one more than it is.
AvailPlusOne(t) ==
  IF op[t] = "push" THEN LaneCapacity - (pos[t] - gate["pop"][LaneOf(t)]) + 1
                    ELSE gate["push"][LaneOf(t)] - pos[t] + 1

\* What a batch may claim, from a fresh load of the other gate.
Avail(t) ==
  IF op[t] = "push" THEN LaneCapacity - (pos[t] - gate["pop"][LaneOf(t)])
                    ELSE gate["push"][LaneOf(t)] - pos[t]

\* size_t arithmetic: a negative difference is a huge number, and 0 becomes 1.
LoadAvail(t) ==
  /\ pc[t] = "avail"
  /\ count' = [count EXCEPT ![t] =
                 IF Avail(t) < 0 THEN want[t]
                 ELSE Least(IF Avail(t) = 0 THEN 1 ELSE Avail(t), want[t])]
  /\ pc' = [pc EXCEPT ![t] = "cas"]
  /\ UNCHANGED <<laneVars, callVars, batch, want, offset, pos, done, out, result, alone>>

\* Mutant of ClaimSlots: a plain store in place of the compare-and-swap.
ClaimWithoutCompare(t) ==
  /\ pc[t] = "cas"
  /\ gate' = [gate EXCEPT ![op[t]][LaneOf(t)] = pos[t] + count[t]]
  /\ pc' = [pc EXCEPT ![t] = "copy"]
  /\ written' = IF op[t] = "push"
                THEN [written EXCEPT ![LaneOf(t)] = @ \o SubSeq(args[t], 1, count[t])]
                ELSE written
  /\ UNCHANGED <<sequences, data, callVars, batch, want, offset, pos, count, done, out, result, alone>>

ClaimSlots(t) ==
  /\ pc[t] = "cas"
  /\ IF gate[op[t]][LaneOf(t)] = pos[t]
     THEN /\ gate' = [gate EXCEPT ![op[t]][LaneOf(t)] = pos[t] + count[t]]
          /\ pc' = [pc EXCEPT ![t] = "copy"]
          /\ written' = IF op[t] = "push"
                        THEN [written EXCEPT ![LaneOf(t)] = @ \o SubSeq(args[t], 1, count[t])]
                        ELSE written
          /\ UNCHANGED <<pos, count>>
     ELSE /\ pos' = [pos EXCEPT ![t] = gate[op[t]][LaneOf(t)]]
          /\ count' = [count EXCEPT ![t] = 0]
          /\ pc' = [pc EXCEPT ![t] = "ticket"]
          /\ UNCHANGED <<gate, written>>
  /\ UNCHANGED <<sequences, data, callVars, batch, want, offset, done, out, result, alone>>
-----------------------------------------------------------------------------
(* The copy, in chunks of Width slots. *)

Chunk(t) == Least(Width, count[t] - done[t])
VectorCopy(t) == batch[t] /\ Wide /\ Slot(pos[t] + done[t]) + Width <= LaneCapacity

\* Mutant of TicketsArrived: a batch does not wait for the slots it claimed.
TicketsNotAwaited(t) == TRUE

\* A batch spins until every ticket of the chunk has arrived; a ticket that has
\* arrived stays, since only the claimant moves it.
TicketsArrived(t) ==
  batch[t] => \A k \in done[t]..done[t]+Chunk(t)-1 :
                Ticket(t, pos[t] + k) = Awaited(t, pos[t] + k)

\* A vector store writes Width slots whatever the length of the chunk; what it
\* reads behind the caller's array is junk.
StoredBy(t) ==
  LET first == Slot(pos[t] + done[t])
      n     == IF VectorCopy(t) THEN Width ELSE Chunk(t)
      arg(k) == IF k <= Len(args[t]) THEN args[t][k] ELSE Junk
      slots == {Slot(first + k) : k \in 0..n-1}
  IN  [i \in 0..LaneCapacity-1 |->
         IF i \in slots
         THEN arg(done[t] + 1 + ((i - first + LaneCapacity) % LaneCapacity))
         ELSE data[LaneOf(t)][i]]

CopyChunk(t) ==
  /\ pc[t] = "copy"
  /\ TicketsArrived(t)
  /\ IF op[t] = "push"
     THEN /\ data' = [data EXCEPT ![LaneOf(t)] = StoredBy(t)]
          /\ UNCHANGED out
     ELSE /\ out' = [out EXCEPT ![t] =
                       @ \o [k \in 1..Chunk(t) |->
                               data[LaneOf(t)][Slot(pos[t] + done[t] + k - 1)]]]
          /\ UNCHANGED data
  /\ pc' = [pc EXCEPT ![t] = "publish"]
  /\ UNCHANGED <<sequences, gate, written, callVars, batch, want, offset, pos, count, done, result, alone>>

\* The call returns when its last ticket is out; locals go out of scope (what a
\* push_batch did not take stays with the caller).
PublishSlot(t) ==
  /\ pc[t] = "publish"
  /\ sequences' = [sequences EXCEPT ![LaneOf(t)][Slot(pos[t] + done[t])] =
                     Released(t, pos[t] + done[t])]
  /\ IF done[t] + 1 = count[t]
     THEN /\ pc' = [pc EXCEPT ![t] = "idle"]
          /\ result' = [result EXCEPT ![t] = "ok"]
          /\ args' = [args EXCEPT ![t] = <<>>]
          /\ offset' = [offset EXCEPT ![t] = 0] /\ pos' = [pos EXCEPT ![t] = 0]
          /\ count' = [count EXCEPT ![t] = 0] /\ done' = [done EXCEPT ![t] = 0]
          /\ out' = [out EXCEPT ![t] = <<>>] /\ want' = [want EXCEPT ![t] = 0]
          /\ batch' = [batch EXCEPT ![t] = FALSE] /\ alone' = [alone EXCEPT ![t] = FALSE]
     ELSE /\ done' = [done EXCEPT ![t] = @ + 1]
          /\ pc' = IF (done[t] + 1) % Width = 0 THEN [pc EXCEPT ![t] = "copy"] ELSE pc
          /\ UNCHANGED <<result, args, offset, pos, count, out, want, batch, alone>>
  /\ UNCHANGED <<data, gate, written, op, home, made>>
-----------------------------------------------------------------------------
Call(t) ==
  CallTryPush(t) \/ CallPushBatch(t) \/ RetryPush(t)
    \/ CallTryPop(t) \/ CallPopBatch(t)
Step(t) ==
  LoadGate(t) \/ LoadTicket(t) \/ LoadAvail(t) \/ ClaimSlots(t) \/ CopyChunk(t) \/ PublishSlot(t)
Next == \E t \in Thread : Call(t) \/ Step(t)
Spec == Init /\ [][Next]_vars

\* Threads run; consumers poll, and a blocking push repeats until it succeeds.
Fairness ==
  /\ \A t \in Thread : WF_vars(Step(t))
  /\ \A t \in Consumer : WF_vars(CallTryPop(t))
FairSpec == Spec /\ Fairness
-----------------------------------------------------------------------------
(* What is checked.                                                        *)

\* Tickets and gates are naturals; a slot holds an item or what was there.
TypeOK ==
  /\ sequences \in [Lane -> [0..LaneCapacity-1 -> Nat]]
  /\ data \in [Lane -> [0..LaneCapacity-1 -> Payload \cup {Junk}]]
  /\ gate \in [{"push", "pop"} -> [Lane -> Nat]]
  /\ home \in [Thread -> Lane] /\ offset \in [Thread -> Lane]
  /\ made \in [Producer -> 0..MaxItems]
  /\ pc \in [Thread -> {"idle", "gate", "ticket", "avail", "cas", "copy", "publish"}]
  /\ op = [t \in Thread |-> IF t \in Producer THEN "push" ELSE "pop"]
  /\ batch \in [Thread -> BOOLEAN] /\ alone \in [Thread -> BOOLEAN]
  /\ pos \in [Thread -> Nat] /\ count \in [Thread -> Nat] /\ done \in [Thread -> Nat]
  /\ want \in [Thread -> Nat]
  /\ args \in [Thread -> Seq(Payload)] /\ out \in [Thread -> Seq(Payload \cup {Junk})]
  /\ result \in [Thread -> {"none", "ok", "refused"}]
  /\ written \in [Lane -> Seq(Payload)]

Occupancy(l) == gate["push"][l] - gate["pop"][l]

\* A lane never hands out more positions than it has slots, nor pops a position
\* that no push has claimed (the gates of try_push, try_pop and the batch calls).
OccupancyBounded == \A l \in Lane : Occupancy(l) \in 0..LaneCapacity

\* The slots of t's claim that its tickets allow it to touch.
Held(t) ==
  IF pc[t] \notin {"copy", "publish"} THEN {}
  ELSE {<<LaneOf(t), Slot(pos[t] + k)>> :
          k \in {j \in done[t]..count[t]-1 : Ticket(t, pos[t] + j) = Awaited(t, pos[t] + j)}}

\* The ticket is a lock: no two threads, of either role, may touch one slot at
\* the same time ("used as a version/lock", the class comment).
ExclusiveSlots == \A t, u \in Thread : t # u => Held(t) \cap Held(u) = {}

\* A pop returns, position by position, what the push that claimed the position
\* carried, although pushes publish in any order and slots are reused.
TicketFidelity ==
  \A t \in Consumer : pc[t] = "publish" =>
    out[t] = SubSeq(written[LaneOf(t)], pos[t] + 1, pos[t] + Len(out[t]))

\* A published item stays in its slot until it is popped.
PublishedIntact ==
  \A l \in Lane : \A q \in 0..gate["push"][l]-1 :
    sequences[l][Slot(q)] = q + 1 => data[l][Slot(q)] = written[l][q + 1]

\* A call that no other call overlapped answers "full" only if every lane is full
\* and "empty" only if every lane is empty (@return of try_push and try_pop).
HonestRefusal ==
  [][\A t \in Thread :
       (pc[t] = "ticket" /\ pc'[t] = "idle" /\ alone[t]) =>
         \A l \in Lane : Occupancy(l) = IF op[t] = "push" THEN LaneCapacity ELSE 0]_vars

\* Once the producers are out of items, polling consumers leave nothing behind,
\* whichever lanes they and the producers call home: no position stays claimed by
\* one gate only, and every claim has been carried through to its ticket, whichever
\* producers and consumers waited for one another's tickets.
EveryPositionPopped ==
  <>[](\A l \in Lane :
         /\ Occupancy(l) = 0
         /\ \A q \in 0..gate["push"][l]-1 : sequences[l][Slot(q)] >= q + LaneCapacity)
=============================================================================
