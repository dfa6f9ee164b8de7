----------------------------- MODULE MCConduits -----------------------------
(***************************************************************************)
(* Two conduits with their threads scheduled: the single-producer ring,    *)
(* and the lanes of the multi-producer conduit, with or without a call of  *)
(* invalidate_by_ptr beside them.  They share no state; the variable       *)
(* active picks one and the others stand.                                  *)
(***************************************************************************)
EXTENDS SpscRingConduit

CONSTANTS Producer, Consumer, NumLanes, LaneCapacity, Width, Wide, Junk, LaneBatch, ScanWidth,
          LaneItems, PurgeItems   \* bounds: items made without and with a purge

VARIABLES sequences, data, gate, home, made, pc, op, batch, offset, pos, count, done, args, out,
          want, result, alone, written, scan, exposed, late
VARIABLE active

Lanes == INSTANCE MpmcConduit WITH MaxBatch <- LaneBatch, MaxItems <- LaneItems
Purge == INSTANCE MpmcConduitInspect WITH MaxBatch <- LaneBatch, MaxItems <- PurgeItems

ringState  == ringVars
laneState  == <<sequences, data, gate, home, made, pc, op, batch, offset, pos, count, done, args,
                out, want, result, alone, written>>
scanState  == <<scan, exposed, late>>
mcVars == <<ringState, laneState, scanState, active>>

\* Only the distance between the home lanes matters: the producers' are lane 0.
MCInit == /\ active \in {"ring", "lanes", "purge"}
          /\ RingInit /\ Purge!PurgeInit
          /\ \A t \in Producer : home[t] = 0
          /\ active # "lanes" => \A t \in Consumer : home[t] = 0

InRing(A)  == active = "ring" /\ A /\ UNCHANGED <<laneState, scanState, active>>
InLanes(A) == active = "lanes" /\ A /\ UNCHANGED <<ringState, scanState, active>>
InPurge(A) == active = "purge" /\ A /\ UNCHANGED <<ringState, active>>

MCNext == InRing(RingNext) \/ InLanes(Lanes!Next) \/ InPurge(Purge!PurgeNext)

\* The fairness of each conduit: its threads run, and its consumers poll.
RingProgress ==
  /\ WF_mcVars(InRing((ClaimPush \/ FillSlot \/ (~reserving /\ PublishPush)) /\ UNCHANGED reserving))
  /\ WF_mcVars(InRing(ConsumerStep /\ UNCHANGED reserving))
  /\ WF_mcVars(InRing(CallPopBatch /\ UNCHANGED reserving))
LanesProgress ==
  /\ \A t \in Producer \cup Consumer : WF_mcVars(InLanes(Lanes!Step(t)))
  /\ \A t \in Consumer : WF_mcVars(InLanes(Lanes!CallTryPop(t)))

MCSpec == MCInit /\ [][MCNext]_mcVars /\ RingProgress /\ LanesProgress
-----------------------------------------------------------------------------
(* The properties of the lanes, stated in their modules.                   *)

\* mpmc_conduit: after invalidate_by_ptr no pop hands out the target, and no item
\* stored before or after the scan is harmed by it.
PurgeExact == Purge!PurgeExact
\* mpmc_conduit: "full" and "empty" are true of every lane.
HonestRefusal == Lanes!HonestRefusal
\* mpmc_conduit: polling consumers leave nothing behind in any lane.
EveryPositionPopped == active = "lanes" => Lanes!EveryPositionPopped
=============================================================================
