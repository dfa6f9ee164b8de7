------------------------- MODULE MpmcConduitInspect -------------------------
(***************************************************************************)
(* MpmcConduit with invalidate_by_ptr, which looks at every slot of every  *)
(* lane and blanks those that hold the target, while pushes and pops go    *)
(* on.  It takes no ticket.  A group of slots is loaded into a register,   *)
(* and stored when one of them matched: the whole group, as loaded but for *)
(* the matches (AVX2), or the matches alone (AVX-512 and the scalar rest). *)
(* The group is loaded in one step and stored in another.                  *)
(***************************************************************************)
EXTENDS MpmcConduit

CONSTANT ScanWidth   \* slots of a register: 4 or 8

VARIABLES
  scan,      \* the call of invalidate_by_ptr: step, target, lane, index, register
  exposed,   \* history: items stored while the scan ran
  late       \* history: per consumer, its copy came after the scan

scanVars == <<scan, exposed, late>>
allVars == <<vars, scanVars>>

GroupWidth == IF scan.i + ScanWidth <= LaneCapacity THEN ScanWidth ELSE 1
Group == scan.i .. scan.i + GroupWidth - 1

\* Mutant of Matches: only slots between the two gates, taken modulo the ring.
MatchesBetweenGates(loaded) ==
  {i \in Group : /\ loaded[i] = scan.target
                 /\ i \in Slot(gate["pop"][scan.lane])..Slot(gate["push"][scan.lane])-1}

\* Every slot is compared, live or not.
Matches(loaded) == {i \in Group : loaded[i] = scan.target}

\* The call on its next group, its next lane, or returned.
NextGroup ==
  LET i == scan.i + GroupWidth
  IN  IF i < LaneCapacity THEN [scan EXCEPT !.pc = "load", !.i = i, !.v_data = <<>>]
      ELSE IF scan.lane + 1 < NumLanes
           THEN [scan EXCEPT !.pc = "load", !.lane = @ + 1, !.i = 0, !.v_data = <<>>]
           ELSE [scan EXCEPT !.pc = "done", !.lane = 0, !.i = 0, !.v_data = <<>>]

\* The target is an item some slot holds (bound: one call a run).
InvalidateByPtr(target) ==
  /\ scan.pc = "idle" /\ target # Junk
  /\ scan' = [scan EXCEPT !.pc = "load", !.target = target]
  /\ UNCHANGED <<vars, exposed, late>>

LoadGroup ==
  /\ scan.pc = "load"
  /\ LET v_data == [i \in Group |-> data[scan.lane][i]]
     IN  scan' = IF Matches(v_data) = {} THEN NextGroup
                 ELSE [scan EXCEPT !.pc = "store", !.v_data = v_data]
  /\ UNCHANGED <<vars, exposed, late>>

StoreGroup ==
  /\ scan.pc = "store"
  /\ \E stored \in {Group, Matches(scan.v_data)} :
       data' = [data EXCEPT ![scan.lane] =
                  [i \in DOMAIN @ |-> IF i \notin stored THEN @[i]
                                      ELSE IF i \in Matches(scan.v_data) THEN Junk
                                      ELSE scan.v_data[i]]]
  /\ scan' = NextGroup
  /\ UNCHANGED <<sequences, gate, written, callVars, batch, want, pc, offset, pos, count, done,
                 out, result, alone, exposed, late>>

Invalidate ==
  \/ \E l \in Lane : \E i \in 0..LaneCapacity-1 : InvalidateByPtr(data[l][i])
  \/ LoadGroup \/ StoreGroup

\* A step of a thread, noting when it copies.
Copies(t) == pc[t] = "copy" /\ pc'[t] = "publish"
Scanning == scan.pc \in {"load", "store"}
ThreadNext(t) ==
  /\ Call(t) \/ Step(t)
  /\ exposed' = IF Scanning /\ t \in Producer /\ Copies(t)
                THEN exposed \cup {args[t][k] : k \in 1..count[t]} ELSE exposed
  /\ late' = IF t \notin Consumer THEN late
             ELSE [late EXCEPT ![t] = IF Copies(t) THEN scan.pc = "done" /\ (done[t] = 0 \/ @)
                                      ELSE @ /\ pc'[t] # "idle"]
  /\ UNCHANGED scan

PurgeInit ==
  /\ Init
  /\ scan = [pc |-> "idle", target |-> Junk, lane |-> 0, i |-> 0, v_data |-> <<>>]
  /\ exposed = {} /\ late = [t \in Consumer |-> FALSE]
PurgeNext == Invalidate \/ \E t \in Thread : ThreadNext(t)
PurgeSpec == PurgeInit /\ [][PurgeNext]_allVars

\* invalidate_by_ptr beside pushes and pops: a target that lay in a slot when the call
\* began is not handed out by a pop that copies after the call returned, wherever in
\* the wrapped lanes it lay; and every other item is handed out at its position,
\* unless it was stored while the scan ran.
PurgeExact ==
  \A t \in Consumer : pc[t] = "publish" =>
    \A k \in 1..Len(out[t]) :
      LET item == written[LaneOf(t)][pos[t] + k]
      IN  item \notin exposed =>
            IF item # scan.target THEN out[t][k] = item
            ELSE out[t][k] = Junk \/ (~late[t] /\ out[t][k] = item)
=============================================================================
