---------------------------- MODULE NexusConnector ----------------------------
(***************************************************************************)
(* net/nexus_connector.hpp on one ingress thread: a frame gets its LSN from *)
(* core/sf_node_ctx.hpp when it has none, waits in core/hole_puncher.hpp   *)
(* until every LSN before it has come, and is then propagated and          *)
(* committed.  The ring is the partial function of its occupied slots; a   *)
(* frame is the LSN it was sent with, 0 standing for a frame without one.  *)
(***************************************************************************)
EXTENDS Integers, Sequences

CONSTANTS PunchWindow,  \* WindowSize of the hole puncher, a power of two
          Arrivals,     \* the LSNs frames come with, any of them repeatedly
          MaxFrames     \* bound on the frames handled

VARIABLES ring_buffer,       \* occupied slot -> [lsn, skipped]
          expected_lsn,
          peak_jitter,
          effective_window,
          current_lsn,       \* sf_node_ctx: next LSN to reserve
          committed_lsn,     \* sf_node_ctx: the horizon
          propagated,        \* history: what the engine was given
          accepted_lsns,     \* history: LSNs insert took a frame for
          gaps, dropped      \* history: LSNs skipped while missing, while held

nexusVars == <<ring_buffer, expected_lsn, peak_jitter, effective_window,
               current_lsn, committed_lsn, propagated, accepted_lsns,
               gaps, dropped>>

puncher == [ring |-> ring_buffer, expected |-> expected_lsn,
            peak |-> peak_jitter, window |-> effective_window]

NexusInit ==
  /\ ring_buffer = <<>>
  /\ expected_lsn = 0 /\ peak_jitter = 0 /\ effective_window = 64
  /\ current_lsn = 0 /\ committed_lsn = 0
  /\ propagated = <<>> /\ accepted_lsns = {} /\ gaps = {} /\ dropped = {}

PunchSlot(lsn) == lsn % PunchWindow

\* f with the slots of g laid over it.
Overlay(g, f) == [i \in DOMAIN g \cup DOMAIN f |-> IF i \in DOMAIN g THEN g[i] ELSE f[i]]
Minimum(a, b) == IF a < b THEN a ELSE b

-----------------------------------------------------------------------------
(* hole_puncher.hpp                                                        *)

\* Mutant: the slot at the far end of the window belongs to the expected LSN.
InWindowWide(h, lsn) == lsn - h.expected \in 0 .. PunchWindow

InWindow(h, lsn) == lsn - h.expected \in 0 .. PunchWindow - 1

\* insert widens the window and notes the peak.
Observe(h, diff) ==
  [h EXCEPT !.window = IF diff >= @ THEN Minimum((diff + 1) * 2, PunchWindow) ELSE @,
            !.peak = IF diff > @ THEN diff ELSE @]

SkipCount   == IF PunchWindow \div 20 > 0 THEN PunchWindow \div 20 ELSE 1
Congested(h) == h.peak > (PunchWindow * 9) \div 10

\* mark_skipped of the first LSNs of the window, whatever their slots hold.
Skipped(h) == IF Congested(h) THEN h.expected .. h.expected + SkipCount - 1 ELSE {}

JitterRecovery(h) ==
  LET tombs == {PunchSlot(l) : l \in Skipped(h)}
  IN  [h EXCEPT !.ring = Overlay([i \in tombs |-> [lsn |-> 0, skipped |-> TRUE]], @),
                !.peak = IF Congested(h) THEN 0 ELSE @]

Insert(h, lsn) ==
  LET r == JitterRecovery(Observe(h, lsn - h.expected))
  IN  [r EXCEPT !.ring = Overlay([i \in {PunchSlot(lsn)} |-> [lsn |-> lsn, skipped |-> FALSE]], @)]

\* decay_reorder_window, n times.
Decay(h, n) ==
  LET after[k \in 0 .. n] ==
        IF k = 0 THEN [peak |-> h.peak, window |-> h.window]
        ELSE LET d == after[k - 1]
             IN  IF d.peak < d.window \div 4 /\ d.window > 64
                 THEN [peak |-> IF d.peak > 0 THEN d.peak - 1 ELSE 0, window |-> d.window - 1]
                 ELSE d
  IN  [h EXCEPT !.peak = after[n].peak, !.window = after[n].window]

\* The length of the occupied run flush_ready walks.
OccupiedRun(h) ==
  CHOOSE n \in 0 .. PunchWindow :
    /\ \A i \in 0 .. n - 1 : PunchSlot(h.expected + i) \in DOMAIN h.ring
    /\ n < PunchWindow => PunchSlot(h.expected + n) \notin DOMAIN h.ring

\* Mutant: nothing behind a tombstone is handed on.
HandedOnUntilTomb(h) ==
  LET live == CHOOSE n \in 0 .. OccupiedRun(h) :
                /\ \A i \in 0 .. n - 1 : ~h.ring[PunchSlot(h.expected + i)].skipped
                /\ n < OccupiedRun(h) => h.ring[PunchSlot(h.expected + n)].skipped
  IN  [i \in 1 .. live |-> [data |-> h.ring[PunchSlot(h.expected + i - 1)].lsn,
                            lsn |-> h.expected + i - 1]]

\* What flush_ready gives its processor: the run without the tombstones.
HandedOn(h) ==
  LET run == [i \in 1 .. OccupiedRun(h) |->
                [slot |-> h.ring[PunchSlot(h.expected + i - 1)], lsn |-> h.expected + i - 1]]
      live == SelectSeq(run, LAMBDA e : ~e.slot.skipped)
  IN  [i \in 1 .. Len(live) |-> [data |-> live[i].slot.lsn, lsn |-> live[i].lsn]]

FlushReady(h) ==
  LET n == OccupiedRun(h)
      gone == {PunchSlot(h.expected + i) : i \in 0 .. n - 1}
  IN  [Decay(h, Len(HandedOn(h))) EXCEPT
         !.ring = [i \in DOMAIN h.ring \ gone |-> h.ring[i]],
         !.expected = h.expected + n]

-----------------------------------------------------------------------------
\* on_raw_frame.  The LSN is reserved for every frame and used for the ones
\* that come without.
OnRawFrame(frame) ==
  LET lsn == IF frame = 0 THEN current_lsn ELSE frame
      h   == Insert(puncher, lsn)
      f   == FlushReady(h)
      out == HandedOn(h)
      skipped == Skipped(Observe(puncher, lsn - expected_lsn)) \ {lsn}
      held == {l \in skipped : PunchSlot(l) \in DOMAIN ring_buffer}
  IN  /\ current_lsn' = current_lsn + 1
      /\ IF InWindow(puncher, lsn)
         THEN /\ ring_buffer' = f.ring /\ expected_lsn' = f.expected
              /\ peak_jitter' = f.peak /\ effective_window' = f.window
              /\ propagated' = propagated \o out
              /\ committed_lsn' = IF out = <<>> THEN committed_lsn ELSE out[Len(out)].lsn
              /\ accepted_lsns' = accepted_lsns \cup {lsn}
              /\ dropped' = dropped \cup held /\ gaps' = gaps \cup (skipped \ held)
         ELSE UNCHANGED <<ring_buffer, expected_lsn, peak_jitter, effective_window,
                          committed_lsn, propagated, accepted_lsns, gaps, dropped>>

NexusNext == current_lsn < MaxFrames /\ \E frame \in Arrivals : OnRawFrame(frame)

NexusSpec == NexusInit /\ [][NexusNext]_nexusVars

-----------------------------------------------------------------------------
\* The engine is given frames in strictly rising LSN order, each under the
\* LSN it was inserted with, never one left over in a reused or skipped slot.
PropagatedInOrder ==
  /\ \A i \in DOMAIN propagated : propagated[i].data = propagated[i].lsn
  /\ \A i, j \in DOMAIN propagated : i < j => propagated[i].lsn < propagated[j].lsn

PropagatedLsns == {propagated[i].lsn : i \in DOMAIN propagated}

\* Every LSN has one fate.  Below the expected LSN it was propagated, or the
\* jitter policy skipped it while it was missing, or dropped it although
\* insert had taken its frame; from the expected LSN on, what insert took is
\* in its slot.  The committed horizon is what was propagated last.
FramesAccounted ==
  /\ \A l \in 0 .. expected_lsn - 1 :
       IF l \in accepted_lsns
       THEN l \notin gaps /\ (l \in PropagatedLsns <=> l \notin dropped)
       ELSE l \in gaps
  /\ \A l \in accepted_lsns \ (0 .. expected_lsn - 1) :
       /\ PunchSlot(l) \in DOMAIN ring_buffer
       /\ ring_buffer[PunchSlot(l)] = [lsn |-> l, skipped |-> FALSE]
  /\ propagated # <<>> => committed_lsn = propagated[Len(propagated)].lsn

\* "Mark oldest gaps as skipped" (hole_puncher.hpp): the jitter policy gives up
\* only LSNs whose frames are missing.
GapsOnly == dropped = {}
=============================================================================
