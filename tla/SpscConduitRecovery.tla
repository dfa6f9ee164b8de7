------------------------ MODULE SpscConduitRecovery ------------------------
(***************************************************************************)
(* revert_batch of core/spsc_conduit.hpp, which an egress engine calls     *)
(* when the hardware refuses frames it has already popped.                 *)
(***************************************************************************)
EXTENDS SpscConduit

\* The last k items popped are given back.  The consumer still holds them in
\* its batch; their slots were released when the pop stored its gate.
CallRevert ==
  /\ c_pc = "idle" /\ c_result = "ok"
  /\ \E k \in 1..Len(c_out) : c_count' = k
  /\ c_pc' = "revert"
  /\ UNCHANGED <<buffer, local_egress_cursor, physical_egress_gate, cached_ingress_cursor,
                 c_out, c_result, received, producerVars>>

RevertSlot ==
  /\ c_pc = "revert" /\ c_count > 0
  /\ local_egress_cursor' = local_egress_cursor - 1
  /\ buffer' = [buffer EXCEPT ![Slot(local_egress_cursor - 1)] = c_out[Len(c_out)]]
  /\ c_out' = SubSeq(c_out, 1, Len(c_out) - 1)
  /\ c_count' = c_count - 1
  /\ UNCHANGED <<physical_egress_gate, cached_ingress_cursor, c_pc, c_result, received,
                 producerVars>>

PublishRevert ==
  /\ c_pc = "revert" /\ c_count = 0
  /\ physical_egress_gate' = local_egress_cursor
  /\ received' = SubSeq(received, 1, local_egress_cursor)
  /\ c_pc' = "idle" /\ c_result' = "none"
  /\ UNCHANGED <<buffer, local_egress_cursor, cached_ingress_cursor, c_count, c_out,
                 producerVars>>

RevertNext == Next \/ CallRevert \/ RevertSlot \/ PublishRevert
RevertSpec == Init /\ [][RevertNext]_vars

\* docs/technology_map/core/network_conduit.md, line 8: on EAGAIN the pointers
\* are put back into the channel without loss ("veszteségmentesen") by
\* revert_batch.  What the consumer has kept is then a prefix of what was sent.
RevertIsLossless == \A i \in 1..Len(received) : received[i] = sent[i]
=============================================================================
