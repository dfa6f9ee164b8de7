----------------------------- MODULE MCSubstrate -----------------------------
(***************************************************************************)
(* Components whose properties are all about safety: the ticket vault with *)
(* its epochs, and the two order restorers, each with an unreliable        *)
(* network before it whose frames come in any order and any number of      *)
(* times.  They share no state; the variable active picks one and the      *)
(* others stand.                                                           *)
(***************************************************************************)
EXTENDS EpochVault, CausalSequencer, NexusConnector

VARIABLE active

mcVars == <<vars, seqVars, nexusVars, active>>

MCInit == /\ active \in {"vault", "sequencer", "nexus"}
          /\ Init /\ SeqInit /\ NexusInit

VaultStep     == active = "vault" /\ Next /\ UNCHANGED <<seqVars, nexusVars, active>>
SequencerStep == active = "sequencer" /\ SeqNext /\ UNCHANGED <<vars, nexusVars, active>>
NexusStep     == active = "nexus" /\ NexusNext /\ UNCHANGED <<vars, seqVars, active>>

MCNext == VaultStep \/ SequencerStep \/ NexusStep

MCSpec == MCInit /\ [][MCNext]_mcVars
=============================================================================
