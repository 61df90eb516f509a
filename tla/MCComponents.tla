---------------------------- MODULE MCComponents ----------------------------
(***************************************************************************)
(* The components together with topologies.  The traversal of a topology   *)
(* is recursive, so that CcTopology stands apart from Components, which    *)
(* is proved about.                                                        *)
(***************************************************************************)
EXTENDS Components, CcTopology

MCInit == Init \/ CcTopologyInit
MCNext == Next \/ SendTopology
MCSpec == MCInit /\ [][MCNext]_st
=============================================================================
