------------------------------ MODULE MCServer ------------------------------
(* Finite instances of Server: the sets are given by the .cfg files.       *)
EXTENDS Server, FiniteSets

\* One pool at boot and at most one per trigger: Pool never runs out, so the
\* bound on pools does not by itself stop a rebuild.
ASSUME EnoughPools == Cardinality(Pool) >= 1 + MaxEdits + MaxSignals
=============================================================================
