---------------------------- MODULE MCCollector -----------------------------
(* Finite instances of Collector: the sets are given by the .cfg files.    *)
EXTENDS Collector, FiniteSets

\* Both kinds of array take part.
ASSUME Mixed == Responsive # {} /\ Array \ Responsive # {}
=============================================================================
