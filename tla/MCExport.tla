------------------------------ MODULE MCExport ------------------------------
(* A finite instance of Export: the sets are given by the .cfg file.       *)
EXTENDS Export, FiniteSets

\* Of two names one may show up while the other has its instrument already.
ASSUME TwoNames == Cardinality(Name) >= 2
=============================================================================
