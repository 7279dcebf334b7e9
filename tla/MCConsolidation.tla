-------------------------- MODULE MCConsolidation --------------------------
(* Model values for the runs of Consolidation.                             *)
EXTENDS Consolidation, TLC

\* The first two turns tell the same fact, the third another one.
MCFactOf == [t \in Turn |-> IF t <= 2 THEN 1 ELSE 2]
=============================================================================
