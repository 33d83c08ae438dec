---------------------------- MODULE MCListPage ------------------------------
(***************************************************************************)
(* Process definitions have default filters and a toggle filter that is    *)
(* selected by default; deployments have neither.                          *)
(***************************************************************************)
EXTENDS ListPage, TLC

CONSTANTS definitions, deployments, active, name

MCDefaultFilters == [l \in Lists |-> IF l = definitions THEN active ELSE Absent]
MCDefaultSorting == [l \in Lists |-> name]
=============================================================================
