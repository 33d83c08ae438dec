----------------------------- MODULE DetailPages -----------------------------
(***************************************************************************)
(* What the modules of the detail pages share.  Each of them is a state    *)
(* machine of its own; a behaviour is about the page that itemType names,  *)
(* and the state of the others does not move.                              *)
(***************************************************************************)
EXTENDS Naturals, Sequences, SequencesExt

CONSTANTS Ids,       \* of process instances, of versions of a definition
          Absent,    \* no value
          MaxEvents  \* bound of what users, the engine and the network do
                     \* unasked in one behaviour

ASSUME DetailPagesAssumption == Absent \notin Ids /\ MaxEvents \in Nat

VARIABLES
  itemType, \* what kind of page is open
  events    \* how many events there were

Event == events < MaxEvents /\ events' = events + 1
=============================================================================
