------------------------------- MODULE Parts -------------------------------
(***************************************************************************)
(* What the modules that are checked together share.  Each of them is a    *)
(* state machine of its own, of one part of the system; a behaviour is     *)
(* about the part that is named, and the state of the others does not      *)
(* move.                                                                   *)
(***************************************************************************)
EXTENDS Integers, Sequences, FiniteSets, SequencesExt

CONSTANT Absent \* no value

VARIABLES
  part,   \* which part the behaviour is about
  events  \* how many times the users, the network or the engine acted

\* One of the things users, the engine and the network do unasked
Event(bound) == events < bound /\ events' = events + 1
=============================================================================
