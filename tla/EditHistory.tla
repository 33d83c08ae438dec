---------------------------- MODULE EditHistory ----------------------------
(***************************************************************************)
(* What the editor of token movements promises its user: an edit history   *)
(* with a cursor.  log is every command that is pending or can be redone,  *)
(* in the order in which it was given; pos is how many of them are         *)
(* pending.  A new command drops what could be redone; undo and redo only  *)
(* move the cursor; clearing starts again.  PimCommandStackService keeps   *)
(* the same history as two stacks (TokenEditing.tla, which implements this *)
(* module).                                                                *)
(***************************************************************************)
EXTENDS Naturals, Sequences

CONSTANT Command     \* records with a field target, the diagram element

VARIABLES log, pos

vars == <<log, pos>>

Pending == {log[k].target : k \in 1..pos}

Init == log = <<>> /\ pos = 0

\* A command is given for an element that has none pending.
Do(c) ==
  /\ c.target \notin Pending
  /\ log' = Append(SubSeq(log, 1, pos), c)
  /\ pos' = pos + 1

Undo ==
  /\ pos > 0
  /\ pos' = pos - 1
  /\ UNCHANGED log

Redo ==
  /\ pos < Len(log)
  /\ pos' = pos + 1
  /\ UNCHANGED log

Reset == log' = <<>> /\ pos' = 0

Next ==
  \/ \E c \in Command : Do(c)
  \/ Undo
  \/ Redo
  \/ Reset

Spec == Init /\ [][Next]_vars

TypeOK == log \in Seq(Command) /\ pos \in 0..Len(log)

\* No element has two commands, counting those that can be redone: each
\* REMOVE_TOKEN can then be answered for separately (willActionsTerminateProcess
\* counts them), and undoing a command may clear every overlay of its element.
NoElementTwice ==
  \A j, k \in 1..Len(log) : log[j].target = log[k].target => j = k
=============================================================================
