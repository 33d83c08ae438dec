------------------------ MODULE TokenEditing_proofs ------------------------
(***************************************************************************)
(* Theorems of TokenEditing for any number of instances, diagrams, elements *)
(* and modifications under way: the page, the menu and the toolbar agree    *)
(* with the command stack, and the two stacks are one edit history.         *)
(***************************************************************************)
EXTENDS TokenEditing, SequenceTheorems, FiniteSetTheorems, TLAPS

(***************************************************************************)
(* The inductive invariant.  NoElementTwice is not inductive by itself: a   *)
(* command is given for the element the menu was opened for, so the open    *)
(* menu has to be known to be for an element that is still free.  Nor are   *)
(* the toolbar's flags: a page that opens starts from the flags of a page   *)
(* that was left.                                                           *)
(***************************************************************************)
Distinct(cmds) ==
  \A j, k \in DOMAIN cmds : cmds[j].target = cmds[k].target => j = k

StacksDistinct ==
  /\ Distinct(stack)
  /\ Distinct(undoStack)
  /\ Targets(stack) \cap Targets(undoStack) = {}

MenuHasElement == menu.enabled # {} => menu.target \in Elements

NothingOffPage ==
  ~OnPage => stack = <<>> /\ undoStack = <<>> /\ ~hasChanges /\ ~isEditing

StackTypes ==
  /\ stack \in Seq(Command) /\ undoStack \in Seq(Command)
  /\ overlays \subseteq Elements /\ hasChanges \in BOOLEAN /\ isEditing \in BOOLEAN

\* What is about the stacks and what follows them.
StackInv ==
  /\ StackTypes
  /\ NothingOffPage
  /\ StacksDistinct
  /\ OverlaysArePending
  /\ ApplyEnabledIffPending
  /\ HistoryKeepsEditMode

\* What is about the open menu.
MenuInv == MenuHasElement /\ MenuOffersFreeElements

IInv == TypeOK /\ MenuInv /\ StackInv

-----------------------------------------------------------------------------
(* Sequences of commands.                                                  *)

\* Appending a command adds its target, and keeps targets distinct if it is new.
LEMMA AppendFacts ==
  ASSUME NEW cmds \in Seq(Command), NEW c \in Command
  PROVE  /\ Append(cmds, c) \in Seq(Command)
         /\ Append(cmds, c) # <<>>
         /\ Targets(Append(cmds, c)) = Targets(cmds) \cup {c.target}
         /\ Distinct(cmds) /\ c.target \notin Targets(cmds) => Distinct(Append(cmds, c))
<1> DEFINE s == Append(cmds, c)
<1>1. /\ s \in Seq(Command) /\ Len(s) = Len(cmds) + 1
      /\ DOMAIN s = 1..(Len(cmds) + 1)
      /\ \A k \in 1..Len(cmds) : s[k] = cmds[k]
      /\ s[Len(cmds) + 1] = c
  OBVIOUS
<1>2. DOMAIN cmds = 1..Len(cmds) /\ Len(cmds) \in Nat
  OBVIOUS
<1>3. Targets(s) = Targets(cmds) \cup {c.target}
  <2>1. ASSUME NEW k \in DOMAIN s PROVE s[k].target \in Targets(cmds) \cup {c.target}
    BY <1>1, <1>2 DEF Targets
  <2>2. ASSUME NEW k \in DOMAIN cmds PROVE cmds[k].target \in Targets(s)
    BY <1>1, <1>2 DEF Targets
  <2>3. c.target \in Targets(s)
    BY <1>1, <1>2 DEF Targets
  <2> QED BY <2>1, <2>2, <2>3 DEF Targets
<1>4. Distinct(cmds) /\ c.target \notin Targets(cmds) => Distinct(s)
  BY <1>1, <1>2 DEF Distinct, Targets
<1> QED BY <1>1, <1>3, <1>4

\* Taking the top off a stack without repeated targets takes its target away.
LEMMA PopFacts ==
  ASSUME NEW cmds \in Seq(Command), cmds # <<>>
  PROVE  /\ Pop(cmds) \in Seq(Command)
         /\ Top(cmds) \in Command
         /\ Targets(cmds) = Targets(Pop(cmds)) \cup {Top(cmds).target}
         /\ Distinct(cmds) => Distinct(Pop(cmds)) /\ Top(cmds).target \notin Targets(Pop(cmds))
<1> DEFINE s == Pop(cmds)
           n == Len(cmds)
<1>1. n \in Nat \ {0} /\ DOMAIN cmds = 1..n
  OBVIOUS
<1>2. /\ s \in Seq(Command) /\ DOMAIN s = 1..(n - 1)
      /\ \A k \in 1..(n - 1) : s[k] = cmds[k]
  BY <1>1 DEF Pop
<1>3. Top(cmds) = cmds[n] /\ Top(cmds) \in Command
  BY <1>1 DEF Top
<1>4. Targets(cmds) = Targets(s) \cup {Top(cmds).target}
  <2>1. ASSUME NEW k \in DOMAIN cmds PROVE cmds[k].target \in Targets(s) \cup {Top(cmds).target}
    BY <1>1, <1>2, <1>3 DEF Targets
  <2>2. ASSUME NEW k \in DOMAIN s PROVE s[k].target \in Targets(cmds)
    BY <1>1, <1>2 DEF Targets
  <2>3. Top(cmds).target \in Targets(cmds)
    BY <1>1, <1>3 DEF Targets
  <2> QED BY <2>1, <2>2, <2>3 DEF Targets
<1>5. Distinct(cmds) => Distinct(s) /\ Top(cmds).target \notin Targets(s)
  BY <1>1, <1>2, <1>3 DEF Distinct, Targets
<1> QED BY <1>2, <1>3, <1>4, <1>5

LEMMA EmptyFacts ==
  <<>> \in Seq(Command) /\ Targets(<<>>) = {} /\ Distinct(<<>>)
BY DEF Targets, Distinct

\* What is posted for a stack of commands is a sequence of instructions.
LEMMA ModificationsType ==
  ASSUME NEW cmds \in Seq(Command)
  PROVE  Modifications(cmds) \in Seq(Instruction)
<1>1. DOMAIN cmds = 1..Len(cmds) /\ Len(cmds) \in Nat
  OBVIOUS
<1>2. \A k \in 1..Len(cmds) : cmds[k] \in Command
  OBVIOUS
<1>3. \A k \in 1..Len(cmds) :
        [type |-> IF cmds[k].type = "remove_token" THEN "cancel" ELSE "start",
         activityId |-> cmds[k].target] \in Instruction
  BY <1>2 DEF Command, Instruction
<1> QED BY <1>1, <1>3 DEF Modifications
-----------------------------------------------------------------------------
(* The operations of the stack.                                            *)

LEMMA AddStep ==
  ASSUME StackInv, OnPage, itemId' = itemId,
         NEW c \in Command, c.target \notin Targets(stack), Add(c)
  PROVE  StackInv'
<1>1. /\ stack' \in Seq(Command) /\ stack' # <<>>
      /\ Targets(stack') = Targets(stack) \cup {c.target}
      /\ Distinct(stack')
  BY AppendFacts DEF StackInv, StackTypes, StacksDistinct, Add
<1>2. undoStack' = <<>> /\ hasChanges' = TRUE /\ isEditing' = TRUE
  BY <1>1 DEF Add, IsEmptyEmitted
<1>3. overlays' \subseteq overlays \cup {c.target}
  BY <1>1 DEF Add, IsEmptyEmitted
<1>4. c.target \in Elements
  BY DEF Command
<1>5. StackTypes'
  BY <1>1, <1>2, <1>3, <1>4, EmptyFacts DEF StackInv, StackTypes
<1>6. StacksDistinct' /\ OverlaysArePending'
  BY <1>1, <1>2, <1>3, EmptyFacts DEF StackInv, StacksDistinct, OverlaysArePending
<1>7. NothingOffPage' /\ ApplyEnabledIffPending' /\ HistoryKeepsEditMode'
  BY <1>1, <1>2 DEF NothingOffPage, ApplyEnabledIffPending, HistoryKeepsEditMode, OnPage
<1> QED BY <1>5, <1>6, <1>7 DEF StackInv

LEMMA UndoStep ==
  ASSUME StackInv, OnPage, itemId' = itemId, Undo
  PROVE  StackInv'
<1> DEFINE c == Top(stack)
<1>1. /\ stack' \in Seq(Command) /\ c \in Command
      /\ Targets(stack) = Targets(stack') \cup {c.target}
      /\ Distinct(stack') /\ c.target \notin Targets(stack')
  BY PopFacts DEF StackInv, StackTypes, StacksDistinct, Undo
<1>2. c.target \notin Targets(undoStack)
  BY <1>1 DEF StackInv, StacksDistinct
<1>3. /\ undoStack' \in Seq(Command) /\ undoStack' # <<>>
      /\ Targets(undoStack') = Targets(undoStack) \cup {c.target}
      /\ Distinct(undoStack')
  BY <1>1, <1>2, AppendFacts DEF StackInv, StackTypes, StacksDistinct, Undo
<1>4. hasChanges' = (stack' # <<>>) /\ isEditing' = TRUE
  BY <1>3 DEF Undo, IsEmptyEmitted
<1>5. overlays' \subseteq overlays \ {c.target}
  BY DEF Undo, IsEmptyEmitted
<1>6. StackTypes'
  BY <1>1, <1>3, <1>4, <1>5 DEF StackInv, StackTypes
<1>7. StacksDistinct' /\ OverlaysArePending'
  BY <1>1, <1>2, <1>3, <1>5 DEF StackInv, StacksDistinct, OverlaysArePending
<1>8. NothingOffPage' /\ ApplyEnabledIffPending' /\ HistoryKeepsEditMode'
  BY <1>4 DEF NothingOffPage, ApplyEnabledIffPending, HistoryKeepsEditMode, OnPage
<1> QED BY <1>6, <1>7, <1>8 DEF StackInv

LEMMA RedoStep ==
  ASSUME StackInv, OnPage, itemId' = itemId, Redo
  PROVE  StackInv'
<1> DEFINE c == Top(undoStack)
<1>1. /\ undoStack' \in Seq(Command) /\ c \in Command
      /\ Targets(undoStack) = Targets(undoStack') \cup {c.target}
      /\ Distinct(undoStack') /\ c.target \notin Targets(undoStack')
  BY PopFacts DEF StackInv, StackTypes, StacksDistinct, Redo
<1>2. c.target \notin Targets(stack)
  BY <1>1 DEF StackInv, StacksDistinct
<1>3. /\ stack' \in Seq(Command) /\ stack' # <<>>
      /\ Targets(stack') = Targets(stack) \cup {c.target}
      /\ Distinct(stack')
  BY <1>1, <1>2, AppendFacts DEF StackInv, StackTypes, StacksDistinct, Redo
<1>4. hasChanges' = TRUE /\ isEditing' = TRUE
  BY <1>3 DEF Redo, IsEmptyEmitted
<1>5. overlays' \subseteq overlays \cup {c.target}
  BY <1>3 DEF Redo, IsEmptyEmitted
<1>6. c.target \in Elements
  BY <1>1 DEF Command
<1>7. StackTypes'
  BY <1>1, <1>3, <1>4, <1>5, <1>6 DEF StackInv, StackTypes
<1>8. StacksDistinct' /\ OverlaysArePending'
  BY <1>1, <1>2, <1>3, <1>5 DEF StackInv, StacksDistinct, OverlaysArePending
<1>9. NothingOffPage' /\ ApplyEnabledIffPending' /\ HistoryKeepsEditMode'
  BY <1>3, <1>4 DEF NothingOffPage, ApplyEnabledIffPending, HistoryKeepsEditMode, OnPage
<1> QED BY <1>7, <1>8, <1>9 DEF StackInv

\* Whatever empties both stacks, the overlays and the toolbar with them.
LEMMA EmptiedStep ==
  ASSUME stack' = <<>>, undoStack' = <<>>, overlays' = {},
         hasChanges' = FALSE, isEditing' = FALSE
  PROVE  StackInv'
BY EmptyFacts DEF StackInv, StackTypes, NothingOffPage, StacksDistinct,
   OverlaysArePending, ApplyEnabledIffPending, HistoryKeepsEditMode

LEMMA ClearStep ==
  ASSUME StackInv, itemId' = itemId, Clear
  PROVE  StackInv' /\ stack' = <<>>
<1>1. stack' = <<>> /\ undoStack' = <<>> /\ overlays' = {} /\ hasChanges' = FALSE
  BY DEF Clear, IsEmptyEmitted
<1>2. isEditing' = (OnPage /\ undoStack # <<>>)
  BY DEF Clear, IsEmptyEmitted
<1> QED BY <1>1, <1>2, EmptyFacts DEF StackInv, StackTypes, NothingOffPage, StacksDistinct,
   OverlaysArePending, ApplyEnabledIffPending, HistoryKeepsEditMode, OnPage
-----------------------------------------------------------------------------
(* The invariant.                                                          *)

LEMMA InitIInv == Init => IInv
<1> SUFFICES ASSUME Init PROVE IInv
  OBVIOUS
<1>1. TypeOK
  BY ConstantsAssumption, EmptyFacts
  DEF Init, TypeOK, Request, Idle, Closed, NoModal
<1>2. MenuInv
  BY DEF Init, MenuInv, MenuHasElement, MenuOffersFreeElements, Closed
<1>3. StackInv
  BY EmptyFacts DEF Init, StackInv, StackTypes, NothingOffPage, StacksDistinct,
     OverlaysArePending, ApplyEnabledIffPending, HistoryKeepsEditMode, OnPage
<1> QED BY <1>1, <1>2, <1>3 DEF IInv

\* The rest of the type invariant.
PageTypes ==
  /\ request \in [Requests -> Request]
  /\ itemId \in Instances \cup {NoItem}
  /\ diagram \in Diagrams \cup {NoItem}
  /\ active \subseteq Elements /\ infoLoaded \in BOOLEAN
  /\ menu \in [target : Elements \cup {NoItem}, enabled : SUBSET Item]
  /\ modal \in [open : BOOLEAN, willTerminate : BOOLEAN]
  /\ isSaving \in BOOLEAN

LEMMA TypeOKSplit == TypeOK <=> StackTypes /\ PageTypes
BY DEF TypeOK, StackTypes, PageTypes

\* Only opening it fills the menu, so it may only close while the stacks change.
LEMMA MenuClosed ==
  ASSUME menu' = Closed PROVE MenuInv'
BY DEF MenuInv, MenuHasElement, MenuOffersFreeElements, Closed

LEMMA MenuKept ==
  ASSUME MenuInv, menu' = menu, stack' = stack \/ stack' = <<>> PROVE MenuInv'
BY EmptyFacts DEF MenuInv, MenuHasElement, MenuOffersFreeElements

\* The stacks, the toolbar and the page on screen stay, overlays only vanish.
LEMMA StackKept ==
  ASSUME StackInv, UNCHANGED <<service, toolbar, itemId>>, overlays' \subseteq overlays
  PROVE  StackInv'
BY DEF StackInv, StackTypes, NothingOffPage, StacksDistinct, service, toolbar, OnPage,
   OverlaysArePending, ApplyEnabledIffPending, HistoryKeepsEditMode
LEMMA NextIInv == IInv /\ [Next]_vars => IInv'
<1> SUFFICES ASSUME IInv, [Next]_vars PROVE IInv'
  OBVIOUS
<1>0. StackTypes /\ PageTypes /\ MenuInv /\ StackInv
  BY TypeOKSplit DEF IInv
<1>q. SUFFICES PageTypes' /\ MenuInv' /\ StackInv'
  BY TypeOKSplit DEF IInv, StackInv, TypeOK, StackTypes, PageTypes
<1>i. /\ Idle \in Request /\ Settling \in Request
      /\ Closed \in [target : Elements \cup {NoItem}, enabled : SUBSET Item]
      /\ NoModal \in [open : BOOLEAN, willTerminate : BOOLEAN]
  BY DEF Request, Closed, NoModal
<1>1. ASSUME NEW i \in Instances, OpenPage(i) PROVE PageTypes' /\ MenuInv' /\ StackInv'
  <2>1. PageTypes'
    BY <1>0, <1>1 DEF OpenPage, PageTypes
  <2>2. MenuInv'
    BY <1>0, <1>1, MenuKept DEF OpenPage, service
  <2>3. StackInv'
    BY <1>0, <1>1 DEF OpenPage, StackInv, StackTypes, NothingOffPage, StacksDistinct, service,
       toolbar, OnPage, OverlaysArePending, ApplyEnabledIffPending, HistoryKeepsEditMode
  <2> QED BY <2>1, <2>2, <2>3
<1>2. ASSUME NEW i \in Instances, SwitchItem(i) PROVE PageTypes' /\ MenuInv' /\ StackInv'
  <2>1. PageTypes'
    BY <1>0, <1>2 DEF SwitchItem, PageTypes
  <2>2. MenuInv'
    BY <1>0, <1>2, MenuKept DEF SwitchItem, service
  <2>3. StackInv'
    BY <1>0, <1>2, ConstantsAssumption DEF SwitchItem, StackInv, StackTypes, NothingOffPage,
       StacksDistinct, service, toolbar, OnPage, OverlaysArePending,
       ApplyEnabledIffPending, HistoryKeepsEditMode
  <2> QED BY <2>1, <2>2, <2>3
<1>3. CASE LeavePage
  <2>1. PageTypes'
    BY <1>0, <1>3, <1>i DEF LeavePage, PageTypes
  <2>2. MenuInv'
    BY <1>3, MenuClosed DEF LeavePage
  <2>3. StackInv'
    BY <1>3, EmptiedStep DEF LeavePage
  <2> QED BY <2>1, <2>2, <2>3
<1>4. CASE ActivityInstancesLoaded
  <2>1. DiagramOf[itemId] \in Diagrams
    BY <1>0, <1>4, ConstantsAssumption DEF ActivityInstancesLoaded, PageTypes, OnPage
  <2>2. PageTypes'
    BY <1>0, <1>4, <2>1, ConstantsAssumption DEF ActivityInstancesLoaded, PageTypes
  <2>3. MenuInv'
    BY <1>0, <1>4, MenuKept DEF ActivityInstancesLoaded, service
  <2>4. StackInv'
    BY <1>0, <1>4, StackKept DEF ActivityInstancesLoaded
  <2> QED BY <2>2, <2>3, <2>4
<1>5. CASE DiagramRendered
  <2>1. PageTypes'
    BY <1>0, <1>5, ConstantsAssumption DEF DiagramRendered, PageTypes, OnPage
  <2>2. MenuInv'
    BY <1>0, <1>5, MenuKept DEF DiagramRendered, service
  <2>3. StackInv'
    BY <1>0, <1>5, StackKept DEF DiagramRendered
  <2> QED BY <2>1, <2>2, <2>3
<1>6. ASSUME NEW x \in Elements, OpenMenu(x) PROVE PageTypes' /\ MenuInv' /\ StackInv'
  <2>1. EnabledItems(x) \in SUBSET Item
    BY DEF EnabledItems, Item, Kind
  <2>2. PageTypes'
    BY <1>0, <1>6, <2>1 DEF OpenMenu, PageTypes, page
  <2>3. MenuInv'
    BY <1>6 DEF OpenMenu, MenuInv, MenuHasElement, MenuOffersFreeElements, EnabledItems,
       Kind, service
  <2>4. StackInv'
    BY <1>0, <1>6, StackKept DEF OpenMenu, page
  <2> QED BY <2>2, <2>3, <2>4
<1>7. CASE CloseMenu
  <2>1. PageTypes'
    BY <1>0, <1>7, <1>i DEF CloseMenu, PageTypes, page
  <2>2. MenuInv'
    BY <1>7, MenuClosed DEF CloseMenu
  <2>3. StackInv'
    BY <1>0, <1>7, StackKept DEF CloseMenu, page
  <2> QED BY <2>1, <2>2, <2>3
<1>8. ASSUME NEW a \in Kind, ChooseKind(a) PROVE PageTypes' /\ MenuInv' /\ StackInv'
  <2> DEFINE c == [processInstanceId |-> itemId, target |-> menu.target, type |-> a]
  <2>1. c \in Command
    BY <1>0, <1>8 DEF ChooseKind, Clickable, OnPage, PageTypes, MenuInv, MenuHasElement, Command
  <2>2. c.target \notin Targets(stack)
    BY <1>0, <1>8 DEF ChooseKind, MenuInv, MenuOffersFreeElements
  <2>3. StackInv'
    BY <1>0, <1>8, <2>1, <2>2, AddStep DEF ChooseKind, Clickable, page
  <2>4. PageTypes'
    BY <1>0, <1>8, <1>i DEF ChooseKind, PageTypes, page
  <2>5. MenuInv'
    BY <1>8, MenuClosed DEF ChooseKind
  <2> QED BY <2>3, <2>4, <2>5
<1>9. CASE ChooseUndo
  <2>1. StackInv'
    BY <1>0, <1>9, UndoStep, StackKept DEF ChooseUndo, Clickable, page
  <2>2. PageTypes'
    BY <1>0, <1>9, <1>i DEF ChooseUndo, PageTypes, page
  <2>3. MenuInv'
    BY <1>9, MenuClosed DEF ChooseUndo
  <2> QED BY <2>1, <2>2, <2>3
<1>10. CASE ChooseRedo
  <2>1. StackInv'
    BY <1>0, <1>10, RedoStep, StackKept DEF ChooseRedo, Clickable, page
  <2>2. PageTypes'
    BY <1>0, <1>10, <1>i DEF ChooseRedo, PageTypes, page
  <2>3. MenuInv'
    BY <1>10, MenuClosed DEF ChooseRedo
  <2> QED BY <2>1, <2>2, <2>3
<1>11. CASE EditClicked
  <2>1. PageTypes'
    BY <1>0, <1>11, <1>i DEF EditClicked, PageTypes, page
  <2>2. MenuInv'
    BY <1>11, MenuClosed DEF EditClicked
  <2>3. StackInv'
    BY <1>0, <1>11 DEF EditClicked, StackInv, StackTypes, NothingOffPage, StacksDistinct, page,
       service, OnPage, Clickable, OverlaysArePending, ApplyEnabledIffPending, HistoryKeepsEditMode
  <2> QED BY <2>1, <2>2, <2>3
<1>12. CASE CancelClicked
  <2>1. StackInv'
    BY <1>0, <1>12, ClearStep DEF CancelClicked, page
  <2>2. PageTypes'
    BY <1>0, <1>12, <1>i DEF CancelClicked, PageTypes, page
  <2>3. MenuInv'
    BY <1>12, MenuClosed DEF CancelClicked
  <2> QED BY <2>1, <2>2, <2>3
<1>13. CASE ApplyClicked
  <2>1. WillTerminate \in BOOLEAN
    BY DEF WillTerminate
  <2>2. PageTypes'
    BY <1>0, <1>13, <1>i, <2>1 DEF ApplyClicked, PageTypes, page
  <2>3. MenuInv'
    BY <1>13, MenuClosed DEF ApplyClicked
  <2>4. StackInv'
    BY <1>0, <1>13, StackKept DEF ApplyClicked, page
  <2> QED BY <2>2, <2>3, <2>4
<1>14. CASE ModalDismissed
  <2>1. PageTypes'
    BY <1>0, <1>14, <1>i DEF ModalDismissed, PageTypes, page
  <2>2. MenuInv'
    BY <1>0, <1>14, MenuKept DEF ModalDismissed, service
  <2>3. StackInv'
    BY <1>0, <1>14, StackKept DEF ModalDismissed, page
  <2> QED BY <2>1, <2>2, <2>3
<1>15. CASE ModalCleared
  <2>1. StackInv' /\ stack' = <<>>
    BY <1>0, <1>15, ClearStep DEF ModalCleared, page
  <2>2. PageTypes'
    BY <1>0, <1>15, <1>i DEF ModalCleared, PageTypes, page
  <2>3. MenuInv'
    BY <1>0, <1>15, <2>1, MenuKept DEF ModalCleared
  <2> QED BY <2>1, <2>2, <2>3
<1>16. ASSUME NEW r \in Requests, ModalConfirmed(r) PROVE PageTypes' /\ MenuInv' /\ StackInv'
  <2> DEFINE posted == [phase |-> "posted",
                        processInstanceId |-> Top(stack).processInstanceId,
                        instructions |-> Modifications(stack)]
  <2>1. stack # <<>> => posted \in Request
    BY <1>0, PopFacts, ModificationsType DEF StackTypes, Command, Request
  <2>2. request' \in [Requests -> Request]
    BY <1>0, <1>16, <2>1 DEF ModalConfirmed, Execute, PageTypes
  <2>3. PageTypes'
    BY <1>0, <1>16, <1>i, <2>2 DEF ModalConfirmed, Execute, PageTypes, page, OnPage
  <2>4. MenuInv'
    BY <1>0, <1>16, MenuKept DEF ModalConfirmed, service
  <2>5. StackInv'
    BY <1>0, <1>16, StackKept DEF ModalConfirmed, page
  <2> QED BY <2>3, <2>4, <2>5
<1>17. ASSUME NEW r \in Requests, Accepted(r) \/ Rejected(r) \/ RejectedWithoutBody(r)
       PROVE  PageTypes' /\ MenuInv' /\ StackInv'
  <2>1. PageTypes'
    BY <1>0, <1>17, <1>i DEF Accepted, Rejected, RejectedWithoutBody, PageTypes, page
  <2>2. MenuInv'
    BY <1>0, <1>17, MenuKept DEF Accepted, Rejected, RejectedWithoutBody, service
  <2>3. StackInv'
    BY <1>0, <1>17, StackKept DEF Accepted, Rejected, RejectedWithoutBody, page
  <2> QED BY <2>1, <2>2, <2>3
<1>18. ASSUME NEW r \in Requests, Settled(r) PROVE PageTypes' /\ MenuInv' /\ StackInv'
  <2>1. PageTypes'
    BY <1>0, <1>18, <1>i DEF Settled, PageTypes, page
  <2>2. MenuInv'
    BY <1>0, <1>18, MenuKept DEF Settled, service
  <2>3. StackInv'
    BY <1>0, <1>18, StackKept, EmptiedStep DEF Settled, page
  <2> QED BY <2>1, <2>2, <2>3
<1>19. CASE UNCHANGED vars
  <2>1. PageTypes'
    BY <1>0, <1>19 DEF vars, PageTypes
  <2>2. MenuInv'
    BY <1>0, <1>19, MenuKept DEF vars
  <2>3. StackInv'
    BY <1>0, <1>19, StackKept DEF vars, service, toolbar
  <2> QED BY <2>1, <2>2, <2>3
<1> QED
  BY <1>1, <1>2, <1>3, <1>4, <1>5, <1>6, <1>7, <1>8, <1>9, <1>10, <1>11, <1>12, <1>13,
     <1>14, <1>15, <1>16, <1>17, <1>18, <1>19 DEF Next
-----------------------------------------------------------------------------
(* The two stacks as one history.                                          *)

TimelineOf(cmds, undone) ==
  [k \in 1..(Len(cmds) + Len(undone)) |->
     IF k <= Len(cmds) THEN cmds[k]
     ELSE undone[Len(cmds) + Len(undone) + 1 - k]]

LEMMA TimelineIs ==
  /\ Timeline = TimelineOf(stack, undoStack)
  /\ Timeline' = TimelineOf(stack', undoStack')
BY DEF Timeline, TimelineOf

\* The timeline is the stack, followed by the undo stack read from its top.
LEMMA TimelineFacts ==
  ASSUME NEW cmds \in Seq(Command), NEW undone \in Seq(Command)
  PROVE  LET m == Len(cmds)
             n == Len(undone)
             t == TimelineOf(cmds, undone)
         IN  /\ m \in Nat /\ n \in Nat
             /\ t \in Seq(Command)
             /\ Len(t) = m + n
             /\ \A k \in 1..m : t[k] = cmds[k]
             /\ \A k \in (m + 1)..(m + n) :
                  m + n + 1 - k \in 1..n /\ t[k] = undone[m + n + 1 - k]
<1> DEFINE m == Len(cmds)
           n == Len(undone)
           t == TimelineOf(cmds, undone)
<1>1. m \in Nat /\ n \in Nat
  OBVIOUS
<1>2. \A k \in 1..m : cmds[k] \in Command
  OBVIOUS
<1>3. \A k \in 1..n : undone[k] \in Command
  OBVIOUS
<1>4. t = [k \in 1..(m + n) |-> IF k <= m THEN cmds[k] ELSE undone[m + n + 1 - k]]
  BY DEF TimelineOf
<1> HIDE DEF m, n, t
<1>5. \A k \in 1..(m + n) : ~(k <= m) => m + n + 1 - k \in 1..n
  BY <1>1
<1>6. \A k \in 1..(m + n) :
        (IF k <= m THEN cmds[k] ELSE undone[m + n + 1 - k]) \in Command
  BY <1>1, <1>2, <1>3, <1>5
<1>7. t \in Seq(Command) /\ Len(t) = m + n
  <2>1. m + n \in Nat
    BY <1>1
  <2>2. t \in [1..(m + n) -> Command]
    BY <1>4, <1>6
  <2> QED BY <2>1, <2>2
<1>8. \A k \in 1..m : t[k] = cmds[k]
  BY <1>1, <1>4
<1>9. \A k \in (m + 1)..(m + n) : m + n + 1 - k \in 1..n /\ t[k] = undone[m + n + 1 - k]
  BY <1>1, <1>4
<1> QED BY <1>1, <1>7, <1>8, <1>9 DEF m, n, t

\* Two timelines are the same if they read the same.
LEMMA SameSequence ==
  ASSUME NEW s \in Seq(Command), NEW t \in Seq(Command), Len(s) = Len(t),
         \A k \in 1..Len(s) : s[k] = t[k]
  PROVE  s = t
BY SeqEqual

LEMMA TimelineDistinct ==
  ASSUME StackTypes, StacksDistinct PROVE Hist!NoElementTwice
<1> DEFINE m == Len(stack)
           n == Len(undoStack)
<1>1. /\ m \in Nat /\ n \in Nat /\ Len(Timeline) = m + n
      /\ \A k \in 1..m : Timeline[k] = stack[k]
      /\ \A k \in (m + 1)..(m + n) :
           m + n + 1 - k \in 1..n /\ Timeline[k] = undoStack[m + n + 1 - k]
  BY TimelineFacts, TimelineIs DEF StackTypes
<1>2. /\ \A j, k \in 1..m : stack[j].target = stack[k].target => j = k
      /\ \A j, k \in 1..n : undoStack[j].target = undoStack[k].target => j = k
      /\ \A j \in 1..m, k \in 1..n : stack[j].target # undoStack[k].target
  <2>1. DOMAIN stack = 1..m /\ DOMAIN undoStack = 1..n
    BY DEF StackTypes
  <2> HIDE DEF m, n
  <2>2. \A j \in 1..m, k \in 1..n : stack[j].target # undoStack[k].target
    BY <2>1, Zenon DEF StacksDistinct, Targets
  <2> QED BY <2>1, <2>2 DEF StacksDistinct, Distinct
<1> HIDE DEF m, n
<1> SUFFICES ASSUME NEW j \in 1..(m + n), NEW k \in 1..(m + n),
                    Timeline[j].target = Timeline[k].target
             PROVE  j = k
  BY <1>1 DEF Hist!NoElementTwice
<1>3. CASE j \in 1..m /\ k \in 1..m
  BY <1>1, <1>2, <1>3
<1>4. CASE j \in (m + 1)..(m + n) /\ k \in (m + 1)..(m + n)
  <2>1. m + n + 1 - j = m + n + 1 - k
    BY <1>1, <1>2, <1>4
  <2> QED BY <1>1, <2>1
<1>5. CASE j \in 1..m /\ k \in (m + 1)..(m + n)
  BY <1>1, <1>2, <1>5
<1>6. CASE j \in (m + 1)..(m + n) /\ k \in 1..m
  BY <1>1, <1>2, <1>6
<1> QED BY <1>1, <1>3, <1>4, <1>5, <1>6
\* Undo and redo only move the cursor: taking the top of one stack to the other
\* leaves the timeline as it is.
LEMMA MoveKeepsTimeline ==
  ASSUME NEW from \in Seq(Command), NEW to \in Seq(Command), from # <<>>
  PROVE  /\ TimelineOf(Pop(from), Append(to, Top(from))) = TimelineOf(from, to)
         /\ TimelineOf(Append(to, Top(from)), Pop(from)) = TimelineOf(to, from)
         /\ Len(Pop(from)) = Len(from) - 1
         /\ Len(Append(to, Top(from))) = Len(to) + 1
<1> DEFINE f == Pop(from)
           g == Append(to, Top(from))
           m == Len(from)
           n == Len(to)
<1>1. /\ m \in Nat \ {0} /\ n \in Nat
      /\ f \in Seq(Command) /\ Len(f) = m - 1
      /\ \A k \in 1..(m - 1) : f[k] = from[k]
  <2>1. m \in Nat \ {0} /\ n \in Nat
    OBVIOUS
  <2>2. /\ f \in Seq(Command) /\ DOMAIN f = 1..(m - 1)
        /\ \A k \in 1..(m - 1) : f[k] = from[k]
    BY <2>1 DEF Pop
  <2> QED BY <2>1, <2>2
<1>2. Top(from) = from[m] /\ Top(from) \in Command
  BY <1>1 DEF Top
<1>3. /\ g \in Seq(Command) /\ Len(g) = n + 1
      /\ \A k \in 1..n : g[k] = to[k]
      /\ g[n + 1] = from[m]
  BY <1>1, <1>2
<1> HIDE DEF f, g, m, n
<1>4. TimelineOf(f, g) = [k \in 1..(m + n) |->
                            IF k <= m THEN from[k] ELSE to[m + n + 1 - k]]
  <2>1. \A k \in 1..(m + n) :
          (IF k <= m - 1 THEN f[k] ELSE g[m + n + 1 - k])
            = (IF k <= m THEN from[k] ELSE to[m + n + 1 - k])
    BY <1>1, <1>3
  <2>2. TimelineOf(f, g) = [k \in 1..(m + n) |->
                             IF k <= m - 1 THEN f[k] ELSE g[m + n + 1 - k]]
    BY <1>1, <1>3, (m - 1) + (n + 1) = m + n DEF TimelineOf
  <2> QED BY <2>1, <2>2
<1>5. TimelineOf(g, f) = [k \in 1..(n + m) |->
                            IF k <= n THEN to[k] ELSE from[n + m + 1 - k]]
  <2>1. \A k \in 1..(n + m) :
          (IF k <= n + 1 THEN g[k] ELSE f[n + m + 1 - k])
            = (IF k <= n THEN to[k] ELSE from[n + m + 1 - k])
    BY <1>1, <1>3
  <2>2. TimelineOf(g, f) = [k \in 1..(n + m) |->
                             IF k <= n + 1 THEN g[k] ELSE f[n + m + 1 - k]]
    BY <1>1, <1>3, (n + 1) + (m - 1) = n + m DEF TimelineOf
  <2> QED BY <2>1, <2>2
<1> QED BY <1>1, <1>3, <1>4, <1>5 DEF f, g, m, n, TimelineOf

\* Without undone commands the history is the stack.
LEMMA NothingUndone ==
  ASSUME NEW cmds \in Seq(Command)
  PROVE  TimelineOf(cmds, <<>>) = cmds
<1> DEFINE t == TimelineOf(cmds, <<>>)
<1>1. <<>> \in Seq(Command) /\ Len(<<>>) = 0
  OBVIOUS
<1>2. /\ t \in Seq(Command)
      /\ Len(t) = Len(cmds) + Len(<<>>)
      /\ \A k \in 1..Len(cmds) : t[k] = cmds[k]
  BY <1>1, TimelineFacts
<1>3. Len(t) = Len(cmds)
  BY <1>1, <1>2
<1> HIDE DEF t
<1>4. t = cmds
  BY <1>2, <1>3, SameSequence
<1> QED BY <1>4 DEF t

\* A new command cuts the history at the cursor.
LEMMA AddIsDo ==
  ASSUME StackTypes, NEW c \in Command, c.target \notin Targets(stack),
         stack' = Append(stack, c), undoStack' = <<>>
  PROVE  Hist!Do(c)
<1> DEFINE m == Len(stack)
           n == Len(undoStack)
<1>1. /\ m \in Nat /\ n \in Nat
      /\ Timeline \in Seq(Command) /\ Len(Timeline) = m + n
      /\ \A k \in 1..m : Timeline[k] = stack[k]
  BY TimelineFacts, TimelineIs DEF StackTypes
<1>2. /\ stack' \in Seq(Command) /\ Len(stack') = m + 1
      /\ \A k \in 1..m : stack'[k] = stack[k]
      /\ stack'[m + 1] = c
  BY DEF StackTypes
<1>3. Timeline' = stack'
  BY <1>2, NothingUndone, TimelineIs
<1>4. c.target \notin Hist!Pending
  <2>1. DOMAIN stack = 1..m
    BY DEF StackTypes
  <2>2. Hist!Pending = {Timeline[k].target : k \in 1..m}
    BY DEF Hist!Pending
  <2> HIDE DEF m, n
  <2> QED BY <1>1, <2>1, <2>2, Zenon DEF Targets
<1> HIDE DEF m, n
<1>5. /\ SubSeq(Timeline, 1, m) \in Seq(Command)
      /\ Len(SubSeq(Timeline, 1, m)) = m
      /\ \A k \in 1..m : SubSeq(Timeline, 1, m)[k] = Timeline[k]
  BY <1>1
<1>6. Timeline' = Append(SubSeq(Timeline, 1, m), c)
  <2> DEFINE kept == SubSeq(Timeline, 1, m)
  <2>1. /\ Append(kept, c) \in Seq(Command) /\ Len(Append(kept, c)) = m + 1
        /\ \A k \in 1..m : Append(kept, c)[k] = kept[k]
        /\ Append(kept, c)[m + 1] = c
    <3> HIDE DEF kept
    <3> QED BY <1>1, <1>5 DEF kept
  <2> HIDE DEF kept
  <2>2. \A k \in 1..(m + 1) : stack'[k] = Append(kept, c)[k]
    <3> TAKE k \in 1..(m + 1)
    <3>1. k \in 1..m \/ k = m + 1
      BY <1>1
    <3>2. \/ kept[k] = Timeline[k] /\ Timeline[k] = stack[k] /\ stack'[k] = stack[k]
          \/ k = m + 1
      BY <3>1, <1>1, <1>2, <1>5 DEF kept
    <3> QED BY <3>1, <3>2, <1>2, <2>1
  <2>3. stack' = Append(kept, c)
    BY <1>2, <2>1, <2>2, SameSequence
  <2> QED BY <2>3, <1>3 DEF kept
<1> QED BY <1>2, <1>4, <1>6 DEF Hist!Do, m
LEMMA UndoIsUndo ==
  ASSUME StackTypes, Undo PROVE Hist!Undo
<1>1. /\ stack # <<>> /\ stack \in Seq(Command) /\ undoStack \in Seq(Command)
      /\ stack' = Pop(stack) /\ undoStack' = Append(undoStack, Top(stack))
  BY DEF StackTypes, Undo
<1>2. Timeline' = Timeline /\ Len(stack') = Len(stack) - 1
  BY <1>1, MoveKeepsTimeline, TimelineIs
<1>3. Len(stack) > 0
  BY <1>1
<1> QED BY <1>2, <1>3 DEF Hist!Undo

LEMMA RedoIsRedo ==
  ASSUME StackTypes, Redo PROVE Hist!Redo
<1>1. /\ undoStack # <<>> /\ stack \in Seq(Command) /\ undoStack \in Seq(Command)
      /\ stack' = Append(stack, Top(undoStack)) /\ undoStack' = Pop(undoStack)
  BY DEF StackTypes, Redo
<1>2. Timeline' = Timeline /\ Len(stack') = Len(stack) + 1
  BY <1>1, MoveKeepsTimeline, TimelineIs
<1>3. Len(Timeline) = Len(stack) + Len(undoStack)
  BY <1>1, TimelineFacts, TimelineIs
<1>4. Len(stack) < Len(Timeline)
  BY <1>1, <1>3
<1> QED BY <1>2, <1>4 DEF Hist!Redo

LEMMA EmptiedIsReset ==
  ASSUME stack' = <<>>, undoStack' = <<>> PROVE Hist!Reset
<1>1. Timeline' = <<>>
  BY NothingUndone, EmptyFacts, TimelineIs
<1> QED BY <1>1 DEF Hist!Reset

\* Every step of the page is a step of the edit history, or leaves it alone.
LEMMA NextHist == IInv /\ [Next]_vars => [Hist!Next]_(Hist!vars)
<1> SUFFICES ASSUME IInv, [Next]_vars PROVE [Hist!Next]_(Hist!vars)
  OBVIOUS
<1>1. StackTypes /\ PageTypes
  BY TypeOKSplit DEF IInv
<1>2. ASSUME UNCHANGED service PROVE UNCHANGED Hist!vars
  BY <1>2 DEF service, Timeline, Hist!vars
<1>3. ASSUME NEW a \in Kind, ChooseKind(a) PROVE Hist!Next
  <2> DEFINE c == [processInstanceId |-> itemId, target |-> menu.target, type |-> a]
  <2>1. c \in Command
    BY <1>1, <1>3 DEF ChooseKind, Clickable, OnPage, PageTypes, IInv, MenuInv,
       MenuHasElement, Command
  <2>2. c.target \notin Targets(stack)
    BY <1>3 DEF ChooseKind, IInv, MenuInv, MenuOffersFreeElements
  <2>3. Hist!Do(c)
    BY <1>1, <1>3, <2>1, <2>2, AddIsDo DEF ChooseKind, Add
  <2> QED BY <2>1, <2>3 DEF Hist!Next
<1>4. ASSUME Undo \/ Redo PROVE Hist!Next
  BY <1>1, <1>4, UndoIsUndo, RedoIsRedo DEF Hist!Next
<1>5. ASSUME stack' = <<>>, undoStack' = <<>> PROVE Hist!Next
  BY <1>5, EmptiedIsReset DEF Hist!Next
<1>6. CASE LeavePage \/ CancelClicked \/ ModalCleared
  BY <1>5, <1>6 DEF LeavePage, CancelClicked, ModalCleared, Clear
<1>7. CASE ChooseUndo \/ ChooseRedo
  BY <1>2, <1>4, <1>7 DEF ChooseUndo, ChooseRedo
<1>8. ASSUME NEW r \in Requests, Settled(r) PROVE [Hist!Next]_(Hist!vars)
  BY <1>2, <1>5, <1>8 DEF Settled
<1>9. ASSUME NEW r \in Requests,
             ModalConfirmed(r) \/ Accepted(r) \/ Rejected(r) \/ RejectedWithoutBody(r)
      PROVE  UNCHANGED service
  BY <1>9 DEF ModalConfirmed, Accepted, Rejected, RejectedWithoutBody
<1>10. ASSUME NEW i \in Instances, OpenPage(i) \/ SwitchItem(i) PROVE UNCHANGED service
  BY <1>10 DEF OpenPage, SwitchItem
<1>11. ASSUME NEW x \in Elements, OpenMenu(x) PROVE UNCHANGED service
  BY <1>11 DEF OpenMenu
<1>12. CASE ActivityInstancesLoaded \/ DiagramRendered \/ CloseMenu \/ EditClicked
              \/ ApplyClicked \/ ModalDismissed
  BY <1>2, <1>12 DEF ActivityInstancesLoaded, DiagramRendered, CloseMenu, EditClicked,
     ApplyClicked, ModalDismissed
<1>13. CASE UNCHANGED vars
  BY <1>2, <1>13 DEF vars, service
<1> QED
  BY <1>2, <1>3, <1>6, <1>7, <1>8, <1>9, <1>10, <1>11, <1>12, <1>13 DEF Next

-----------------------------------------------------------------------------
(* The warning counts commands and activities; with one command for each     *)
(* element, equal numbers of them mean equal sets.                           *)

\* As many elements as commands: the commands are for all of them.
LEMMA CountingCommands ==
  ASSUME NEW cmds \in Seq(Command), Distinct(cmds), NEW S, IsFiniteSet(S), Targets(cmds) \subseteq S
  PROVE  Cardinality(S) = Cardinality(DOMAIN cmds) <=> Targets(cmds) = S
<1> DEFINE target == [k \in DOMAIN cmds |-> cmds[k].target]
<1>1. target \in Injection(DOMAIN cmds, S)
  <2>1. target \in [DOMAIN cmds -> S]
    BY DEF Targets
  <2>2. IsInjective(target)
    BY DEF IsInjective, Distinct
  <2> QED BY <2>1, <2>2 DEF Injection
<1>2. Cardinality(DOMAIN cmds) = Cardinality(S) <=> target \in Surjection(DOMAIN cmds, S)
  BY <1>1, FS_Injection
<1>3. target \in Surjection(DOMAIN cmds, S) <=> Targets(cmds) = S
  <2>1. target \in [DOMAIN cmds -> S]
    BY DEF Targets
  <2>2. Targets(cmds) = S <=> \A e \in S : \E k \in DOMAIN cmds : target[k] = e
    BY DEF Targets
  <2> QED BY <2>1, <2>2 DEF Surjection
<1> QED BY <1>2, <1>3

LEMMA WarningIsExact ==
  ASSUME IInv
  PROVE  WarningExactOnFlatTrees
<1> DEFINE removed == {c \in Range(stack) : c.type = "remove_token"}
<1> SUFFICES ASSUME infoLoaded, active \cap Nested = {}, \A c \in removed : c.target \in active
             PROVE  WillTerminate <=> removed = Range(stack) /\ active = Targets(stack)
  BY DEF WarningExactOnFlatTrees
<1>1. stack \in Seq(Command) /\ Distinct(stack) /\ active \subseteq Elements
  BY DEF IInv, TypeOK, StackInv, StacksDistinct
<1>2. IsFiniteSet(active) /\ TopLevelActive = active
  BY <1>1, ConstantsAssumption, FS_Subset DEF TopLevelActive
<1>3. \A k \in DOMAIN stack : stack[k] \in Command /\ stack[k] \in Range(stack)
  BY <1>1 DEF Range
<1>4. (\A k \in DOMAIN stack : stack[k].type # "add_token") <=> removed = Range(stack)
  <2>1. \A k \in DOMAIN stack : stack[k].type # "add_token" <=> stack[k].type = "remove_token"
    BY <1>3 DEF Command, Kind
  <2>2. Range(stack) = {stack[k] : k \in DOMAIN stack}
    BY DEF Range
  <2> QED BY <2>1, <2>2
<1>5. ASSUME removed = Range(stack)
      PROVE  Groups = Cardinality(Removals) <=> active = Targets(stack)
  <2>1. \A k \in DOMAIN stack : stack[k] \in removed
    BY <1>3, <1>5
  <2>2. Targets(stack) \subseteq active /\ Removals = DOMAIN stack
    BY <2>1 DEF Targets, Removals
  <2> QED BY <1>1, <1>2, <2>2, CountingCommands DEF Groups
<1> QED BY <1>4, <1>5 DEF WillTerminate

-----------------------------------------------------------------------------
(* Theorems.                                                               *)

\* The inductive invariant holds of every reachable state.
THEOREM Invariant == Spec => []IInv
BY InitIInv, NextIInv, PTL DEF Spec

\* Every variable keeps its type: nothing but an instance of the engine is
\* posted to, and every command is for an element of a diagram.
THEOREM TypeCorrect == Spec => []TypeOK
<1>1. IInv => TypeOK
  BY DEF IInv
<1> QED BY <1>1, Invariant, PTL

\* No element has two commands, pending or undone, although the guard is a flag
\* of the menu computed when it was opened.
THEOREM OneCommandPerElement == Spec => []NoElementTwice
<1>1. IInv => NoElementTwice
  BY TypeOKSplit, TimelineDistinct DEF IInv, StackInv, NoElementTwice
<1> QED BY <1>1, Invariant, PTL

\* Menu, overlays and toolbar agree with the stack in every state: no ghosts on the
\* diagram, no second command for an element, Apply offered exactly when one is
\* pending, and edit mode kept while there is a history.
THEOREM EditorIsCurrent == Spec => []EditorAgreesWithStack
<1>1. IInv => EditorAgreesWithStack
  BY DEF IInv, StackInv, MenuInv, EditorAgreesWithStack
<1> QED BY <1>1, Invariant, PTL

\* The warning that a change set terminates the instance, which compares two counts
\* (willActionsTerminateProcess), is given exactly when it should be: no element has two
\* commands, so that as many removals as active activities are all of them.
THEOREM WarningExact == Spec => []WarningExactOnFlatTrees
BY WarningIsExact, Invariant, PTL

\* The page, whatever its requests and timers do, implements the edit history.
THEOREM ImplementsHistory == Spec => HistoryImplemented
<1>1. Init => Hist!Init
  BY NothingUndone, EmptyFacts, TimelineIs DEF Init, Hist!Init
<1>2. Spec => Hist!Spec
  BY <1>1, NextHist, Invariant, PTL DEF Spec, Hist!Spec
<1> QED BY <1>2 DEF HistoryImplemented
-----------------------------------------------------------------------------
(* The abstract history, for a log and a cursor of its own.                *)

VARIABLES log, pos
Abstract == INSTANCE EditHistory

\* The cursor stays within the log.  Code: _stack and _undoStack are never
\* popped when empty.
THEOREM CursorInLog == Abstract!Spec => []Abstract!TypeOK
<1>1. Abstract!Init => Abstract!TypeOK
  BY DEF Abstract!Init, Abstract!TypeOK
<1>2. Abstract!TypeOK /\ [Abstract!Next]_(Abstract!vars) => Abstract!TypeOK'
  <2> SUFFICES ASSUME Abstract!TypeOK, [Abstract!Next]_(Abstract!vars) PROVE Abstract!TypeOK'
    OBVIOUS
  <2> USE DEF Abstract!TypeOK
  <2>1. CASE \E c \in Command : Abstract!Do(c)
    BY <2>1 DEF Abstract!Do
  <2>2. CASE Abstract!Undo
    BY <2>2 DEF Abstract!Undo
  <2>3. CASE Abstract!Redo
    BY <2>3 DEF Abstract!Redo
  <2>4. CASE Abstract!Reset
    BY <2>4 DEF Abstract!Reset
  <2>5. CASE UNCHANGED Abstract!vars
    BY <2>5 DEF Abstract!vars
  <2> QED BY <2>1, <2>2, <2>3, <2>4, <2>5 DEF Abstract!Next
<1> QED BY <1>1, <1>2, PTL DEF Abstract!Spec

\* No element has two commands, pending or undone.  Code: the guard of the menu
\* is containsCommandForElement, and add() empties _undoStack.
THEOREM ElementsDistinct == Abstract!Spec => []Abstract!NoElementTwice
<1>1. Abstract!Init => Abstract!NoElementTwice
  BY DEF Abstract!Init, Abstract!NoElementTwice
<1>2. Abstract!TypeOK /\ Abstract!NoElementTwice /\ [Abstract!Next]_(Abstract!vars)
        => Abstract!NoElementTwice'
  <2> SUFFICES ASSUME Abstract!TypeOK, Abstract!NoElementTwice, [Abstract!Next]_(Abstract!vars)
               PROVE  Abstract!NoElementTwice'
    OBVIOUS
  <2> USE DEF Abstract!TypeOK, Abstract!NoElementTwice
  <2>1. ASSUME NEW c \in Command, Abstract!Do(c) PROVE Abstract!NoElementTwice'
    <3>1. /\ Len(log') = pos + 1
          /\ \A k \in 1..pos : log'[k] = log[k]
          /\ log'[pos + 1] = c
      BY <2>1 DEF Abstract!Do
    <3>2. \A k \in 1..pos : log[k].target # c.target
      BY <2>1 DEF Abstract!Do, Abstract!Pending
    <3> QED BY <3>1, <3>2
  <2>2. CASE Abstract!Undo
    BY <2>2 DEF Abstract!Undo
  <2>3. CASE Abstract!Redo
    BY <2>3 DEF Abstract!Redo
  <2>4. CASE Abstract!Reset
    BY <2>4 DEF Abstract!Reset
  <2>5. CASE UNCHANGED Abstract!vars
    BY <2>5 DEF Abstract!vars
  <2> QED BY <2>1, <2>2, <2>3, <2>4, <2>5 DEF Abstract!Next
<1> QED BY <1>1, <1>2, CursorInLog, PTL DEF Abstract!Spec
=============================================================================
