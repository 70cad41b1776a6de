-------------------------- MODULE SerialSession_proofs --------------------------
(***************************************************************************)
(* Requests that run one after the other and to their end implement        *)
(* StatusWorkflow: each of them adds up to one action of it, or to none.   *)
(***************************************************************************)
EXTENDS SerialSession, EditSession_proofs

(***************************************************************************)
(* What a request has found is what settled keeps; at each of its steps    *)
(* the rows are what it has made of that.                                  *)
(***************************************************************************)
MetadataRow == [ data : Documents, isLocked : BOOLEAN, lockedBy : Users \cup {None},
                 owner : Users ]

\* Between two requests: what a lock is, and what a deleted record leaves behind.
Coherent ==
  /\ settled.md.isLocked <=> settled.md.lockedBy # None
  /\ ~settled.exists => ~settled.public /\ settled.ws = None /\ settled.md.lockedBy = None

Now(m, w, h, p) == exists /\ md = m /\ ws = w /\ history = h /\ public = p

Found == Now(settled.md, settled.ws, settled.history, settled.public)

FreedRow == [settled.md EXCEPT !.isLocked = FALSE, !.lockedBy = None]

LockedRow(u) == [settled.md EXCEPT !.isLocked = TRUE, !.lockedBy = u, !.owner = u]

GrabbedRow(u) ==
  [settled.md EXCEPT !.lockedBy = local[u].target, !.owner = local[u].target]

MayEdit(u) == settled.md.lockedBy \in {None, u}

EditProgress(u) ==
  /\ pc[u] = "read" => Found /\ MayEdit(u)
  /\ pc[u] = "lock" => Found /\ MayEdit(u) /\ settled.ws = None
  /\ pc[u] = "copy" =>
       /\ Now(LockedRow(u), None, settled.history, settled.public)
       /\ MayEdit(u) /\ settled.ws = None

SaveProgress(u) ==
  /\ pc[u] = "onEdit" => Found
  /\ pc[u] = "write" =>
       \E minorEdit \in {FALSE, MinorEdits} :
         Now(settled.md, settled.ws, OnEdit(settled.history, minorEdit), settled.public)

CancelProgress(u) ==
  /\ pc[u] \in {"unlock", "drop", "revert"} => settled.md.lockedBy = u
  /\ pc[u] = "unlock" => Found
  /\ pc[u] = "drop" => Now(FreedRow, settled.ws, settled.history, settled.public)
  /\ pc[u] = "revert" => Now(FreedRow, None, settled.history, settled.public)

CloseProgress(u) ==
  /\ pc[u] \in {"closeUnlock", "closeDrop"} =>
       CurrentStatus(settled.history) \in PublicStatuses /\ settled.md.lockedBy = u
  /\ pc[u] \in {"discard", "delete"} => CurrentStatus(settled.history) = "JUSTCREATED"
  /\ pc[u] \in {"closeUnlock", "discard"} => Found
  /\ pc[u] = "closeDrop" => Now(FreedRow, settled.ws, settled.history, settled.public)
  /\ pc[u] = "delete" => Now(settled.md, None, settled.history, settled.public)

GrabProgress(u) ==
  /\ pc[u] \in {"assign", "assignCopy"} =>
       (u \in Reviewers \/ SymbolicLocking) /\ settled.md.isLocked
  /\ pc[u] = "assign" => Found
  /\ pc[u] = "assignCopy" =>
       Now(GrabbedRow(u), settled.ws, settled.history, settled.public)

MayApprove(u) ==
  /\ u \in Reviewers
  /\ CurrentStatus(settled.history) # "APPROVED"
  /\ StatusChangeAllowedByUser("Reviewer", CurrentStatus(settled.history), "APPROVED",
                               FALSE, settled.ws # None, TRUE, TRUE)
  /\ (IF ValidatesWorkspace(CurrentStatus(settled.history)) /\ settled.ws # None
      THEN settled.ws.data ELSE settled.md.data) \in Valid

MovedRow == [FreedRow EXCEPT !.data = settled.ws.data]

ApproveProgress(u) ==
  /\ pc[u] \in Moving \cup {"move", "setApproved"} => MayApprove(u)
  /\ pc[u] \in Moving => settled.ws # None /\ local[u].moved = settled.ws.data
  /\ pc[u] \in {"move", "moveUnlock"} => Found
  /\ pc[u] = "moveStore" => Now(FreedRow, settled.ws, settled.history, TRUE)
  /\ pc[u] = "moveDrop" => Now(MovedRow, settled.ws, settled.history, TRUE)
  /\ pc[u] = "setApproved" =>
       \/ Found /\ settled.ws = None
       \/ Now(MovedRow, None, settled.history, TRUE) /\ settled.ws # None

Progress(u) ==
  /\ settled.exists /\ exists
  /\ EditProgress(u) /\ SaveProgress(u) /\ CancelProgress(u)
  /\ CloseProgress(u) /\ GrabProgress(u) /\ ApproveProgress(u)

SettledType ==
  settled \in [ exists : BOOLEAN, md : MetadataRow, ws : WorkspaceRow \cup {None},
                history : History, public : BOOLEAN ]

SerialInv ==
  /\ SettledType
  /\ Coherent
  /\ Running = {} => settled = State
  /\ \A u \in Users : pc[u] # "idle" => Progress(u)

--------------------------------------------------------------------------------
\* A request begins with what the last one has left.
LEMMA RequestBegins ==
  ASSUME MaxRunning = 1, IsFiniteSet(Users), TypeOK, SerialInv, NEW u \in Users,
         BeginAny(u), SerialNext
  PROVE  settled' = settled /\ SerialInv'
<1>1. PICK next : Begin(u, next)
  BY DEF BeginAny, BeginEdit, BeginSave, BeginCancel, BeginClose, BeginGrab,
     BeginApprove
<1>2. /\ \A v \in Users : pc[v] = "idle" /\ (v # u => pc'[v] = "idle")
      /\ exists /\ pc'[u] = next
  BY <1>1, NoneRunning DEF Begin, TypeOK
<1>3. next \in {"read", "onEdit", "unlock", "closeUnlock", "discard", "assign", "move"}
  BY <1>2 DEF BeginAny, BeginEdit, BeginSave, BeginCancel, BeginClose, BeginGrab,
     BeginApprove,
              Begin, TypeOK
<1>4. Running = {} /\ Running' # {}
  BY <1>2, <1>3 DEF Running
<1>5. settled' = settled /\ settled = State
  BY <1>4 DEF SerialNext, SerialInv
<1>6. UNCHANGED rows
  BY DEF BeginAny, BeginEdit, BeginSave, BeginCancel, BeginClose, BeginGrab,
     BeginApprove
<1>7. /\ settled.exists = exists /\ settled.md = md /\ settled.ws = ws
      /\ settled.history = history /\ settled.public = public
  BY <1>5 DEF State
<1>8. Found' /\ settled'.exists /\ exists'
  BY <1>2, <1>5, <1>6, <1>7 DEF Found, Now, rows
<1>9. EditProgress(u)' /\ SaveProgress(u)' /\ CancelProgress(u)'
  <2>1. CASE next = "read"
    <3>1. md.isLocked => md.lockedBy = u
      BY <1>2, <2>1 DEF BeginAny, BeginEdit, BeginSave, BeginCancel, BeginClose,
         BeginGrab,
                        BeginApprove, Begin, TypeOK
    <3>2. MayEdit(u)
      BY <1>7, <3>1 DEF MayEdit, SerialInv, Coherent
    <3>3. QED
      BY <1>2, <1>5, <1>8, <2>1, <3>2 DEF EditProgress, SaveProgress, CancelProgress,
         MayEdit
  <2>2. CASE next = "unlock"
    <3>1. md.lockedBy = u
      BY <1>2, <2>2 DEF BeginAny, BeginEdit, BeginSave, BeginCancel, BeginClose,
         BeginGrab,
                        BeginApprove, Begin, TypeOK
    <3>2. QED
      BY <1>2, <1>5, <1>7, <1>8, <2>2, <3>1 DEF EditProgress, SaveProgress,
         CancelProgress
  <2>3. CASE next \notin {"read", "unlock"}
    BY <1>2, <1>3, <1>8, <2>3 DEF EditProgress, SaveProgress, CancelProgress
  <2>4. QED
    BY <2>1, <2>2, <2>3
<1>10. CloseProgress(u)' /\ GrabProgress(u)'
  <2>1. CASE next \in {"closeUnlock", "discard"}
    <3>1. /\ next = "closeUnlock" => CurrentStatus(history) \in PublicStatuses /\ md.lockedBy = u
          /\ next = "discard" => CurrentStatus(history) = "JUSTCREATED"
      BY <1>2, <2>1 DEF BeginAny, BeginEdit, BeginSave, BeginCancel, BeginClose,
         BeginGrab,
                        BeginApprove, Begin, TypeOK
    <3>2. QED
      BY <1>2, <1>5, <1>7, <1>8, <2>1, <3>1 DEF CloseProgress, GrabProgress
  <2>2. CASE next = "assign"
    <3>1. (u \in Reviewers \/ SymbolicLocking) /\ md.isLocked
      BY <1>2, <2>2 DEF BeginAny, BeginEdit, BeginSave, BeginCancel, BeginClose,
         BeginGrab,
                        BeginApprove, Begin, TypeOK
    <3>2. QED
      BY <1>2, <1>5, <1>7, <1>8, <2>2, <3>1 DEF CloseProgress, GrabProgress
  <2>3. CASE next \notin {"closeUnlock", "discard", "assign"}
    BY <1>2, <1>3, <2>3 DEF CloseProgress, GrabProgress
  <2>4. QED
    BY <2>1, <2>2, <2>3
<1>11. ApproveProgress(u)'
  <2>1. CASE next = "move"
    <3>1. BeginApprove(u)
      BY <1>2, <2>1 DEF BeginAny, BeginEdit, BeginSave, BeginCancel, BeginClose,
         BeginGrab,
                        Begin, TypeOK
    <3>2. MayApprove(u)
      BY <1>7, <3>1 DEF BeginApprove, MayApprove, ContentToValidate
    <3>3. MayApprove(u)'
      BY <1>5, <3>2 DEF MayApprove
    <3>4. QED
      BY <1>2, <1>8, <2>1, <3>3 DEF ApproveProgress, Moving
  <2>2. CASE next # "move"
    BY <1>2, <1>3, <2>2 DEF ApproveProgress, Moving
  <2>3. QED
    BY <2>1, <2>2
<1>12. Progress(u)'
  BY <1>8, <1>9, <1>10, <1>11 DEF Progress
<1>13. SettledType' /\ Coherent'
  BY <1>5 DEF SerialInv, SettledType, Coherent
<1>14. QED
  BY <1>2, <1>4, <1>5, <1>12, <1>13 DEF SerialInv
--------------------------------------------------------------------------------
(***************************************************************************)
(* A request goes on: settled stays, or the request is over and settled    *)
(* has the rows that it has left.                                          *)
(***************************************************************************)
Settles ==
  /\ settled'.exists = exists' /\ settled'.md = md' /\ settled'.ws = ws'
  /\ settled'.history = history' /\ settled'.public = public'

\* What the lemmas about the steps of each request show.
Fits(u) ==
  /\ pc'[u] # "idle" => Progress(u)'
  /\ pc'[u] = "idle" => Coherent' /\ [Workflow!Next]_(Workflow!vars)

LEMMA RequestGoesOn ==
  ASSUME TypeOK, TypeOK', OneRequest, SerialInv, NEW u \in Users, Step(u), SerialNext
  PROVE  /\ Progress(u) /\ pc' \in [Users -> Steps]
         /\ pc'[u] # "idle" => settled' = settled
         /\ pc'[u] = "idle" => Settles
         /\ Fits(u) => SerialInv'
<1>1. pc[u] # "idle" /\ \A v \in Users : v # u => pc'[v] = "idle"
  BY StepsOfOne
<1>2. Progress(u)
  BY <1>1 DEF SerialInv
<1>3. ASSUME pc'[u] # "idle"
      PROVE  settled' = settled /\ Running' # {}
  BY <1>3 DEF Running, SerialNext
<1>4. ASSUME pc'[u] = "idle"
      PROVE  settled' = State' /\ Running' = {}
  BY <1>1, <1>4 DEF Running, SerialNext
<1>5. ASSUME pc'[u] = "idle"
      PROVE  Settles
  BY <1>4, <1>5 DEF State, Settles
<1>6. SettledType'
  <2>1. CASE pc'[u] # "idle"
    BY <1>3, <2>1 DEF SettledType, SerialInv
  <2>2. CASE pc'[u] = "idle"
    BY <1>4, <2>2 DEF SettledType, State, TypeOK, MetadataRow
  <2>3. QED
    BY <2>1, <2>2
<1>7. ASSUME Fits(u)
      PROVE  SerialInv'
  <2>1. CASE pc'[u] # "idle"
    <3>1. Coherent' /\ Progress(u)'
      BY <1>3, <1>7, <2>1 DEF SerialInv, Coherent, Fits
    <3>2. QED
      BY <1>1, <1>3, <1>6, <2>1, <3>1 DEF SerialInv
  <2>2. CASE pc'[u] = "idle"
    <3>1. Coherent'
      BY <1>7, <2>2 DEF Fits
    <3>2. QED
      BY <1>1, <1>4, <1>6, <2>2, <3>1 DEF SerialInv
  <2>3. QED
    BY <2>1, <2>2
<1>8. pc' \in [Users -> Steps]
  BY DEF TypeOK
<1>9. QED
  BY <1>2, <1>3, <1>5, <1>7, <1>8

\* StatusWorkflow reads the status tables that the requests read.
LEMMA SameRules ==
  /\ Workflow!NoHistory = NoHistory /\ Workflow!PublicStatuses = PublicStatuses
  /\ \A h : /\ Workflow!CurrentStatus(h) = CurrentStatus(h)
            /\ Workflow!CancelDeletes(h) <=> CancelDeletes(h)
            /\ Workflow!CancelledHistory(h) = CancelledHistory(h)
  /\ \A h, minorEdit : Workflow!OnEdit(h, minorEdit) = OnEdit(h, minorEdit)
  /\ \A h, s : Workflow!SetStatus(h, s) = SetStatus(h, s)
  /\ \A cur : Workflow!ValidatesWorkspace(cur) <=> ValidatesWorkspace(cur)
  /\ \A cur, copied :
       StatusChangeAllowedByUser("Reviewer", cur, "APPROVED", FALSE, copied, TRUE, TRUE)
       => Workflow!StatusChangeAllowedByUser("Reviewer", cur, "APPROVED", FALSE, copied,
                                             TRUE, TRUE)
<1>1. /\ Workflow!NoStatus = NoStatus /\ Workflow!PublicStatuses = PublicStatuses
      /\ Workflow!NoHistory = NoHistory
  BY DEF Workflow!NoStatus, NoStatus, Workflow!PublicStatuses, PublicStatuses,
         Workflow!NoHistory, NoHistory
<1>2. \A h : Workflow!CurrentStatus(h) = CurrentStatus(h)
  BY <1>1 DEF Workflow!CurrentStatus, CurrentStatus
<1>3. \A h, s : Workflow!SetStatus(h, s) = SetStatus(h, s)
  BY <1>1 DEF Workflow!SetStatus, SetStatus
<1>4. \A h : Workflow!CancelKeepsStatus(h) <=> CancelKeepsStatus(h)
  BY <1>2 DEF Workflow!CancelKeepsStatus, CancelKeepsStatus, Workflow!KeptOnCancel,
     KeptOnCancel
<1>5. \A h : Workflow!CancelDeletes(h) <=> CancelDeletes(h)
  BY <1>1, <1>4 DEF Workflow!CancelDeletes, CancelDeletes, Workflow!LastPublicStatus,
                    LastPublicStatus
<1>6. \A h : Workflow!CancelledHistory(h) = CancelledHistory(h)
  BY <1>3, <1>4 DEF Workflow!CancelledHistory, CancelledHistory,
     Workflow!LastPublicStatus,
                    LastPublicStatus
<1>7. \A h, minorEdit : Workflow!OnEdit(h, minorEdit) = OnEdit(h, minorEdit)
  BY <1>2, <1>3 DEF Workflow!OnEdit, OnEdit
<1>8. \A cur : Workflow!ValidatesWorkspace(cur) <=> ValidatesWorkspace(cur)
  BY DEF Workflow!ValidatesWorkspace, ValidatesWorkspace
<1>9. \A cur, copied :
       StatusChangeAllowedByUser("Reviewer", cur, "APPROVED", FALSE, copied, TRUE, TRUE)
       => Workflow!StatusChangeAllowedByUser("Reviewer", cur, "APPROVED", FALSE, copied,
                                             TRUE, TRUE)
  BY DEF Workflow!StatusChangeAllowedByUser, StatusChangeAllowedByUser,
         Workflow!RefusedToReviewer, RefusedToReviewer, Workflow!AwaitingAgiv, AwaitingAgiv
<1>10. QED
  BY <1>1, <1>2, <1>3, <1>5, <1>6, <1>7, <1>8, <1>9

\* All users have the group in common that may edit the record.
LEMMA Access ==
  ASSUME settled.exists, NEW u \in Users
  PROVE  /\ Workflow!InEditGroup(u) /\ Workflow!CanEdit(u)
         /\ u \in Reviewers => Workflow!IsOwner(u)
BY DEF Workflow!InEditGroup, Workflow!CanEdit, Workflow!IsOwner,
   Workflow!HasEditPermission

LEMMA EditFits ==
  ASSUME Inv, SettledType, Coherent, NEW u \in Users, EditStep(u), Progress(u),
         pc'[u] # "idle" => settled' = settled, pc'[u] = "idle" => Settles
  PROVE  Fits(u)
<1>0. pc \in [Users -> Steps] /\ settled.exists
  BY DEF Inv, TypeOK, Progress
<1>1. ASSUME NEW here, NEW next, Continue(u, here, next)
      PROVE  pc[u] = here /\ pc'[u] = next /\ exists
  BY <1>0, <1>1 DEF Continue
<1>2. CASE EditRead(u)
  <2>1. /\ pc[u] = "read" /\ UNCHANGED rows /\ exists
        /\ (ws = None /\ pc'[u] = "lock") \/ (ws # None /\ pc'[u] = "idle")
    BY <1>1, <1>2 DEF EditRead
  <2>2. Found /\ MayEdit(u)
    BY <2>1 DEF Progress, EditProgress
  <2>3. CASE pc'[u] = "lock"
    <3>1. settled' = settled
      BY <2>3
    <3>2. Found' /\ MayEdit(u)' /\ settled'.ws = None /\ settled'.exists /\ exists'
      BY <1>0, <2>1, <2>2, <2>3, <3>1 DEF Found, Now, MayEdit, rows
    <3>3. QED
      BY <2>3, <3>2 DEF Fits, Progress, EditProgress, SaveProgress, CancelProgress,
                        CloseProgress, GrabProgress, ApproveProgress, Moving
  <2>4. CASE pc'[u] = "idle"
    <3>1. /\ settled'.exists = settled.exists /\ settled'.md = settled.md
          /\ settled'.ws = settled.ws /\ settled'.history = settled.history
          /\ settled'.public = settled.public
      BY <1>0, <2>1, <2>2, <2>4 DEF Found, Now, Settles, rows, SettledType
    <3>2. Coherent'
      BY <3>1 DEF Coherent
    <3>3. UNCHANGED Workflow!vars
      BY <3>1 DEF Workflow!vars
    <3>4. QED
      BY <2>4, <3>2, <3>3 DEF Fits
  <2>5. QED
    BY <2>1, <2>3, <2>4
<1>3. CASE LockMetadata(u)
  <2>1. pc[u] = "lock" /\ pc'[u] = "copy" /\ settled' = settled
    BY <1>1, <1>3 DEF LockMetadata
  <2>2. Found /\ MayEdit(u) /\ settled.ws = None
    BY <2>1 DEF Progress, EditProgress
  <2>3. /\ Now(LockedRow(u), None, settled.history, settled.public)'
        /\ MayEdit(u)' /\ settled'.ws = None /\ settled'.exists /\ exists'
    BY <1>0, <1>3, <2>1, <2>2 DEF LockMetadata, Found, Now, LockedRow, MayEdit
  <2>4. QED
    BY <2>1, <2>3 DEF Fits, Progress, EditProgress, SaveProgress, CancelProgress,
                      CloseProgress, GrabProgress, ApproveProgress, Moving
<1>4. CASE SaveWorkspace(u)
  <2>1. pc[u] = "copy" /\ pc'[u] = "idle" /\ Settles
    BY <1>1, <1>4 DEF SaveWorkspace
  <2>2. /\ Now(LockedRow(u), None, settled.history, settled.public)
        /\ MayEdit(u) /\ settled.ws = None
    BY <2>1 DEF Progress, EditProgress
  <2>3. /\ LockedRow(u).data = settled.md.data /\ LockedRow(u).lockedBy = u
        /\ LockedRow(u).owner = u /\ LockedRow(u).isLocked
    BY DEF LockedRow, SettledType, MetadataRow
  <2>4. /\ settled'.exists /\ settled'.md = LockedRow(u)
        /\ settled'.ws = [data |-> settled.md.data, lockedBy |-> u]
        /\ settled'.history = settled.history /\ settled'.public = settled.public
    BY <1>4, <2>1, <2>2, <2>3 DEF SaveWorkspace, Now, Settles
  <2>5. Coherent'
    BY <2>3, <2>4, NoneAssumption DEF Coherent
  <2>6. Workflow!OpenEditor(u)
    BY <1>0, <2>2, <2>3, <2>4, Access
       DEF Workflow!OpenEditor, Workflow!NotLockedByOther, Workflow!IsWorkspace, MayEdit,
           SettledType
  <2>7. QED
    BY <2>1, <2>5, <2>6 DEF Fits, Workflow!Next
<1>5. QED
  BY <1>2, <1>3, <1>4 DEF EditStep

LEMMA SaveFits ==
  ASSUME Inv, SettledType, Coherent, NEW u \in Users, SaveStep(u), Progress(u),
         pc'[u] # "idle" => settled' = settled, pc'[u] = "idle" => Settles
  PROVE  Fits(u)
<1>0. pc \in [Users -> Steps] /\ settled.exists
  BY DEF Inv, TypeOK, Progress
<1>1. ASSUME NEW here, NEW next, Continue(u, here, next)
      PROVE  pc[u] = here /\ pc'[u] = next /\ exists
  BY <1>0, <1>1 DEF Continue
<1>2. ASSUME NEW minorEdit \in {FALSE, MinorEdits}, SaveOnEdit(u, minorEdit)
      PROVE  Fits(u)
  <2>1. pc[u] = "onEdit" /\ pc'[u] = "write" /\ settled' = settled
    BY <1>1, <1>2 DEF SaveOnEdit
  <2>2. Found
    BY <2>1 DEF Progress, SaveProgress
  <2>3. /\ Now(settled.md, settled.ws, OnEdit(settled.history, minorEdit), settled.public)'
        /\ settled'.exists /\ exists'
    BY <1>0, <1>2, <2>1, <2>2 DEF SaveOnEdit, Found, Now
  <2>4. QED
    BY <2>1, <2>3 DEF Fits, Progress, EditProgress, SaveProgress, CancelProgress,
                      CloseProgress, GrabProgress, ApproveProgress, Moving
<1>3. CASE SaveWrite(u)
  <2>1. pc[u] = "write" /\ pc'[u] = "idle" /\ Settles
    BY <1>1, <1>3 DEF SaveWrite
  <2>2. PICK minorEdit \in {FALSE, MinorEdits} :
          Now(settled.md, settled.ws, OnEdit(settled.history, minorEdit), settled.public)
    BY <2>1 DEF Progress, SaveProgress
  <2>3. /\ settled'.exists /\ settled'.md = settled.md
        /\ settled'.history = OnEdit(settled.history, minorEdit)
        /\ settled'.public = settled.public
    BY <1>3, <2>1, <2>2 DEF SaveWrite, Now, Settles
  <2>4. \E d \in Documents, written \in BOOLEAN :
          settled'.ws = IF written /\ settled.ws # None THEN [settled.ws EXCEPT !.data = d]
                        ELSE settled.ws
    <3>1. CASE form[u] = None
      <4>1. settled'.ws = settled.ws
        BY <1>3, <2>1, <2>2, <3>1 DEF SaveWrite, Now, Settles
      <4>2. {} \in Documents
        BY DEF Documents
      <4>3. QED
        BY <4>1, <4>2
    <3>2. CASE form[u] # None
      <4>1. settled'.ws = IF settled.ws # None
                          THEN [settled.ws EXCEPT !.data = form[u] \cup {u}] ELSE settled.ws
        BY <1>3, <2>1, <2>2, <3>2 DEF SaveWrite, Now, Settles
      <4>2. form[u] \cup {u} \in Documents
        BY <3>2 DEF Inv, TypeOK, Documents
      <4>3. QED
        BY <4>1, <4>2
    <3>3. QED
      BY <3>1, <3>2
  <2>5. PICK d \in Documents, written \in BOOLEAN :
          settled'.ws = IF written /\ settled.ws # None THEN [settled.ws EXCEPT !.data = d]
                        ELSE settled.ws
    BY <2>4
  <2>6. Coherent'
    BY <1>0, <2>3 DEF Coherent
  <2>7. Workflow!SaveEdit(u, FALSE, minorEdit, d, written)
    BY <1>0, <2>3, <2>5, Access, SameRules
       DEF Workflow!SaveEdit, Workflow!SetTemplate, Workflow!IsWorkspace, SettledType
  <2>8. Workflow!SaveAny
    BY <2>7 DEF Workflow!SaveAny, Workflow!TemplateChoices
  <2>9. QED
    BY <2>1, <2>6, <2>8 DEF Fits, Workflow!Next
<1>4. QED
  BY <1>2, <1>3 DEF SaveStep

\* The record is deleted at the end of a request that has unlocked it, or not.
LEMMA DeletionFits ==
  ASSUME SettledType, settled.exists, Settles, DeleteMetadata,
         md.data = settled.md.data, md.owner = settled.md.owner, md \in MetadataRow
  PROVE  Coherent' /\ Workflow!DeleteMetadata
<1>1. /\ settled'.exists = FALSE /\ settled'.ws = None /\ settled'.history = NoHistory
      /\ settled'.public = FALSE /\ settled'.md = Unlocked
  BY DEF DeleteMetadata, Settles
<1>2. /\ Unlocked.data = settled.md.data /\ Unlocked.owner = settled.md.owner
      /\ Unlocked.lockedBy = None /\ Unlocked.isLocked = FALSE
  BY DEF Unlocked, MetadataRow
<1>3. Coherent'
  BY <1>1, <1>2 DEF Coherent
<1>4. Workflow!DeleteMetadata
  BY <1>1, <1>2, SameRules DEF Workflow!DeleteMetadata
<1>5. QED
  BY <1>3, <1>4

\* The lock is given back and the copy dropped, at the end of a request.
LEMMA FreedFits ==
  ASSUME SettledType, Coherent, settled.exists, settled'.exists, settled'.md = FreedRow,
         settled'.ws = None
  PROVE  /\ Coherent' /\ settled'.md.lockedBy = None
         /\ settled'.md.data = settled.md.data /\ settled'.md.owner = settled.md.owner
<1>1. /\ FreedRow.data = settled.md.data /\ FreedRow.owner = settled.md.owner
      /\ FreedRow.lockedBy = None /\ FreedRow.isLocked = FALSE
  BY DEF FreedRow, SettledType, MetadataRow
<1>2. QED
  BY <1>1 DEF Coherent

LEMMA CancelFits ==
  ASSUME Inv, SettledType, Coherent, NEW u \in Users, CancelStep(u), Progress(u),
         pc'[u] # "idle" => settled' = settled, pc'[u] = "idle" => Settles
  PROVE  Fits(u)
<1>0. pc \in [Users -> Steps] /\ settled.exists /\ md \in MetadataRow
  BY DEF Inv, TypeOK, Progress, MetadataRow
<1>1. ASSUME NEW here, NEW next, Continue(u, here, next)
      PROVE  pc[u] = here /\ pc'[u] = next /\ exists
  BY <1>0, <1>1 DEF Continue
<1>2. CASE Unlock(u, "unlock", "drop")
  <2>1. pc[u] = "unlock" /\ pc'[u] = "drop" /\ settled' = settled /\ md' = Unlocked
    BY <1>1, <1>2 DEF Unlock
  <2>2. Found /\ settled.md.lockedBy = u
    BY <2>1 DEF Progress, CancelProgress
  <2>3. Unlocked = FreedRow
    BY <2>2 DEF Unlocked, FreedRow, Found, Now
  <2>4. /\ Now(FreedRow, settled.ws, settled.history, settled.public)'
        /\ settled'.md.lockedBy = u /\ settled'.exists /\ exists'
    BY <1>0, <1>2, <2>1, <2>2, <2>3 DEF Unlock, Found, Now, FreedRow
  <2>5. QED
    BY <2>1, <2>4 DEF Fits, Progress, EditProgress, SaveProgress, CancelProgress,
                      CloseProgress, GrabProgress, ApproveProgress, Moving
<1>3. CASE DeleteFromWorkspace(u, "drop", "revert")
  <2>1. pc[u] = "drop" /\ pc'[u] = "revert" /\ settled' = settled
    BY <1>1, <1>3 DEF DeleteFromWorkspace
  <2>2. /\ Now(FreedRow, settled.ws, settled.history, settled.public)
        /\ settled.md.lockedBy = u
    BY <2>1 DEF Progress, CancelProgress
  <2>3. /\ Now(FreedRow, None, settled.history, settled.public)'
        /\ settled'.md.lockedBy = u /\ settled'.exists /\ exists'
    BY <1>0, <1>3, <2>1, <2>2 DEF DeleteFromWorkspace, Now, FreedRow
  <2>4. QED
    BY <2>1, <2>3 DEF Fits, Progress, EditProgress, SaveProgress, CancelProgress,
                      CloseProgress, GrabProgress, ApproveProgress, Moving
<1>4. CASE CancelRevert(u)
  <2>1. pc[u] = "revert" /\ pc'[u] = "idle" /\ Settles
    BY <1>1, <1>4 DEF CancelRevert
  <2>2. /\ Now(FreedRow, None, settled.history, settled.public)
        /\ settled.md.lockedBy = u
    BY <2>1 DEF Progress, CancelProgress
  <2>3. md.data = settled.md.data /\ md.owner = settled.md.owner
    BY <2>2 DEF Now, FreedRow, SettledType, MetadataRow
  <2>4. Coherent' /\ Workflow!CancelEditSession(u)
    <3>1. CASE CancelDeletes(history) /\ DeleteMetadata
      <4>1. Coherent' /\ Workflow!DeleteMetadata
        BY <1>0, <2>1, <2>3, <3>1, DeletionFits
      <4>2. Workflow!CancelDeletes(settled.history)
        BY <2>2, <3>1, SameRules DEF Now
      <4>3. QED
        BY <1>0, <2>2, <4>1, <4>2 DEF Workflow!CancelEditSession, Workflow!UnlockAllowed
    <3>2. CASE ~CancelDeletes(history)
      <4>1. /\ settled'.exists = exists /\ settled'.md = FreedRow /\ settled'.ws = None
            /\ settled'.history = CancelledHistory(settled.history)
            /\ settled'.public = settled.public
        BY <1>4, <2>1, <2>2, <3>2 DEF CancelRevert, Now, Settles
      <4>2. settled'.exists = settled.exists /\ settled'.exists
        BY <1>0, <2>2, <4>1 DEF Now, SettledType, Inv, TypeOK
      <4>3. /\ Coherent' /\ settled'.md.lockedBy = None
            /\ settled'.md.data = settled.md.data /\ settled'.md.owner = settled.md.owner
        BY <1>0, <4>1, <4>2, FreedFits
      <4>4. ~Workflow!CancelDeletes(settled.history)
        BY <2>2, <3>2, SameRules DEF Now
      <4>5. QED
        BY <1>0, <2>2, <4>1, <4>2, <4>3, <4>4, SameRules
           DEF Workflow!CancelEditSession, Workflow!UnlockAllowed
    <3>3. QED
      BY <1>4, <3>1, <3>2 DEF CancelRevert
  <2>5. Workflow!CancelAny
    BY <2>4 DEF Workflow!CancelAny
  <2>6. QED
    BY <2>1, <2>4, <2>5 DEF Fits, Workflow!Next
<1>5. QED
  BY <1>2, <1>3, <1>4 DEF CancelStep

LEMMA CloseFits ==
  ASSUME Inv, SettledType, Coherent, NEW u \in Users, CloseStep(u), Progress(u),
         pc'[u] # "idle" => settled' = settled, pc'[u] = "idle" => Settles
  PROVE  Fits(u)
<1>0. /\ pc \in [Users -> Steps] /\ settled.exists /\ settled.exists = TRUE
      /\ settled.public \in BOOLEAN
  BY DEF Inv, TypeOK, Progress, SettledType
<1>1. ASSUME NEW here, NEW next, Continue(u, here, next)
      PROVE  pc[u] = here /\ pc'[u] = next /\ exists
  BY <1>0, <1>1 DEF Continue
<1>2. CASE Unlock(u, "closeUnlock", "closeDrop")
  <2>1. pc[u] = "closeUnlock" /\ pc'[u] = "closeDrop" /\ settled' = settled /\ md' = Unlocked
    BY <1>1, <1>2 DEF Unlock
  <2>2. /\ Found /\ settled.md.lockedBy = u
        /\ CurrentStatus(settled.history) \in PublicStatuses
    BY <2>1 DEF Progress, CloseProgress
  <2>3. Unlocked = FreedRow
    BY <2>2 DEF Unlocked, FreedRow, Found, Now
  <2>4. /\ Now(FreedRow, settled.ws, settled.history, settled.public)'
        /\ settled'.md.lockedBy = u /\ settled'.exists /\ exists'
        /\ CurrentStatus(settled'.history) \in PublicStatuses
    BY <1>0, <1>2, <2>1, <2>2, <2>3 DEF Unlock, Found, Now, FreedRow
  <2>5. QED
    BY <2>1, <2>4 DEF Fits, Progress, EditProgress, SaveProgress, CancelProgress,
                      CloseProgress, GrabProgress, ApproveProgress, Moving
<1>3. CASE DeleteFromWorkspace(u, "closeDrop", "idle")
  <2>1. pc[u] = "closeDrop" /\ pc'[u] = "idle" /\ Settles
    BY <1>1, <1>3 DEF DeleteFromWorkspace
  <2>2. /\ Now(FreedRow, settled.ws, settled.history, settled.public)
        /\ settled.md.lockedBy = u /\ CurrentStatus(settled.history) \in PublicStatuses
    BY <2>1 DEF Progress, CloseProgress
  <2>3. /\ settled'.exists = exists /\ settled'.md = FreedRow /\ settled'.ws = None
        /\ settled'.history = settled.history /\ settled'.public = settled.public
    BY <1>3, <2>1, <2>2 DEF DeleteFromWorkspace, Now, Settles
  <2>4. settled'.exists = settled.exists /\ settled'.exists
    BY <1>0, <2>2, <2>3 DEF Now, Inv, TypeOK
  <2>5. /\ Coherent' /\ settled'.md.lockedBy = None
        /\ settled'.md.data = settled.md.data /\ settled'.md.owner = settled.md.owner
    BY <1>0, <2>3, <2>4, FreedFits
  <2>6. Workflow!CloseEditor(u, FALSE)
    BY <1>0, <2>2, <2>3, <2>4, <2>5, Access, SameRules
       DEF Workflow!CloseEditor, Workflow!UnlockAllowed, Workflow!SetTemplate
  <2>7. Workflow!CloseAny
    BY <2>6 DEF Workflow!CloseAny, Workflow!TemplateChoices
  <2>8. QED
    BY <2>1, <2>5, <2>7 DEF Fits, Workflow!Next
<1>4. CASE DeleteFromWorkspace(u, "discard", "delete")
  <2>1. pc[u] = "discard" /\ pc'[u] = "delete" /\ settled' = settled
    BY <1>1, <1>4 DEF DeleteFromWorkspace
  <2>2. Found /\ CurrentStatus(settled.history) = "JUSTCREATED"
    BY <2>1 DEF Progress, CloseProgress
  <2>3. /\ Now(settled.md, None, settled.history, settled.public)'
        /\ settled'.exists /\ exists' /\ CurrentStatus(settled'.history) = "JUSTCREATED"
    BY <1>0, <1>4, <2>1, <2>2 DEF DeleteFromWorkspace, Found, Now
  <2>4. QED
    BY <2>1, <2>3 DEF Fits, Progress, EditProgress, SaveProgress, CancelProgress,
                      CloseProgress, GrabProgress, ApproveProgress, Moving
<1>5. CASE CloseDelete(u)
  <2>1. pc[u] = "delete" /\ pc'[u] = "idle" /\ Settles /\ DeleteMetadata
    BY <1>1, <1>5 DEF CloseDelete
  <2>2. md = settled.md /\ CurrentStatus(settled.history) = "JUSTCREATED"
    BY <2>1 DEF Progress, CloseProgress, Now
  <2>3. md \in MetadataRow
    BY DEF Inv, TypeOK, MetadataRow
  <2>4. Coherent' /\ Workflow!DeleteMetadata
    BY <1>0, <2>1, <2>2, <2>3, DeletionFits
  <2>5. Workflow!CloseEditor(u, FALSE)
    BY <1>0, <2>2, <2>4, Access, SameRules DEF Workflow!CloseEditor
  <2>6. Workflow!CloseAny
    BY <2>5 DEF Workflow!CloseAny, Workflow!TemplateChoices
  <2>7. QED
    BY <2>1, <2>4, <2>6 DEF Fits, Workflow!Next
<1>6. QED
  BY <1>2, <1>3, <1>4, <1>5 DEF CloseStep

LEMMA GrabFits ==
  ASSUME Inv, SettledType, Coherent, NEW u \in Users, GrabStep(u), Progress(u),
         pc'[u] # "idle" => settled' = settled, pc'[u] = "idle" => Settles
  PROVE  Fits(u)
<1>0. pc \in [Users -> Steps] /\ settled.exists /\ settled.exists = TRUE
  BY DEF Inv, TypeOK, Progress, SettledType
<1>1. ASSUME NEW here, NEW next, Continue(u, here, next)
      PROVE  pc[u] = here /\ pc'[u] = next /\ exists
  BY <1>0, <1>1 DEF Continue
<1>2. CASE GrabAssign(u)
  <2>1. pc[u] = "assign" /\ pc'[u] = "assignCopy" /\ settled' = settled
    BY <1>1, <1>2 DEF GrabAssign
  <2>2. Found /\ (u \in Reviewers \/ SymbolicLocking) /\ settled.md.isLocked
    BY <2>1 DEF Progress, GrabProgress
  <2>3. /\ Now(GrabbedRow(u), settled.ws, settled.history, settled.public)'
        /\ settled'.md.isLocked /\ settled'.exists /\ exists'
    BY <1>0, <1>2, <2>1, <2>2 DEF GrabAssign, Found, Now, GrabbedRow
  <2>4. QED
    BY <2>1, <2>2, <2>3 DEF Fits, Progress, EditProgress, SaveProgress, CancelProgress,
                            CloseProgress, GrabProgress, ApproveProgress, Moving
<1>3. CASE GrabAssignCopy(u)
  <2>. DEFINE target == local[u].target
  <2>1. pc[u] = "assignCopy" /\ pc'[u] = "idle" /\ Settles
    BY <1>1, <1>3 DEF GrabAssignCopy
  <2>2. /\ Now(GrabbedRow(u), settled.ws, settled.history, settled.public)
        /\ (u \in Reviewers \/ SymbolicLocking) /\ settled.md.isLocked
    BY <2>1 DEF Progress, GrabProgress
  <2>3. target \in Users
    BY <2>1 DEF Inv, TargetKnown
  <2>4. /\ GrabbedRow(u).data = settled.md.data /\ GrabbedRow(u).lockedBy = target
        /\ GrabbedRow(u).owner = target /\ GrabbedRow(u).isLocked
    BY <2>2 DEF GrabbedRow, SettledType, MetadataRow
  <2>5. /\ settled'.exists = exists /\ settled'.md = GrabbedRow(u)
        /\ settled'.ws = IF settled.ws # None THEN [settled.ws EXCEPT !.lockedBy = target]
                         ELSE settled.ws
        /\ settled'.history = settled.history /\ settled'.public = settled.public
    BY <1>3, <2>1, <2>2 DEF GrabAssignCopy, Now, Settles
  <2>6. settled'.exists = settled.exists
    BY <1>0, <2>2, <2>5 DEF Now, Inv, TypeOK
  <2>7. Coherent'
    BY <1>0, <2>3, <2>4, <2>5, <2>6, NoneAssumption DEF Coherent
  <2>8. settled.md.lockedBy # None
    BY <2>2 DEF Coherent
  <2>9. Workflow!GrabLockAllowed(u, target)
    BY <1>0, <2>2, <2>3, Access DEF Workflow!GrabLockAllowed
  <2>. HIDE DEF target
  <2>10. Workflow!GrabLock(u, target)
    BY <1>0, <2>4, <2>5, <2>6, <2>8, <2>9
       DEF Workflow!GrabLock, Workflow!CopyHeldBy, Workflow!IsWorkspace
  <2>11. QED
    BY <2>1, <2>3, <2>7, <2>10 DEF Fits, Workflow!Next
<1>4. QED
  BY <1>2, <1>3 DEF GrabStep

LEMMA ApproveFits ==
  ASSUME Inv, SettledType, Coherent, NEW u \in Users, ApproveStep(u), Progress(u),
         pc'[u] # "idle" => settled' = settled, pc'[u] = "idle" => Settles
  PROVE  Fits(u)
<1>0. /\ pc \in [Users -> Steps] /\ settled.exists /\ settled.exists = TRUE
  BY DEF Inv, TypeOK, Progress, SettledType
<1>1. ASSUME NEW here, NEW next, Continue(u, here, next)
      PROVE  pc[u] = here /\ pc'[u] = next /\ exists
  BY <1>0, <1>1 DEF Continue
<1>2. ASSUME pc[u] \in Moving \cup {"move", "setApproved"}
      PROVE  MayApprove(u)
  BY <1>2 DEF Progress, ApproveProgress
<1>3. ASSUME settled' = settled, pc'[u] \in Moving \cup {"setApproved"}, MayApprove(u), exists',
             ApproveProgress(u)'
      PROVE  Fits(u)
  BY <1>0, <1>3 DEF Fits, Progress, EditProgress, SaveProgress, CancelProgress,
     CloseProgress,
                    GrabProgress, Moving
<1>4. ASSUME settled' = settled
      PROVE  MayApprove(u)' <=> MayApprove(u)
  BY <1>4 DEF MayApprove
<1>5. CASE Move(u)
  <2>1. pc[u] = "move" /\ UNCHANGED rows /\ exists /\ pc'[u] \in {"moveUnlock", "setApproved"}
    BY <1>1, <1>5 DEF Move
  <2>2. Found /\ MayApprove(u) /\ settled' = settled
    BY <1>2, <2>1 DEF Progress, ApproveProgress
  <2>3. Found' /\ MayApprove(u)' /\ exists'
    BY <1>4, <2>1, <2>2 DEF Found, Now, rows
  <2>4. CASE ws = None
    <3>1. pc'[u] = "setApproved" /\ settled'.ws = None
      BY <1>1, <1>5, <2>2, <2>4 DEF Move, Found, Now
    <3>2. ApproveProgress(u)'
      BY <2>3, <3>1 DEF ApproveProgress, Moving
    <3>3. QED
      BY <1>3, <2>2, <2>3, <3>1, <3>2
  <2>5. CASE ws # None
    <3>1. /\ pc'[u] = "moveUnlock" /\ local'[u].moved = ws.data
      BY <1>1, <1>5, <2>5 DEF Move, Inv, TypeOK
    <3>2. settled'.ws # None /\ local'[u].moved = settled'.ws.data
      BY <2>2, <2>5, <3>1 DEF Found, Now
    <3>3. ApproveProgress(u)'
      BY <2>3, <3>1, <3>2 DEF ApproveProgress, Moving
    <3>4. QED
      BY <1>3, <2>2, <2>3, <3>1, <3>3 DEF Moving
  <2>6. QED
    BY <2>4, <2>5
<1>6. CASE MoveUnlock(u)
  <2>1. /\ pc[u] = "moveUnlock" /\ pc'[u] = "moveStore" /\ settled' = settled /\ md' = Unlocked
        /\ public' = TRUE /\ UNCHANGED << exists, ws, history, local >>
    BY <1>1, <1>6 DEF MoveUnlock
  <2>2. Found /\ MayApprove(u) /\ settled.ws # None /\ local[u].moved = settled.ws.data
    BY <1>2, <2>1 DEF Progress, ApproveProgress, Moving
  <2>3. Now(FreedRow, settled.ws, settled.history, TRUE)' /\ MayApprove(u)'
    BY <1>4, <2>1, <2>2 DEF Found, Now, FreedRow, Unlocked
  <2>4. exists' /\ settled'.ws # None /\ local'[u].moved = settled'.ws.data
    BY <2>1, <2>2 DEF Found, Now
  <2>5. ApproveProgress(u)'
    BY <2>1, <2>3, <2>4 DEF ApproveProgress, Moving
  <2>6. QED
    BY <1>3, <2>1, <2>2, <2>4, <2>5 DEF Moving
<1>7. CASE MoveStore(u)
  <2>1. /\ pc[u] = "moveStore" /\ pc'[u] = "moveDrop" /\ settled' = settled
        /\ md' = [md EXCEPT !.data = local[u].moved]
        /\ UNCHANGED << exists, ws, history, public, local >>
    BY <1>1, <1>7 DEF MoveStore
  <2>2. /\ Now(FreedRow, settled.ws, settled.history, TRUE)
        /\ MayApprove(u) /\ settled.ws # None /\ local[u].moved = settled.ws.data
    BY <1>2, <2>1 DEF Progress, ApproveProgress, Moving
  <2>3. Now(MovedRow, settled.ws, settled.history, TRUE)' /\ MayApprove(u)'
    BY <1>4, <2>1, <2>2 DEF Now, FreedRow, MovedRow
  <2>4. exists' /\ settled'.ws # None /\ local'[u].moved = settled'.ws.data
    BY <2>1, <2>2 DEF Now
  <2>5. ApproveProgress(u)'
    BY <2>1, <2>3, <2>4 DEF ApproveProgress, Moving
  <2>6. QED
    BY <1>3, <2>1, <2>2, <2>4, <2>5 DEF Moving
<1>8. CASE MoveDrop(u)
  <2>1. /\ pc[u] = "moveDrop" /\ pc'[u] = "setApproved" /\ settled' = settled
        /\ ws' = None /\ UNCHANGED << exists, md, history, public >>
    BY <1>1, <1>8 DEF MoveDrop
  <2>2. Now(MovedRow, settled.ws, settled.history, TRUE) /\ MayApprove(u) /\ settled.ws # None
    BY <1>2, <2>1 DEF Progress, ApproveProgress, Moving
  <2>3. /\ Now(MovedRow, None, settled.history, TRUE)' /\ MayApprove(u)'
        /\ exists' /\ settled'.ws # None
    BY <1>4, <2>1, <2>2 DEF Now, MovedRow, FreedRow
  <2>4. ApproveProgress(u)'
    BY <2>1, <2>3 DEF ApproveProgress, Moving
  <2>5. QED
    BY <1>3, <2>1, <2>2, <2>3, <2>4
<1>9. CASE SetApproved(u)
  <2>1. pc[u] = "setApproved" /\ pc'[u] = "idle" /\ Settles
    BY <1>1, <1>9 DEF SetApproved
  <2>2. MayApprove(u)
    BY <1>2, <2>1
  <2>3. /\ MovedRow.data = settled.ws.data /\ MovedRow.lockedBy = None
        /\ MovedRow.owner = settled.md.owner /\ MovedRow.isLocked = FALSE
    BY DEF MovedRow, FreedRow, SettledType, MetadataRow
  <2>4. /\ settled'.exists = exists /\ settled'.ws = None /\ settled'.public = TRUE
        /\ settled'.history = SetStatus(settled.history, "APPROVED") /\ exists
        /\ settled'.md = IF settled.ws # None THEN MovedRow ELSE settled.md
    BY <1>9, <2>1 DEF SetApproved, Progress, ApproveProgress, Found, Now, Settles
  <2>5. settled'.exists = settled.exists
    BY <1>0, <2>4 DEF Inv, TypeOK
  <2>6. Coherent'
    BY <1>0, <2>3, <2>4, <2>5 DEF Coherent
  <2>7. /\ Workflow!Approve
    BY <2>3, <2>4, <2>5, SameRules DEF Workflow!Approve, Workflow!IsWorkspace
  <2>8. Workflow!StatusChangeAllowed(u, "APPROVED")
    <3>1. u \in Reviewers /\ Workflow!CanEdit(u) /\ Workflow!IsOwner(u)
      BY <1>0, <2>2, Access DEF MayApprove
    <3>2. Workflow!ContentToValidate \in Valid
      BY <2>2, SameRules DEF MayApprove, Workflow!ContentToValidate,
         Workflow!IsWorkspace
    <3>3. Workflow!StatusChangeAllowedByUser("Reviewer", CurrentStatus(settled.history),
                                             "APPROVED", FALSE, settled.ws # None, TRUE, TRUE)
      BY <2>2, SameRules DEF MayApprove
    <3>4. (Workflow!CanEdit(u) <=> TRUE) /\ (Workflow!IsOwner(u) <=> TRUE)
      BY <3>1
    <3>5. QED
      BY <2>2, <3>1, <3>2, <3>3, SameRules
         DEF Workflow!StatusChangeAllowed, MayApprove, Workflow!IsWorkspace,
             Workflow!StatusChangeAllowedByUser, Workflow!RefusedToReviewer
  <2>9. Workflow!StatusChange(u, "APPROVED")
    BY <1>0, <2>7, <2>8 DEF Workflow!StatusChange
  <2>10. Workflow!StatusChangeAny
    BY <2>9 DEF Workflow!StatusChangeAny
  <2>11. QED
    BY <2>1, <2>6, <2>10 DEF Fits, Workflow!Next
<1>10. QED
  BY <1>5, <1>6, <1>7, <1>8, <1>9 DEF ApproveStep

--------------------------------------------------------------------------------
(***************************************************************************)
(* The refinement.                                                         *)
(***************************************************************************)
LEMMA CreationFits ==
  ASSUME TypeOK, TypeOK', SerialInv, NEW u \in Users, Create(u), SerialNext
  PROVE  SerialInv' /\ [Workflow!Next]_(Workflow!vars)
<1>1. /\ Running = {} /\ \A v \in Users : pc'[v] = "idle"
      /\ Running' = {}
  BY DEF Create, Running
<1>2. settled = State /\ settled' = State'
  BY <1>1 DEF SerialInv, SerialNext
<1>3. settled.ws = None /\ ~settled.public /\ settled.public = FALSE /\ ~settled.exists
  BY <1>2 DEF SerialInv, Coherent, State, Create, TypeOK
<1>4. /\ settled'.exists = TRUE /\ settled'.ws = None /\ settled'.public = FALSE
      /\ settled'.md = [data |-> {}, isLocked |-> FALSE, lockedBy |-> None, owner |-> u]
      /\ settled'.history = SetStatus(NoHistory, "JUSTCREATED")
  BY <1>2, <1>3 DEF State, Create
<1>5. Coherent'
  BY <1>4 DEF Coherent
<1>6. SettledType'
  BY <1>2 DEF SettledType, State, TypeOK, MetadataRow
<1> DEFINE p == [all |-> FALSE, groups |-> {Group}]
<1>7. p \in Workflow!DefaultPrivileges /\ p \in Workflow!Privileges
  BY DEF Workflow!DefaultPrivileges, Workflow!Privileges
<1>8. Workflow!InsertRow(u, {}, FALSE, p, SetStatus(NoHistory, "JUSTCREATED"))
  <2>1. (settled'.public = p.all) /\ (FALSE = p.all)
    BY <1>4
  <2>2. (IF settled'.exists THEN {Group} ELSE {}) = p.groups
    BY <1>4
  <2>3. settled'.exists = TRUE /\ settled'.md.data = {} /\ settled'.md.lockedBy = None
    BY <1>4
  <2>4. settled'.md.owner = u /\ settled'.ws = None
    BY <1>4
  <2>. HIDE DEF p
  <2>5. QED
    BY <1>4, <2>1, <2>2, <2>3, <2>4 DEF Workflow!InsertRow
<1>9. Workflow!Create(u, {}, FALSE, p)
  <2>. HIDE DEF p
  <2>1. QED
    BY <1>3, <1>7, <1>8, SameRules DEF Workflow!Create
<1>10. Workflow!CreateAny
  BY <1>7, <1>9 DEF Workflow!CreateAny, Documents
<1>11. QED
  BY <1>1, <1>2, <1>5, <1>6, <1>10 DEF SerialInv, Workflow!Next

LEMMA SerialStep ==
  ASSUME MaxRunning = 1, IsFiniteSet(Users), Crashes = FALSE,
         Inv, Inv', OneRequest, SerialInv, [SerialNext]_<<vars, settled>>
  PROVE  SerialInv' /\ [Workflow!Next]_(Workflow!vars)
<1>0. TypeOK /\ TypeOK' /\ SettledType /\ Coherent
  BY DEF Inv, SerialInv
<1>1. ASSUME settled' = settled
      PROVE  UNCHANGED Workflow!vars
  BY <1>1 DEF Workflow!vars
<1>2. CASE UNCHANGED << vars, settled >>
  <2>1. UNCHANGED << exists, md, ws, history, public, pc, local, settled >>
    BY <1>2 DEF vars
  <2>2. ASSUME NEW u \in Users
        PROVE  Progress(u)' = Progress(u)
    <3>1. EditProgress(u)' = EditProgress(u) /\ SaveProgress(u)' = SaveProgress(u)
      BY <2>1 DEF EditProgress, SaveProgress, Found, Now, MayEdit, LockedRow
    <3>2. CancelProgress(u)' = CancelProgress(u) /\ CloseProgress(u)' = CloseProgress(u)
      BY <2>1 DEF CancelProgress, CloseProgress, Found, Now, FreedRow
    <3>3. GrabProgress(u)' = GrabProgress(u)
      BY <2>1 DEF GrabProgress, Found, Now, GrabbedRow
    <3>4. ApproveProgress(u)' = ApproveProgress(u)
      BY <2>1 DEF ApproveProgress, Found, Now, MayApprove, MovedRow, FreedRow
    <3>5. QED
      BY <2>1, <3>1, <3>2, <3>3, <3>4 DEF Progress
  <2>3. SettledType' /\ Coherent' /\ (Running' = {} => settled' = State')
    BY <1>2, <2>1 DEF SerialInv, SettledType, Coherent, Running, State
  <2>4. SerialInv'
    BY <2>1, <2>2, <2>3 DEF SerialInv
  <2>5. UNCHANGED Workflow!vars
    BY <1>1, <2>1
  <2>6. QED
    BY <2>4, <2>5
<1>3. ASSUME SerialNext, NEW u \in Users, Create(u)
      PROVE  SerialInv' /\ [Workflow!Next]_(Workflow!vars)
  BY <1>0, <1>3, CreationFits
<1>4. ASSUME SerialNext, NEW u \in Users, BeginAny(u)
      PROVE  SerialInv' /\ [Workflow!Next]_(Workflow!vars)
  BY <1>0, <1>1, <1>4, RequestBegins
<1>5. ASSUME SerialNext, NEW u \in Users, Step(u)
      PROVE  SerialInv' /\ [Workflow!Next]_(Workflow!vars)
  <2>1. /\ Progress(u)
        /\ pc'[u] # "idle" => settled' = settled
        /\ pc'[u] = "idle" => Settles
        /\ Fits(u) => SerialInv'
    BY <1>0, <1>5, RequestGoesOn
  <2>2. ~Vanished(u)
    BY <2>1 DEF Progress, Vanished
  <2>3. Fits(u)
    BY <1>0, <1>5, <2>1, <2>2, EditFits, SaveFits, CancelFits, CloseFits, GrabFits,
       ApproveFits
       DEF Step
  <2>4. QED
    BY <1>1, <2>1, <2>3 DEF Fits
<1>6. ~Restart /\ \A u \in Users : ~Fail(u)
  BY DEF Restart, Fail
<1>7. QED
  BY <1>2, <1>3, <1>4, <1>5, <1>6 DEF SerialNext, Next

LEMMA SerialStart ==
  ASSUME SerialInit
  PROVE  SerialInv /\ Workflow!Init
<1>1. TypeOK /\ settled = State
  BY InitType DEF SerialInit
<1>2. /\ settled.exists = FALSE /\ settled.ws = None /\ settled.history = NoHistory
      /\ settled.public = FALSE
      /\ settled.md.lockedBy = None /\ settled.md.isLocked = FALSE
      /\ settled.md.data \in Documents /\ settled.md.owner \in Users
  BY <1>1 DEF SerialInit, Init, State, Documents
<1>3. SettledType
  BY <1>1 DEF SettledType, State, TypeOK, MetadataRow
<1>4. SerialInv
  BY <1>1, <1>2, <1>3 DEF SerialInv, Coherent, SerialInit, Init
<1>5. Workflow!Init
  BY <1>2, SameRules DEF Workflow!Init
<1>6. QED
  BY <1>4, <1>5

\* With one request at a time, and none that fails, EditSession implements
\* StatusWorkflow: whatever the users, their profiles and the documents are,
\* the commits of a request, its checks before them and its local variables add
\* up to one of the actions of StatusWorkflow, or change nothing.
THEOREM RequestsImplementWorkflow ==
  ASSUME MaxRunning = 1, IsFiniteSet(Users), Crashes = FALSE
  PROVE  SerialSpec => RequestsAddUp
<1>1. SerialSpec => Spec
  <2>1. SerialInit => Init
    BY DEF SerialInit
  <2>2. [SerialNext]_<<vars, settled>> => [Next]_vars
    BY DEF SerialNext, vars
  <2>3. QED
    BY <2>1, <2>2, PTL DEF SerialSpec, Spec
<1>2. Spec => []Inv /\ []OneRequest
  BY InvHolds, AloneInv, PTL
<1>3. SerialInit => SerialInv /\ Workflow!Init
  BY SerialStart
<1>4. Inv /\ Inv' /\ OneRequest /\ SerialInv /\ [SerialNext]_<<vars, settled>>
        => SerialInv' /\ [Workflow!Next]_(Workflow!vars)
  BY SerialStep
<1>5. QED
  BY <1>1, <1>2, <1>3, <1>4, PTL DEF SerialSpec, RequestsAddUp, Workflow!Spec
================================================================================
