-------------------------- MODULE EditSession_proofs --------------------------
(***************************************************************************)
(* Theorems about edit sessions, for any users, any number of requests in  *)
(* progress, any failure and any restart.                                  *)
(***************************************************************************)
EXTENDS EditSession, FiniteSetTheorems, TLAPS

\* The documents that an approval is moving when it is at one of these steps.
Moving == {"moveUnlock", "moveStore", "moveDrop"}

\* Only the holder of the monitor is moving a document, and while it does the
\* workspace row keeps that document.
MoveInv ==
  \A u \in Users : pc[u] \in Moving =>
    /\ monitor = u
    /\ exists
    /\ ws # None
    /\ ws.data = local[u].moved
    /\ pc[u] = "moveDrop" => md.data = local[u].moved

\* A grab that was begun knows the user that it hands the lock to.
TargetKnown ==
  \A u \in Users : pc[u] \in {"assign", "assignCopy"} => local[u].target \in Users

Inv == TypeOK /\ TargetKnown /\ MoveInv

LEMMA StatusTypes ==
  ASSUME NEW h \in History
  PROVE  /\ \A s \in Status : SetStatus(h, s) \in History
         /\ \A m : OnEdit(h, m) \in History
         /\ ~CancelDeletes(h) => CancelledHistory(h) \in History
<1>1. \A s \in Status : SetStatus(h, s) \in History
  BY DEF SetStatus, History, PublicStatuses, Status, NoStatus
<1>2. "DRAFT" \in Status /\ PublicStatuses \subseteq Status
  BY DEF Status, PublicStatuses
<1>3. \A m : OnEdit(h, m) \in History
  BY <1>1, <1>2 DEF OnEdit
<1>4. ~CancelDeletes(h) /\ ~CancelKeepsStatus(h) => h.lastPublic \in Status
  BY <1>2 DEF CancelDeletes, LastPublicStatus, History
<1>5. ~CancelDeletes(h) => CancelledHistory(h) \in History
  BY <1>1, <1>4 DEF CancelledHistory, LastPublicStatus
<1>6. QED
  BY <1>1, <1>3, <1>5

LEMMA FreshHistory ==
  NoHistory \in History /\ SetStatus(NoHistory, "JUSTCREATED") \in History
<1>1. NoHistory \in History
  BY DEF NoHistory, History, NoStatus
<1>2. "JUSTCREATED" \in Status
  BY DEF Status
<1>3. QED
  BY <1>1, <1>2, StatusTypes

--------------------------------------------------------------------------------
LEMMA InitType == Init => TypeOK
<1>1. NoLocal \in [ target  : Users \cup {None},
                    checked : {None} \cup Documents,
                    moved   : {None} \cup Documents ]
  BY DEF NoLocal
<1>2. {} \in Documents /\ "idle" \in Steps
  BY DEF Documents, Steps
<1>3. HAVE Init
<1>4. md \in [ data : Documents, isLocked : BOOLEAN,
              lockedBy : Users \cup {None}, owner : Users ]
  BY <1>2, <1>3 DEF Init
<1>5. /\ pc \in [Users -> Steps]
      /\ form \in [Users -> {None} \cup Documents]
      /\ local \in [Users -> [ target  : Users \cup {None},
                              checked : {None} \cup Documents,
                              moved   : {None} \cup Documents ]]
  BY <1>1, <1>2, <1>3 DEF Init
<1>6. history \in History /\ exists \in BOOLEAN /\ public \in BOOLEAN
      /\ ws \in WorkspaceRow \cup {None} /\ monitor \in Users \cup {None}
  BY <1>3, FreshHistory DEF Init
<1>7. QED
  BY <1>4, <1>5, <1>6 DEF TypeOK

\* What the requests share: a step leaves the other users' requests alone.
LEMMA PcType ==
  ASSUME TypeOK, NEW u \in Users, NEW here, NEW next \in Steps,
         Begin(u, next) \/ Continue(u, here, next)
  PROVE  pc' \in [Users -> Steps]
BY DEF TypeOK, Begin, Continue

LEMMA RowTypes ==
  ASSUME TypeOK
  PROVE  /\ DeleteMetadata => /\ exists' \in BOOLEAN
                              /\ md' \in [ data : Documents, isLocked : BOOLEAN,
                                           lockedBy : Users \cup {None}, owner : Users ]
                              /\ ws' \in WorkspaceRow \cup {None}
                              /\ history' \in History
                              /\ public' \in BOOLEAN
         /\ Unlocked \in [ data : Documents, isLocked : BOOLEAN,
                           lockedBy : Users \cup {None}, owner : Users ]
BY FreshHistory DEF TypeOK, DeleteMetadata, Unlocked

LEMMA BeginType ==
  ASSUME TypeOK, NEW u \in Users, BeginAny(u)
  PROVE  TypeOK'
<1>1. {"read", "onEdit", "unlock", "discard", "closeUnlock", "assign", "move"} \subseteq Steps
  BY DEF Steps
<1>2. CASE BeginEdit(u) \/ BeginSave(u) \/ BeginCancel(u)
  BY <1>1, <1>2, PcType DEF TypeOK, BeginEdit, BeginSave, BeginCancel, rows
<1>3. CASE BeginClose(u)
  BY <1>1, <1>3, PcType DEF TypeOK, BeginClose, rows
<1>4. ASSUME NEW target \in Users, BeginGrab(u, target)
      PROVE  TypeOK'
  BY <1>1, <1>4, PcType DEF TypeOK, BeginGrab, rows
<1>5. CASE BeginApprove(u)
  <2>1. ContentToValidate \in Documents
    BY DEF TypeOK, ContentToValidate, WorkspaceRow
  <2>2. QED
    BY <1>1, <1>5, <2>1, PcType DEF TypeOK, BeginApprove, rows
<1>6. QED
  BY <1>2, <1>3, <1>4, <1>5 DEF BeginAny

LEMMA StepType ==
  ASSUME TypeOK, TargetKnown, MoveInv, NEW u \in Users, Step(u)
  PROVE  TypeOK'
<1>1. Steps = { "idle", "read", "lock", "copy", "onEdit", "write",
           "unlock", "drop", "revert", "closeUnlock", "closeDrop",
           "discard", "delete", "assign", "assignCopy",
           "move", "moveUnlock", "moveStore", "moveDrop", "setApproved" }
  BY DEF Steps
<1>a. NoLocal \in [ target  : Users \cup {None},
                    checked : {None} \cup Documents,
                    moved   : {None} \cup Documents ]
  BY DEF NoLocal
<1>2. CASE EditRead(u)
  BY <1>1, <1>2, PcType DEF TypeOK, EditRead, rows, WorkspaceRow
<1>3. CASE LockMetadata(u)
  BY <1>1, <1>3, PcType DEF TypeOK, LockMetadata
<1>4. CASE SaveWorkspace(u)
  BY <1>1, <1>4, PcType DEF TypeOK, SaveWorkspace, WorkspaceRow
<1>5. ASSUME NEW minorEdit, SaveOnEdit(u, minorEdit)
      PROVE  TypeOK'
  BY <1>1, <1>5, PcType, StatusTypes DEF TypeOK, SaveOnEdit
<1>6. CASE SaveWrite(u)
  <2>1. form[u] # None => form[u] \cup {u} \in Documents
    BY DEF TypeOK, Documents
  <2>2. ws' \in WorkspaceRow \cup {None}
    BY <1>6, <2>1 DEF TypeOK, SaveWrite, WorkspaceRow
  <2>3. form' \in [Users -> {None} \cup Documents]
    BY <1>6, <2>1 DEF TypeOK, SaveWrite
  <2>4. QED
    BY <1>1, <1>6, <2>2, <2>3, PcType DEF TypeOK, SaveWrite
<1>7. ASSUME NEW here, NEW next \in Steps, Unlock(u, here, next)
      PROVE  TypeOK'
  BY <1>7, PcType, RowTypes DEF TypeOK, Unlock
<1>8. ASSUME NEW here, NEW next \in Steps, DeleteFromWorkspace(u, here, next)
      PROVE  TypeOK'
  BY <1>8, PcType DEF TypeOK, DeleteFromWorkspace
<1>9. CASE CancelRevert(u)
  <2>1. pc' \in [Users -> Steps]
    BY <1>1, <1>9, PcType DEF CancelRevert
  <2>2. CASE CancelDeletes(history) /\ DeleteMetadata
    BY <1>9, <2>1, <2>2, RowTypes DEF TypeOK, CancelRevert
  <2>3. CASE ~CancelDeletes(history)
    BY <1>9, <2>1, <2>3, StatusTypes DEF TypeOK, CancelRevert
  <2>4. QED
    BY <1>9, <2>2, <2>3 DEF CancelRevert
<1>10. CASE CloseDelete(u)
  BY <1>1, <1>10, PcType, RowTypes DEF TypeOK, CloseDelete
<1>11. CASE GrabAssign(u)
  <2>1. local[u].target \in Users
    BY <1>11 DEF GrabAssign, Continue, TargetKnown
  <2>2. QED
    BY <1>1, <1>11, <2>1, PcType DEF TypeOK, GrabAssign
<1>12. CASE GrabAssignCopy(u)
  BY <1>1, <1>a, <1>12, PcType DEF TypeOK, GrabAssignCopy, WorkspaceRow
<1>13. CASE Move(u)
  BY <1>1, <1>13, PcType DEF TypeOK, Move, rows, WorkspaceRow
<1>14. CASE MoveUnlock(u)
  BY <1>1, <1>14, PcType, RowTypes DEF TypeOK, MoveUnlock
<1>15. CASE MoveStore(u)
  <2>1. local[u].moved \in Documents
    BY <1>15 DEF TypeOK, MoveStore, Continue, MoveInv, Moving, WorkspaceRow
  <2>2. QED
    BY <1>1, <1>15, <2>1, PcType DEF TypeOK, MoveStore
<1>16. CASE MoveDrop(u)
  BY <1>1, <1>16, PcType DEF TypeOK, MoveDrop
<1>17. CASE SetApproved(u)
  BY <1>1, <1>a, <1>17, PcType, StatusTypes DEF TypeOK, SetApproved, Status
<1>18. CASE Vanished(u)
  BY <1>1, <1>a, <1>18 DEF TypeOK, Vanished, End, rows
<1>19. {"drop", "revert", "closeDrop", "idle", "delete"} \subseteq Steps
  BY <1>1
<1>20. CASE EditStep(u) \/ SaveStep(u)
  BY <1>2, <1>3, <1>4, <1>5, <1>6, <1>20 DEF EditStep, SaveStep
<1>21. CASE CancelStep(u) \/ CloseStep(u)
  BY <1>7, <1>8, <1>9, <1>10, <1>19, <1>21 DEF CancelStep, CloseStep
<1>22. CASE GrabStep(u) \/ ApproveStep(u)
  BY <1>11, <1>12, <1>13, <1>14, <1>15, <1>16, <1>17, <1>22 DEF GrabStep, ApproveStep
<1>23. QED
  BY <1>18, <1>20, <1>21, <1>22 DEF Step

LEMMA NextType ==
  ASSUME TypeOK, TargetKnown, MoveInv, [Next]_vars
  PROVE  TypeOK'
<1>a. NoLocal \in [ target  : Users \cup {None},
                    checked : {None} \cup Documents,
                    moved   : {None} \cup Documents ]
  BY DEF NoLocal
<1>b. {} \in Documents /\ "idle" \in Steps
  BY DEF Documents, Steps
<1>1. ASSUME NEW u \in Users, Create(u)
      PROVE  TypeOK'
  BY <1>1, <1>b, FreshHistory DEF Create, TypeOK
<1>2. ASSUME NEW u \in Users, Fail(u)
      PROVE  TypeOK'
  BY <1>2, <1>a, <1>b DEF TypeOK, Fail, End, rows
<1>3. CASE Restart
  BY <1>3, <1>a, <1>b DEF TypeOK, Restart, rows
<1>4. CASE UNCHANGED vars
  BY <1>4 DEF TypeOK, vars
<1>5. QED
  BY <1>1, <1>2, <1>3, <1>4, BeginType, StepType DEF Next

--------------------------------------------------------------------------------
(***************************************************************************)
(* The monitor keeps the requests of others away from a document on its    *)
(* way to the published row.                                               *)
(***************************************************************************)
LEMMA OneRequestMoves ==
  ASSUME TypeOK, NEW u \in Users, BeginAny(u) \/ Step(u) \/ Fail(u),
         NEW v \in Users, u # v
  PROVE  pc'[v] = pc[v] /\ local'[v] = local[v]
<1>1. \A next : Begin(u, next) => pc'[v] = pc[v]
  BY DEF Begin, TypeOK
<1>2. \A here, next : Continue(u, here, next) => pc'[v] = pc[v]
  BY DEF Continue, TypeOK
<1>3. CASE BeginAny(u)
  <2>1. pc'[v] = pc[v]
    BY <1>1, <1>3 DEF BeginAny, BeginEdit, BeginSave, BeginCancel, BeginClose,
                      BeginGrab, BeginApprove
  <2>2. local'[v] = local[v]
    BY <1>3 DEF BeginAny, BeginEdit, BeginSave, BeginCancel, BeginClose,
                BeginGrab, BeginApprove, TypeOK
  <2>3. QED
    BY <2>1, <2>2
<1>4. CASE EditStep(u)
  <2>1. local' = local
    BY <1>4 DEF EditStep, EditRead, LockMetadata, SaveWorkspace
  <2>2. pc'[v] = pc[v]
    BY <1>2, <1>4 DEF EditStep, EditRead, LockMetadata, SaveWorkspace
  <2>3. QED
    BY <2>1, <2>2
<1>5. CASE SaveStep(u)
  BY <1>2, <1>5 DEF SaveStep, SaveOnEdit, SaveWrite
<1>6. CASE CancelStep(u) \/ CloseStep(u)
  BY <1>2, <1>6 DEF CancelStep, CloseStep, Unlock, DeleteFromWorkspace,
                    CancelRevert, CloseDelete
<1>7. CASE GrabStep(u)
  BY <1>2, <1>7 DEF GrabStep, GrabAssign, GrabAssignCopy, TypeOK
<1>8. CASE ApproveStep(u)
  <2>1. CASE Move(u)
    BY <1>2, <2>1 DEF Move, TypeOK
  <2>2. CASE SetApproved(u)
    BY <1>2, <2>2 DEF SetApproved, TypeOK
  <2>3. QED
    BY <1>2, <1>8, <2>1, <2>2 DEF ApproveStep, MoveUnlock, MoveStore, MoveDrop
<1>9. CASE Vanished(u) \/ Fail(u)
  BY <1>9 DEF Vanished, Fail, End, TypeOK
<1>10. QED
  BY <1>3, <1>4, <1>5, <1>6, <1>7, <1>8, <1>9 DEF Step

\* What a step of another request must leave alone.
Undisturbed(v) ==
  /\ exists'
  /\ pc'[v] = pc[v]
  /\ local'[v] = local[v]
  /\ monitor' = monitor
  /\ ws' # None /\ ws'.data = ws.data
  /\ md'.data = md.data

LEMMA OthersUndisturbed ==
  ASSUME TypeOK, MoveInv, NEW u \in Users, NEW v \in Users, u # v,
         pc[v] \in Moving, BeginAny(u) \/ Step(u) \/ Fail(u)
  PROVE  Undisturbed(v)
<1>1. /\ exists /\ monitor = v /\ ~MonitorFree /\ pc[u] \notin Moving
      /\ ws \in WorkspaceRow /\ ws # None
  BY NoneAssumption DEF MoveInv, MonitorFree, TypeOK
<1>2. \A next : Begin(u, next) => pc'[v] = pc[v]
  BY DEF Begin, TypeOK
<1>3. \A here, next : Continue(u, here, next) => pc'[v] = pc[v] /\ pc[u] = here
  BY DEF Continue, TypeOK
<1>4. \A row \in WorkspaceRow : row # None
  BY NoneAssumption DEF WorkspaceRow
<1>5. CASE BeginAny(u)
  <2>1. pc'[v] = pc[v]
    BY <1>2, <1>5 DEF BeginAny, BeginEdit, BeginSave, BeginCancel, BeginClose,
                      BeginGrab, BeginApprove
  <2>2. UNCHANGED << rows, monitor >>
    BY <1>5 DEF BeginAny, BeginEdit, BeginSave, BeginCancel, BeginClose,
                BeginGrab, BeginApprove
  <2>3. local'[v] = local[v]
    BY <1>5 DEF BeginAny, BeginEdit, BeginSave, BeginCancel, BeginClose,
                BeginGrab, BeginApprove, TypeOK
  <2>4. QED
    BY <1>1, <2>1, <2>2, <2>3 DEF Undisturbed, rows
<1>6. CASE EditStep(u)
  <2>1. CASE EditRead(u)
    BY <1>1, <1>3, <2>1 DEF EditRead, Undisturbed, rows
  <2>2. CASE LockMetadata(u)
    BY <1>1, <1>3, <2>2 DEF LockMetadata, Undisturbed, TypeOK
  <2>3. CASE SaveWorkspace(u)
    BY <1>1, <1>3, <2>3 DEF SaveWorkspace, Undisturbed
  <2>4. QED
    BY <1>6, <2>1, <2>2, <2>3 DEF EditStep
<1>7. CASE SaveStep(u)
  BY <1>1, <1>3, <1>7 DEF SaveStep, SaveOnEdit, SaveWrite, Undisturbed
<1>8. CASE CancelStep(u) \/ CloseStep(u)
  <2>1. ASSUME NEW here, NEW next, Unlock(u, here, next)
        PROVE  Undisturbed(v)
    BY <1>1, <1>3, <2>1 DEF Unlock, Unlocked, Undisturbed, TypeOK
  <2>2. ASSUME NEW here, NEW next, DeleteFromWorkspace(u, here, next)
        PROVE  Undisturbed(v)
    BY <1>1, <2>2 DEF DeleteFromWorkspace
  <2>3. CASE CancelRevert(u)
    BY <1>1, <1>3, <2>3 DEF CancelRevert, Undisturbed
  <2>4. CASE CloseDelete(u)
    BY <1>1, <2>4 DEF CloseDelete
  <2>5. QED
    BY <1>8, <2>1, <2>2, <2>3, <2>4 DEF CancelStep, CloseStep
<1>9. CASE GrabStep(u)
  <2>1. CASE GrabAssign(u)
    BY <1>1, <1>3, <2>1 DEF GrabAssign, Undisturbed, TypeOK
  <2>2. CASE GrabAssignCopy(u)
    <3>1. ws' \in WorkspaceRow
      BY <1>1, <2>2 DEF GrabAssignCopy, TypeOK, WorkspaceRow
    <3>2. ws' = [ws EXCEPT !.lockedBy = local[u].target]
      BY <1>1, <2>2 DEF GrabAssignCopy
    <3>3. QED
      BY <1>1, <1>3, <1>4, <2>2, <3>1, <3>2 DEF GrabAssignCopy, Undisturbed, TypeOK,
                                               WorkspaceRow
  <2>3. QED
    BY <1>9, <2>1, <2>2 DEF GrabStep
<1>10. CASE ApproveStep(u)
  <2>1. CASE Move(u)
    BY <1>1, <2>1 DEF Move
  <2>2. CASE MoveUnlock(u) \/ MoveStore(u) \/ MoveDrop(u)
    BY <1>1, <1>3, <2>2 DEF MoveUnlock, MoveStore, MoveDrop, Moving
  <2>3. CASE SetApproved(u)
    BY <1>1, <1>3, <2>3 DEF SetApproved, Undisturbed, TypeOK
  <2>4. QED
    BY <1>10, <2>1, <2>2, <2>3 DEF ApproveStep
<1>11. CASE Vanished(u) \/ Fail(u)
  BY <1>1, <1>11 DEF Vanished, Fail, End, Undisturbed, rows, TypeOK
<1>12. QED
  BY <1>5, <1>6, <1>7, <1>8, <1>9, <1>10, <1>11 DEF Step

\* A step of the request that is moving the document, or is about to.
OwnMove(u) ==
  pc'[u] \in Moving =>
    /\ monitor' = u
    /\ exists'
    /\ ws' # None
    /\ ws'.data = local'[u].moved
    /\ pc'[u] = "moveDrop" => md'.data = local'[u].moved

LEMMA OwnMoves ==
  ASSUME TypeOK, MoveInv, NEW u \in Users, BeginAny(u) \/ Step(u) \/ Fail(u)
  PROVE  OwnMove(u)
<1>1. \A next : Begin(u, next) => pc'[u] = next
  BY DEF Begin, TypeOK
<1>2. \A here, next : Continue(u, here, next) => pc'[u] = next /\ pc[u] = here /\ exists
  BY DEF Continue, TypeOK
<1>3. CASE BeginAny(u)
  BY <1>1, <1>3 DEF BeginAny, BeginEdit, BeginSave, BeginCancel, BeginClose,
                    BeginGrab, BeginApprove, OwnMove, Moving
<1>4. CASE EditStep(u)
  BY <1>2, <1>4 DEF EditStep, EditRead, LockMetadata, SaveWorkspace, OwnMove, Moving
<1>a. CASE SaveStep(u)
  <2>1. Continue(u, "onEdit", "write") \/ Continue(u, "write", "idle")
    BY <1>a DEF SaveStep, SaveOnEdit, SaveWrite
  <2>2. QED
    BY <1>2, <2>1 DEF OwnMove, Moving
<1>5. CASE CancelStep(u) \/ CloseStep(u)
  BY <1>2, <1>5 DEF CancelStep, CloseStep, Unlock, DeleteFromWorkspace,
                    CancelRevert, CloseDelete, OwnMove, Moving
<1>6. CASE GrabStep(u)
  BY <1>2, <1>6 DEF GrabStep, GrabAssign, GrabAssignCopy, OwnMove, Moving
<1>7. CASE Move(u)
  <2>1. CASE ws = None
    BY <1>2, <1>7, <2>1 DEF Move, OwnMove, Moving
  <2>2. CASE ws # None
    <3>1. local'[u].moved = ws.data
      BY <1>7, <2>2 DEF Move, TypeOK
    <3>2. QED
      BY <1>2, <1>7, <2>2, <3>1 DEF Move, OwnMove, rows
  <2>3. QED
    BY <2>1, <2>2
<1>8. CASE MoveUnlock(u)
  BY <1>2, <1>8 DEF MoveUnlock, OwnMove, MoveInv, Moving
<1>9. CASE MoveStore(u)
  <2>1. md'.data = local[u].moved
    BY <1>9 DEF MoveStore, TypeOK
  <2>2. QED
    BY <1>2, <1>9, <2>1 DEF MoveStore, OwnMove, MoveInv, Moving
<1>10. CASE MoveDrop(u) \/ SetApproved(u)
  BY <1>2, <1>10 DEF MoveDrop, SetApproved, OwnMove, Moving
<1>11. CASE Vanished(u) \/ Fail(u)
  BY <1>11 DEF Vanished, Fail, End, OwnMove, Moving, TypeOK
<1>12. QED
  BY <1>3, <1>4, <1>a, <1>5, <1>6, <1>7, <1>8, <1>9, <1>10, <1>11 DEF Step, ApproveStep

\* The target is set by the step that begins the grab.
OwnTarget(u) == pc'[u] \in {"assign", "assignCopy"} => local'[u].target \in Users

LEMMA OwnTargets ==
  ASSUME TypeOK, TargetKnown, NEW u \in Users, BeginAny(u) \/ Step(u) \/ Fail(u)
  PROVE  OwnTarget(u)
<1>1. \A next : Begin(u, next) => pc'[u] = next
  BY DEF Begin, TypeOK
<1>2. \A here, next : Continue(u, here, next) => pc'[u] = next /\ pc[u] = here
  BY DEF Continue, TypeOK
<1>3. CASE BeginAny(u)
  <2>1. ASSUME NEW target \in Users, BeginGrab(u, target)
        PROVE  OwnTarget(u)
    BY <2>1 DEF BeginGrab, OwnTarget, TypeOK
  <2>2. QED
    BY <1>1, <1>3, <2>1 DEF BeginAny, BeginEdit, BeginSave, BeginCancel,
                            BeginClose, BeginApprove, OwnTarget
<1>4. CASE EditStep(u)
  BY <1>2, <1>4 DEF EditStep, EditRead, LockMetadata, SaveWorkspace,
                    OwnTarget
<1>5. CASE SaveStep(u)
  <2>1. Continue(u, "onEdit", "write") \/ Continue(u, "write", "idle")
    BY <1>5 DEF SaveStep, SaveOnEdit, SaveWrite
  <2>2. QED
    BY <1>2, <2>1 DEF OwnTarget
<1>6. CASE CancelStep(u) \/ CloseStep(u)
  BY <1>2, <1>6 DEF CancelStep, CloseStep, Unlock, DeleteFromWorkspace,
                    CancelRevert, CloseDelete, OwnTarget
<1>7. CASE GrabStep(u)
  BY <1>2, <1>7 DEF GrabStep, GrabAssign, GrabAssignCopy, TargetKnown, OwnTarget
<1>8. CASE ApproveStep(u)
  BY <1>2, <1>8 DEF ApproveStep, Move, MoveUnlock, MoveStore, MoveDrop, SetApproved,
                    OwnTarget
<1>9. CASE Vanished(u) \/ Fail(u)
  BY <1>9 DEF Vanished, Fail, End, OwnTarget, TypeOK
<1>10. QED
  BY <1>3, <1>4, <1>5, <1>6, <1>7, <1>8, <1>9 DEF Step

LEMMA NextInv ==
  ASSUME Inv, [Next]_vars
  PROVE  Inv'
<1> USE DEF Inv
<1>1. TypeOK'
  BY NextType
<1>2. ASSUME NEW u \in Users, Create(u)
      PROVE  TargetKnown' /\ MoveInv'
  <2>1. \A v \in Users : pc'[v] = "idle"
    BY <1>2 DEF Create, Running
  <2>2. QED
    BY <2>1 DEF TargetKnown, MoveInv, Moving
<1>3. ASSUME NEW u \in Users, BeginAny(u) \/ Step(u) \/ Fail(u)
      PROVE  TargetKnown' /\ MoveInv'
  <2>1. \A v \in Users : pc'[v] \in Moving => OwnMove(v)
    <3>1. ASSUME NEW v \in Users, v # u, pc'[v] \in Moving
          PROVE  OwnMove(v)
      <4>1. pc[v] \in Moving /\ pc'[v] = pc[v] /\ local'[v] = local[v]
        BY <1>3, <3>1, OneRequestMoves
      <4>2. Undisturbed(v)
        BY <1>3, <3>1, <4>1, OthersUndisturbed
      <4>3. QED
        BY <4>1, <4>2 DEF OwnMove, Undisturbed, MoveInv
    <3>2. QED
      BY <1>3, <3>1, OwnMoves
  <2>2. \A v \in Users : pc'[v] \in {"assign", "assignCopy"} => local'[v].target \in Users
    BY <1>3, OwnTargets, OneRequestMoves DEF TargetKnown, OwnTarget
  <2>3. QED
    BY <2>1, <2>2 DEF TargetKnown, MoveInv, OwnMove
<1>4. CASE Restart
  <2>1. \A v \in Users : pc'[v] = "idle"
    BY <1>4 DEF Restart
  <2>2. QED
    BY <1>1, <2>1 DEF TargetKnown, MoveInv, Moving
<1>5. CASE UNCHANGED vars
  BY <1>1, <1>5 DEF TargetKnown, MoveInv, vars
<1>6. QED
  BY <1>1, <1>2, <1>3, <1>4, <1>5 DEF Next

THEOREM InvHolds == Spec => []Inv
<1>1. Init => Inv
  <2>1. Init => TargetKnown /\ MoveInv
    BY DEF Init, TargetKnown, MoveInv, Moving
  <2>2. QED
    BY <2>1, InitType DEF Inv
<1>2. Inv /\ [Next]_vars => Inv'
  BY NextInv
<1>3. QED
  BY <1>1, <1>2, PTL DEF Spec

\* Type correctness: every step of every request, however they interleave and
\* wherever they fail, leaves rows of the right shape; in particular a grab
\* still knows its target and a move its document when they write them.
THEOREM TypeCorrect == Spec => []TypeOK
BY InvHolds, PTL DEF Inv

--------------------------------------------------------------------------------
(***************************************************************************)
(* What the monitor and the order of the commits are there for.            *)
(***************************************************************************)
LEMMA CopyDropped ==
  ASSUME Inv, [Next]_vars, ws # None, ws' = None, exists'
  PROVE  md.data = ws.data \/ GivesCopyUp
<1> USE DEF Inv
<1>1. /\ ws \in WorkspaceRow
      /\ \A row \in WorkspaceRow : row # None
  BY NoneAssumption DEF TypeOK, WorkspaceRow
<1>2. ~ UNCHANGED ws
  OBVIOUS
<1>3. ~ DeleteMetadata
  BY DEF DeleteMetadata
<1>4. ASSUME NEW u \in Users, BeginAny(u) \/ Create(u) \/ Fail(u)
      PROVE  FALSE
  BY <1>2, <1>4 DEF BeginAny, BeginEdit, BeginSave, BeginCancel, BeginClose,
                    BeginGrab, BeginApprove, Create, Fail, End, rows
<1>5. ASSUME NEW u \in Users, Step(u)
      PROVE  \/ MoveDrop(u)
             \/ pc[u] \in {"drop", "closeDrop", "discard"} /\ pc'[u] # pc[u]
  <2>1. CASE EditStep(u)
    BY <1>2, <2>1 DEF EditStep, EditRead, LockMetadata, SaveWorkspace, rows
  <2>2. CASE SaveStep(u)
    <3>1. ws' = [ws EXCEPT !.data = form[u] \cup {u}] /\ form[u] # None
      BY <1>2, <2>2 DEF SaveStep, SaveOnEdit, SaveWrite
    <3>2. form[u] \cup {u} \in Documents
      BY <3>1 DEF TypeOK, Documents
    <3>3. ws' \in WorkspaceRow
      BY <1>1, <3>1, <3>2 DEF WorkspaceRow
    <3>4. QED
      BY <1>1, <3>3
  <2>3. CASE CancelStep(u) \/ CloseStep(u)
    <3>1. ASSUME NEW here, NEW next, here # next, DeleteFromWorkspace(u, here, next)
          PROVE  pc[u] = here /\ pc'[u] # pc[u]
      BY <3>1 DEF DeleteFromWorkspace, Continue, TypeOK
    <3>2. QED
      BY <1>2, <1>3, <2>3, <3>1 DEF CancelStep, CloseStep, Unlock, CancelRevert,
                                    CloseDelete
  <2>4. CASE GrabStep(u)
    <3>1. ws' = [ws EXCEPT !.lockedBy = local[u].target]
      BY <1>2, <2>4 DEF GrabStep, GrabAssign, GrabAssignCopy
    <3>2. ws' \in WorkspaceRow
      BY <1>1, <3>1 DEF WorkspaceRow, TypeOK
    <3>3. QED
      BY <1>1, <3>2
  <2>5. CASE ApproveStep(u)
    BY <1>2, <2>5 DEF ApproveStep, Move, MoveUnlock, MoveStore, SetApproved, rows
  <2>6. CASE Vanished(u)
    BY <1>2, <2>6 DEF Vanished, End, rows
  <2>7. QED
    BY <1>5, <2>1, <2>2, <2>3, <2>4, <2>5, <2>6 DEF Step
<1>6. ASSUME NEW u \in Users, MoveDrop(u)
      PROVE  md.data = ws.data
  BY <1>6 DEF MoveDrop, Continue, MoveInv, Moving
<1>7. ~ Restart /\ ~ UNCHANGED vars
  BY <1>2 DEF Restart, rows, vars
<1>8. QED
  BY <1>4, <1>5, <1>6, <1>7 DEF Next, GivesCopyUp

\* However many requests overlap, and wherever one of them fails, the workspace
\* copy of a record goes away when its user gives it up or when the published
\* row holds its content.
THEOREM CopySurvives == Spec => CopyDroppedOncePublished
<1>1. Inv /\ [Next]_vars
        => [ws # None /\ ws' = None /\ exists'
              => md.data = ws.data \/ GivesCopyUp]_vars
  BY CopyDropped
<1>2. QED
  BY <1>1, InvHolds, PTL DEF Spec, CopyDroppedOncePublished

LEMMA Publishing ==
  ASSUME Inv, [Next]_vars, exists, exists', md'.data # md.data
  PROVE  ws # None /\ md'.data = ws.data
<1> USE DEF Inv
<1>1. ~ UNCHANGED md /\ md' # Unlocked /\ ~ DeleteMetadata
  <2>1. Unlocked.data = md.data
    BY DEF Unlocked, TypeOK
  <2>2. QED
    BY <2>1 DEF DeleteMetadata
<1>2. ASSUME NEW u \in Users, MoveStore(u)
      PROVE  ws # None /\ md'.data = ws.data
  BY <1>2 DEF MoveStore, Continue, MoveInv, Moving, TypeOK
<1>3. ASSUME NEW u \in Users, BeginAny(u) \/ Create(u) \/ Fail(u)
      PROVE  FALSE
  BY <1>1, <1>3 DEF BeginAny, BeginEdit, BeginSave, BeginCancel, BeginClose,
                    BeginGrab, BeginApprove, Create, Fail, End, rows
<1>4. ASSUME NEW u \in Users, Step(u)
      PROVE  MoveStore(u)
  <2>1. CASE EditStep(u)
    BY <1>1, <2>1 DEF EditStep, EditRead, LockMetadata, SaveWorkspace, rows, TypeOK
  <2>2. CASE SaveStep(u)
    BY <1>1, <2>2 DEF SaveStep, SaveOnEdit, SaveWrite
  <2>3. CASE CancelStep(u) \/ CloseStep(u)
    BY <1>1, <2>3 DEF CancelStep, CloseStep, Unlock, DeleteFromWorkspace,
                      CancelRevert, CloseDelete
  <2>4. CASE GrabStep(u)
    BY <1>1, <2>4 DEF GrabStep, GrabAssign, GrabAssignCopy, TypeOK
  <2>5. CASE ApproveStep(u)
    BY <1>1, <2>5 DEF ApproveStep, Move, MoveUnlock, MoveDrop, SetApproved, rows
  <2>6. CASE Vanished(u)
    BY <1>1, <2>6 DEF Vanished, End, rows
  <2>7. QED
    BY <1>4, <2>1, <2>2, <2>3, <2>4, <2>5, <2>6 DEF Step
<1>5. ~ Restart /\ ~ UNCHANGED vars
  BY <1>1 DEF Restart, rows, vars
<1>6. QED
  BY <1>2, <1>3, <1>4, <1>5 DEF Next

\* What an approval stores in the published row is the workspace copy of that
\* moment: no save, cancellation or deletion comes between its read of the one
\* and its write of the other.
THEOREM PublishesTheCopy == Spec => PublishesCurrentCopy
<1>1. Inv /\ [Next]_vars
        => [exists /\ exists' /\ md'.data # md.data
              => ws # None /\ md'.data = ws.data]_vars
  BY Publishing
<1>2. QED
  BY <1>1, InvHolds, PTL DEF Spec, PublishesCurrentCopy

LEMMA ApprovedStaysPublic ==
  ASSUME TypeOK, ApprovedIsPublic, [Next]_vars
  PROVE  ApprovedIsPublic'
<1>1. CASE public' = public /\ history' = history
  BY <1>1 DEF ApprovedIsPublic
<1>2. CASE public'
  BY <1>2 DEF ApprovedIsPublic
<1>3. CASE DeleteMetadata
  BY <1>3 DEF DeleteMetadata, ApprovedIsPublic, NoHistory, NoStatus, LastPublicStatus
<1>4. ASSUME NEW u \in Users, Create(u)
      PROVE  ApprovedIsPublic'
  BY <1>4 DEF Create, ApprovedIsPublic, SetStatus, NoHistory, NoStatus,
              LastPublicStatus, PublicStatuses
<1>5. ASSUME NEW u \in Users, SaveStep(u)
      PROVE  ApprovedIsPublic'
  BY <1>5 DEF SaveStep, SaveOnEdit, SaveWrite, OnEdit, SetStatus, ApprovedIsPublic,
              LastPublicStatus, PublicStatuses
<1>6. ASSUME NEW u \in Users, CancelRevert(u)
      PROVE  ApprovedIsPublic'
  <2>1. CASE CancelDeletes(history) /\ DeleteMetadata
    BY <1>3, <2>1
  <2>2. CASE history' = CancelledHistory(history) /\ public' = public
    <3>1. LastPublicStatus(history') = LastPublicStatus(history)
      BY <2>2 DEF CancelledHistory, SetStatus, LastPublicStatus
    <3>2. QED
      BY <2>2, <3>1 DEF ApprovedIsPublic
  <2>3. QED
    BY <1>6, <2>1, <2>2 DEF CancelRevert
<1>7. ASSUME NEW u \in Users, BeginAny(u) \/ Fail(u)
      PROVE  ApprovedIsPublic'
  BY <1>1, <1>7 DEF BeginAny, BeginEdit, BeginSave, BeginCancel, BeginClose,
                    BeginGrab, BeginApprove, Fail, End, rows
<1>8. ASSUME NEW u \in Users, Step(u)
      PROVE  ApprovedIsPublic'
  <2>1. CASE EditStep(u)
    BY <1>1, <2>1 DEF EditStep, EditRead, LockMetadata, SaveWorkspace, rows
  <2>2. CASE CancelStep(u) \/ CloseStep(u)
    BY <1>1, <1>3, <1>6, <2>2 DEF CancelStep, CloseStep, Unlock, DeleteFromWorkspace,
                                  CloseDelete
  <2>3. CASE GrabStep(u)
    BY <1>1, <2>3 DEF GrabStep, GrabAssign, GrabAssignCopy
  <2>4. CASE ApproveStep(u)
    BY <1>1, <1>2, <2>4 DEF ApproveStep, Move, MoveUnlock, MoveStore, MoveDrop,
                            SetApproved, rows
  <2>5. CASE Vanished(u)
    BY <1>1, <2>5 DEF Vanished, End, rows
  <2>6. QED
    BY <1>5, <1>8, <2>1, <2>2, <2>3, <2>4, <2>5 DEF Step
<1>9. CASE Restart \/ UNCHANGED vars
  BY <1>1, <1>9 DEF Restart, rows, vars
<1>10. QED
  BY <1>4, <1>7, <1>8, <1>9 DEF Next

\* A record whose newest public status is APPROVED is visible to group All in
\* every state, those that a failed approval leaves behind included.
THEOREM ApprovedVisible == Spec => []ApprovedIsPublic
<1>1. Init => ApprovedIsPublic
  BY DEF Init, ApprovedIsPublic, NoHistory, NoStatus, LastPublicStatus
<1>2. TypeOK /\ ApprovedIsPublic /\ [Next]_vars => ApprovedIsPublic'
  BY ApprovedStaysPublic
<1>3. QED
  BY <1>1, <1>2, TypeCorrect, PTL DEF Spec

--------------------------------------------------------------------------------
(***************************************************************************)
(* The lock, when requests come one after the other.                       *)
(***************************************************************************)
OneRequest == \A u, v \in Users : pc[u] # "idle" /\ pc[v] # "idle" => u = v

\* What the check of metadata.edit saw still holds when the lock is written.
LockFree ==
  \A u \in Users : pc[u] \in {"read", "lock"} /\ md.isLocked => md.lockedBy = u

LEMMA NoneRunning ==
  ASSUME MaxRunning = 1, IsFiniteSet(Users), NEW u, NEW next, Begin(u, next)
  PROVE  \A v \in Users : pc[v] = "idle"
<1>1. Running \subseteq Users
  BY DEF Running
<1>2. IsFiniteSet(Running)
  BY <1>1, FS_Subset
<1>3. Cardinality(Running) \in Nat /\ Cardinality(Running) < 1
  BY <1>2, FS_CardinalityType DEF Begin
<1>4. Running = {}
  BY <1>2, <1>3, FS_EmptySet
<1>5. QED
  BY <1>4 DEF Running

LEMMA BeginsAlone ==
  ASSUME MaxRunning = 1, IsFiniteSet(Users), TypeOK,
         NEW u \in Users, BeginAny(u)
  PROVE  OneRequest' /\ LockFree'
<1>1. PICK next : Begin(u, next)
  BY DEF BeginAny, BeginEdit, BeginSave, BeginCancel, BeginClose, BeginGrab,
         BeginApprove
<1>2. \A v \in Users : v # u => pc'[v] = "idle"
  BY <1>1, NoneRunning DEF Begin, TypeOK
<1>3. md' = md
  BY DEF BeginAny, BeginEdit, BeginSave, BeginCancel, BeginClose, BeginGrab,
         BeginApprove, rows
<1>4. CASE BeginEdit(u)
  BY <1>2, <1>3, <1>4 DEF BeginEdit, OneRequest, LockFree
<1>5. CASE ~ BeginEdit(u)
  <2>1. pc'[u] \notin {"read", "lock"}
    BY <1>5 DEF BeginAny, BeginSave, BeginCancel, BeginClose, BeginGrab,
                BeginApprove, Begin, TypeOK
  <2>2. QED
    BY <1>2, <2>1 DEF OneRequest, LockFree
<1>6. QED
  BY <1>4, <1>5

LEMMA GoesOnAlone ==
  ASSUME TypeOK, OneRequest, LockFree, NEW u \in Users, Step(u) \/ Fail(u)
  PROVE  OneRequest' /\ LockFree'
<1>1. pc[u] # "idle"
  BY DEF Step, EditStep, EditRead, LockMetadata, SaveWorkspace, SaveStep, SaveOnEdit,
         SaveWrite, CancelStep, Unlock, DeleteFromWorkspace, CancelRevert, CloseStep,
         CloseDelete, GrabStep, GrabAssign, GrabAssignCopy, ApproveStep, Move,
         MoveUnlock, MoveStore, MoveDrop, SetApproved, Vanished, Fail, End, Continue
<1>2. \A v \in Users : v # u => pc'[v] = "idle"
  BY <1>1, OneRequestMoves DEF OneRequest
<1>3. OneRequest'
  BY <1>2 DEF OneRequest
<1>4. CASE EditRead(u)
  <2>1. md' = md /\ pc[u] = "read"
    BY <1>4 DEF EditRead, Continue, rows
  <2>2. QED
    BY <1>2, <1>3, <2>1 DEF LockFree
<1>5. CASE ~ EditRead(u)
  <2>1. pc'[u] \notin {"read", "lock"}
    BY <1>5 DEF Step, EditStep, LockMetadata, SaveWorkspace, SaveStep, SaveOnEdit,
           SaveWrite, CancelStep, Unlock, DeleteFromWorkspace, CancelRevert, CloseStep,
           CloseDelete, GrabStep, GrabAssign, GrabAssignCopy, ApproveStep, Move,
           MoveUnlock, MoveStore, MoveDrop, SetApproved, Vanished, Fail, End, Continue,
           TypeOK
  <2>2. QED
    BY <1>2, <1>3, <2>1 DEF LockFree
<1>6. QED
  BY <1>4, <1>5

LEMMA AloneInv ==
  ASSUME MaxRunning = 1, IsFiniteSet(Users)
  PROVE  Spec => [](OneRequest /\ LockFree)
<1>1. Init => OneRequest /\ LockFree
  BY DEF Init, OneRequest, LockFree
<1>2. TypeOK /\ OneRequest /\ LockFree /\ [Next]_vars => (OneRequest /\ LockFree)'
  <2>1. ASSUME NEW u \in Users, Create(u)
        PROVE  (OneRequest /\ LockFree)'
    BY <2>1 DEF Create, OneRequest, LockFree, Running
  <2>2. ASSUME Restart PROVE (OneRequest /\ LockFree)'
    BY <2>2 DEF Restart, OneRequest, LockFree
  <2>3. ASSUME OneRequest /\ LockFree, UNCHANGED vars
        PROVE  (OneRequest /\ LockFree)'
    BY <2>3 DEF OneRequest, LockFree, vars
  <2>4. QED
    BY <2>1, <2>2, <2>3, BeginsAlone, GoesOnAlone DEF Next
<1>3. QED
  BY <1>1, <1>2, TypeCorrect, PTL DEF Spec

LEMMA HandOver ==
  ASSUME TypeOK, LockFree, [Next]_vars,
         md.isLocked, md'.isLocked, md'.lockedBy # md.lockedBy
  PROVE  GrabsLock
<1>1. ~ UNCHANGED md /\ md' # Unlocked /\ ~ DeleteMetadata
  BY DEF Unlocked, TypeOK, DeleteMetadata
<1>2. ASSUME NEW u \in Users, BeginAny(u) \/ Create(u) \/ Fail(u)
      PROVE  FALSE
  <2>1. CASE Create(u)
    BY <2>1 DEF Create
  <2>2. CASE BeginAny(u) \/ Fail(u)
    BY <1>1, <2>2 DEF BeginAny, BeginEdit, BeginSave, BeginCancel, BeginClose,
                      BeginGrab, BeginApprove, Fail, End, rows
  <2>3. QED
    BY <1>2, <2>1, <2>2
<1>3. ASSUME NEW u \in Users, Step(u)
      PROVE  GrabAssign(u)
  <2>1. CASE EditStep(u)
    <3>1. LockMetadata(u)
      BY <1>1, <2>1 DEF EditStep, EditRead, SaveWorkspace, rows
    <3>2. pc[u] = "lock" /\ md'.lockedBy = u
      BY <3>1 DEF LockMetadata, Continue, TypeOK
    <3>3. QED
      BY <3>2 DEF LockFree
  <2>2. CASE SaveStep(u)
    BY <1>1, <2>2 DEF SaveStep, SaveOnEdit, SaveWrite
  <2>3. CASE CancelStep(u) \/ CloseStep(u)
    BY <1>1, <2>3 DEF CancelStep, CloseStep, Unlock, DeleteFromWorkspace,
                      CancelRevert, CloseDelete
  <2>4. CASE GrabStep(u)
    BY <1>1, <2>4 DEF GrabStep, GrabAssignCopy
  <2>5. CASE ApproveStep(u)
    BY <1>1, <2>5 DEF ApproveStep, Move, MoveUnlock, MoveStore, MoveDrop, SetApproved,
                      rows, TypeOK
  <2>6. CASE Vanished(u)
    BY <1>1, <2>6 DEF Vanished, End, rows
  <2>7. QED
    BY <1>3, <2>1, <2>2, <2>3, <2>4, <2>5, <2>6 DEF Step
<1>4. ~ Restart /\ ~ UNCHANGED vars
  BY <1>1 DEF Restart, rows, vars
<1>5. QED
  BY <1>2, <1>3, <1>4 DEF Next, GrabsLock

\* When requests come one after the other, and even if they fail half-way or the
\* server is restarted in between, a lock passes to another user by
\* metadata.grab.lock only: the check in metadata.edit is enough.
THEOREM LockKept ==
  ASSUME MaxRunning = 1, IsFiniteSet(Users)
  PROVE  Spec => LockHandedOver
<1>1. TypeOK /\ LockFree /\ [Next]_vars
        => [md.isLocked /\ md'.isLocked /\ md'.lockedBy # md.lockedBy
              => GrabsLock]_vars
  BY HandOver
<1>2. Spec => [](OneRequest /\ LockFree)
  BY AloneInv
<1>3. QED
  BY <1>1, <1>2, TypeCorrect, PTL DEF Spec, LockHandedOver

--------------------------------------------------------------------------------
(***************************************************************************)
(* What is validated, when requests come one after the other.              *)
(***************************************************************************)
\* The copies that the gate does not look at hold nothing new, and nothing is
\* left behind by a deleted record.
PristineInv ==
  /\ ws # None /\ ~ValidatesWorkspace(CurrentStatus(history)) => ws.data = md.data
  /\ ~exists => ws = None

\* What a request relies on between two of its commits.
CheckedInv ==
  \A u \in Users :
    /\ pc[u] = "write" => CurrentStatus(history) = "DRAFT"
    /\ pc[u] \in {"revert", "setApproved"} => ws = None
    /\ pc[u] = "move" => local[u].checked = ContentToValidate
    /\ pc[u] \in {"moveUnlock", "moveStore"} => local[u].checked = local[u].moved

LEMMA StepsOfOne ==
  ASSUME TypeOK, OneRequest, NEW u \in Users, Step(u) \/ Fail(u)
  PROVE  pc[u] # "idle" /\ \A v \in Users : v # u => pc[v] = "idle" /\ pc'[v] = "idle"
<1>1. pc[u] # "idle"
  BY DEF Step, EditStep, EditRead, LockMetadata, SaveWorkspace, SaveStep, SaveOnEdit,
         SaveWrite, CancelStep, Unlock, DeleteFromWorkspace, CancelRevert, CloseStep,
         CloseDelete, GrabStep, GrabAssign, GrabAssignCopy, ApproveStep, Move,
         MoveUnlock, MoveStore, MoveDrop, SetApproved, Vanished, Fail, End, Continue
<1>2. QED
  BY <1>1, OneRequestMoves DEF OneRequest

LEMMA BeginsChecked ==
  ASSUME MaxRunning = 1, IsFiniteSet(Users), TypeOK, PristineInv,
         NEW u \in Users, BeginAny(u)
  PROVE  (PristineInv /\ CheckedInv)'
<1>1. UNCHANGED rows
  BY DEF BeginAny, BeginEdit, BeginSave, BeginCancel, BeginClose, BeginGrab,
     BeginApprove
<1>2. PristineInv'
  BY <1>1 DEF PristineInv, rows
<1>3. PICK next : Begin(u, next)
  BY DEF BeginAny, BeginEdit, BeginSave, BeginCancel, BeginClose, BeginGrab,
     BeginApprove
<1>4. \A v \in Users : v # u => pc'[v] = "idle"
  BY <1>3, NoneRunning DEF Begin, TypeOK
<1>5. CASE BeginApprove(u)
  <2>1. pc'[u] = "move" /\ local'[u].checked = ContentToValidate
    BY <1>5 DEF BeginApprove, Begin, TypeOK
  <2>2. ContentToValidate' = ContentToValidate
    BY <1>1 DEF ContentToValidate, rows
  <2>3. QED
    BY <1>2, <1>4, <2>1, <2>2 DEF CheckedInv
<1>6. CASE ~BeginApprove(u)
  <2>1. pc'[u] \in {"read", "onEdit", "unlock", "discard", "closeUnlock", "assign"}
    BY <1>6 DEF BeginAny, BeginEdit, BeginSave, BeginCancel, BeginClose, BeginGrab,
       Begin,
                TypeOK
  <2>2. QED
    BY <1>2, <1>4, <2>1 DEF CheckedInv
<1>7. QED
  BY <1>5, <1>6

LEMMA StepChecked ==
  ASSUME MinorEdits = FALSE, Inv, OneRequest, PristineInv, CheckedInv,
         NEW u \in Users, Step(u)
  PROVE  (PristineInv /\ CheckedInv)'
<1> USE DEF Inv
<1>1. \A v \in Users : v # u => pc'[v] = "idle"
  BY StepsOfOne
\* The steps that leave the status and both documents alone, or drop the copy.
<1>2. ASSUME pc'[u] \in {"idle", "lock", "copy", "onEdit", "drop", "closeDrop", "discard",
                         "delete", "assign", "assignCopy", "moveDrop"},
             PristineInv'
      PROVE  (PristineInv /\ CheckedInv)'
  BY <1>1, <1>2 DEF CheckedInv
<1>3. ASSUME NEW here, NEW next, Continue(u, here, next)
      PROVE  pc[u] = here /\ pc'[u] = next /\ exists
  BY <1>3 DEF Continue, TypeOK
<1>4. CASE EditStep(u)
  <2>1. pc'[u] \in {"idle", "lock", "copy"}
    BY <1>3, <1>4 DEF EditStep, EditRead, LockMetadata, SaveWorkspace
  <2>2. PristineInv'
    <3>1. CASE EditRead(u)
      BY <3>1 DEF EditRead, rows, PristineInv
    <3>2. CASE LockMetadata(u)
      <4>1. md'.data = md.data
        BY <3>2 DEF LockMetadata, TypeOK
      <4>2. QED
        BY <3>2, <4>1 DEF LockMetadata, PristineInv
    <3>3. CASE SaveWorkspace(u)
      <4>1. exists /\ UNCHANGED << exists, md, history >>
        BY <1>3, <3>3 DEF SaveWorkspace
      <4>2. (ws # None /\ ws' = ws) \/ (ws = None /\ ws'.data = md.data)
        BY <3>3 DEF SaveWorkspace
      <4>3. QED
        BY <4>1, <4>2 DEF PristineInv
    <3>4. QED
      BY <1>4, <3>1, <3>2, <3>3 DEF EditStep
  <2>3. QED
    BY <1>2, <2>1, <2>2
<1>5. CASE SaveStep(u)
  <2>1. ASSUME SaveOnEdit(u, FALSE)
        PROVE  (PristineInv /\ CheckedInv)'
    <3>1. CurrentStatus(history') = "DRAFT"
      BY <2>1 DEF SaveOnEdit, OnEdit, SetStatus, CurrentStatus, NoStatus
    <3>2. PristineInv'
      BY <1>3, <2>1, <3>1 DEF SaveOnEdit, PristineInv, ValidatesWorkspace
    <3>3. pc'[u] = "write"
      BY <1>3, <2>1 DEF SaveOnEdit
    <3>4. QED
      BY <1>1, <3>1, <3>2, <3>3 DEF CheckedInv
  <2>2. CASE SaveWrite(u)
    <3>1. /\ pc[u] = "write" /\ pc'[u] = "idle" /\ exists
          /\ UNCHANGED << exists, history >>
      BY <1>3, <2>2 DEF SaveWrite
    <3>2. ValidatesWorkspace(CurrentStatus(history))
      BY <3>1 DEF CheckedInv, ValidatesWorkspace
    <3>3. PristineInv'
      BY <3>1, <3>2 DEF PristineInv
    <3>4. QED
      BY <1>2, <3>1, <3>3
  <2>3. QED
    BY <1>5, <2>1, <2>2 DEF SaveStep
<1>6. ASSUME NEW here, NEW next, Unlock(u, here, next)
      PROVE  PristineInv'
  <2>1. md'.data = md.data
    BY <1>6 DEF Unlock, Unlocked, TypeOK
  <2>2. QED
    BY <1>6, <2>1 DEF Unlock, PristineInv
<1>7. ASSUME NEW here, NEW next, DeleteFromWorkspace(u, here, next)
      PROVE  PristineInv' /\ ws' = None
  BY <1>7 DEF DeleteFromWorkspace, PristineInv
<1>8. CASE CancelStep(u)
  <2>1. CASE Unlock(u, "unlock", "drop")
    <3>1. pc'[u] = "drop"
      BY <1>3, <2>1 DEF Unlock
    <3>2. QED
      BY <1>2, <1>6, <2>1, <3>1
  <2>2. CASE DeleteFromWorkspace(u, "drop", "revert")
    <3>1. pc'[u] = "revert"
      BY <1>3, <2>2 DEF DeleteFromWorkspace
    <3>2. QED
      BY <1>1, <1>7, <2>2, <3>1 DEF CheckedInv
  <2>3. CASE CancelRevert(u)
    <3>1. pc'[u] = "idle" /\ ws = None
      BY <1>3, <2>3 DEF CancelRevert, CheckedInv
    <3>2. PristineInv'
      BY <1>3, <2>3, <3>1 DEF CancelRevert, DeleteMetadata, PristineInv
    <3>3. QED
      BY <1>2, <3>1, <3>2
  <2>4. QED
    BY <1>8, <2>1, <2>2, <2>3 DEF CancelStep
<1>9. CASE CloseStep(u)
  <2>1. CASE Unlock(u, "closeUnlock", "closeDrop")
    <3>1. pc'[u] = "closeDrop"
      BY <1>3, <2>1 DEF Unlock
    <3>2. QED
      BY <1>2, <1>6, <2>1, <3>1
  <2>2. CASE DeleteFromWorkspace(u, "closeDrop", "idle") \/ DeleteFromWorkspace(u, "discard", "delete")
    <3>1. pc'[u] \in {"idle", "delete"}
      BY <1>3, <2>2 DEF DeleteFromWorkspace
    <3>2. QED
      BY <1>2, <1>7, <2>2, <3>1
  <2>3. CASE CloseDelete(u)
    <3>1. pc'[u] = "idle" /\ PristineInv'
      BY <1>3, <2>3 DEF CloseDelete, DeleteMetadata, PristineInv
    <3>2. QED
      BY <1>2, <3>1
  <2>4. QED
    BY <1>9, <2>1, <2>2, <2>3 DEF CloseStep
<1>10. CASE GrabStep(u)
  <2>1. pc'[u] \in {"idle", "assignCopy"}
    BY <1>3, <1>10 DEF GrabStep, GrabAssign, GrabAssignCopy
  <2>2. UNCHANGED << exists, history >> /\ md'.data = md.data
    BY <1>10 DEF GrabStep, GrabAssign, GrabAssignCopy, TypeOK
  <2>3. (ws = None /\ ws' = None) \/ (ws # None /\ ws'.data = ws.data /\ exists)
    <3>1. ws # None => ws \in WorkspaceRow
      BY DEF TypeOK
    <3>2. QED
      BY <1>3, <1>10, <3>1 DEF GrabStep, GrabAssign, GrabAssignCopy, WorkspaceRow
  <2>4. PristineInv'
    BY <2>2, <2>3 DEF PristineInv
  <2>5. QED
    BY <1>2, <2>1, <2>4
<1>11. CASE ApproveStep(u)
  <2>1. CASE Move(u)
    <3>1. UNCHANGED rows /\ pc[u] = "move" /\ local[u].checked = ContentToValidate
      BY <1>3, <2>1 DEF Move, CheckedInv
    <3>2. PristineInv'
      BY <3>1 DEF PristineInv, rows
    <3>3. CASE ws = None
      BY <1>1, <1>3, <2>1, <3>1, <3>2, <3>3 DEF Move, CheckedInv, rows
    <3>4. CASE ws # None
      <4>1. pc'[u] = "moveUnlock" /\ local'[u].moved = ws.data /\ local'[u].checked = local[u].checked
        BY <1>3, <2>1, <3>4 DEF Move, TypeOK
      <4>2. ContentToValidate = ws.data
        BY <3>4 DEF ContentToValidate, PristineInv
      <4>3. QED
        BY <1>1, <3>1, <3>2, <4>1, <4>2 DEF CheckedInv
    <3>5. QED
      BY <3>3, <3>4
  <2>2. CASE MoveUnlock(u)
    <3>1. /\ pc[u] = "moveUnlock" /\ pc'[u] = "moveStore" /\ local' = local
          /\ md'.data = md.data /\ UNCHANGED << exists, ws, history >>
      BY <1>3, <2>2 DEF MoveUnlock, Unlocked, TypeOK
    <3>2. PristineInv'
      BY <3>1 DEF PristineInv
    <3>3. QED
      BY <1>1, <3>1, <3>2 DEF CheckedInv
  <2>3. CASE MoveStore(u)
    <3>1. /\ pc[u] = "moveStore" /\ pc'[u] = "moveDrop" /\ md'.data = local[u].moved
          /\ UNCHANGED << exists, ws, history >>
      BY <1>3, <2>3 DEF MoveStore, TypeOK
    <3>2. ws.data = local[u].moved
      BY <3>1 DEF MoveInv, Moving
    <3>3. PristineInv'
      BY <3>1, <3>2 DEF PristineInv
    <3>4. QED
      BY <1>2, <3>1, <3>3
  <2>4. CASE MoveDrop(u)
    <3>1. pc'[u] = "setApproved" /\ ws' = None
      BY <1>3, <2>4 DEF MoveDrop
    <3>2. QED
      BY <1>1, <3>1 DEF CheckedInv, PristineInv
  <2>5. CASE SetApproved(u)
    <3>1. pc'[u] = "idle" /\ ws = None /\ ws' = None
      BY <1>3, <2>5 DEF SetApproved, CheckedInv
    <3>2. PristineInv'
      BY <3>1 DEF PristineInv
    <3>3. QED
      BY <1>2, <3>1, <3>2
  <2>6. QED
    BY <1>11, <2>1, <2>2, <2>3, <2>4, <2>5 DEF ApproveStep
<1>12. CASE Vanished(u)
  <2>1. pc'[u] = "idle" /\ PristineInv'
    BY <1>12 DEF Vanished, End, rows, PristineInv, TypeOK
  <2>2. QED
    BY <1>2, <2>1
<1>13. QED
  BY <1>4, <1>5, <1>8, <1>9, <1>10, <1>11, <1>12 DEF Step

LEMMA CheckedHolds ==
  ASSUME MaxRunning = 1, IsFiniteSet(Users), MinorEdits = FALSE
  PROVE  Spec => [](PristineInv /\ CheckedInv)
<1>1. Init => PristineInv /\ CheckedInv
  BY DEF Init, PristineInv, CheckedInv
<1>2. Inv /\ OneRequest /\ PristineInv /\ CheckedInv /\ [Next]_vars
        => (PristineInv /\ CheckedInv)'
  <2>. SUFFICES ASSUME Inv, OneRequest, PristineInv, CheckedInv, [Next]_vars
                PROVE  (PristineInv /\ CheckedInv)'
    OBVIOUS
  <2>0. TypeOK
    BY DEF Inv
  <2>1. ASSUME NEW u \in Users, Create(u)
        PROVE  (PristineInv /\ CheckedInv)'
    <3>1. ws' = None /\ \A v \in Users : pc'[v] = "idle"
      BY <2>1 DEF Create, Running, PristineInv
    <3>2. QED
      BY <3>1 DEF PristineInv, CheckedInv
  <2>2. ASSUME NEW u \in Users, Fail(u)
        PROVE  (PristineInv /\ CheckedInv)'
    <3>1. UNCHANGED rows /\ \A v \in Users : pc'[v] = "idle"
      BY <2>0, <2>2, StepsOfOne DEF Fail, End, TypeOK
    <3>2. QED
      BY <3>1 DEF PristineInv, CheckedInv, rows
  <2>3. CASE Restart
    BY <2>3 DEF Restart, PristineInv, CheckedInv, rows
  <2>4. CASE UNCHANGED vars
    BY <2>4 DEF PristineInv, CheckedInv, vars, ContentToValidate
  <2>5. QED
    BY <2>0, <2>1, <2>2, <2>3, <2>4, BeginsChecked, StepChecked DEF Next
<1>3. Spec => []OneRequest
  BY AloneInv, PTL
<1>4. QED
  BY <1>1, <1>2, <1>3, InvHolds, PTL DEF Spec

\* When requests come one after the other and clients save no minor edits, what
\* an approval stores in the published row is the document that its gate has
\* validated, wherever earlier requests have failed.
THEOREM ValidatedIsPublished ==
  ASSUME MaxRunning = 1, IsFiniteSet(Users), MinorEdits = FALSE
  PROVE  Spec => PublishesWhatWasValidated
<1>1. TypeOK /\ CheckedInv
        => [\A u \in Users : MoveStore(u) => md'.data = local[u].checked]_vars
  <2>. SUFFICES ASSUME TypeOK, CheckedInv, NEW u \in Users, MoveStore(u)
                PROVE  md'.data = local[u].checked
    OBVIOUS
  <2>1. pc[u] = "moveStore" /\ md'.data = local[u].moved
    BY DEF MoveStore, Continue, TypeOK
  <2>2. QED
    BY <2>1 DEF CheckedInv
<1>2. Spec => [](PristineInv /\ CheckedInv)
  BY CheckedHolds
<1>3. QED
  BY <1>1, <1>2, TypeCorrect, PTL DEF PublishesWhatWasValidated
================================================================================
