----------------------------- MODULE SerialSession -----------------------------
(***************************************************************************)
(* Requests that run one after the other and to their end add up to the    *)
(* actions of StatusWorkflow.  The rows in the middle of a request are no  *)
(* state of StatusWorkflow: settled remembers those that the last finished *)
(* request left, and these are what the refinement mapping shows.          *)
(***************************************************************************)
EXTENDS EditSession

CONSTANT Group  \* the group of all the users

VARIABLE settled

State == [ exists |-> exists, md |-> md, ws |-> ws, history |-> history,
           public |-> public ]

SerialInit == Init /\ settled = State

SerialNext ==
  /\ Next
  /\ settled' = IF Running' = {} THEN State' ELSE settled

SerialSpec == SerialInit /\ [][SerialNext]_<< vars, settled >>

Workflow == INSTANCE StatusWorkflow WITH
  Groups <- {Group},
  Content <- Documents,
  Profile <- [u \in Users |-> IF u \in Reviewers THEN "Reviewer" ELSE "Editor"],
  MemberOf <- [u \in Users |-> {Group}],
  CanDeleteGroups <- {},
  Agiv <- FALSE,
  Requested <- {"APPROVED"},
  TogglesTemplate <- FALSE,
  Processing <- FALSE,
  exists <- settled.exists,
  data <- settled.md.data,
  template <- FALSE,
  lockedBy <- settled.md.lockedBy,
  owner <- settled.md.owner,
  copy <- settled.ws,
  history <- settled.history,
  public <- settled.public,
  editGroups <- IF settled.exists THEN {Group} ELSE {},
  byHand <- FALSE

\* Every request, run on its own, has the effect that StatusWorkflow gives it:
\* its commits neither leave out nor add a change of the record.
RequestsAddUp == Workflow!Spec
================================================================================
