------------------------------ MODULE EditorClient -----------------------------
(***************************************************************************)
(* The metadata editor of the web client: the panel of EditorPanel.js with *)
(* the form of a record, the calls that it and the buttons in the form     *)
(* (EditorTools.js) make to the server, and what the server keeps of the   *)
(* record that is edited: a document in the HTTP session, whose elements   *)
(* are numbered, and the copy in table Workspace (module EditSession).     *)
(*                                                                         *)
(* The form refers to elements by their numbers.  Every load numbers the   *)
(* document anew; adding or removing an element keeps the other numbers.   *)
(* A save posts every field of the form, what was typed in it or not.      *)
(* Calls are asynchronous: the server may handle them, and the answers may *)
(* come back, in any order; two about elements may be handled at a time.   *)
(***************************************************************************)
EXTENDS Naturals

CONSTANTS
  Records,
  None,        \* no record
  Values,      \* what the user may type, each in a field of its own
  Changes,     \* the elements and attributes that the user may add, remove or move
  MaxCalls     \* bound: calls

ASSUME RecordsAssumption == Records # {} /\ None \notin Records
ASSUME EditsAssumption == Values \cap Changes = {}
ASSUME BoundAssumption == MaxCalls \in Nat

VARIABLES
  panel,       \* what the main panel shows
  visible,     \* whether the editor's window is there
  calls,       \* the calls that are under way
  issued,      \* number of calls so far
  edits,       \* what the user has done so far
  records,     \* the records that there are
  session,     \* the document of each record in the HTTP session
  workspace,   \* the edits that the copy of each record contains
  numbering,   \* the last numbering of a document
  racing,      \* auxiliary: a load was under way together with another call, or two
               \* calls about elements were handled at a time, and nothing has been
               \* loaded alone since
  stuck,       \* auxiliary: a load has ended without any effect on the panel
  excused      \* auxiliary: edits given up by the user, or by a failure

client == << panel, visible >>
network == << calls, issued >>
server == << records, session, workspace, numbering >>
auxiliary == << racing, stuck, excused >>
vars == << client, network, edits, server, auxiliary >>

Edits == Values \cup Changes
Numberings == 0 .. MaxCalls + 1

\* In place of the numbers that a failing save has taken from a document.
Unnumbered == MaxCalls + 2

\* metadata.edit, update.new, update.forget.new and processing.new answer with a
\* form; update.finish and update.forgetandfinish end the editing.  "add" stands for
\* adding an element or an attribute and for removing an attribute, after which the
\* whole form is saved; "remove" for removing and for moving an element, which
\* changes the form in place.
Loads == {"edit", "save", "reset", "process"}
Closes == {"finish", "cancel"}
Elements == {"add", "remove"}
Operations == Loads \cup Closes \cup Elements

Panel(kind, r, n, shown, typed) ==
  [kind |-> kind, record |-> r, refs |-> n, shown |-> shown, typed |-> typed]

Loading == Panel("loading", None, 0, {}, {})
Empty == Panel("empty", None, 0, {}, {})
Form(r, n, shown) == Panel("form", r, n, shown, {})

NoDocument == [refs |-> 0, edits |-> {}]

Call == [id : 1 .. MaxCalls, op : Operations, record : Records \cup {None},
         refs : Numberings, shown : SUBSET Edits, typed : SUBSET Edits,
         state : {"sent", "done", "failed", "abandoned"},
         read : [refs : Numberings, edits : SUBSET Edits],
         answer : [refs : Numberings, edits : SUBSET Edits]]

TypeOK ==
  /\ panel \in [kind : {"empty", "loading", "form"}, record : Records \cup {None},
                refs : Numberings, shown : SUBSET Edits, typed : SUBSET Edits]
  /\ panel.kind = "form" <=> panel.record # None
  /\ visible \in BOOLEAN
  /\ calls \subseteq Call
  /\ issued \in 0 .. MaxCalls
  /\ edits \subseteq Edits
  /\ records \subseteq Records
  /\ session \in [Records -> [refs : Numberings \cup {Unnumbered}, edits : SUBSET Edits]]
  /\ workspace \in [Records -> SUBSET Edits]
  /\ numbering \in Numberings
  /\ racing \in BOOLEAN
  /\ stuck \in BOOLEAN
  /\ excused \subseteq Edits

\* The editor has just been opened for a record.
First == CHOOSE r \in Records : TRUE

Init ==
  /\ panel = Form(First, 1, {})
  /\ visible = TRUE
  /\ calls = {}
  /\ issued = 0
  /\ edits = {}
  /\ records = Records
  /\ session = [r \in Records |->
                  IF r = First THEN [NoDocument EXCEPT !.refs = 1] ELSE NoDocument]
  /\ workspace = [r \in Records |-> {}]
  /\ numbering = 1
  /\ racing = FALSE
  /\ stuck = FALSE
  /\ excused = {}

--------------------------------------------------------------------------------
(***************************************************************************)
(* What the user does.  A load replaces the form by "loading" at once, so  *)
(* that it carries what was typed and nothing can be typed meanwhile; the  *)
(* toolbar stays, and what it sends without a form has no parameters.  An  *)
(* element call leaves the form where it is.                               *)
(***************************************************************************)
NewCall(id, op, r, typed) ==
  [id |-> id, op |-> op, record |-> r, refs |-> panel.refs, shown |-> panel.shown,
   typed |-> typed, state |-> "sent", read |-> NoDocument, answer |-> NoDocument]

\* An element that has been added is followed by a save.
Issue(op) ==
  /\ issued' = issued + (IF op = "add" THEN 2 ELSE 1)
  /\ issued' <= MaxCalls

Send(c, others) ==
  /\ calls' = others \cup {c}
  /\ racing' = IF others = {} THEN racing /\ c.op \notin {"edit", "reset", "process"}
               ELSE racing \/ \E d \in calls' : d.op \notin Elements

\* Mutant: the form stays under the word "loading".
LoadUrlBehindMask(c, others) ==
  /\ Send(c, others)
  /\ panel' = [panel EXCEPT !.kind = "loading"]
  /\ stuck' = FALSE

LoadUrl(c, others) ==
  /\ Send(c, others)
  /\ panel' = Loading
  /\ stuck' = FALSE

Toolbar(op) ==
  /\ visible
  /\ Issue(op)
  /\ LoadUrl(NewCall(issued', op, panel.record, panel.typed), calls)
  /\ UNCHANGED << visible, edits, server, excused >>

\* The editor may be open for another record.
Open(r) ==
  /\ Issue("edit")
  /\ LoadUrl(NewCall(issued', "edit", r, {}), calls)
  /\ visible' = TRUE
  /\ excused' = excused \cup panel.typed
  /\ UNCHANGED << edits, server >>

\* A process of the suggestions: the form is not posted.
Process ==
  /\ visible
  /\ panel.kind = "form"
  /\ Issue("process")
  /\ LoadUrl(NewCall(issued', "process", panel.record, {}), calls)
  /\ excused' = excused \cup panel.typed
  /\ UNCHANGED << visible, edits, server >>

Edit(e) ==
  /\ visible
  /\ panel.kind = "form"
  /\ e \notin edits
  /\ edits' = edits \cup {e}

Type(e) ==
  /\ Edit(e)
  /\ panel' = [panel EXCEPT !.typed = @ \cup {e}]
  /\ UNCHANGED << visible, network, server, auxiliary >>

Element(op, e) ==
  /\ Edit(e)
  /\ Issue(op)
  /\ Send(NewCall(issued + 1, op, panel.record, {e}), calls)
  /\ UNCHANGED << client, server, stuck, excused >>

CloseWindow ==
  /\ visible
  /\ visible' = FALSE
  /\ UNCHANGED << panel, network, edits, server, auxiliary >>

User ==
  \/ \E op \in {"save", "reset"} \cup Closes : Toolbar(op)
  \/ \E r \in Records : Open(r)
  \/ \E e \in Values : Type(e)
  \/ \E op \in Elements, e \in Changes : Element(op, e)
  \/ Process \/ CloseWindow

--------------------------------------------------------------------------------
(***************************************************************************)
(* What the server does with a call.  One that the client has given up is  *)
(* handled all the same.                                                   *)
(***************************************************************************)
Unhandled(c) == c.state \in {"sent", "abandoned"}

Handled(c, state, answer) ==
  calls' = (calls \ {c}) \cup
             (IF c.state = "abandoned" THEN {}
              ELSE {[c EXCEPT !.state = state, !.answer = answer]})

\* Mutant: the numbers of the session's document are kept.
NumberedOnce(c, content) ==
  LET document == [refs |-> numbering + 1, edits |-> content]
  IN  /\ numbering' = numbering + 1
      /\ UNCHANGED session
      /\ Handled(c, "done", document)

\* A document is put into the session with new numbers.
Numbered(c, content) ==
  LET document == [refs |-> numbering + 1, edits |-> content]
  IN  /\ numbering' = numbering + 1
      /\ session' = [session EXCEPT ![c.record] = document]
      /\ Handled(c, "done", document)

\* What is in the session and in the copies.
Stored == UNION { session[r].edits \cup workspace[r] : r \in Records }

Lost(c) == (c.typed \cup Stored) \ Stored'

GivenUp(c) == excused' = excused \cup Lost(c)

LostInRace(c) == excused' = excused \cup (IF racing THEN Lost(c) ELSE {})

HandleLoad(c) ==
  /\ c.op \in {"edit", "reset", "process"}
  /\ c.record \in records
  /\ Numbered(c, workspace[c.record])
  /\ UNCHANGED << records, workspace >>
  /\ GivenUp(c)

InSession(c) == c.record \in records /\ session[c.record].refs # 0

\* What the document of the session becomes: every field of the form is set, those of
\* another tab are not.  Numbers that the document does not have are passed over, and
\* those of an earlier document may belong to other elements.
Applied(c) ==
  LET document == session[c.record]
      posted == (c.shown \cap Values) \cup c.typed
  IN  { after \in SUBSET (posted \cup document.edits) :
          /\ c.refs = document.refs => posted \cup (document.edits \ Values) \subseteq after
          /\ document.refs = Unnumbered => after = document.edits }

HandleSave(c) ==
  /\ c.op = "save"
  /\ InSession(c)
  /\ \E after \in Applied(c) : /\ workspace' = [workspace EXCEPT ![c.record] = after]
                              /\ Numbered(c, after)
  /\ UNCHANGED records
  /\ LostInRace(c)

HandleFinish(c) ==
  /\ c.op = "finish"
  /\ InSession(c)
  /\ \E after \in Applied(c) : workspace' = [workspace EXCEPT ![c.record] = after]
  /\ session' = [session EXCEPT ![c.record] = NoDocument]
  /\ Handled(c, "done", NoDocument)
  /\ UNCHANGED << records, numbering >>
  /\ LostInRace(c)

\* An error after the form has been applied: the document of the session has been
\* changed, and its numbers have been taken from it.
FailSave(c) ==
  /\ c.op \in {"save", "finish"}
  /\ InSession(c)
  /\ \E after \in Applied(c) :
       session' = [session EXCEPT ![c.record] = [refs |-> Unnumbered, edits |-> after]]
  /\ Handled(c, "failed", NoDocument)
  /\ UNCHANGED << records, workspace, numbering >>
  /\ excused' = excused \cup c.typed \cup (IF racing THEN Lost(c) ELSE {})

\* The copy of a record that is approved or retired is deleted, and so is a record that
\* has just been created.
HandleCancel(c) ==
  /\ c.op = "cancel"
  /\ c.record # None
  /\ session' = [session EXCEPT ![c.record] = NoDocument]
  /\ \/ UNCHANGED << records, workspace >>
     \/ /\ workspace' = [workspace EXCEPT ![c.record] = {}]
        /\ records' \in {records, records \ {c.record}}
  /\ Handled(c, "done", NoDocument)
  /\ UNCHANGED numbering
  /\ GivenUp(c)

\* Calls about elements exclude nobody: the document is read and, once changed, stored
\* as a copy.
ReadElement(c) ==
  /\ c.op \in Elements
  /\ InSession(c)
  /\ c.read.refs = 0
  /\ session[c.record].refs # Unnumbered
  /\ calls' = (calls \ {c}) \cup {[c EXCEPT !.read = session[c.record]]}
  /\ racing' = (racing \/ \E d \in calls : d.read.refs # 0 /\ Unhandled(d))
  /\ UNCHANGED << server, excused >>

\* What others have done to the document meanwhile is in the copy or not, and so are
\* its numbers when a save has taken them.
StoreElement(c) ==
  /\ c.op \in Elements
  /\ c.read.refs # 0
  /\ \E after \in SUBSET (c.read.edits \cup session[c.record].edits \cup c.typed),
        n \in {c.read.refs, Unnumbered} :
       /\ c.read.refs = c.refs => c.read.edits \cup c.typed \subseteq after
       /\ session[c.record].refs = c.read.refs => n = c.read.refs
       /\ session' = [session EXCEPT ![c.record] = [refs |-> n, edits |-> after]]
  /\ Handled(c, "done", NoDocument)
  /\ UNCHANGED << records, workspace, numbering, racing >>
  /\ LostInRace(c)

\* No id, no record, no document in the session, no such element, or any other error.
HandleBadly(c) ==
  /\ Handled(c, "failed", NoDocument)
  /\ excused' = excused \cup c.typed
  /\ UNCHANGED server

Handle(c) ==
  /\ Unhandled(c)
  /\ \/ /\ \/ HandleLoad(c) \/ HandleSave(c) \/ HandleFinish(c) \/ HandleCancel(c)
           \/ FailSave(c) \/ HandleBadly(c)
        /\ UNCHANGED racing
     \/ ReadElement(c) \/ StoreElement(c)
  /\ UNCHANGED << client, issued, edits, stuck >>

--------------------------------------------------------------------------------
(***************************************************************************)
(* The answers in the browser.  They change the panel, whatever it shows   *)
(* by then.                                                                *)
(***************************************************************************)
Overwrite(p) ==
  /\ panel' = p
  /\ excused' = IF racing THEN excused \cup panel.typed ELSE excused

\* Mutant: the panel is left as it is.
ShowNothing(c) ==
  /\ c.op \in Loads
  /\ calls' = calls \ {c}
  /\ UNCHANGED << client, issued, auxiliary >>

ShowForm(c) ==
  /\ c.op \in Loads
  /\ Overwrite(Form(c.record, c.answer.refs, c.answer.edits))
  /\ calls' = calls \ {c}
  /\ UNCHANGED << visible, issued, racing, stuck >>

Close(c) ==
  /\ c.op \in Closes
  /\ Overwrite(Empty)
  /\ visible' = FALSE
  /\ calls' = calls \ {c}
  /\ UNCHANGED << issued, racing, stuck >>

ShowElement(c) ==
  IF panel.record = c.record /\ panel.refs = c.refs
  THEN [panel EXCEPT !.shown = @ \cup c.typed]
  ELSE panel

Removed(c) ==
  /\ c.op = "remove"
  /\ panel' = ShowElement(c)
  /\ calls' = calls \ {c}
  /\ UNCHANGED << visible, issued, auxiliary >>

\* Mutant: the record is loaded again.
LoadAfterAdding(c) ==
  /\ c.op = "add"
  /\ LoadUrl(NewCall(c.id + 1, "edit", c.record, {}), calls \ {c})
  /\ UNCHANGED << visible, issued, excused >>

\* The whole form is saved, with the new element in it, if it is still there.
SaveAfterAdding(c) ==
  /\ c.op = "add"
  /\ LoadUrl(NewCall(c.id + 1, "save", panel.record, panel.typed), calls \ {c})
  /\ UNCHANGED << visible, issued, excused >>

Answered(c) ==
  /\ c.state = "done"
  /\ ShowForm(c) \/ Close(c) \/ Removed(c) \/ SaveAfterAdding(c)
  /\ UNCHANGED << edits, server >>

\* An error page with a title is shown and then closes the editor; finish and
\* cancel close it without a word.  The errors of "add" are ignored.
Failed(c) ==
  /\ c.state = "failed"
  /\ calls' = calls \ {c}
  /\ \/ visible' = (visible /\ c.op \in Elements) /\ UNCHANGED stuck
     \/ c.op \in Loads /\ stuck' = TRUE /\ UNCHANGED visible
  /\ UNCHANGED << panel, issued, edits, server, racing, excused >>

\* Thirty seconds.  There is no error page then.
TimeOut(c) ==
  /\ c.state \in {"sent", "done"}
  /\ calls' = (calls \ {c}) \cup
                (IF c.state = "sent" THEN {[c EXCEPT !.state = "abandoned"]} ELSE {})
  /\ visible' = (visible /\ c.op \notin Closes)
  /\ stuck' = (stuck \/ c.op \in Loads)
  /\ UNCHANGED << panel, issued, edits, server, racing, excused >>

Next ==
  \/ User
  \/ \E c \in calls : Handle(c) \/ Answered(c) \/ Failed(c) \/ TimeOut(c)

Spec == Init /\ [][Next]_vars

\* The server handles its calls, and a browser notices answers.
FairSpec ==
  /\ Spec
  /\ WF_vars(\E c \in calls : Handle(c))
  /\ WF_vars(\E c \in calls : Answered(c) \/ Failed(c))

--------------------------------------------------------------------------------
(***************************************************************************)
(* What the user has done to an element is done to that element: a call is *)
(* applied to a document that has the numbers of the form it was made in,  *)
(* unless a load and another call were under way together, or two calls    *)
(* about elements were handled at a time.                                  *)
(***************************************************************************)
AppliedWhereShown ==
  [][ \A c \in calls :
        /\ c.op \in Elements \cup {"save", "finish"}
        /\ Handle(c)
        /\ session' # session
        => racing \/ c.refs = session[c.record].refs ]_vars

(***************************************************************************)
(* A form that the user can work in is the one of the session's document,  *)
(* what it shows is there, and what is in a field there it shows: posting  *)
(* all its fields overwrites nothing.                                      *)
(***************************************************************************)
FormIsCurrent ==
  visible /\ panel.kind = "form" /\ calls = {} /\ ~racing =>
    /\ panel.refs = session[panel.record].refs
    /\ panel.shown \subseteq session[panel.record].edits
    /\ session[panel.record].edits \cap Values \subseteq panel.shown

(***************************************************************************)
(* Nothing that the user has done gets lost between the form, the calls,   *)
(* the session and the workspace, unless the user gives it up (reset,      *)
(* cancel, a process, another record), its call fails, or it is lost       *)
(* after a load and another call, or two calls about elements, have met,   *)
(* and before anything is loaded alone again.                              *)
(***************************************************************************)
NothingLost ==
  \A e \in edits :
    \/ e \in excused \cup panel.typed
    \/ \E c \in calls : e \in c.typed
    \/ e \in Stored

(***************************************************************************)
(* "Loading" is followed by a form or by the end of the editor, except     *)
(* after a time-out and after an error page without a title.               *)
(***************************************************************************)
LoadingEnds ==
  visible /\ panel.kind = "loading" ~> ~visible \/ panel.kind = "form" \/ stuck
================================================================================
