-------------------------- MODULE EditorClient_proofs --------------------------
(***************************************************************************)
(* Theorems about the editor in the browser, for any number of records,    *)
(* calls and edits.                                                        *)
(***************************************************************************)
EXTENDS EditorClient, FiniteSetTheorems, TLAPS

(***************************************************************************)
(* The calls: their ids, and the numberings they still bring about.        *)
(***************************************************************************)
\* An addition has the next id, too: for the save that follows it.
IdsGiven ==
  \A c \in calls : c.id <= issued /\ (c.op = "add" => c.id + 1 <= issued)

IdsDiffer ==
  \A c, d \in calls : c # d => c.id # d.id /\ (d.op = "add" => c.id # d.id + 1)

\* Only what has a record gets a form as its answer.
CallsOfRecords ==
  \A c \in calls :
    c.op \in Elements \/ (c.state = "done" /\ c.op \in Loads) => c.record # None

WillNumber(c, i) ==
  \/ Unhandled(c) /\ c.op \in Loads /\ i = c.id
  \/ c.op = "add" /\ i = c.id + 1

ToNumber == { i \in 1 .. MaxCalls : \E c \in calls : WillNumber(c, i) }

NumberingInv == numbering + Cardinality(ToNumber) <= issued + 1

TypeInv == TypeOK /\ IdsGiven /\ IdsDiffer /\ CallsOfRecords /\ NumberingInv

(***************************************************************************)
(* While no load overlaps another call, and no two calls about elements    *)
(* are handled at a time: either only calls about elements are under way,  *)
(* and the form is the one of the session, or one other call is, and there *)
(* is no form.  What the workspace copy has is in the session's document,  *)
(* and what is there in a field is in the form that is posted.             *)
(***************************************************************************)
FormInv ==
  panel.kind = "form" =>
    /\ panel.refs = session[panel.record].refs
    /\ panel.shown \subseteq session[panel.record].edits
    /\ session[panel.record].edits \cap Values \subseteq panel.shown
    /\ workspace[panel.record] \subseteq session[panel.record].edits

ElementInv ==
  \A c \in calls :
    /\ c.op \in Elements
    /\ c.typed \cap Values = {}
    /\ Unhandled(c) => c.refs = session[c.record].refs
    /\ Unhandled(c) /\ c.read.refs # 0 =>
         /\ c.read = session[c.record]
         /\ \A d \in calls : Unhandled(d) /\ d.read.refs # 0 => d = c
    /\ c.state = "done" => c.typed \subseteq session[c.record].edits

LoadInv ==
  \E c \in calls :
    /\ calls = {c} /\ c.op \notin Elements /\ panel = Loading
    /\ c.state = "done" /\ c.op \in Loads =>
         session[c.record] = c.answer /\ workspace[c.record] \subseteq c.answer.edits
    /\ Unhandled(c) /\ c.op \in {"save", "finish"} /\ c.record # None =>
         /\ c.refs = session[c.record].refs
         /\ session[c.record].edits \cap Values \subseteq c.shown
         /\ workspace[c.record] \subseteq session[c.record].edits

CalmInv == racing \/ (FormInv /\ ElementInv) \/ LoadInv

(***************************************************************************)
(* Where an edit is as long as the server has not handled its call, and    *)
(* afterwards.                                                             *)
(***************************************************************************)
KeptInv ==
  \A e \in edits :
    \/ e \in excused \cup panel.typed
    \/ \E c \in calls : Unhandled(c) /\ e \in c.typed
    \/ e \in Stored

Documents == [refs : Numberings, edits : SUBSET Edits]

Kept == [refs : Numberings \cup {Unnumbered}, edits : SUBSET Edits]
--------------------------------------------------------------------------------
(***************************************************************************)
(* Counting the numberings.                                                *)
(***************************************************************************)
LEMMA NumbersCounted ==
  /\ IsFiniteSet(ToNumber) /\ Cardinality(ToNumber) \in Nat
  /\ IsFiniteSet(ToNumber') /\ Cardinality(ToNumber') \in Nat
<1>1. IsFiniteSet(1 .. MaxCalls)
  BY BoundAssumption, FS_Interval
<1>2. ToNumber \subseteq 1 .. MaxCalls /\ ToNumber' \subseteq 1 .. MaxCalls
  BY DEF ToNumber
<1>3. QED
  BY <1>1, <1>2, FS_Subset, FS_CardinalityType

LEMMA CountKept ==
  ASSUME TypeInv, numbering' = numbering, issued' \in Nat,
         NEW i, ToNumber' \subseteq ToNumber \cup {i},
         \/ ToNumber' \subseteq ToNumber /\ issued' = issued
         \/ issued' >= issued + 1
  PROVE  NumberingInv'
<1>1. numbering \in Nat /\ issued \in Nat /\ numbering + Cardinality(ToNumber) <= issued + 1
  BY BoundAssumption DEF TypeInv, TypeOK, Numberings, NumberingInv
<1>2. CASE ToNumber' \subseteq ToNumber /\ issued' = issued
  <2>1. Cardinality(ToNumber') <= Cardinality(ToNumber)
    BY <1>2, NumbersCounted, FS_Subset
  <2>2. QED
    BY <1>1, <1>2, <2>1, NumbersCounted DEF NumberingInv
<1>3. CASE issued' >= issued + 1
  <2>1. /\ IsFiniteSet(ToNumber \cup {i})
        /\ Cardinality(ToNumber \cup {i}) <= Cardinality(ToNumber) + 1
    <3>1. CASE i \in ToNumber
      <4>1. ToNumber \cup {i} = ToNumber
        BY <3>1
      <4>2. QED
        BY <4>1, NumbersCounted
    <3>2. CASE i \notin ToNumber
      <4>1. /\ IsFiniteSet(ToNumber \cup {i})
            /\ Cardinality(ToNumber \cup {i}) = Cardinality(ToNumber) + 1
        BY <3>2, NumbersCounted, FS_AddElement
      <4>2. QED
        BY <4>1, NumbersCounted
    <3>3. QED
      BY <3>1, <3>2
  <2>2. Cardinality(ToNumber') <= Cardinality(ToNumber \cup {i})
    BY <2>1, FS_Subset
  <2>3. Cardinality(ToNumber \cup {i}) \in Nat
    BY <2>1, FS_CardinalityType
  <2>4. QED
    BY <1>1, <1>3, <2>1, <2>2, <2>3, NumbersCounted DEF NumberingInv
<1>4. QED
  BY <1>2, <1>3

LEMMA CountNumbered ==
  ASSUME TypeInv, numbering' = numbering + 1, issued' = issued,
         NEW i \in ToNumber, ToNumber' \subseteq ToNumber, i \notin ToNumber'
  PROVE  NumberingInv' /\ numbering' \in Numberings
<1>1. /\ numbering \in Nat /\ issued \in 0 .. MaxCalls /\ MaxCalls \in Nat
      /\ numbering + Cardinality(ToNumber) <= issued + 1
  BY BoundAssumption DEF TypeInv, TypeOK, Numberings, NumberingInv
<1>2. IsFiniteSet(ToNumber \ {i}) /\ Cardinality(ToNumber \ {i}) = Cardinality(ToNumber) - 1
  BY NumbersCounted, FS_RemoveElement
<1>3. Cardinality(ToNumber') <= Cardinality(ToNumber \ {i})
  BY <1>2, FS_Subset
<1>4. NumberingInv'
  BY <1>1, <1>2, <1>3, NumbersCounted DEF NumberingInv
<1>5. numbering' <= issued' + 1
  BY <1>1, <1>4, NumbersCounted DEF NumberingInv
<1>6. QED
  BY <1>1, <1>4, <1>5 DEF Numberings
--------------------------------------------------------------------------------
(***************************************************************************)
(* The calls: a new one is added, one is replaced or taken away, and the   *)
(* save follows an addition.                                               *)
(***************************************************************************)
\* What the ids of the calls are good for.
IdsInv == IdsGiven /\ IdsDiffer

LEMMA CallFields ==
  ASSUME TypeOK, NEW c \in calls
  PROVE  /\ c \in Call /\ c.id \in 1 .. MaxCalls /\ c.op \in Operations
         /\ c.record \in Records \cup {None} /\ c.refs \in Numberings
         /\ c.typed \in SUBSET Edits /\ c.shown \in SUBSET Edits
         /\ c.read \in Documents
         /\ c.state \in {"sent", "done", "failed", "abandoned"}
         /\ c.answer \in Documents
         /\ MaxCalls \in Nat /\ issued \in Nat /\ issued <= MaxCalls
BY BoundAssumption DEF TypeOK, Call, Documents

LEMMA CallAdded ==
  ASSUME TypeInv, NEW c, calls' = calls \cup {c}, Issue(c.op),
         c.id = issued + 1, issued' \in Nat
  PROVE  /\ IdsInv' /\ \E i : ToNumber' \subseteq ToNumber \cup {i}
         /\ issued' >= issued + 1
<1>1. /\ issued \in Nat
      /\ \/ c.op = "add" /\ issued' = issued + 2
         \/ c.op # "add" /\ issued' = issued + 1
  BY BoundAssumption DEF Issue, TypeInv, TypeOK
<1>2. \A d \in calls : /\ d.id \in Nat /\ d.id <= issued
                       /\ d.op = "add" => d.id + 1 <= issued
  BY CallFields DEF TypeInv, IdsGiven
<1>3. IdsGiven'
  BY <1>1, <1>2 DEF IdsGiven
<1>4. IdsDiffer'
  BY <1>1, <1>2 DEF IdsDiffer, TypeInv
<1>5. ToNumber' \subseteq ToNumber \cup {issued'}
  BY <1>1 DEF ToNumber, WillNumber, Unhandled, Loads
<1>6. QED
  BY <1>1, <1>3, <1>4, <1>5 DEF IdsInv

LEMMA CallReplaced ==
  ASSUME TypeInv, NEW c \in calls, NEW new, calls' \subseteq (calls \ {c}) \cup {new},
         new.id = c.id, new.op = c.op, Unhandled(new) => Unhandled(c), issued' = issued
  PROVE  /\ IdsInv' /\ ToNumber' \subseteq ToNumber
         /\ c.op \in Loads /\ ~Unhandled(new) => c.id \notin ToNumber'
<1>1. IdsGiven'
  BY DEF IdsGiven, TypeInv
<1>2. IdsDiffer'
  BY DEF IdsDiffer, TypeInv
<1>3. ToNumber' \subseteq ToNumber
  BY DEF ToNumber, WillNumber, Unhandled
<1>4. ASSUME c.op \in Loads, ~Unhandled(new)
      PROVE  c.id \notin ToNumber'
  <2>1. c.op # "add"
    BY <1>4 DEF Loads
  <2>2. \A d \in calls \ {c} : d.id # c.id /\ (d.op = "add" => c.id # d.id + 1)
    BY DEF TypeInv, IdsDiffer
  <2>3. QED
    BY <1>4, <2>1, <2>2 DEF ToNumber, WillNumber, Unhandled
<1>5. QED
  BY <1>1, <1>2, <1>3, <1>4 DEF IdsInv

LEMMA CallFollows ==
  ASSUME TypeInv, NEW c \in calls, c.op = "add", NEW new, new.id = c.id + 1, new.op = "save",
         calls' = (calls \ {c}) \cup {new}, issued' = issued
  PROVE  IdsInv' /\ ToNumber' \subseteq ToNumber
<1>1. IdsGiven'
  BY DEF IdsGiven, TypeInv
<1>2. IdsDiffer'
  <2>1. \A d \in calls : d.id \in Nat
    BY CallFields DEF TypeInv
  <2>2. QED
    BY <2>1 DEF IdsDiffer, TypeInv
<1>3. ToNumber' \subseteq ToNumber
  BY DEF ToNumber, WillNumber, Unhandled
<1>4. QED
  BY <1>1, <1>2, <1>3 DEF IdsInv

LEMMA HandledCalls ==
  ASSUME TypeInv, NEW c \in calls, Unhandled(c), NEW state \in {"done", "failed"},
         NEW answer \in Documents,
         Handled(c, state, answer), issued' = issued
  PROVE  /\ IdsInv' /\ ToNumber' \subseteq ToNumber
         /\ c.op \in Loads => c.id \in ToNumber /\ c.id \notin ToNumber'
         /\ calls' \subseteq Call
         /\ \A d \in calls' : 
              \/ d \in calls \ {c}
              \/ /\ d.id = c.id /\ d.op = c.op /\ d.record = c.record /\ d.refs = c.refs
                 /\ d.typed = c.typed /\ d.shown = c.shown /\ d.read = c.read
                 /\ d.state = state /\ d.answer = answer
         /\ calls \ {c} \subseteq calls'
<1>. DEFINE new == [c EXCEPT !.state = state, !.answer = answer]
<1>1. c \in Call /\ calls \subseteq Call
  BY DEF TypeInv, TypeOK
<1>2. /\ new \in Call /\ new.id = c.id /\ new.op = c.op /\ new.record = c.record
      /\ new.refs = c.refs /\ new.typed = c.typed /\ new.shown = c.shown
      /\ new.read = c.read /\ new.state = state /\ new.answer = answer
  BY <1>1 DEF Call, Documents
<1>3. calls \ {c} \subseteq calls' /\ calls' \subseteq (calls \ {c}) \cup {new}
  BY DEF Handled
<1>. HIDE DEF new
<1>4. ~Unhandled(new)
  BY <1>2 DEF Unhandled
<1>5. IdsInv' /\ ToNumber' \subseteq ToNumber /\ (c.op \in Loads => c.id \notin ToNumber')
  BY <1>2, <1>3, <1>4, CallReplaced
<1>6. c.op \in Loads => c.id \in ToNumber
  BY <1>1 DEF ToNumber, WillNumber, Call
<1>7. QED
  BY <1>1, <1>2, <1>3, <1>5, <1>6
--------------------------------------------------------------------------------
(***************************************************************************)
(* Types.                                                                  *)
(***************************************************************************)
LEMMA NewCallType ==
  ASSUME TypeOK, NEW id \in 1 .. MaxCalls, NEW op \in Operations,
         NEW r \in Records \cup {None}, NEW typed \in SUBSET Edits
  PROVE  /\ NewCall(id, op, r, typed) \in Call
         /\ NewCall(id, op, r, typed).id = id /\ NewCall(id, op, r, typed).op = op
         /\ NewCall(id, op, r, typed).record = r /\ NewCall(id, op, r, typed).typed = typed
         /\ NewCall(id, op, r, typed).state = "sent"
         /\ NewCall(id, op, r, typed).refs = panel.refs
         /\ NewCall(id, op, r, typed).shown = panel.shown
         /\ NewCall(id, op, r, typed).read.refs = 0
BY BoundAssumption DEF NewCall, Call, TypeOK, NoDocument, Numberings

Panels == [kind : {"empty", "loading", "form"}, record : Records \cup {None},
           refs : Numberings, shown : SUBSET Edits, typed : SUBSET Edits]

LEMMA PanelTypes ==
  /\ Loading \in Panels /\ Loading.kind = "loading" /\ Loading.record = None
  /\ Loading.typed = {}
  /\ Empty \in Panels /\ Empty.kind = "empty" /\ Empty.record = None
  /\ \A r \in Records, n \in Numberings, shown \in SUBSET Edits :
       /\ Form(r, n, shown) \in Panels /\ Form(r, n, shown).kind = "form"
       /\ Form(r, n, shown).record = r /\ Form(r, n, shown).refs = n
       /\ Form(r, n, shown).shown = shown /\ Form(r, n, shown).typed = {}
       /\ r # None
BY RecordsAssumption, BoundAssumption
   DEF Loading, Empty, Form, Panel, Panels, Numberings

LEMMA DocumentTypes ==
  ASSUME TypeOK
  PROVE  /\ session \in [Records -> Kept] /\ workspace \in [Records -> SUBSET Edits]
         /\ records \in SUBSET Records
         /\ NoDocument \in Documents /\ NoDocument.refs = 0 /\ NoDocument.edits = {}
         /\ Documents \subseteq Kept /\ Unnumbered \notin Numberings
         /\ \A r \in Records : /\ session[r] \in Kept
                               /\ session[r].refs \in Numberings \cup {Unnumbered}
                               /\ session[r].edits \in SUBSET Edits
                               /\ workspace[r] \in SUBSET Edits
BY BoundAssumption DEF TypeOK, NoDocument, Numberings, Unnumbered, Documents, Kept

\* All that is in the session and in the copies.
LEMMA StoredType ==
  ASSUME TypeOK
  PROVE  /\ Stored \in SUBSET Edits
         /\ \A r \in Records : session[r].edits \cup workspace[r] \subseteq Stored
BY DocumentTypes DEF Stored

LEMMA IssueType ==
  ASSUME TypeOK, NEW op, Issue(op)
  PROVE  /\ issued' \in 0 .. MaxCalls /\ issued' \in 1 .. MaxCalls
         /\ issued + 1 \in 1 .. MaxCalls
         /\ op # "add" => issued' = issued + 1
BY BoundAssumption DEF TypeOK, Issue

LEMMA InitType ==
  ASSUME Init
  PROVE  TypeInv
<1>1. First \in Records
  BY RecordsAssumption DEF First
<1>2. 0 \in Numberings /\ 1 \in Numberings
  BY BoundAssumption DEF Numberings
<1>3. panel \in Panels /\ panel.kind = "form" /\ panel.record # None
  BY <1>1, <1>2, PanelTypes DEF Init
<1>4. session \in [Records -> Kept]
  BY <1>2 DEF Init, NoDocument, Kept
<1>5. TypeOK
  <2>1. /\ calls \subseteq Call /\ issued \in 0 .. MaxCalls
        /\ edits \subseteq Edits /\ records \subseteq Records
        /\ numbering \in Numberings /\ excused \subseteq Edits
    BY <1>2, BoundAssumption DEF Init
  <2>2. workspace \in [Records -> SUBSET Edits]
    BY DEF Init
  <2>3. visible \in BOOLEAN /\ racing \in BOOLEAN /\ stuck \in BOOLEAN
    BY DEF Init
  <2>4. QED
    BY <1>3, <1>4, <2>1, <2>2, <2>3 DEF TypeOK, Panels, Kept
<1>6. NumberingInv
  <2>1. ToNumber = {}
    BY DEF Init, ToNumber
  <2>2. QED
    BY <2>1, FS_EmptySet DEF NumberingInv, Init
<1>7. QED
  BY <1>5, <1>6 DEF TypeInv, Init, IdsGiven, IdsDiffer, CallsOfRecords

\* A call of the panel is sent, and "loading" is shown.
LEMMA LoadUrlType ==
  ASSUME TypeInv, NEW op \in Operations \ Elements, NEW r \in Records \cup {None},
         NEW typed \in SUBSET Edits, Issue(op),
         LoadUrl(NewCall(issued', op, r, typed), calls),
         visible' \in BOOLEAN, excused' \in SUBSET Edits,
         UNCHANGED << edits, server >>
  PROVE  TypeInv'
<1>. DEFINE c == NewCall(issued', op, r, typed)
<1>1. TypeOK /\ op # "add" /\ issued' = issued + 1 /\ issued' \in 1 .. MaxCalls
      /\ issued' \in 0 .. MaxCalls /\ issued' \in Nat
  BY IssueType DEF TypeInv, Elements
<1>2. /\ c \in Call /\ c.id = issued + 1 /\ c.op = op /\ c.record = r /\ c.state = "sent"
  BY <1>1, NewCallType
<1>3. calls' = calls \cup {c} /\ panel' = Loading /\ stuck' = FALSE /\ racing' \in BOOLEAN
  BY <1>1 DEF LoadUrl, Send, TypeOK
<1>. HIDE DEF c
<1>4. IdsInv' /\ \E i : ToNumber' \subseteq ToNumber \cup {i}
  BY <1>1, <1>2, <1>3, CallAdded
<1>5. NumberingInv'
  BY <1>1, <1>4, CountKept DEF server
<1>6. TypeOK'
  <2>1. panel' \in Panels /\ (panel'.kind = "form" <=> panel'.record # None)
    BY <1>3, PanelTypes
  <2>2. calls' \subseteq Call
    BY <1>1, <1>2, <1>3 DEF TypeOK
  <2>3. QED
    BY <1>1, <1>3, <2>1, <2>2 DEF TypeOK, Panels, server
<1>7. CallsOfRecords'
  BY <1>2, <1>3 DEF TypeInv, CallsOfRecords
<1>8. QED
  BY <1>4, <1>5, <1>6, <1>7 DEF TypeInv, IdsInv

LEMMA UserType ==
  ASSUME TypeInv, User
  PROVE  TypeInv'
<1>0. /\ TypeOK /\ panel \in Panels /\ panel.record \in Records \cup {None}
      /\ panel.typed \in SUBSET Edits /\ excused \in SUBSET Edits
      /\ visible \in BOOLEAN
  BY DEF TypeInv, TypeOK, Panels
<1>1. ASSUME NEW op \in {"save", "reset"} \cup Closes, Toolbar(op)
      PROVE  TypeInv'
  <2>1. op \in Operations \ Elements
    BY DEF Operations, Loads, Closes, Elements
  <2>2. QED
    BY <1>0, <1>1, <2>1, LoadUrlType DEF Toolbar
<1>2. ASSUME NEW r \in Records, Open(r)
      PROVE  TypeInv'
  <2>1. "edit" \in Operations \ Elements /\ {} \in SUBSET Edits
    BY DEF Operations, Loads, Elements
  <2>2. visible' \in BOOLEAN /\ excused' \in SUBSET Edits
    BY <1>0, <1>2 DEF Open
  <2>3. QED
    BY <1>2, <2>1, <2>2, LoadUrlType DEF Open
<1>3. CASE Process
  <2>1. "process" \in Operations \ Elements /\ {} \in SUBSET Edits
    BY DEF Operations, Loads, Elements
  <2>2. visible' \in BOOLEAN /\ excused' \in SUBSET Edits
    BY <1>0, <1>3 DEF Process
  <2>3. QED
    BY <1>0, <1>3, <2>1, <2>2, LoadUrlType DEF Process
<1>4. ASSUME NEW op \in Elements, NEW e \in Changes, Element(op, e)
      PROVE  TypeInv'
  <2>. DEFINE c == NewCall(issued + 1, op, panel.record, {e})
  <2>1. {e} \in SUBSET Edits /\ edits' \in SUBSET Edits /\ panel.record # None
    BY <1>0, <1>4 DEF Element, Edit, TypeOK, Edits
  <2>2. /\ issued' \in 0 .. MaxCalls /\ issued + 1 \in 1 .. MaxCalls /\ Issue(op)
        /\ issued' \in Nat
    BY <1>0, <1>4, IssueType DEF Element
  <2>3. op \in Operations
    BY DEF Operations
  <2>4. /\ c \in Call /\ c.id = issued + 1 /\ c.op = op /\ c.record = panel.record
    BY <1>0, <2>1, <2>2, <2>3, NewCallType
  <2>5. calls' = calls \cup {c} /\ racing' \in BOOLEAN
    BY <1>0, <1>4 DEF Element, Send, TypeOK
  <2>. HIDE DEF c
  <2>6. IdsInv' /\ (\E i : ToNumber' \subseteq ToNumber \cup {i}) /\ issued' >= issued + 1
    BY <2>2, <2>4, <2>5, CallAdded
  <2>7. NumberingInv'
    BY <1>4, <2>2, <2>6, CountKept DEF Element, server
  <2>8. TypeOK'
    BY <1>0, <1>4, <2>1, <2>2, <2>4, <2>5 DEF Element, TypeOK, client, server
  <2>9. CallsOfRecords'
    BY <2>1, <2>4, <2>5 DEF TypeInv, CallsOfRecords
  <2>10. QED
    BY <2>6, <2>7, <2>8, <2>9 DEF TypeInv, IdsInv
<1>5. ASSUME NEW e \in Values, Type(e)
      PROVE  TypeInv'
  <2>1. e \in Edits /\ edits' \in SUBSET Edits
    BY <1>0, <1>5 DEF Type, Edit, TypeOK, Edits
  <2>2. panel' \in Panels /\ panel'.kind = panel.kind /\ panel'.record = panel.record
    BY <1>0, <1>5, <2>1 DEF Type, Panels
  <2>3. TypeOK'
    BY <1>0, <1>5, <2>1, <2>2 DEF Type, TypeOK, Panels, network, server, auxiliary
  <2>4. QED
    BY <1>5, <2>3 DEF TypeInv, Type, network, server, IdsGiven, IdsDiffer,
       CallsOfRecords,
                      NumberingInv, ToNumber
<1>6. CASE CloseWindow
  BY <1>0, <1>6 DEF CloseWindow, TypeInv, TypeOK, network, server, auxiliary, IdsGiven,
                    IdsDiffer, CallsOfRecords, NumberingInv, ToNumber
<1>7. QED
  BY <1>1, <1>2, <1>3, <1>4, <1>5, <1>6 DEF User

\* What the outcome of a call may be.
LEMMA AppliedType ==
  ASSUME TypeOK, NEW c \in calls, c.record \in Records, NEW after \in Applied(c)
  PROVE  /\ after \in SUBSET Edits
         /\ after \subseteq (c.shown \cap Values) \cup c.typed \cup session[c.record].edits
         /\ c.refs = session[c.record].refs =>
              (c.shown \cap Values) \cup c.typed \cup (session[c.record].edits \ Values)
                \subseteq after
<1>1. /\ c.typed \in SUBSET Edits /\ c.shown \in SUBSET Edits
      /\ session[c.record].edits \in SUBSET Edits
  BY CallFields, DocumentTypes
<1>2. QED
  BY <1>1 DEF Applied

LEMMA LostType ==
  ASSUME TypeOK, NEW c \in calls
  PROVE  Lost(c) \in SUBSET Edits
BY CallFields, StoredType DEF Lost

LEMMA HandleType ==
  ASSUME TypeInv, NEW c \in calls, Handle(c)
  PROVE  TypeInv'
<1>0. /\ TypeOK /\ Unhandled(c) /\ UNCHANGED << client, issued, edits, stuck >>
      /\ c.record \in Records \cup {None} /\ None \notin Records /\ records \in SUBSET Records
      /\ c.typed \in SUBSET Edits /\ numbering \in Nat /\ excused \in SUBSET Edits
      /\ Lost(c) \in SUBSET Edits /\ racing \in BOOLEAN /\ c \in Call
      /\ session \in [Records -> Kept] /\ workspace \in [Records -> SUBSET Edits]
  BY CallFields, LostType, RecordsAssumption, BoundAssumption, DocumentTypes
     DEF TypeInv, TypeOK, Handle, Numberings
\* The rows, the document and the numbers of an answer.
<1>1. ASSUME NEW state \in {"done", "failed"},
             NEW answer \in Documents,
             Handled(c, state, answer), racing' = racing,
             c.op \in Loads /\ state = "done" => c.record # None,
             records' \in SUBSET Records, session' \in [Records -> Kept],
             workspace' \in [Records -> SUBSET Edits], excused' \in SUBSET Edits,
             numbering' = numbering \/ (c.op \in Loads /\ numbering' = numbering + 1)
      PROVE  TypeInv'
  <2>1. issued' = issued
    BY <1>0
  <2>2. /\ IdsInv' /\ ToNumber' \subseteq ToNumber
        /\ c.op \in Loads => c.id \in ToNumber /\ c.id \notin ToNumber'
        /\ calls' \subseteq Call
    BY <1>0, <1>1, <2>1, HandledCalls
  <2>3. NumberingInv' /\ numbering' \in Numberings
    <3>1. CASE numbering' = numbering
      <4>1. ToNumber' \subseteq ToNumber \cup {0} /\ issued' \in Nat
        BY <1>0, <2>1, <2>2, BoundAssumption DEF TypeOK
      <4>2. QED
        BY <1>0, <2>1, <2>2, <3>1, <4>1, CountKept DEF TypeOK
    <3>2. CASE c.op \in Loads /\ numbering' = numbering + 1
      BY <2>1, <2>2, <3>2, CountNumbered
    <3>3. QED
      BY <1>1, <3>1, <3>2
  <2>4. CallsOfRecords'
    <3>1. ASSUME NEW d \in calls',
                 d.op \in Elements \/ (d.state = "done" /\ d.op \in Loads)
          PROVE  d.record # None
      <4>1. CASE d \in calls \ {c}
        BY <3>1, <4>1 DEF TypeInv, CallsOfRecords
      <4>2. CASE d.op = c.op /\ d.record = c.record /\ d.state = state
        BY <1>1, <3>1, <4>2 DEF TypeInv, CallsOfRecords
      <4>3. QED
        BY <1>0, <1>1, <2>1, <4>1, <4>2, HandledCalls
    <3>2. QED
      BY <3>1 DEF CallsOfRecords
  <2>5. TypeOK'
    BY <1>0, <1>1, <2>1, <2>2, <2>3 DEF TypeOK, client, Kept
  <2>6. QED
    BY <2>2, <2>3, <2>4, <2>5 DEF TypeInv, IdsInv
<1>2. NoDocument \in Documents /\ NoDocument \in Kept
  BY <1>0, DocumentTypes
\* The document of one record is replaced.
<1>3. ASSUME NEW document \in Kept, session' = [session EXCEPT ![c.record] = document]
      PROVE  session' \in [Records -> Kept]
  BY <1>0, <1>3
<1>4. ASSUME NEW content \in SUBSET Edits, Numbered(c, content), c.record # None,
             c.op \in Loads, racing' = racing, records' = records, excused' \in SUBSET Edits,
             workspace' \in [Records -> SUBSET Edits]
      PROVE  TypeInv'
  <2>. DEFINE answer == [refs |-> numbering + 1, edits |-> content]
  <2>1. c.id \in ToNumber
    BY <1>0, <1>4, CallFields DEF ToNumber, WillNumber
  <2>2. numbering + 1 \in Numberings
    <3>1. Cardinality(ToNumber) >= 1
      <4>1. Cardinality(ToNumber) # 0
        BY <2>1, NumbersCounted, FS_EmptySet
      <4>2. QED
        BY <4>1, NumbersCounted
    <3>2. issued \in 0 .. MaxCalls /\ numbering + Cardinality(ToNumber) <= issued + 1
      BY DEF TypeInv, TypeOK, NumberingInv
    <3>3. QED
      BY <1>0, <3>1, <3>2, NumbersCounted, BoundAssumption DEF Numberings
  <2>3. /\ Handled(c, "done", answer) /\ numbering' = numbering + 1
        /\ session' = [session EXCEPT ![c.record] = answer]
    BY <1>4 DEF Numbered
  <2>4. answer \in Documents /\ answer \in Kept
    BY <2>2 DEF Documents, Kept
  <2>. HIDE DEF answer
  <2>5. session' \in [Records -> Kept]
    BY <1>3, <2>3, <2>4
  <2>6. QED
    BY <1>0, <1>1, <1>4, <2>3, <2>4, <2>5
<1>5. CASE HandleLoad(c) /\ racing' = racing
  <2>1. /\ c.record \in Records /\ c.op \in Loads /\ workspace[c.record] \in SUBSET Edits
        /\ Numbered(c, workspace[c.record]) /\ records' = records /\ workspace' = workspace
    BY <1>0, <1>5, DocumentTypes DEF HandleLoad, Loads
  <2>2. excused' \in SUBSET Edits
    BY <1>0, <1>5 DEF HandleLoad, GivenUp
  <2>3. QED
    BY <1>0, <1>4, <1>5, <2>1, <2>2
\* The form is applied.
<1>6. ASSUME InSession(c)
      PROVE  c.record \in Records /\ \A after \in Applied(c) : after \in SUBSET Edits
  BY <1>0, <1>6, AppliedType DEF InSession
<1>7. ASSUME LostInRace(c)
      PROVE  excused' \in SUBSET Edits
  BY <1>0, <1>7 DEF LostInRace
<1>8. CASE HandleSave(c) /\ racing' = racing
  <2>1. PICK after \in Applied(c) : /\ workspace' = [workspace EXCEPT ![c.record] = after]
                                    /\ Numbered(c, after)
    BY <1>8 DEF HandleSave
  <2>2. c.record \in Records /\ after \in SUBSET Edits /\ c.op \in Loads /\ records' = records
    BY <1>6, <1>8 DEF HandleSave, Loads
  <2>3. workspace' \in [Records -> SUBSET Edits] /\ excused' \in SUBSET Edits
    BY <1>0, <1>7, <1>8, <2>1, <2>2 DEF HandleSave
  <2>4. QED
    BY <1>0, <1>4, <1>8, <2>1, <2>2, <2>3
<1>9. CASE HandleFinish(c) /\ racing' = racing
  <2>1. PICK after \in Applied(c) : workspace' = [workspace EXCEPT ![c.record] = after]
    BY <1>9 DEF HandleFinish
  <2>2. c.record \in Records /\ after \in SUBSET Edits /\ records' = records
    BY <1>6, <1>9 DEF HandleFinish
  <2>3. /\ workspace' \in [Records -> SUBSET Edits] /\ excused' \in SUBSET Edits
        /\ Handled(c, "done", NoDocument) /\ c.op \notin Loads /\ numbering' = numbering
        /\ session' = [session EXCEPT ![c.record] = NoDocument]
    BY <1>0, <1>7, <1>9, <2>1, <2>2 DEF HandleFinish, Loads
  <2>4. QED
    BY <1>0, <1>1, <1>2, <1>3, <1>9, <2>2, <2>3
<1>10. CASE FailSave(c) /\ racing' = racing
  <2>1. PICK after \in Applied(c) :
          session' = [session EXCEPT ![c.record] = [refs |-> Unnumbered, edits |-> after]]
    BY <1>10 DEF FailSave
  <2>2. after \in SUBSET Edits
    BY <1>6, <1>10 DEF FailSave
  <2>3. [refs |-> Unnumbered, edits |-> after] \in Kept
    BY <2>2 DEF Kept
  <2>4. session' \in [Records -> Kept]
    BY <1>3, <2>1, <2>3
  <2>5. /\ records' = records /\ workspace' = workspace /\ numbering' = numbering
        /\ Handled(c, "failed", NoDocument) /\ excused' \in SUBSET Edits
    BY <1>0, <1>10 DEF FailSave
  <2>6. QED
    BY <1>0, <1>1, <1>2, <1>10, <2>4, <2>5
<1>11. CASE HandleCancel(c) /\ racing' = racing
  <2>1. /\ records' \in SUBSET Records /\ workspace' \in [Records -> SUBSET Edits]
    BY <1>0, <1>11 DEF HandleCancel
  <2>2. /\ session' = [session EXCEPT ![c.record] = NoDocument] /\ numbering' = numbering
        /\ Handled(c, "done", NoDocument) /\ c.op \notin Loads /\ excused' \in SUBSET Edits
    BY <1>0, <1>11 DEF HandleCancel, Loads, GivenUp
  <2>3. QED
    BY <1>0, <1>1, <1>2, <1>3, <1>11, <2>1, <2>2
<1>12. CASE HandleBadly(c) /\ racing' = racing
  BY <1>0, <1>1, <1>2, <1>12 DEF HandleBadly, server
<1>13. CASE ReadElement(c)
  <2>. DEFINE new == [c EXCEPT !.read = session[c.record]]
  <2>1. c.record \in Records /\ session[c.record] \in Documents
    <3>1. c.record \in Records /\ session[c.record].refs # Unnumbered
      BY <1>0, <1>13 DEF ReadElement, InSession
    <3>2. QED
      BY <1>0, <3>1 DEF Kept, Documents
  <2>2. /\ new \in Call /\ new.id = c.id /\ new.op = c.op /\ new.record = c.record
        /\ new.state = c.state
    BY <1>0, <2>1 DEF Call, Documents
  <2>3. /\ calls' = (calls \ {c}) \cup {new} /\ racing' \in BOOLEAN
        /\ UNCHANGED << server, excused >>
    BY <1>0, <1>13 DEF ReadElement
  <2>. HIDE DEF new
  <2>4. IdsInv' /\ ToNumber' \subseteq ToNumber
    BY <1>0, <2>2, <2>3, CallReplaced DEF Unhandled
  <2>5. issued' \in Nat /\ ToNumber' \subseteq ToNumber \cup {0}
    BY <1>0, <2>4, BoundAssumption DEF TypeOK
  <2>6. NumberingInv'
    BY <1>0, <2>3, <2>4, <2>5, CountKept DEF server
  <2>7. CallsOfRecords'
    BY <2>2, <2>3 DEF TypeInv, CallsOfRecords
  <2>8. TypeOK'
    BY <1>0, <2>2, <2>3 DEF TypeOK, client, server
  <2>9. QED
    BY <2>4, <2>6, <2>7, <2>8 DEF TypeInv, IdsInv
<1>14. CASE StoreElement(c)
  <2>1. PICK after \in SUBSET (c.read.edits \cup session[c.record].edits \cup c.typed),
             n \in {c.read.refs, Unnumbered} :
          session' = [session EXCEPT ![c.record] = [refs |-> n, edits |-> after]]
    BY <1>14 DEF StoreElement
  <2>2. c.record \in Records /\ c.read \in Documents
    BY <1>0, <1>14, CallFields DEF StoreElement, TypeInv, CallsOfRecords
  <2>3. [refs |-> n, edits |-> after] \in Kept
    BY <1>0, <2>2 DEF Kept, Documents
  <2>4. session' \in [Records -> Kept]
    BY <1>3, <2>1, <2>3
  <2>5. /\ records' = records /\ workspace' = workspace /\ numbering' = numbering
        /\ racing' = racing /\ Handled(c, "done", NoDocument) /\ excused' \in SUBSET Edits
        /\ c.op \notin Loads
    BY <1>0, <1>7, <1>14 DEF StoreElement, Elements, Loads
  <2>6. QED
    BY <1>0, <1>1, <1>2, <2>4, <2>5
<1>15. QED
  BY <1>5, <1>8, <1>9, <1>10, <1>11, <1>12, <1>13, <1>14 DEF Handle

\* A call is over, or is one that the client has given up.
LEMMA CallOver ==
  ASSUME TypeInv, NEW c \in calls, NEW new, calls' \subseteq (calls \ {c}) \cup {new},
         new \in Call, new.id = c.id, new.op = c.op, new.record = c.record,
         new = c \/ new.state = "abandoned",
         Unhandled(new) => Unhandled(c),
         panel' \in Panels, (panel'.kind = "form" <=> panel'.record # None),
         visible' \in BOOLEAN, stuck' \in BOOLEAN, excused' \in SUBSET Edits,
         UNCHANGED << issued, edits, server, racing >>
  PROVE  TypeInv'
<1>1. IdsInv' /\ ToNumber' \subseteq ToNumber
  BY CallReplaced
<1>2. issued' \in Nat /\ ToNumber' \subseteq ToNumber \cup {0}
  BY <1>1, BoundAssumption DEF TypeInv, TypeOK
<1>3. NumberingInv'
  BY <1>1, <1>2, CountKept DEF server
<1>4. CallsOfRecords'
  BY DEF TypeInv, CallsOfRecords
<1>5. TypeOK'
  BY DEF TypeInv, TypeOK, Panels, server
<1>6. QED
  BY <1>1, <1>3, <1>4, <1>5 DEF TypeInv, IdsInv

LEMMA AnsweredType ==
  ASSUME TypeInv, NEW c \in calls, Answered(c)
  PROVE  TypeInv'
<1>0. /\ TypeOK /\ c \in Call /\ c.state = "done" /\ UNCHANGED << edits, server >>
      /\ panel \in Panels /\ (panel.kind = "form" <=> panel.record # None)
      /\ panel.record \in Records \cup {None} /\ panel.typed \in SUBSET Edits
      /\ excused \in SUBSET Edits /\ visible \in BOOLEAN /\ stuck \in BOOLEAN
      /\ racing \in BOOLEAN
  BY DEF TypeInv, TypeOK, Answered, Panels
<1>1. CASE ShowForm(c)
  <2>1. c.record \in Records /\ c.answer.refs \in Numberings /\ c.answer.edits \in SUBSET Edits
    BY <1>0, <1>1 DEF TypeInv, CallsOfRecords, ShowForm, Call
  <2>2. panel' \in Panels /\ (panel'.kind = "form" <=> panel'.record # None)
    BY <1>1, <2>1, PanelTypes DEF ShowForm, Overwrite
  <2>3. excused' \in SUBSET Edits
    BY <1>0, <1>1 DEF ShowForm, Overwrite
  <2>4. /\ calls' \subseteq (calls \ {c}) \cup {c}
        /\ UNCHANGED << visible, issued, racing, stuck >>
    BY <1>1 DEF ShowForm
  <2>5. QED
    BY <1>0, <2>2, <2>3, <2>4, CallOver
<1>2. CASE Close(c)
  <2>1. panel' \in Panels /\ (panel'.kind = "form" <=> panel'.record # None)
    BY <1>2, PanelTypes DEF Close, Overwrite
  <2>2. excused' \in SUBSET Edits /\ visible' \in BOOLEAN
    BY <1>0, <1>2 DEF Close, Overwrite
  <2>3. calls' \subseteq (calls \ {c}) \cup {c} /\ UNCHANGED << issued, racing, stuck >>
    BY <1>2 DEF Close
  <2>4. QED
    BY <1>0, <2>1, <2>2, <2>3, CallOver
<1>3. CASE Removed(c)
  <2>1. panel' \in Panels /\ (panel'.kind = "form" <=> panel'.record # None)
    <3>1. CASE panel' = panel
      BY <1>0, <3>1
    <3>2. CASE panel' = [panel EXCEPT !.shown = @ \cup c.typed]
      <4>1. c.typed \in SUBSET Edits
        BY <1>0 DEF Call
      <4>2. panel' \in Panels /\ panel'.kind = panel.kind /\ panel'.record = panel.record
        BY <1>0, <3>2, <4>1 DEF Panels
      <4>3. QED
        BY <1>0, <4>2
    <3>3. QED
      BY <1>3, <3>1, <3>2 DEF Removed, ShowElement
  <2>2. /\ calls' \subseteq (calls \ {c}) \cup {c}
        /\ UNCHANGED << visible, issued, racing, stuck, excused >>
    BY <1>3 DEF Removed, auxiliary
  <2>3. QED
    BY <1>0, <2>1, <2>2, CallOver
<1>4. CASE SaveAfterAdding(c)
  <2>. DEFINE new == NewCall(c.id + 1, "save", panel.record, panel.typed)
  <2>1. c.op = "add" /\ c.id + 1 \in 1 .. MaxCalls /\ UNCHANGED << visible, issued, excused >>
    BY <1>0, <1>4, CallFields, BoundAssumption DEF SaveAfterAdding, TypeInv, IdsGiven
  <2>2. "save" \in Operations
    BY DEF Operations, Loads
  <2>3. /\ new \in Call /\ new.id = c.id + 1 /\ new.op = "save" /\ new.state = "sent"
    BY <1>0, <2>1, <2>2, NewCallType
  <2>4. /\ calls' = (calls \ {c}) \cup {new} /\ panel' = Loading /\ stuck' = FALSE
        /\ racing' \in BOOLEAN
    BY <1>0, <1>4 DEF SaveAfterAdding, LoadUrl, Send
  <2>. HIDE DEF new
  <2>5. IdsInv' /\ ToNumber' \subseteq ToNumber
    BY <2>1, <2>3, <2>4, CallFollows
  <2>6. issued' \in Nat /\ ToNumber' \subseteq ToNumber \cup {0}
    BY <1>0, <2>1, <2>5, BoundAssumption DEF TypeOK
  <2>7. NumberingInv'
    BY <1>0, <2>1, <2>5, <2>6, CountKept DEF server
  <2>8. panel' \in Panels /\ (panel'.kind = "form" <=> panel'.record # None)
    BY <2>4, PanelTypes
  <2>9. TypeOK'
    BY <1>0, <2>1, <2>3, <2>4, <2>8 DEF TypeOK, Panels, server
  <2>10. CallsOfRecords'
    <3>1. new.op \notin Elements
      BY <2>3 DEF Elements
    <3>2. QED
      BY <2>3, <2>4, <3>1 DEF TypeInv, CallsOfRecords
  <2>11. QED
    BY <2>5, <2>7, <2>9, <2>10 DEF TypeInv, IdsInv
<1>5. QED
  BY <1>1, <1>2, <1>3, <1>4 DEF Answered

LEMMA FailedType ==
  ASSUME TypeInv, NEW c \in calls, Failed(c) \/ TimeOut(c)
  PROVE  TypeInv'
<1>0. /\ c \in Call /\ panel \in Panels /\ (panel.kind = "form" <=> panel.record # None)
      /\ excused \in SUBSET Edits /\ visible \in BOOLEAN /\ stuck \in BOOLEAN
      /\ UNCHANGED << panel, issued, edits, server, racing, excused >>
  BY DEF TypeInv, TypeOK, Panels, Failed, TimeOut
<1>1. CASE Failed(c)
  <2>1. calls' \subseteq (calls \ {c}) \cup {c} /\ visible' \in BOOLEAN /\ stuck' \in BOOLEAN
    BY <1>0, <1>1 DEF Failed
  <2>2. QED
    BY <1>0, <2>1, CallOver
<1>2. CASE TimeOut(c)
  <2>. DEFINE new == IF c.state = "sent" THEN [c EXCEPT !.state = "abandoned"] ELSE c
  <2>1. /\ new \in Call /\ new.id = c.id /\ new.op = c.op /\ new.record = c.record
        /\ new = c \/ new.state = "abandoned"
        /\ Unhandled(new) => Unhandled(c)
    BY <1>0 DEF Call, Unhandled
  <2>2. calls' \subseteq (calls \ {c}) \cup {new}
    BY <1>2 DEF TimeOut
  <2>3. visible' \in BOOLEAN /\ stuck' \in BOOLEAN
    BY <1>0, <1>2 DEF TimeOut
  <2>. HIDE DEF new
  <2>4. QED
    BY <1>0, <2>1, <2>2, <2>3, CallOver
<1>3. QED
  BY <1>1, <1>2

LEMMA StutterType ==
  ASSUME TypeInv, UNCHANGED vars
  PROVE  TypeInv'
BY DEF TypeInv, TypeOK, IdsGiven, IdsDiffer, CallsOfRecords, NumberingInv, ToNumber,
   vars,
       client, network, server, auxiliary

LEMMA TypeStep ==
  ASSUME TypeInv, [Next]_vars
  PROVE  TypeInv'
BY UserType, HandleType, AnsweredType, FailedType, StutterType DEF Next
--------------------------------------------------------------------------------
(***************************************************************************)
(* No load overlaps another call, and no two calls about elements are      *)
(* handled at a time.                                                      *)
(***************************************************************************)
LEMMA ServerAlone ==
  ASSUME \/ User
         \/ \E c \in calls : Answered(c) \/ Failed(c) \/ TimeOut(c)
  PROVE  session' = session /\ workspace' = workspace
BY DEF User, Toolbar, Open, Element, Process, Type, CloseWindow, Answered, Failed,
   TimeOut, server

LEMMA LoadSent ==
  ASSUME NEW c, NEW others, LoadUrl(c, others), racing \in BOOLEAN, session' = session,
         workspace' = workspace, c.op \notin Elements, c.state = "sent",
         /\ c.op \in {"save", "finish"} /\ c.record # None /\ others = {} /\ ~racing
         => /\ c.refs = session[c.record].refs
            /\ session[c.record].edits \cap Values \subseteq c.shown
            /\ workspace[c.record] \subseteq session[c.record].edits
  PROVE  CalmInv'
<1>1. CASE others # {}
  BY <1>1 DEF LoadUrl, Send, CalmInv
<1>2. CASE others = {}
  <2>1. calls' = {c} /\ panel' = Loading
    BY <1>2 DEF LoadUrl, Send
  <2>2. CASE c.op \in {"save", "finish"} /\ racing
    <3>1. c.op \notin {"edit", "reset", "process"}
      BY <2>2
    <3>2. racing'
      BY <1>2, <2>2, <3>1 DEF LoadUrl, Send
    <3>3. QED
      BY <3>2 DEF CalmInv
  <2>3. CASE ~(c.op \in {"save", "finish"} /\ racing)
    <3>1. c.op \in {"save", "finish"} /\ c.record # None =>
            /\ c.refs = session'[c.record].refs
            /\ session'[c.record].edits \cap Values \subseteq c.shown
            /\ workspace'[c.record] \subseteq session'[c.record].edits
      BY <1>2, <2>3
    <3>2. LoadInv'
      BY <2>1, <3>1 DEF LoadInv
    <3>3. QED
      BY <3>2 DEF CalmInv
  <2>4. QED
    BY <2>2, <2>3
<1>3. QED
  BY <1>1, <1>2

LEMMA UserCalm ==
  ASSUME TypeInv, CalmInv, User
  PROVE  CalmInv'
<1>0. /\ TypeOK /\ racing \in BOOLEAN /\ session' = session /\ workspace' = workspace
      /\ (panel.kind = "form" <=> panel.record # None)
  BY ServerAlone DEF TypeInv, TypeOK
\* Nothing is under way.
<1>1. ASSUME calls = {}, ~racing
      PROVE  FormInv
  BY <1>1 DEF CalmInv, LoadInv
<1>2. ASSUME NEW op \in {"save", "reset"} \cup Closes, Toolbar(op)
      PROVE  CalmInv'
  <2>. DEFINE c == NewCall(issued', op, panel.record, panel.typed)
  <2>1. /\ c.op = op /\ c.state = "sent" /\ c.record = panel.record /\ c.refs = panel.refs
        /\ c.shown = panel.shown
    BY DEF NewCall
  <2>2. LoadUrl(c, calls) /\ op \notin Elements
    BY <1>2 DEF Toolbar, Closes, Elements
  <2>3. c.record # None /\ calls = {} /\ ~racing =>
          /\ c.refs = session[c.record].refs
          /\ session[c.record].edits \cap Values \subseteq c.shown
          /\ workspace[c.record] \subseteq session[c.record].edits
    BY <1>0, <1>1, <2>1 DEF FormInv
  <2>. HIDE DEF c
  <2>4. QED
    BY <1>0, <2>1, <2>2, <2>3, LoadSent
<1>3. ASSUME NEW r \in Records, Open(r)
      PROVE  CalmInv'
  <2>. DEFINE c == NewCall(issued', "edit", r, {})
  <2>1. c.op = "edit" /\ c.state = "sent"
    BY DEF NewCall
  <2>2. LoadUrl(c, calls) /\ c.op \notin Elements /\ c.op \notin {"save", "finish"}
    BY <1>3, <2>1 DEF Open, Elements
  <2>. HIDE DEF c
  <2>3. QED
    BY <1>0, <2>1, <2>2, LoadSent
<1>4. CASE Process
  <2>. DEFINE c == NewCall(issued', "process", panel.record, {})
  <2>1. c.op = "process" /\ c.state = "sent"
    BY DEF NewCall
  <2>2. LoadUrl(c, calls) /\ c.op \notin Elements /\ c.op \notin {"save", "finish"}
    BY <1>4, <2>1 DEF Process, Elements
  <2>. HIDE DEF c
  <2>3. QED
    BY <1>0, <2>1, <2>2, LoadSent
<1>5. ASSUME NEW op \in Elements, NEW e \in Changes, Element(op, e)
      PROVE  CalmInv'
  <2>. DEFINE c == NewCall(issued + 1, op, panel.record, {e})
  <2>1. /\ c.op \in Elements /\ c.state = "sent" /\ c.record = panel.record
        /\ c.refs = panel.refs /\ c.typed = {e} /\ c.read.refs = 0
    BY DEF NewCall, NoDocument
  <2>2. Send(c, calls) /\ panel' = panel /\ panel.kind = "form"
    BY <1>5 DEF Element, Edit, client
  <2>. HIDE DEF c
  <2>3. ASSUME ~racing'
        PROVE  ~racing /\ \A d \in calls : d.op \in Elements
    BY <1>0, <2>1, <2>2, <2>3 DEF Send, Elements
  <2>4. ASSUME ~racing'
        PROVE  FormInv /\ ElementInv
    BY <2>3, <2>4 DEF CalmInv, LoadInv
  <2>5. ASSUME ~racing'
        PROVE  FormInv' /\ ElementInv'
    <3>1. calls' = calls \cup {c}
      BY <2>2 DEF Send
    <3>2. c.refs = session[c.record].refs /\ c.typed \cap Values = {}
      BY <2>1, <2>2, <2>4, <2>5, EditsAssumption DEF FormInv
    <3>3. FormInv'
      BY <1>0, <2>2, <2>4, <2>5 DEF FormInv
    <3>4. ElementInv'
      BY <1>0, <2>1, <2>4, <2>5, <3>1, <3>2 DEF ElementInv, Unhandled
    <3>5. QED
      BY <3>3, <3>4
  <2>6. QED
    BY <2>5 DEF CalmInv
<1>6. ASSUME NEW e \in Values, Type(e)
      PROVE  CalmInv'
  <2>1. /\ panel.kind = "form" /\ UNCHANGED << racing, calls >>
        /\ panel' = [panel EXCEPT !.typed = @ \cup {e}]
    BY <1>6 DEF Type, Edit, network, auxiliary
  <2>2. panel # Loading
    BY <2>1, PanelTypes
  <2>3. panel \in Panels
    BY <1>0 DEF TypeOK, Panels
  <2>4. /\ panel'.kind = panel.kind /\ panel'.record = panel.record /\ panel'.refs = panel.refs
        /\ panel'.shown = panel.shown
    BY <2>1, <2>3 DEF Panels
  <2>5. racing \/ (FormInv /\ ElementInv)
    BY <2>2 DEF CalmInv, LoadInv
  <2>6. QED
    BY <1>0, <2>1, <2>4, <2>5 DEF CalmInv, FormInv, ElementInv, Unhandled
<1>7. CASE CloseWindow
  BY <1>0, <1>7 DEF CloseWindow, network, auxiliary, CalmInv, FormInv, ElementInv,
     LoadInv,
                    Unhandled
<1>8. QED
  BY <1>2, <1>3, <1>4, <1>5, <1>6, <1>7 DEF User

\* A call about an element that is stored meets the document it has read.
LEMMA StoreCalm ==
  ASSUME TypeInv, FormInv, ElementInv, NEW c \in calls, Unhandled(c), StoreElement(c)
  PROVE  /\ session[c.record].edits \cup c.typed = session'[c.record].edits
         /\ session'[c.record].refs = session[c.record].refs
         /\ \A r \in Records \ {c.record} : session'[r] = session[r]
<1>1. /\ c.record \in Records /\ c.read = session[c.record]
      /\ c.refs = session[c.record].refs
  BY CallFields DEF StoreElement, ElementInv, TypeInv, CallsOfRecords
<1>2. PICK after \in SUBSET (c.read.edits \cup session[c.record].edits \cup c.typed),
           n \in {c.read.refs, Unnumbered} :
        /\ c.read.refs = c.refs => c.read.edits \cup c.typed \subseteq after
        /\ session[c.record].refs = c.read.refs => n = c.read.refs
        /\ session' = [session EXCEPT ![c.record] = [refs |-> n, edits |-> after]]
  BY DEF StoreElement
<1>3. after = session[c.record].edits \cup c.typed /\ n = session[c.record].refs
  BY <1>1, <1>2
<1>4. session \in [Records -> Kept]
  BY DocumentTypes DEF TypeInv
<1>5. QED
  BY <1>1, <1>2, <1>3, <1>4

LEMMA HandleCalm ==
  ASSUME TypeInv, CalmInv, NEW c \in calls, Handle(c)
  PROVE  CalmInv'
<1>0. /\ TypeOK /\ Unhandled(c) /\ panel' = panel /\ c \in Call /\ issued' = issued
      /\ session \in [Records -> Kept] /\ workspace \in [Records -> SUBSET Edits]
      /\ c.record \in Records \cup {None} /\ None \notin Records /\ records \in SUBSET Records
  BY CallFields, DocumentTypes, RecordsAssumption DEF TypeInv, TypeOK, Handle, client
<1>1. NoDocument \in Documents
  BY <1>0, DocumentTypes
<1>2. racing => racing'
  BY DEF Handle, ReadElement, StoreElement
<1>3. CASE FormInv /\ ElementInv
  <2>1. /\ c.op \in Elements /\ c.record \in Records /\ c.typed \cap Values = {}
        /\ \A d \in calls : d.record \in Records
    BY <1>0, <1>3, CallFields DEF ElementInv, TypeInv, CallsOfRecords
  <2>2. panel.kind = "form" => panel.record \in Records
    BY <1>0 DEF TypeOK
  <2>3. CASE HandleBadly(c)
    <3>1. Handled(c, "failed", NoDocument) /\ session' = session /\ workspace' = workspace
      BY <2>3 DEF HandleBadly, server
    <3>2. \A d \in calls' :
            \/ d \in calls
            \/ /\ d.op = c.op /\ d.record = c.record /\ d.typed = c.typed /\ d.state = "failed"
      BY <1>0, <1>1, <3>1, HandledCalls
    <3>3. ElementInv'
      BY <1>3, <2>1, <3>1, <3>2 DEF ElementInv, Unhandled
    <3>4. FormInv'
      BY <1>0, <1>3, <3>1 DEF FormInv
    <3>5. QED
      BY <3>3, <3>4 DEF CalmInv
  <2>4. CASE ReadElement(c)
    <3>. DEFINE new == [c EXCEPT !.read = session[c.record]]
    <3>1. /\ new.op = c.op /\ new.record = c.record /\ new.typed = c.typed
          /\ new.state = c.state /\ new.refs = c.refs /\ new.read = session[c.record]
      BY <1>0 DEF Call
    <3>2. /\ calls' = (calls \ {c}) \cup {new} /\ session' = session /\ workspace' = workspace
          /\ racing' = (racing \/ \E d \in calls : d.read.refs # 0 /\ Unhandled(d))
      BY <2>4 DEF ReadElement, server
    <3>. HIDE DEF new
    <3>3. ASSUME ~racing'
          PROVE  ElementInv'
      <4>1. \A d \in calls : Unhandled(d) => d.read.refs = 0
        BY <3>2, <3>3
      <4>2. QED
        BY <1>0, <1>3, <2>1, <3>1, <3>2, <4>1 DEF ElementInv, Unhandled
    <3>4. FormInv'
      BY <1>0, <1>3, <3>2 DEF FormInv
    <3>5. QED
      BY <3>3, <3>4 DEF CalmInv
  <2>5. CASE StoreElement(c)
    <3>1. /\ session[c.record].edits \cup c.typed = session'[c.record].edits
          /\ \A r \in Records : session'[r].refs = session[r].refs
          /\ \A r \in Records \ {c.record} : session'[r] = session[r]
      BY <1>0, <1>3, <2>5, StoreCalm
    <3>2. Handled(c, "done", NoDocument) /\ workspace' = workspace /\ c.read.refs # 0
      BY <2>5 DEF StoreElement
    <3>3. \A d \in calls' :
            \/ d \in calls \ {c}
            \/ d.op = c.op /\ d.record = c.record /\ d.typed = c.typed /\ d.state = "done"
      BY <1>0, <1>1, <3>2, HandledCalls
    <3>4. \A d \in calls \ {c} : Unhandled(d) => d.read.refs = 0
      BY <1>0, <1>3, <3>2 DEF ElementInv
    <3>5. ASSUME NEW d \in calls'
          PROVE  /\ d.op \in Elements
                 /\ d.typed \cap Values = {}
                 /\ Unhandled(d) => d.refs = session'[d.record].refs
                 /\ Unhandled(d) => d.read.refs = 0
                 /\ d.state = "done" => d.typed \subseteq session'[d.record].edits
      <4>1. CASE d \in calls \ {c}
        BY <1>3, <2>1, <3>1, <3>4, <4>1 DEF ElementInv
      <4>2. CASE d.op = c.op /\ d.record = c.record /\ d.typed = c.typed /\ d.state = "done"
        BY <2>1, <3>1, <4>2 DEF Unhandled
      <4>3. QED
        BY <3>3, <3>5, <4>1, <4>2
    <3>6. ElementInv'
      BY <3>5 DEF ElementInv, Unhandled
    <3>7. FormInv'
      <4>1. SUFFICES ASSUME panel.kind = "form"
                     PROVE  /\ panel.refs = session'[panel.record].refs
                            /\ panel.shown \subseteq session'[panel.record].edits
                            /\ session'[panel.record].edits \cap Values \subseteq panel.shown
                            /\ workspace'[panel.record] \subseteq session'[panel.record].edits
        BY <1>0 DEF FormInv
      <4>2. CASE panel.record = c.record
        BY <1>3, <2>1, <2>2, <3>1, <3>2, <4>1, <4>2 DEF FormInv
      <4>3. CASE panel.record # c.record
        BY <1>3, <2>2, <3>1, <3>2, <4>1, <4>3 DEF FormInv
      <4>4. QED
        BY <4>2, <4>3
    <3>8. QED
      BY <3>6, <3>7 DEF CalmInv
  <2>6. QED
    BY <2>1, <2>3, <2>4, <2>5
    DEF Handle, HandleLoad, HandleSave, HandleFinish, HandleCancel, FailSave, Elements
<1>4. CASE LoadInv
  <2>1. calls = {c} /\ c.op \notin Elements /\ panel = Loading
    BY <1>4 DEF LoadInv
  <2>2. ASSUME NEW state \in {"done", "failed"},
               NEW answer \in Documents,
               Handled(c, state, answer),
               c.op \in Loads /\ state = "done" =>
                 session'[c.record] = answer /\ workspace'[c.record] \subseteq answer.edits
        PROVE  CalmInv'
    <3>1. CASE calls' = {}
      BY <1>0, <2>1, <3>1, PanelTypes DEF CalmInv, FormInv, ElementInv
    <3>2. ASSUME NEW d \in calls'
          PROVE  LoadInv'
      <4>1. /\ d.op = c.op /\ d.record = c.record /\ d.state = state /\ d.answer = answer
            /\ calls' = {d}
        <5>. DEFINE new == [c EXCEPT !.state = state, !.answer = answer]
        <5>1. /\ new.op = c.op /\ new.record = c.record /\ new.state = state
              /\ new.answer = answer
          BY <1>0 DEF Call
        <5>2. calls' \subseteq {new}
          BY <2>1, <2>2 DEF Handled
        <5>. HIDE DEF new
        <5>3. QED
          BY <3>2, <5>1, <5>2
      <4>2. ~Unhandled(d)
        BY <4>1 DEF Unhandled
      <4>3. QED
        BY <1>0, <2>1, <2>2, <4>1, <4>2 DEF LoadInv
    <3>3. QED
      BY <3>1, <3>2 DEF CalmInv
  <2>3. ASSUME NEW content \in SUBSET Edits, Numbered(c, content), c.record \in Records,
               workspace'[c.record] = content, numbering' \in Numberings
        PROVE  CalmInv'
    <3>. DEFINE answer == [refs |-> numbering + 1, edits |-> content]
    <3>1. answer \in Documents /\ Handled(c, "done", answer) /\ answer.edits = content
      BY <2>3 DEF Numbered, Documents
    <3>2. session'[c.record] = answer
      BY <1>0, <2>3 DEF Numbered
    <3>. HIDE DEF answer
    <3>3. QED
      BY <2>2, <2>3, <3>1, <3>2
  <2>4. numbering' \in Numberings
    BY HandleType DEF TypeInv, TypeOK
  <2>5. CASE HandleLoad(c)
    <3>1. /\ c.record \in Records /\ workspace[c.record] \in SUBSET Edits
          /\ workspace' = workspace
      BY <1>0, <2>5 DEF HandleLoad
    <3>2. QED
      BY <2>3, <2>4, <2>5, <3>1 DEF HandleLoad
  <2>6. CASE HandleSave(c)
    <3>1. PICK after \in Applied(c) : /\ workspace' = [workspace EXCEPT ![c.record] = after]
                                      /\ Numbered(c, after)
      BY <2>6 DEF HandleSave
    <3>2. c.record \in Records
      BY <1>0, <2>6 DEF HandleSave, InSession
    <3>3. after \in SUBSET Edits /\ workspace'[c.record] = after
      BY <1>0, <3>1, <3>2, AppliedType
    <3>4. QED
      BY <2>3, <2>4, <3>1, <3>2, <3>3
  <2>7. CASE HandleFinish(c)
    BY <1>1, <2>2, <2>7 DEF HandleFinish, Loads
  <2>8. CASE HandleCancel(c)
    BY <1>1, <2>2, <2>8 DEF HandleCancel, Loads
  <2>9. CASE FailSave(c)
    BY <1>1, <2>2, <2>9 DEF FailSave
  <2>10. CASE HandleBadly(c)
    BY <1>1, <2>2, <2>10 DEF HandleBadly
  <2>11. ~ReadElement(c) /\ ~StoreElement(c)
    BY <2>1 DEF ReadElement, StoreElement
  <2>12. QED
    BY <2>5, <2>6, <2>7, <2>8, <2>9, <2>10, <2>11 DEF Handle
<1>5. QED
  BY <1>2, <1>3, <1>4 DEF CalmInv

LEMMA AnsweredCalm ==
  ASSUME TypeInv, CalmInv, NEW c \in calls, Answered(c)
  PROVE  CalmInv'
<1>0. /\ TypeOK /\ c.state = "done" /\ racing \in BOOLEAN /\ c \in Call
      /\ session' = session /\ workspace' = workspace
      /\ panel \in Panels /\ (panel.kind = "form" <=> panel.record # None)
  BY ServerAlone DEF TypeInv, TypeOK, Answered, Panels
<1>1. ASSUME c.op \notin Elements, ~racing
      PROVE  LoadInv
  BY <1>1 DEF CalmInv, ElementInv
<1>2. ASSUME c.op \in Elements, ~racing
      PROVE  FormInv /\ ElementInv
  BY <1>2 DEF CalmInv, LoadInv
<1>3. CASE ShowForm(c)
  <2>1. c.op \in Loads /\ c.op \notin Elements /\ racing' = racing
    BY <1>3 DEF ShowForm, Loads, Elements
  <2>2. ASSUME ~racing
        PROVE  FormInv' /\ ElementInv'
    <3>1. /\ calls' = {} /\ session[c.record] = c.answer
          /\ workspace[c.record] \subseteq c.answer.edits
      BY <1>0, <1>1, <1>3, <2>1, <2>2 DEF LoadInv, ShowForm
    <3>2. c.record \in Records /\ c.answer.refs \in Numberings /\ c.answer.edits \in SUBSET Edits
      BY <1>0, <2>1 DEF TypeInv, CallsOfRecords, Call
    <3>3. /\ panel'.record = c.record /\ panel'.refs = c.answer.refs
          /\ panel'.shown = c.answer.edits
      BY <1>3, <3>2, PanelTypes DEF ShowForm, Overwrite
    <3>4. QED
      BY <1>0, <3>1, <3>2, <3>3 DEF FormInv, ElementInv
  <2>3. QED
    BY <2>1, <2>2 DEF CalmInv
<1>4. CASE Close(c)
  <2>1. c.op \notin Elements /\ racing' = racing /\ panel'.kind = "empty"
    BY <1>4, PanelTypes DEF Close, Closes, Elements, Overwrite
  <2>2. ASSUME ~racing
        PROVE  FormInv' /\ ElementInv'
    <3>1. calls' = {}
      BY <1>1, <1>4, <2>1, <2>2 DEF LoadInv, Close
    <3>2. QED
      BY <2>1, <3>1 DEF FormInv, ElementInv
  <2>3. QED
    BY <2>1, <2>2 DEF CalmInv
<1>5. CASE Removed(c)
  <2>1. /\ c.op \in Elements /\ racing' = racing /\ calls' = calls \ {c}
        /\ panel' = ShowElement(c)
    BY <1>5 DEF Removed, Elements, auxiliary
  <2>2. ASSUME ~racing
        PROVE  FormInv' /\ ElementInv'
    <3>1. FormInv /\ ElementInv
      BY <1>2, <2>1, <2>2
    <3>2. ElementInv'
      BY <1>0, <2>1, <3>1 DEF ElementInv, Unhandled
    <3>3. CASE panel' = panel
      BY <1>0, <3>1, <3>2, <3>3 DEF FormInv
    <3>4. CASE /\ panel.record = c.record /\ panel.refs = c.refs
               /\ panel' = [panel EXCEPT !.shown = @ \cup c.typed]
      <4>1. /\ panel'.kind = panel.kind /\ panel'.record = panel.record
            /\ panel'.refs = panel.refs /\ panel'.shown = panel.shown \cup c.typed
        BY <1>0, <3>4 DEF Panels
      <4>2. c.typed \subseteq session[c.record].edits
        BY <1>0, <3>1 DEF ElementInv, Elements
      <4>3. QED
        BY <1>0, <3>1, <3>2, <3>4, <4>1, <4>2 DEF FormInv
    <3>5. QED
      BY <2>1, <3>2, <3>3, <3>4 DEF ShowElement
  <2>3. QED
    BY <2>1, <2>2 DEF CalmInv
<1>6. CASE SaveAfterAdding(c)
  <2>. DEFINE new == NewCall(c.id + 1, "save", panel.record, panel.typed)
  <2>1. /\ new.op = "save" /\ new.state = "sent" /\ new.record = panel.record
        /\ new.refs = panel.refs /\ new.shown = panel.shown
    BY DEF NewCall
  <2>2. LoadUrl(new, calls \ {c}) /\ c.op \in Elements /\ new.op \notin Elements
    BY <1>6, <2>1 DEF SaveAfterAdding, Elements
  <2>3. new.record # None /\ ~racing =>
          /\ new.refs = session[new.record].refs
          /\ session[new.record].edits \cap Values \subseteq new.shown
          /\ workspace[new.record] \subseteq session[new.record].edits
    BY <1>0, <1>2, <2>1, <2>2 DEF FormInv
  <2>. HIDE DEF new
  <2>4. QED
    BY <1>0, <2>1, <2>2, <2>3, LoadSent
<1>7. QED
  BY <1>3, <1>4, <1>5, <1>6 DEF Answered

LEMMA FailedCalm ==
  ASSUME TypeInv, CalmInv, NEW c \in calls, Failed(c) \/ TimeOut(c)
  PROVE  CalmInv'
<1>0. /\ c \in Call /\ session' = session /\ workspace' = workspace /\ panel' = panel
      /\ racing' = racing
  BY ServerAlone DEF TypeInv, TypeOK, Failed, TimeOut
<1>. DEFINE new == [c EXCEPT !.state = "abandoned"]
<1>1. /\ new.op = c.op /\ new.record = c.record /\ new.refs = c.refs
      /\ new.shown = c.shown /\ new.typed = c.typed /\ new.read = c.read
      /\ new.state = "abandoned"
  BY <1>0 DEF Call
<1>2. calls' = calls \ {c} \/ (c.state = "sent" /\ calls' = (calls \ {c}) \cup {new})
  BY DEF Failed, TimeOut
<1>. HIDE DEF new
<1>3. CASE FormInv /\ ElementInv
  <2>1. FormInv'
    BY <1>0, <1>3 DEF FormInv
  <2>2. ElementInv'
    BY <1>0, <1>1, <1>2, <1>3 DEF ElementInv, Unhandled
  <2>3. QED
    BY <2>1, <2>2 DEF CalmInv
<1>4. CASE LoadInv
  <2>1. calls = {c} /\ c.op \notin Elements /\ panel' = Loading
    BY <1>0, <1>4 DEF LoadInv
  <2>2. CASE calls' = {}
    <3>1. FormInv' /\ ElementInv'
      BY <2>1, <2>2, PanelTypes DEF FormInv, ElementInv
    <3>2. QED
      BY <3>1 DEF CalmInv
  <2>3. CASE c.state = "sent" /\ calls' = {new}
    <3>1. c.op \in {"save", "finish"} /\ c.record # None =>
            /\ c.refs = session[c.record].refs
            /\ session[c.record].edits \cap Values \subseteq c.shown
            /\ workspace[c.record] \subseteq session[c.record].edits
      BY <1>4, <2>1, <2>3 DEF LoadInv, Unhandled
    <3>2. LoadInv'
      BY <1>0, <1>1, <2>1, <2>3, <3>1 DEF LoadInv
    <3>3. QED
      BY <3>2 DEF CalmInv
  <2>4. QED
    BY <1>2, <2>1, <2>2, <2>3
<1>5. QED
  BY <1>0, <1>3, <1>4 DEF CalmInv

LEMMA CalmStep ==
  ASSUME TypeInv, CalmInv, [Next]_vars
  PROVE  CalmInv'
<1>1. CASE UNCHANGED vars
  BY <1>1 DEF vars, client, network, server, auxiliary, CalmInv, FormInv, ElementInv,
     LoadInv,
              Unhandled
<1>2. QED
  BY <1>1, UserCalm, HandleCalm, AnsweredCalm, FailedCalm DEF Next
--------------------------------------------------------------------------------
(***************************************************************************)
(* Where the edits are.                                                    *)
(***************************************************************************)
LEMMA KeptUser ==
  ASSUME TypeInv, KeptInv, User
  PROVE  KeptInv'
<1>0. panel \in Panels /\ Stored' = Stored /\ panel.record \in Records \cup {None}
  BY ServerAlone DEF TypeInv, TypeOK, Panels, Stored
<1>1. ASSUME calls \subseteq calls', edits' = edits,
             excused \cup panel.typed \subseteq excused' \cup panel'.typed
      PROVE  KeptInv'
  BY <1>0, <1>1 DEF KeptInv, Unhandled
<1>2. ASSUME NEW op \in {"save", "reset"} \cup Closes, Toolbar(op)
      PROVE  KeptInv'
  <2>. DEFINE c == NewCall(issued', op, panel.record, panel.typed)
  <2>1. c.state = "sent" /\ c.typed = panel.typed
    BY DEF NewCall
  <2>2. calls' = calls \cup {c} /\ excused' = excused /\ edits' = edits
    BY <1>2 DEF Toolbar, LoadUrl, Send
  <2>. HIDE DEF c
  <2>3. QED
    BY <1>0, <2>1, <2>2 DEF KeptInv, Unhandled
<1>3. ASSUME NEW r \in Records, Open(r)
      PROVE  KeptInv'
  <2>1. calls \subseteq calls' /\ edits' = edits /\ excused' = excused \cup panel.typed
    BY <1>3 DEF Open, LoadUrl, Send
  <2>2. QED
    BY <1>1, <2>1
<1>4. CASE Process
  <2>1. calls \subseteq calls' /\ edits' = edits /\ excused' = excused \cup panel.typed
    BY <1>4 DEF Process, LoadUrl, Send
  <2>2. QED
    BY <1>1, <2>1
<1>5. ASSUME NEW op \in Elements, NEW e \in Changes, Element(op, e)
      PROVE  KeptInv'
  <2>. DEFINE c == NewCall(issued + 1, op, panel.record, {e})
  <2>1. c.state = "sent" /\ e \in c.typed
    BY DEF NewCall
  <2>2. /\ calls' = calls \cup {c} /\ excused' = excused /\ edits' = edits \cup {e}
        /\ panel' = panel
    BY <1>5 DEF Element, Edit, Send, client
  <2>. HIDE DEF c
  <2>3. QED
    BY <1>0, <2>1, <2>2 DEF KeptInv, Unhandled
<1>6. ASSUME NEW e \in Values, Type(e)
      PROVE  KeptInv'
  <2>1. /\ UNCHANGED << calls, excused >> /\ edits' = edits \cup {e}
        /\ panel' = [panel EXCEPT !.typed = @ \cup {e}]
    BY <1>6 DEF Type, Edit, network, auxiliary
  <2>2. panel'.typed = panel.typed \cup {e}
    BY <1>0, <2>1 DEF Panels
  <2>3. QED
    BY <1>0, <2>1, <2>2 DEF KeptInv, Unhandled
<1>7. CASE CloseWindow
  <2>1. UNCHANGED << panel, calls, edits, excused >>
    BY <1>7 DEF CloseWindow, network, auxiliary
  <2>2. QED
    BY <1>1, <2>1
<1>8. QED
  BY <1>2, <1>3, <1>4, <1>5, <1>6, <1>7 DEF User

\* In a calm state nothing is overwritten: what is posted has all that is there in
\* fields, and the rest stays.
LEMMA AppliedKeeps ==
  ASSUME TypeInv, LoadInv, NEW c \in calls, Unhandled(c), c.op \in {"save", "finish"},
         InSession(c), NEW after \in Applied(c)
  PROVE  c.typed \cup session[c.record].edits \cup workspace[c.record] \subseteq after
<1>1. c.record \in Records /\ c.record # None
  BY CallFields, RecordsAssumption, DocumentTypes DEF InSession, TypeInv
<1>2. /\ c.refs = session[c.record].refs
      /\ session[c.record].edits \cap Values \subseteq c.shown
      /\ workspace[c.record] \subseteq session[c.record].edits
  BY <1>1 DEF LoadInv
<1>3. (c.shown \cap Values) \cup c.typed \cup (session[c.record].edits \ Values) \subseteq after
  BY <1>1, <1>2, AppliedType DEF TypeInv
<1>4. QED
  BY <1>2, <1>3

\* Only the document and the copy of one record change.
LEMMA StoredKept ==
  ASSUME NEW r \in Records,
         \A s \in Records \ {r} : session'[s] = session[s] /\ workspace'[s] = workspace[s],
         session[r].edits \cup workspace[r] \subseteq session'[r].edits \cup workspace'[r]
  PROVE  Stored \subseteq Stored'
<1>1. ASSUME NEW s \in Records
      PROVE  session[s].edits \cup workspace[s] \subseteq Stored'
  <2>1. session[s].edits \cup workspace[s] \subseteq session'[s].edits \cup workspace'[s]
    <3>1. CASE s = r
      BY <3>1
    <3>2. CASE s # r
      BY <3>2
    <3>3. QED
      BY <3>1, <3>2
  <2>2. QED
    BY <2>1 DEF Stored
<1>2. QED
  BY <1>1 DEF Stored

LEMMA KeptHandle ==
  ASSUME TypeInv, CalmInv, KeptInv, NEW c \in calls, Handle(c)
  PROVE  KeptInv'
<1>0. /\ TypeOK /\ Unhandled(c) /\ panel' = panel /\ edits' = edits /\ c \in Call
      /\ c.record \in Records \cup {None} /\ None \notin Records /\ records \in SUBSET Records
      /\ session \in [Records -> Kept] /\ workspace \in [Records -> SUBSET Edits]
  BY CallFields, DocumentTypes, RecordsAssumption DEF TypeInv, TypeOK, Handle, client
\* The call has an end.
<1>1. ASSUME calls \ {c} \subseteq calls', excused \subseteq excused',
             c.typed \cup Stored \subseteq excused' \cup Stored'
      PROVE  KeptInv'
  BY <1>0, <1>1 DEF KeptInv, Unhandled
<1>2. ASSUME NEW state, NEW answer, Handled(c, state, answer)
      PROVE  calls \ {c} \subseteq calls'
  BY <1>2 DEF Handled
\* What a race takes is excused, and otherwise nothing is taken.
<1>3. ASSUME calls \ {c} \subseteq calls', LostInRace(c),
             ~racing => c.typed \cup Stored \subseteq Stored'
      PROVE  KeptInv'
  <2>1. CASE racing
    BY <1>1, <1>3, <2>1 DEF LostInRace, Lost
  <2>2. CASE ~racing
    BY <1>1, <1>3, <2>2 DEF LostInRace
  <2>3. QED
    BY <2>1, <2>2
<1>4. CASE HandleLoad(c)
  BY <1>1, <1>2, <1>4 DEF HandleLoad, Numbered, GivenUp, Lost
<1>5. CASE HandleCancel(c)
  BY <1>1, <1>2, <1>5 DEF HandleCancel, GivenUp, Lost
<1>6. ASSUME NEW after \in Applied(c), InSession(c), c.op \in {"save", "finish"}, ~racing,
             \A s \in Records \ {c.record} :
               session'[s] = session[s] /\ workspace'[s] = workspace[s],
             after \subseteq session'[c.record].edits \cup workspace'[c.record],
             c.record \in Records
      PROVE  c.typed \cup Stored \subseteq Stored'
  <2>1. LoadInv
    BY <1>6 DEF CalmInv, ElementInv, Elements
  <2>2. c.typed \cup session[c.record].edits \cup workspace[c.record] \subseteq after
    BY <1>0, <1>6, <2>1, AppliedKeeps
  <2>3. Stored \subseteq Stored'
    BY <1>6, <2>2, StoredKept
  <2>4. session'[c.record].edits \cup workspace'[c.record] \subseteq Stored'
    BY <1>6 DEF Stored
  <2>5. QED
    BY <1>6, <2>2, <2>3, <2>4
<1>7. ASSUME InSession(c)
      PROVE  /\ c.record \in Records
             /\ \A after \in Applied(c) : after \in SUBSET Edits
  BY <1>0, <1>7, AppliedType DEF InSession
<1>8. CASE HandleSave(c)
  <2>1. PICK after \in Applied(c) : /\ workspace' = [workspace EXCEPT ![c.record] = after]
                                    /\ Numbered(c, after)
    BY <1>8 DEF HandleSave
  <2>2. /\ InSession(c) /\ c.op \in {"save", "finish"} /\ c.record \in Records
        /\ LostInRace(c) /\ calls \ {c} \subseteq calls'
    BY <1>2, <1>7, <1>8, <2>1 DEF HandleSave, Numbered
  <2>3. /\ \A s \in Records \ {c.record} :
             session'[s] = session[s] /\ workspace'[s] = workspace[s]
        /\ workspace'[c.record] = after
    BY <1>0, <2>1, <2>2 DEF Numbered
  <2>4. ~racing => c.typed \cup Stored \subseteq Stored'
    BY <1>6, <2>2, <2>3
  <2>5. QED
    BY <1>3, <2>2, <2>4
<1>9. CASE HandleFinish(c)
  <2>1. PICK after \in Applied(c) : workspace' = [workspace EXCEPT ![c.record] = after]
    BY <1>9 DEF HandleFinish
  <2>2. /\ InSession(c) /\ c.op \in {"save", "finish"} /\ c.record \in Records
        /\ LostInRace(c) /\ calls \ {c} \subseteq calls'
    BY <1>2, <1>7, <1>9 DEF HandleFinish
  <2>3. /\ \A s \in Records \ {c.record} :
             session'[s] = session[s] /\ workspace'[s] = workspace[s]
        /\ workspace'[c.record] = after
    BY <1>0, <1>9, <2>1, <2>2 DEF HandleFinish
  <2>4. ~racing => c.typed \cup Stored \subseteq Stored'
    BY <1>6, <2>2, <2>3
  <2>5. QED
    BY <1>3, <2>2, <2>4
<1>10. CASE FailSave(c)
  <2>1. PICK after \in Applied(c) :
          session' = [session EXCEPT ![c.record] = [refs |-> Unnumbered, edits |-> after]]
    BY <1>10 DEF FailSave
  <2>2. /\ InSession(c) /\ c.op \in {"save", "finish"} /\ c.record \in Records
        /\ calls \ {c} \subseteq calls' /\ workspace' = workspace
        /\ excused' = excused \cup c.typed \cup (IF racing THEN Lost(c) ELSE {})
    BY <1>2, <1>7, <1>10 DEF FailSave
  <2>3. /\ \A s \in Records \ {c.record} :
             session'[s] = session[s] /\ workspace'[s] = workspace[s]
        /\ session'[c.record].edits = after
    BY <1>0, <2>1, <2>2
  <2>4. CASE racing
    BY <1>1, <2>2, <2>4 DEF Lost
  <2>5. CASE ~racing
    <3>1. c.typed \cup Stored \subseteq Stored'
      BY <1>6, <2>2, <2>3, <2>5
    <3>2. QED
      BY <1>1, <2>2, <2>5, <3>1
  <2>6. QED
    BY <2>4, <2>5
<1>11. CASE HandleBadly(c)
  BY <1>1, <1>2, <1>11 DEF HandleBadly, server, Stored
<1>12. CASE ReadElement(c)
  <2>. DEFINE new == [c EXCEPT !.read = session[c.record]]
  <2>1. new.typed = c.typed /\ new.state = c.state
    BY <1>0 DEF Call
  <2>2. /\ calls' = (calls \ {c}) \cup {new} /\ excused' = excused
        /\ session' = session /\ workspace' = workspace
    BY <1>12 DEF ReadElement, server
  <2>. HIDE DEF new
  <2>3. Stored' = Stored
    BY <2>2 DEF Stored
  <2>4. QED
    BY <1>0, <2>1, <2>2, <2>3 DEF KeptInv, Unhandled
<1>13. CASE StoreElement(c)
  <2>1. LostInRace(c) /\ calls \ {c} \subseteq calls' /\ workspace' = workspace
    BY <1>2, <1>13 DEF StoreElement
  <2>2. ASSUME ~racing
        PROVE  c.typed \cup Stored \subseteq Stored'
    <3>1. FormInv /\ ElementInv /\ c.record \in Records
      BY <1>0, <1>13, <2>2 DEF CalmInv, LoadInv, StoreElement, TypeInv, CallsOfRecords
    <3>2. /\ session[c.record].edits \cup c.typed = session'[c.record].edits
          /\ \A r \in Records \ {c.record} : session'[r] = session[r]
      BY <1>0, <1>13, <3>1, StoreCalm
    <3>3. Stored \subseteq Stored'
      BY <2>1, <3>1, <3>2, StoredKept
    <3>4. session'[c.record].edits \subseteq Stored'
      BY <3>1 DEF Stored
    <3>5. QED
      BY <3>2, <3>3, <3>4
  <2>3. QED
    BY <1>3, <2>1, <2>2
<1>14. QED
  BY <1>4, <1>5, <1>8, <1>9, <1>10, <1>11, <1>12, <1>13 DEF Handle

LEMMA KeptAnswered ==
  ASSUME TypeInv, CalmInv, KeptInv, NEW c \in calls, Answered(c)
  PROVE  KeptInv'
<1>0. /\ edits' = edits /\ Stored' = Stored /\ ~Unhandled(c) /\ panel \in Panels
  BY ServerAlone DEF TypeInv, TypeOK, Answered, Panels, Unhandled, Stored
<1>1. ASSUME calls \ {c} \subseteq calls',
             excused \cup panel.typed \subseteq excused' \cup panel'.typed
      PROVE  KeptInv'
  BY <1>0, <1>1 DEF KeptInv, Unhandled
<1>2. ASSUME ShowForm(c) \/ Close(c)
      PROVE  KeptInv'
  <2>1. c.op \notin Elements /\ calls' = calls \ {c}
    BY <1>2 DEF ShowForm, Close, Loads, Closes, Elements
  <2>2. CASE racing
    BY <1>1, <1>2, <2>1, <2>2 DEF ShowForm, Close, Overwrite
  <2>3. CASE ~racing
    <3>1. panel.typed = {}
      BY <2>1, <2>3, PanelTypes DEF CalmInv, ElementInv, LoadInv
    <3>2. excused' = excused
      BY <1>2, <2>3 DEF ShowForm, Close, Overwrite
    <3>3. QED
      BY <1>1, <2>1, <3>1, <3>2
  <2>4. QED
    BY <2>2, <2>3
<1>3. CASE Removed(c)
  <2>1. panel'.typed = panel.typed
    BY <1>0, <1>3 DEF Removed, ShowElement, Panels
  <2>2. QED
    BY <1>1, <1>3, <2>1 DEF Removed, auxiliary
<1>4. CASE SaveAfterAdding(c)
  <2>. DEFINE new == NewCall(c.id + 1, "save", panel.record, panel.typed)
  <2>1. new.state = "sent" /\ new.typed = panel.typed
    BY DEF NewCall
  <2>2. calls' = (calls \ {c}) \cup {new} /\ excused' = excused
    BY <1>4 DEF SaveAfterAdding, LoadUrl, Send
  <2>. HIDE DEF new
  <2>3. QED
    BY <1>0, <2>1, <2>2 DEF KeptInv, Unhandled
<1>5. QED
  BY <1>2, <1>3, <1>4 DEF Answered

LEMMA KeptFailed ==
  ASSUME TypeInv, KeptInv, NEW c \in calls, Failed(c) \/ TimeOut(c)
  PROVE  KeptInv'
<1>0. /\ c \in Call /\ UNCHANGED << panel, edits, excused >> /\ Stored' = Stored
  BY ServerAlone DEF TypeInv, TypeOK, Failed, TimeOut, Stored
<1>. DEFINE new == [c EXCEPT !.state = "abandoned"]
<1>1. new.typed = c.typed /\ new.state = "abandoned"
  BY <1>0 DEF Call
<1>2. \/ ~Unhandled(c) /\ calls' = calls \ {c}
      \/ calls' = (calls \ {c}) \cup {new}
  BY DEF Failed, TimeOut, Unhandled
<1>. HIDE DEF new
<1>3. QED
  BY <1>0, <1>1, <1>2 DEF KeptInv, Unhandled

LEMMA KeptStep ==
  ASSUME TypeInv, CalmInv, KeptInv, [Next]_vars
  PROVE  KeptInv'
<1>1. CASE UNCHANGED vars
  BY <1>1 DEF vars, client, network, server, auxiliary, KeptInv, Unhandled, Stored
<1>2. QED
  BY <1>1, KeptUser, KeptHandle, KeptAnswered, KeptFailed DEF Next
--------------------------------------------------------------------------------
LEMMA InitInv ==
  ASSUME Init
  PROVE  TypeInv /\ CalmInv /\ KeptInv
<1>1. First \in Records
  BY RecordsAssumption DEF First
<1>2. 1 \in Numberings
  BY BoundAssumption DEF Numberings
<1>3. /\ panel.record = First /\ panel.refs = 1 /\ panel.shown = {}
  BY <1>1, <1>2, PanelTypes DEF Init
<1>4. /\ session[First].refs = 1 /\ session[First].edits = {} /\ workspace[First] = {}
  BY <1>1 DEF Init, NoDocument
<1>5. CalmInv
  BY <1>3, <1>4 DEF Init, CalmInv, FormInv, ElementInv
<1>6. KeptInv
  BY DEF Init, KeptInv
<1>7. QED
  BY <1>5, <1>6, InitType

(***************************************************************************)
(* The variables have their types; in particular there are never more      *)
(* numberings of documents than calls, after the first one.                *)
(***************************************************************************)
THEOREM TypeCorrect == Spec => []TypeOK
<1>1. TypeInv => TypeOK
  BY DEF TypeInv
<1>2. QED
  BY <1>1, InitInv, TypeStep, PTL DEF Spec

(***************************************************************************)
(* The three invariants hold together.                                     *)
(***************************************************************************)
LEMMA Invariants == Spec => [](TypeInv /\ CalmInv /\ KeptInv)
BY InitInv, TypeStep, CalmStep, KeptStep, PTL DEF Spec

(***************************************************************************)
(* A form that the user can work in, when no call is under way and no load *)
(* has overlapped another call, nor two calls about elements one another   *)
(* on the server, since the last load that was alone, has the numbers of   *)
(* the session's document, shows only what is there, and all that is there *)
(* in a field (UpdateElement, AjaxEditUtils).                              *)
(***************************************************************************)
THEOREM FormFollows == Spec => []FormIsCurrent
<1>1. CalmInv => FormIsCurrent
  BY DEF CalmInv, FormInv, LoadInv, FormIsCurrent
<1>2. QED
  BY <1>1, Invariants, PTL

(***************************************************************************)
(* Although a save posts the whole form, and calls about elements exclude  *)
(* nobody, nothing that the user has typed, added or removed is lost       *)
(* between the form, the calls, the session and the workspace, except      *)
(* where the user gives it up, a call fails, or a load has overlapped      *)
(* another call, or two calls about elements one another on the server.    *)
(***************************************************************************)
THEOREM NothingIsLost == Spec => []NothingLost
<1>1. KeptInv => NothingLost
  BY DEF KeptInv, NothingLost
<1>2. QED
  BY <1>1, Invariants, PTL

(***************************************************************************)
(* A call about an element, a save or a finish changes the document that   *)
(* the form of the call was made of, unless a load and another call were   *)
(* under way together, or two calls about elements were handled at a time. *)
(***************************************************************************)
THEOREM AppliedToItsForm == Spec => AppliedWhereShown
<1>. DEFINE AsShown(c) ==
       /\ c.op \in Elements \cup {"save", "finish"}
       /\ Handle(c)
       /\ session' # session
       => racing \/ c.refs = session[c.record].refs
<1>1. ASSUME TypeInv, CalmInv, NEW c \in calls
      PROVE  AsShown(c)
  <2>. SUFFICES ASSUME c.op \in Elements \cup {"save", "finish"}, Handle(c),
                       session' # session, ~racing
                PROVE  c.refs = session[c.record].refs
    OBVIOUS
  <2>1. Unhandled(c)
    BY DEF Handle
  <2>2. CASE FormInv /\ ElementInv
    BY <2>1, <2>2 DEF ElementInv
  <2>3. CASE LoadInv
    <3>1. c.op \in {"save", "finish"}
      BY <2>3 DEF LoadInv
    <3>2. InSession(c)
      BY <3>1 DEF Handle, HandleLoad, HandleSave, HandleFinish, HandleCancel, FailSave,
         ReadElement, StoreElement, HandleBadly, Elements, server
    <3>3. c.record # None
      BY <1>1, <3>2, DocumentTypes, RecordsAssumption DEF InSession, TypeInv
    <3>4. QED
      BY <2>1, <2>3, <3>1, <3>3 DEF LoadInv
  <2>4. QED
    BY <1>1, <2>2, <2>3 DEF CalmInv
<1>2. TypeInv /\ CalmInv => [\A c \in calls : AsShown(c)]_vars
  BY <1>1
<1>3. QED
  BY <1>2, Invariants, PTL DEF AppliedWhereShown
================================================================================
