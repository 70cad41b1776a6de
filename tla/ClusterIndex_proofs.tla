-------------------------- MODULE ClusterIndex_proofs --------------------------
(***************************************************************************)
(* Theorems about the indexes of a cluster, for any number of nodes and    *)
(* requests.                                                               *)
(***************************************************************************)
EXTENDS ClusterIndex, TLAPS

(***************************************************************************)
(* The steps a request has still to make, as one can rely on them.  All of *)
(* this stays true when the first step is taken away.                      *)
(***************************************************************************)
StepsOn(operations, r) == {<< operation, r >> : operation \in operations}

Contains(s, steps) == \E i \in 1 .. Len(s) : s[i] \in steps

Followed(s, steps, others) ==
  \A i \in 1 .. Len(s) : s[i] \in steps => \E j \in i + 1 .. Len(s) : s[j] \in others

Looks(r) == StepsOn({"read", "unindex"}, r)
Tells(r) == StepsOn({"tell", "tellDelete"}, r)

\* What the request changes its node indexes, and it tells the other nodes, except
\* for a drop or for what it commits at its end.
Indexing(s) == \A r \in Rows : Followed(s, StepsOn(Statement, r), Looks(r))
Announcing(s) == \A r \in Rows : Followed(s, StepsOn(Statement \ {"drop"}, r), Tells(r))
AnnouncingDrops(s) == \A r \in Rows : Followed(s, StepsOn({"drop"}, r), Tells(r))

\* A row is read as soon as it has been told of, and its document stored as soon as it
\* has been read.
StoringNext(s) ==
  \A i \in 1 .. Len(s), r \in Rows :
    /\ s[i] = << "tell", r >> => i + 1 \in 1 .. Len(s) /\ s[i + 1] = << "read", r >>
    /\ s[i] = << "read", r >> => i + 1 \in 1 .. Len(s) /\ s[i + 1] = << "store", r >>
    /\ s[i] = << "store", r >> /\ i - 1 \in 1 .. Len(s) => s[i - 1] = << "read", r >>

\* What is left of a grab once its copy is changed, and of a deletion at its statements.
Grabbing ==
  << << "tell", "workspace" >>, << "read", "workspace" >>, << "store", "workspace" >>,
     << "commit", "workspace" >> >>
Deleted ==
  << << "commit", "metadata" >>, << "tellDelete", "metadata" >>,
     << "tellDelete", "workspace" >>, << "unindex", "metadata" >>,
     << "unindex", "workspace" >> >>
Deleting ==
  << << "remove", "metadata" >>, << "commit", "metadata" >>, << "tellDelete", "metadata" >>,
     << "tellDelete", "workspace" >>, << "unindex", "metadata" >>,
     << "unindex", "workspace" >> >>

SuffixAt(s, i, t) == Len(s) = i + Len(t) /\ \A j \in 1 .. Len(t) : s[i + j] = t[j]

\* Only these change a row without committing it, and nothing drops or copies the record.
KnownTransactions(s) ==
  \A i \in 1 .. Len(s) :
    /\ s[i] # << "drop", "metadata" >> /\ s[i] # << "copy", "metadata" >>
    /\ s[i] # << "update", "metadata" >>
    /\ s[i] = << "update", "workspace" >> => SuffixAt(s, i, Grabbing)
    /\ s[i] = << "remove", "workspace" >> => SuffixAt(s, i, Deleting)
    /\ s[i] = << "remove", "metadata" >> => SuffixAt(s, i, Deleted)

Planned(s) == Indexing(s) /\ Announcing(s) /\ StoringNext(s) /\ KnownTransactions(s)

Without(operation, s) == \A i \in 1 .. Len(s) : s[i][1] # operation

PlanInv ==
  \A n \in Nodes :
    /\ Planned(todo[n])
    /\ ~silent[n] => AnnouncingDrops(todo[n]) /\ Without("update", todo[n])
    /\ silent[n] => Without("remove", todo[n])

(***************************************************************************)
(* The rows that are changed and not committed.                            *)
(***************************************************************************)
Grabs(n) ==
  /\ written[n] = {"workspace"} /\ silent[n]
  /\ todo[n] \in {Grabbing, Tail(Grabbing), Tail(Tail(Grabbing)), Tail(Tail(Tail(Grabbing)))}

Deletes(n) ==
  /\ \A r \in written[n] : value[r] = 0
  /\ \/ written[n] = {"workspace"} /\ todo[n] = Deleting
     \/ todo[n] = Deleted

WrittenInv ==
  \A n \in Nodes :
    /\ written[n] # {} => Grabs(n) \/ Deletes(n)
    /\ \A r \in written[n] : row[r] # 0 /\ RowFree(n, r)

(***************************************************************************)
(* What a node knows of a row.                                             *)
(***************************************************************************)
\* The document when what the node has already read of the row is stored.
Stored(n, r, v) == IF v = 0 /\ r = "metadata" THEN index[n][r] ELSE v

ToBe(n, r) ==
  IF Handles(n, r) THEN IF Head(task[n]).delete THEN 0 ELSE Stored(n, r, found[n])
  ELSE IF AtStep(n, "store", r) THEN Stored(n, r, seen[n])
  ELSE index[n][r]

WillHear(n, messages) ==
  \E i \in 1 .. Len(topic[n]) : topic[n][i] \in messages

WillBeTold(n, steps) == \E other \in Nodes \ {n} : Contains(todo[other], steps)

About(r) == {m \in Message : m.row = r}
Deletion == [row |-> "metadata", delete |-> TRUE]

WillLook(n, r) ==
  Contains(todo[n], Looks(r)) \/ WillHear(n, About(r)) \/ WillBeTold(n, Tells(r))

WillDelete(n) ==
  \/ Contains(todo[n], {<< "unindex", "metadata" >>})
  \/ WillHear(n, {Deletion})
  \/ WillBeTold(n, {<< "tellDelete", "metadata" >>})

UpToDate(n, r) ==
  /\ ToBe(n, r) = RowAt(n, r)
  /\ row[r] = 0 \/ ~UnannouncedTo(n, r)

\* Two threads of a node store what they have read of a row only if this is in doubt.
NotBoth(n, r) == ~(Handles(n, r) /\ AtStep(n, "store", r))

KnowledgeFor(n, r) ==
  << n, r >> \notin doubtful =>
    /\ NotBoth(n, r)
    /\ WillLook(n, r) \/ UpToDate(n, r)
    /\ r = "metadata" /\ row[r] = 0 => WillDelete(n) \/ ToBe(n, r) = 0

KnowledgeInv == \A n \in Nodes, r \in Rows : KnowledgeFor(n, r)
--------------------------------------------------------------------------------
(***************************************************************************)
(* Sequences of steps, and what is left of them.                           *)
(***************************************************************************)
LEMMA SameSequence ==
  ASSUME NEW S, NEW s \in Seq(S), NEW t \in Seq(S), Len(s) = Len(t),
         \A i \in 1 .. Len(s) : s[i] = t[i]
  PROVE  s = t
OBVIOUS

LEMMA TailElements ==
  ASSUME NEW S, NEW s \in Seq(S), s # << >>
  PROVE  /\ Tail(s) \in Seq(S) /\ Head(s) = s[1] /\ Head(s) \in S
         /\ Len(s) \in Nat \ {0} /\ Len(Tail(s)) = Len(s) - 1
         /\ \A i \in 1 .. Len(Tail(s)) : Tail(s)[i] = s[i + 1]
OBVIOUS

LEMMA TailContains ==
  ASSUME NEW S, NEW s \in Seq(S), s # << >>, NEW steps
  PROVE  Contains(s, steps) <=> Head(s) \in steps \/ Contains(Tail(s), steps)
<1>. USE TailElements DEF Contains
<1>1. ASSUME Contains(s, steps), Head(s) \notin steps
      PROVE  Contains(Tail(s), steps)
  <2>1. PICK i \in 1 .. Len(s) : s[i] \in steps
    BY <1>1
  <2>2. i - 1 \in 1 .. Len(Tail(s)) /\ Tail(s)[i - 1] = s[i]
    BY <1>1, <2>1
  <2>3. QED
    BY <2>1, <2>2
<1>2. ASSUME Contains(Tail(s), steps)
      PROVE  Contains(s, steps)
  <2>1. PICK i \in 1 .. Len(Tail(s)) : Tail(s)[i] \in steps
    BY <1>2
  <2>2. i + 1 \in 1 .. Len(s) /\ s[i + 1] \in steps
    BY <2>1
  <2>3. QED
    BY <2>2
<1>3. ASSUME Head(s) \in steps
      PROVE  Contains(s, steps)
  BY <1>3
<1>4. QED
  BY <1>1, <1>2, <1>3

LEMMA TailFollowed ==
  ASSUME NEW S, NEW s \in Seq(S), s # << >>, NEW steps, NEW others, Followed(s, steps, others)
  PROVE  /\ Followed(Tail(s), steps, others)
         /\ Head(s) \in steps => Contains(Tail(s), others)
<1>. USE TailElements
<1>1. ASSUME NEW i \in 1 .. Len(Tail(s)), Tail(s)[i] \in steps
      PROVE  \E j \in i + 1 .. Len(Tail(s)) : Tail(s)[j] \in others
  <2>1. PICK j \in i + 2 .. Len(s) : s[j] \in others
    <3>1. i + 1 \in 1 .. Len(s) /\ s[i + 1] \in steps /\ (i + 1) + 1 = i + 2
      BY <1>1
    <3>2. QED
      BY <3>1 DEF Followed
  <2>2. j - 1 \in i + 1 .. Len(Tail(s)) /\ Tail(s)[j - 1] = s[j]
    BY <1>1, <2>1
  <2>3. QED
    BY <2>1, <2>2
<1>2. ASSUME Head(s) \in steps
      PROVE  Contains(Tail(s), others)
  <2>1. PICK j \in 2 .. Len(s) : s[j] \in others
    BY <1>2 DEF Followed
  <2>2. j - 1 \in 1 .. Len(Tail(s)) /\ Tail(s)[j - 1] = s[j]
    BY <2>1
  <2>3. QED
    BY <2>1, <2>2 DEF Contains
<1>3. QED
  BY <1>1, <1>2 DEF Followed

LEMMA TailSuffix ==
  ASSUME NEW S, NEW s \in Seq(S), s # << >>, NEW t \in Seq(S), NEW i \in 1 .. Len(Tail(s)),
         SuffixAt(s, i + 1, t)
  PROVE  SuffixAt(Tail(s), i, t)
<1>1. Len(Tail(s)) = i + Len(t)
  BY TailElements DEF SuffixAt
<1>2. ASSUME NEW j \in 1 .. Len(t)
      PROVE  Tail(s)[i + j] = t[j]
  <2>1. i + j \in 1 .. Len(Tail(s)) /\ (i + 1) + j = (i + j) + 1
    BY <1>1, <1>2
  <2>2. QED
    BY <2>1, TailElements DEF SuffixAt
<1>3. QED
  BY <1>1, <1>2 DEF SuffixAt

LEMMA SuffixIsTail ==
  ASSUME NEW S, NEW s \in Seq(S), s # << >>, NEW t \in Seq(S), SuffixAt(s, 1, t)
  PROVE  Tail(s) = t
<1>1. Len(Tail(s)) = Len(t) /\ Len(t) \in Nat
  BY TailElements DEF SuffixAt
<1>2. \A i \in 1 .. Len(t) : Tail(s)[i] = t[i]
  BY <1>1, TailElements DEF SuffixAt
<1>3. QED
  BY <1>1, <1>2, TailElements, SameSequence

Step == Operation \X Rows

LEMMA TransactionSteps ==
  /\ Grabbing \in Seq(Step) /\ Deleted \in Seq(Step) /\ Deleting \in Seq(Step)
BY DEF Grabbing, Deleted, Deleting, Step, Operation, Statement, Removing, Rows

\* One step of a request is made: what is left is still as planned.
LEMMA TailPlanned ==
  ASSUME NEW s \in Seq(Step), s # << >>, Planned(s)
  PROVE  /\ Planned(Tail(s))
         /\ AnnouncingDrops(s) => AnnouncingDrops(Tail(s))
<1>1. Indexing(Tail(s)) /\ Announcing(Tail(s))
  BY TailFollowed DEF Planned, Indexing, Announcing
<1>2. AnnouncingDrops(s) => AnnouncingDrops(Tail(s))
  BY TailFollowed DEF AnnouncingDrops
<1>3. StoringNext(Tail(s))
  <2>1. SUFFICES ASSUME NEW i \in 1 .. Len(Tail(s)), NEW r \in Rows
                 PROVE  /\ Tail(s)[i] = << "tell", r >> =>
                             /\ i + 1 \in 1 .. Len(Tail(s))
                             /\ Tail(s)[i + 1] = << "read", r >>
                        /\ Tail(s)[i] = << "read", r >> =>
                             /\ i + 1 \in 1 .. Len(Tail(s))
                             /\ Tail(s)[i + 1] = << "store", r >>
                        /\ Tail(s)[i] = << "store", r >> /\ i - 1 \in 1 .. Len(Tail(s)) =>
                             Tail(s)[i - 1] = << "read", r >>
    BY DEF StoringNext
  <2>2. i + 1 \in 1 .. Len(s) /\ s[i + 1] = Tail(s)[i]
    BY <2>1, TailElements
  <2>3. ASSUME NEW e, (i + 1) + 1 \in 1 .. Len(s), s[(i + 1) + 1] = e
        PROVE  i + 1 \in 1 .. Len(Tail(s)) /\ Tail(s)[i + 1] = e
    <3>1. i + 1 \in 1 .. Len(Tail(s))
      BY <2>3, TailElements
    <3>2. QED
      BY <2>3, <3>1, TailElements
  <2>4. ASSUME Tail(s)[i] = << "store", r >>, i - 1 \in 1 .. Len(Tail(s))
        PROVE  Tail(s)[i - 1] = << "read", r >>
    <3>1. (i + 1) - 1 = i /\ i \in 1 .. Len(s) /\ (i - 1) + 1 = i
      BY <2>2, <2>4, TailElements
    <3>2. s[i] = << "read", r >>
      BY <2>2, <2>4, <3>1 DEF Planned, StoringNext
    <3>3. QED
      BY <2>4, <3>1, <3>2, TailElements
  <2>5. /\ Tail(s)[i] = << "tell", r >> =>
             (i + 1) + 1 \in 1 .. Len(s) /\ s[(i + 1) + 1] = << "read", r >>
        /\ Tail(s)[i] = << "read", r >> =>
             (i + 1) + 1 \in 1 .. Len(s) /\ s[(i + 1) + 1] = << "store", r >>
    BY <2>2 DEF Planned, StoringNext
  <2>6. QED
    BY <2>3, <2>4, <2>5
<1>4. KnownTransactions(Tail(s))
  <2>1. SUFFICES ASSUME NEW i \in 1 .. Len(Tail(s))
                 PROVE  LET e == Tail(s)[i]
                        IN  /\ e # << "drop", "metadata" >> /\ e # << "copy", "metadata" >>
                            /\ e # << "update", "metadata" >>
                            /\ e = << "update", "workspace" >> => SuffixAt(Tail(s), i, Grabbing)
                            /\ e = << "remove", "workspace" >> => SuffixAt(Tail(s), i, Deleting)
                            /\ e = << "remove", "metadata" >> => SuffixAt(Tail(s), i, Deleted)
    BY DEF KnownTransactions
  <2>2. i + 1 \in 1 .. Len(s) /\ s[i + 1] = Tail(s)[i]
    BY <2>1, TailElements
  <2>3. QED
    BY <2>2, TailSuffix, TransactionSteps DEF Planned, KnownTransactions
<1>5. QED
  BY <1>1, <1>2, <1>3, <1>4 DEF Planned
--------------------------------------------------------------------------------
(***************************************************************************)
(* The requests are as planned: first what their parts are, step by step.  *)
(***************************************************************************)
LEMMA ShortSteps ==
  ASSUME NEW r \in Rows
  PROVE  /\ Index(r) = << << "tell", r >>, << "read", r >>, << "store", r >> >>
         /\ \A o : Steps(r, << o >>) = << << o, r >> >>
         /\ \A o, p : Steps(r, << o, p >>) = << << o, r >>, << p, r >> >>
BY DEF Index, Steps

LEMMA IndexBothSteps ==
  IndexBoth =
    << << "tell", "metadata" >>, << "read", "metadata" >>, << "store", "metadata" >>,
       << "tell", "workspace" >>, << "read", "workspace" >>, << "store", "workspace" >> >>
<1>. DEFINE m == << << "tell", "metadata" >>, << "read", "metadata" >>, << "store", "metadata" >> >>
            w == << << "tell", "workspace" >>, << "read", "workspace" >>,
                    << "store", "workspace" >> >>
            both == << << "tell", "metadata" >>, << "read", "metadata" >>, << "store", "metadata" >>,
                       << "tell", "workspace" >>, << "read", "workspace" >>,
                       << "store", "workspace" >> >>
<1>1. m \in Seq(Step) /\ w \in Seq(Step) /\ both \in Seq(Step)
  BY DEF Step, Operation, Statement, Removing, Rows
<1>2. m \o w \in Seq(Step) /\ Len(m \o w) = 6
  BY <1>1
<1>3. \A i \in 1 .. 6 : (m \o w)[i] = both[i]
  BY <1>1
<1>4. m \o w = both
  BY <1>1, <1>2, <1>3, SameSequence
<1>5. QED
  BY <1>4, ShortSteps DEF IndexBoth, Rows

LEMMA UnLockSteps ==
  UnLock =
    << << "write", "metadata" >>, << "tell", "metadata" >>, << "read", "metadata" >>,
       << "store", "metadata" >>, << "tell", "workspace" >>, << "read", "workspace" >>,
       << "store", "workspace" >> >>
<1>. DEFINE a == << << "write", "metadata" >> >>
            b == << << "tell", "metadata" >>, << "read", "metadata" >>,
                    << "store", "metadata" >>, << "tell", "workspace" >>,
                    << "read", "workspace" >>, << "store", "workspace" >> >>
            all == << << "write", "metadata" >>, << "tell", "metadata" >>,
                      << "read", "metadata" >>, << "store", "metadata" >>,
                      << "tell", "workspace" >>, << "read", "workspace" >>,
                      << "store", "workspace" >> >>
<1>1. a \in Seq(Step) /\ b \in Seq(Step) /\ all \in Seq(Step)
  BY DEF Step, Operation, Statement, Removing, Rows
<1>2. a \o b \in Seq(Step) /\ Len(a \o b) = 7
  BY <1>1
<1>3. \A i \in 1 .. 7 : (a \o b)[i] = all[i]
  BY <1>1
<1>4. a \o b = all
  BY <1>1, <1>2, <1>3, SameSequence
<1>5. QED
  BY <1>4, IndexBothSteps, ShortSteps DEF UnLock, Rows

LEMMA OpenEditorSteps ==
  OpenEditor =
    << << "write", "metadata" >>, << "copy", "workspace" >>, << "tell", "metadata" >>,
       << "read", "metadata" >>, << "store", "metadata" >>, << "tell", "workspace" >>,
       << "read", "workspace" >>, << "store", "workspace" >> >>
<1>. DEFINE a == << << "write", "metadata" >>, << "copy", "workspace" >> >>
            b == << << "tell", "metadata" >>, << "read", "metadata" >>,
                    << "store", "metadata" >>, << "tell", "workspace" >>,
                    << "read", "workspace" >>, << "store", "workspace" >> >>
            all == << << "write", "metadata" >>, << "copy", "workspace" >>,
                      << "tell", "metadata" >>, << "read", "metadata" >>,
                      << "store", "metadata" >>, << "tell", "workspace" >>,
                      << "read", "workspace" >>, << "store", "workspace" >> >>
<1>1. a \in Seq(Step) /\ b \in Seq(Step) /\ all \in Seq(Step)
  BY DEF Step, Operation, Statement, Removing, Rows
<1>2. a \o b \in Seq(Step) /\ Len(a \o b) = 8
  BY <1>1
<1>3. \A i \in 1 .. 8 : (a \o b)[i] = all[i]
  BY <1>1
<1>4. a \o b = all
  BY <1>1, <1>2, <1>3, SameSequence
<1>5. QED
  BY <1>4, IndexBothSteps DEF OpenEditor

LEMMA ChangeRecordSteps ==
  ChangeRecord =
    << << "write", "metadata" >>, << "tell", "metadata" >>, << "read", "metadata" >>,
       << "store", "metadata" >> >>
<1>. DEFINE a == << << "write", "metadata" >> >>
            b == << << "tell", "metadata" >>, << "read", "metadata" >>,
                    << "store", "metadata" >> >>
            all == << << "write", "metadata" >>, << "tell", "metadata" >>,
                      << "read", "metadata" >>, << "store", "metadata" >> >>
<1>1. a \in Seq(Step) /\ b \in Seq(Step) /\ all \in Seq(Step)
  BY DEF Step, Operation, Statement, Removing, Rows
<1>2. a \o b \in Seq(Step) /\ Len(a \o b) = 4
  BY <1>1
<1>3. \A i \in 1 .. 4 : (a \o b)[i] = all[i]
  BY <1>1
<1>4. a \o b = all
  BY <1>1, <1>2, <1>3, SameSequence
<1>5. QED
  BY <1>4, ShortSteps DEF ChangeRecord, Rows

LEMMA SaveCopySteps ==
  SaveCopy =
    << << "write", "workspace" >>, << "tell", "workspace" >>, << "read", "workspace" >>,
       << "store", "workspace" >> >>
<1>. DEFINE a == << << "write", "workspace" >> >>
            b == << << "tell", "workspace" >>, << "read", "workspace" >>,
                    << "store", "workspace" >> >>
            all == << << "write", "workspace" >>, << "tell", "workspace" >>,
                      << "read", "workspace" >>, << "store", "workspace" >> >>
<1>1. a \in Seq(Step) /\ b \in Seq(Step) /\ all \in Seq(Step)
  BY DEF Step, Operation, Statement, Removing, Rows
<1>2. a \o b \in Seq(Step) /\ Len(a \o b) = 4
  BY <1>1
<1>3. \A i \in 1 .. 4 : (a \o b)[i] = all[i]
  BY <1>1
<1>4. a \o b = all
  BY <1>1, <1>2, <1>3, SameSequence
<1>5. QED
  BY <1>4, ShortSteps DEF SaveCopy, Rows

LEMMA GrabCopySteps ==
  GrabCopy =
    << << "update", "workspace" >>, << "tell", "workspace" >>,
       << "read", "workspace" >>, << "store", "workspace" >>,
       << "commit", "workspace" >> >>
<1>. DEFINE a == << << "update", "workspace" >>, << "tell", "workspace" >>,
                    << "read", "workspace" >>, << "store", "workspace" >> >>
            b == << << "commit", "workspace" >> >>
            all == << << "update", "workspace" >>, << "tell", "workspace" >>,
                      << "read", "workspace" >>, << "store", "workspace" >>,
                      << "commit", "workspace" >> >>
<1>1. a \in Seq(Step) /\ b \in Seq(Step) /\ all \in Seq(Step)
  BY DEF Step, Operation, Statement, Removing, Rows
<1>2. a \o b \in Seq(Step) /\ Len(a \o b) = 5
  BY <1>1
<1>3. \A i \in 1 .. 5 : (a \o b)[i] = all[i]
  BY <1>1
<1>4. a \o b = all
  BY <1>1, <1>2, <1>3, SameSequence
<1>5. << << "update", "workspace" >> >> \o Index("workspace") = a
  <2>. DEFINE i == << << "tell", "workspace" >>, << "read", "workspace" >>,
                      << "store", "workspace" >> >>
              u == << << "update", "workspace" >> >>
  <2>1. u \in Seq(Step) /\ i \in Seq(Step)
    BY DEF Step, Operation, Statement, Removing, Rows
  <2>2. u \o i \in Seq(Step) /\ Len(u \o i) = 4
    BY <2>1
  <2>3. \A j \in 1 .. 4 : (u \o i)[j] = a[j]
    BY <2>1
  <2>4. u \o i = a
    BY <1>1, <2>2, <2>3, SameSequence
  <2>5. QED
    BY <2>4, ShortSteps DEF Rows
<1>6. QED
  BY <1>4, <1>5, ShortSteps DEF GrabCopy, Rows

(***************************************************************************)
(* Then what follows from the parts for the whole.                         *)
(***************************************************************************)
Whole(s) ==
  /\ s \in Seq(Step) /\ s # << >> /\ s[1][1] # "store"
  /\ Indexing(s) /\ Announcing(s) /\ StoringNext(s)
  /\ \A i \in 1 .. Len(s) :
       /\ s[i] # << "drop", "metadata" >> /\ s[i] # << "copy", "metadata" >>
       /\ s[i][1] # "update" /\ s[i][1] # "remove"

LEMMA Concatenated ==
  ASSUME NEW S, NEW s \in Seq(S), NEW t \in Seq(S)
  PROVE  /\ s \o t \in Seq(S) /\ Len(s \o t) = Len(s) + Len(t)
         /\ Len(s) \in Nat /\ Len(t) \in Nat
         /\ \A i \in 1 .. Len(s) : (s \o t)[i] = s[i]
         /\ \A i \in 1 .. Len(s) + Len(t) : i > Len(s) =>
              i - Len(s) \in 1 .. Len(t) /\ (s \o t)[i] = t[i - Len(s)]
         /\ \A i \in 1 .. Len(t) :
              Len(s) + i \in 1 .. Len(s) + Len(t) /\ (s \o t)[Len(s) + i] = t[i]
<1>1. /\ s \o t \in Seq(S) /\ Len(s \o t) = Len(s) + Len(t) /\ Len(s) \in Nat /\ Len(t) \in Nat
  OBVIOUS
<1>2. /\ \A i \in 1 .. Len(s) : (s \o t)[i] = s[i]
      /\ \A i \in 1 .. Len(t) : (s \o t)[Len(s) + i] = t[i]
  OBVIOUS
<1>3. \A i \in 1 .. Len(s) + Len(t) : i > Len(s) =>
        i - Len(s) \in 1 .. Len(t) /\ Len(s) + (i - Len(s)) = i
  BY <1>1
<1>4. \A i \in 1 .. Len(s) + Len(t) : i > Len(s) => (s \o t)[i] = t[i - Len(s)]
  <2>1. SUFFICES ASSUME NEW i \in 1 .. Len(s) + Len(t), i > Len(s)
                 PROVE  (s \o t)[i] = t[i - Len(s)]
    OBVIOUS
  <2>2. i - Len(s) \in 1 .. Len(t) /\ Len(s) + (i - Len(s)) = i
    BY <1>3, <2>1
  <2>3. (s \o t)[Len(s) + (i - Len(s))] = t[i - Len(s)]
    BY <1>2, <2>2
  <2>4. QED
    BY <2>2, <2>3
<1>5. \A i \in 1 .. Len(t) : Len(s) + i \in 1 .. Len(s) + Len(t)
  BY <1>1
<1>6. QED
  BY <1>1, <1>2, <1>3, <1>4, <1>5

LEMMA ConcatenatedFollowed ==
  ASSUME NEW S, NEW s \in Seq(S), NEW t \in Seq(S), NEW steps, NEW others,
         Followed(t, steps, others), Followed(s, steps, others) \/ Contains(t, others)
  PROVE  Followed(s \o t, steps, others)
<1>1. SUFFICES ASSUME NEW i \in 1 .. Len(s) + Len(t), (s \o t)[i] \in steps
               PROVE  \E j \in i + 1 .. Len(s) + Len(t) : (s \o t)[j] \in others
  BY Concatenated DEF Followed
<1>2. CASE i <= Len(s) /\ Contains(t, others)
  <2>1. PICK j \in 1 .. Len(t) : t[j] \in others
    BY <1>2 DEF Contains
  <2>2. Len(s) + j \in i + 1 .. Len(s) + Len(t) /\ (s \o t)[Len(s) + j] = t[j]
    BY <1>2, <2>1, Concatenated
  <2>3. QED
    BY <2>1, <2>2
<1>3. CASE i <= Len(s) /\ Followed(s, steps, others)
  <2>1. i \in 1 .. Len(s) /\ s[i] \in steps
    BY <1>1, <1>3, Concatenated
  <2>2. PICK j \in i + 1 .. Len(s) : s[j] \in others
    BY <1>3, <2>1 DEF Followed
  <2>3. j \in i + 1 .. Len(s) + Len(t) /\ j \in 1 .. Len(s)
    BY <2>1, <2>2, Concatenated
  <2>4. QED
    BY <2>2, <2>3, Concatenated
<1>4. CASE i > Len(s)
  <2>1. i - Len(s) \in 1 .. Len(t) /\ t[i - Len(s)] \in steps
    BY <1>1, <1>4, Concatenated
  <2>2. PICK j \in (i - Len(s)) + 1 .. Len(t) : t[j] \in others
    BY <2>1 DEF Followed
  <2>3. Len(s) + j \in i + 1 .. Len(s) + Len(t) /\ j \in 1 .. Len(t)
    BY <2>1, <2>2, Concatenated
  <2>4. QED
    BY <2>2, <2>3, Concatenated
<1>5. i <= Len(s) \/ i > Len(s)
  <2>1. Len(s) \in Nat /\ Len(t) \in Nat
    BY Concatenated
  <2>2. QED
    BY <2>1
<1>6. QED
  BY <1>2, <1>3, <1>4, <1>5

LEMMA ConcatenatedSuffix ==
  ASSUME NEW s \in Seq(Step), NEW t \in Seq(Step), NEW u \in Seq(Step), NEW i \in 1 .. Len(t),
         SuffixAt(t, i, u)
  PROVE  SuffixAt(s \o t, Len(s) + i, u)
<1>1. Len(s \o t) = (Len(s) + i) + Len(u) /\ Len(u) \in Nat
  <2>1. Len(s \o t) = Len(s) + Len(t) /\ Len(s) \in Nat
    BY Concatenated
  <2>2. Len(t) = i + Len(u) /\ Len(u) \in Nat
    BY DEF SuffixAt
  <2>3. QED
    BY <2>1, <2>2
<1>2. ASSUME NEW j \in 1 .. Len(u)
      PROVE  (s \o t)[(Len(s) + i) + j] = u[j]
  <2>1. i + j \in 1 .. Len(t) /\ Len(s) + (i + j) = (Len(s) + i) + j
    BY <1>1, Concatenated DEF SuffixAt
  <2>2. t[i + j] = u[j]
    BY DEF SuffixAt
  <2>3. QED
    BY <2>1, <2>2, Concatenated
<1>3. QED
  BY <1>1, <1>2, Concatenated DEF SuffixAt

LEMMA WholeThen ==
  ASSUME NEW s, Whole(s), NEW t \in Seq(Step), t # << >>, Planned(t), t[1][1] # "store"
  PROVE  /\ s \o t \in Seq(Step) /\ Planned(s \o t)
         /\ Whole(t) => Whole(s \o t)
<1>. DEFINE st == s \o t
<1>1. /\ s \in Seq(Step) /\ st \in Seq(Step) /\ Len(st) = Len(s) + Len(t)
      /\ Len(s) \in Nat \ {0} /\ Len(t) \in Nat \ {0}
  BY Concatenated DEF Whole
<1>2. Indexing(st) /\ Announcing(st)
  BY <1>1, ConcatenatedFollowed DEF Whole, Planned, Indexing, Announcing
<1>3. \A i \in 1 .. Len(st) :
        \/ i \in 1 .. Len(s) /\ st[i] = s[i]
        \/ i - Len(s) \in 1 .. Len(t) /\ st[i] = t[i - Len(s)]
  BY <1>1, Concatenated
<1>. HIDE DEF st
<1>4. StoringNext(st)
  <2>1. SUFFICES ASSUME NEW i \in 1 .. Len(st), NEW r \in Rows
                 PROVE  /\ st[i] = << "tell", r >> =>
                             i + 1 \in 1 .. Len(st) /\ st[i + 1] = << "read", r >>
                        /\ st[i] = << "read", r >> =>
                             i + 1 \in 1 .. Len(st) /\ st[i + 1] = << "store", r >>
                        /\ st[i] = << "store", r >> /\ i - 1 \in 1 .. Len(st) =>
                             st[i - 1] = << "read", r >>
    BY DEF StoringNext
  <2>2. CASE i \in 1 .. Len(s) /\ st[i] = s[i]
    <3>1. /\ st[i] = << "tell", r >> => i + 1 \in 1 .. Len(s) /\ s[i + 1] = << "read", r >>
          /\ st[i] = << "read", r >> => i + 1 \in 1 .. Len(s) /\ s[i + 1] = << "store", r >>
      BY <2>2 DEF Whole, StoringNext
    <3>2. i + 1 \in 1 .. Len(s) => i + 1 \in 1 .. Len(st) /\ st[i + 1] = s[i + 1]
      BY <1>1, Concatenated DEF st
    <3>3. st[i] = << "store", r >> /\ i - 1 \in 1 .. Len(s) => s[i - 1] = << "read", r >>
      BY <2>2 DEF Whole, StoringNext
    <3>4. i - 1 \in 1 .. Len(st) => i - 1 \in 1 .. Len(s) /\ st[i - 1] = s[i - 1]
      BY <1>1, <2>2, Concatenated DEF st
    <3>5. QED
      BY <3>1, <3>2, <3>3, <3>4
  <2>3. CASE i - Len(s) \in 1 .. Len(t) /\ st[i] = t[i - Len(s)]
    <3>. DEFINE k == i - Len(s)
    <3>1. k \in 1 .. Len(t) /\ i = Len(s) + k
      BY <1>1, <2>3
    <3>2. /\ st[i] = << "tell", r >> => k + 1 \in 1 .. Len(t) /\ t[k + 1] = << "read", r >>
          /\ st[i] = << "read", r >> => k + 1 \in 1 .. Len(t) /\ t[k + 1] = << "store", r >>
      BY <2>3 DEF Planned, StoringNext
    <3>3. k + 1 \in 1 .. Len(t) => i + 1 \in 1 .. Len(st) /\ st[i + 1] = t[k + 1]
      <4>1. k + 1 \in 1 .. Len(t) => Len(s) + (k + 1) = i + 1
        BY <1>1, <3>1
      <4>2. QED
        BY <1>1, <4>1, Concatenated DEF st
    <3>4. ASSUME st[i] = << "store", r >>, i - 1 \in 1 .. Len(st)
          PROVE  st[i - 1] = << "read", r >>
      <4>1. k # 1
        <5>1. k = 1 => t[1] = << "store", r >>
          BY <2>3, <3>4
        <5>2. QED
          BY <5>1
      <4>2. k - 1 \in 1 .. Len(t) /\ Len(s) + (k - 1) = i - 1
        BY <1>1, <3>1, <4>1
      <4>3. t[k - 1] = << "read", r >>
        BY <2>3, <3>4, <4>2 DEF Planned, StoringNext
      <4>4. QED
        BY <1>1, <4>2, <4>3, Concatenated DEF st
    <3>5. QED
      BY <3>2, <3>3, <3>4
  <2>4. QED
    BY <1>3, <2>2, <2>3
<1>5. KnownTransactions(st)
  <2>1. SUFFICES ASSUME NEW i \in 1 .. Len(st)
                 PROVE  /\ st[i] # << "drop", "metadata" >> /\ st[i] # << "copy", "metadata" >>
                        /\ st[i] # << "update", "metadata" >>
                        /\ st[i] = << "update", "workspace" >> => SuffixAt(st, i, Grabbing)
                        /\ st[i] = << "remove", "workspace" >> => SuffixAt(st, i, Deleting)
                        /\ st[i] = << "remove", "metadata" >> => SuffixAt(st, i, Deleted)
    BY DEF KnownTransactions
  <2>2. CASE i \in 1 .. Len(s) /\ st[i] = s[i]
    BY <2>2 DEF Whole
  <2>3. CASE i - Len(s) \in 1 .. Len(t) /\ st[i] = t[i - Len(s)]
    <3>. DEFINE k == i - Len(s)
    <3>1. k \in 1 .. Len(t) /\ i = Len(s) + k
      BY <1>1, <2>3
    <3>2. \A u \in Seq(Step) : SuffixAt(t, k, u) => SuffixAt(st, i, u)
      BY <1>1, <3>1, ConcatenatedSuffix DEF st
    <3>3. QED
      BY <2>3, <3>1, <3>2, TransactionSteps DEF Planned, KnownTransactions
  <2>4. QED
    BY <1>3, <2>2, <2>3
<1>6. Whole(t) => Whole(st)
  <2>1. st # << >> /\ st[1] = s[1]
    BY <1>1, Concatenated DEF st
  <2>2. QED
    BY <1>1, <1>2, <1>3, <1>4, <2>1 DEF Whole
<1>7. QED
  BY <1>1, <1>2, <1>4, <1>5, <1>6 DEF Planned, st

LEMMA WholeParts ==
  /\ Whole(Index("metadata")) /\ Whole(Index("workspace"))
  /\ Whole(UnLock) /\ Whole(OpenEditor) /\ Whole(ChangeRecord) /\ Whole(SaveCopy)
  /\ Whole(DropWorkspace)
  /\ AnnouncingDrops(Index("metadata")) /\ AnnouncingDrops(UnLock)
  /\ AnnouncingDrops(ChangeRecord) /\ AnnouncingDrops(SaveCopy)
<1>. USE DEF Whole, Followed, StepsOn, Looks, Tells
<1>. USE DEF Indexing, Announcing, AnnouncingDrops, StoringNext
<1>. USE DEF Step, Operation, Statement, Removing, Rows
<1>1. /\ Whole(Index("metadata")) /\ AnnouncingDrops(Index("metadata"))
      /\ Whole(Index("workspace"))
  <2>. DEFINE m == << << "tell", "metadata" >>, << "read", "metadata" >>,
                      << "store", "metadata" >> >>
  <2>1. Whole(m) /\ AnnouncingDrops(m)
    OBVIOUS
  <2>2. Whole(<< << "tell", "workspace" >>, << "read", "workspace" >>,
                 << "store", "workspace" >> >>)
    OBVIOUS
  <2>. HIDE DEF Whole, AnnouncingDrops
  <2>3. QED
    BY <2>1, <2>2, ShortSteps
<1>2. Whole(UnLock) /\ AnnouncingDrops(UnLock)
  BY UnLockSteps
<1>3. Whole(OpenEditor)
  BY OpenEditorSteps
<1>4. Whole(ChangeRecord) /\ AnnouncingDrops(ChangeRecord)
  BY ChangeRecordSteps
<1>5. Whole(SaveCopy) /\ AnnouncingDrops(SaveCopy)
  BY SaveCopySteps
<1>6. Whole(DropWorkspace)
  <2>1. DropWorkspace = << << "drop", "workspace" >>, << "unindex", "workspace" >> >>
    BY ShortSteps DEF DropWorkspace
  <2>2. QED
    BY <2>1
<1>. HIDE DEF Whole, AnnouncingDrops
<1>7. QED
  BY <1>1, <1>2, <1>3, <1>4, <1>5, <1>6

\* What holds of a request that has just begun.
Begun(s) == s \in Seq(Step) /\ s # << >> /\ s[1][1] # "store" /\ Planned(s)

Announced(s) == \A r \in Rows : Contains(s, Tells(r))

LEMMA WholeBegun ==
  ASSUME NEW s, Whole(s), NEW t, Whole(t)
  PROVE  /\ Begun(s) /\ Whole(s \o t)
         /\ AnnouncingDrops(s) /\ AnnouncingDrops(t) => AnnouncingDrops(s \o t)
         /\ Announced(t) /\ AnnouncingDrops(t) => AnnouncingDrops(s \o t)
         /\ Announced(s) \/ Announced(t) => Announced(s \o t)
<1>1. Planned(s) /\ Planned(t)
  BY DEF Whole, Planned, KnownTransactions
<1>2. Whole(s \o t)
  BY <1>1, WholeThen DEF Whole
<1>3. s \in Seq(Step) /\ t \in Seq(Step)
  BY DEF Whole
<1>4. /\ AnnouncingDrops(s) /\ AnnouncingDrops(t) => AnnouncingDrops(s \o t)
      /\ Announced(t) /\ AnnouncingDrops(t) => AnnouncingDrops(s \o t)
  BY <1>3, ConcatenatedFollowed DEF AnnouncingDrops, Announced
<1>5. Announced(s) \/ Announced(t) => Announced(s \o t)
  <2>1. \A i \in 1 .. Len(s) : i \in 1 .. Len(s \o t) /\ (s \o t)[i] = s[i]
    BY <1>3, Concatenated
  <2>2. \A i \in 1 .. Len(t) :
          Len(s) + i \in 1 .. Len(s \o t) /\ (s \o t)[Len(s) + i] = t[i]
    BY <1>3, Concatenated
  <2>3. QED
    BY <2>1, <2>2 DEF Announced, Contains
<1>6. QED
  BY <1>1, <1>2, <1>4, <1>5 DEF Begun, Whole

LEMMA GrabBegun ==
  /\ Begun(GrabLock) /\ Announced(GrabLock)
  /\ Without("remove", GrabLock)
<1>1. GrabCopy \in Seq(Step) /\ GrabCopy # << >> /\ GrabCopy[1][1] # "store" /\ Len(GrabCopy) = 5
  BY GrabCopySteps DEF Step, Operation, Statement, Removing, Rows
<1>2. Planned(GrabCopy)
  <2>. USE GrabCopySteps DEF Followed, StepsOn, Looks, Tells
  <2>1. Indexing(GrabCopy)
    BY DEF Indexing, Statement, Removing, Rows
  <2>2. Announcing(GrabCopy)
    BY DEF Announcing, Statement, Removing, Rows
  <2>3. StoringNext(GrabCopy)
    BY DEF StoringNext, Rows
  <2>4. KnownTransactions(GrabCopy)
    <3>1. SuffixAt(GrabCopy, 1, Grabbing)
      BY DEF SuffixAt, Grabbing
    <3>2. QED
      BY <3>1 DEF KnownTransactions
  <2>5. QED
    BY <2>1, <2>2, <2>3, <2>4 DEF Planned
<1>3. Whole(ChangeRecord) /\ ChangeRecord \in Seq(Step) /\ Len(ChangeRecord) = 4
      /\ ChangeRecord # << >>
  BY WholeParts, ChangeRecordSteps DEF Whole
<1>4. Planned(GrabLock) /\ GrabLock \in Seq(Step)
  BY <1>1, <1>2, <1>3, WholeThen DEF GrabLock
<1>5. /\ Len(GrabLock) = Len(ChangeRecord) + Len(GrabCopy)
      /\ \A i \in 1 .. Len(ChangeRecord) : GrabLock[i] = ChangeRecord[i]
      /\ \A i \in 1 .. Len(ChangeRecord) + Len(GrabCopy) : i > Len(ChangeRecord) =>
           /\ i - Len(ChangeRecord) \in 1 .. Len(GrabCopy)
           /\ GrabLock[i] = GrabCopy[i - Len(ChangeRecord)]
  <2>1. ChangeRecord \in Seq(Step) /\ GrabCopy \in Seq(Step)
    BY <1>1, <1>3
  <2>2. QED
    BY <2>1, Concatenated DEF GrabLock
<1>6. /\ Len(GrabLock) = 9
      /\ \A i \in 1 .. 4 : GrabLock[i] = ChangeRecord[i]
      /\ \A i \in 1 .. 9 : i > 4 => i - 4 \in 1 .. 5 /\ GrabLock[i] = GrabCopy[i - 4]
  BY <1>1, <1>3, <1>5
<1>7. Announced(GrabLock)
  <2>1. GrabLock[2] = << "tell", "metadata" >> /\ 2 \in 1 .. Len(GrabLock)
    BY <1>6, ChangeRecordSteps
  <2>2. GrabLock[6] = << "tell", "workspace" >> /\ 6 \in 1 .. Len(GrabLock)
    BY <1>6, GrabCopySteps
  <2>3. QED
    BY <2>1, <2>2 DEF Announced, Contains, Tells, StepsOn, Rows
<1>8. GrabLock # << >> /\ GrabLock[1][1] # "store"
  BY <1>3, <1>4, <1>6 DEF Whole
<1>9. \A i \in 1 .. Len(GrabLock) : GrabLock[i][1] # "remove"
  <2>1. \A i \in 1 .. Len(GrabLock) :
          \/ i \in 1 .. 4 /\ GrabLock[i] = ChangeRecord[i]
          \/ i - 4 \in 1 .. 5 /\ GrabLock[i] = GrabCopy[i - 4]
    BY <1>6
  <2>2. \A i \in 1 .. 5 : GrabCopy[i][1] # "remove"
    BY GrabCopySteps
  <2>3. QED
    BY <1>3, <2>1, <2>2 DEF Whole
<1>10. QED
  BY <1>4, <1>7, <1>8, <1>9 DEF Begun, Without

LEMMA DeleteBegun ==
  Begun(Delete) /\ AnnouncingDrops(Delete) /\ Without("update", Delete)
<1>. USE DEF Delete, Followed, StepsOn, Looks, Tells
<1>1. Delete \in Seq(Step) /\ Delete # << >> /\ Delete[1][1] # "store"
  BY DEF Step, Operation, Statement, Removing, Rows
<1>2. Indexing(Delete)
  BY DEF Indexing, Statement, Removing, Rows
<1>3. Announcing(Delete) /\ AnnouncingDrops(Delete)
  BY DEF Announcing, AnnouncingDrops, Statement, Removing, Rows
<1>4. StoringNext(Delete)
  BY DEF StoringNext, Rows
<1>5. KnownTransactions(Delete)
  <2>1. SuffixAt(Delete, 1, Deleting) /\ SuffixAt(Delete, 2, Deleted)
    BY DEF SuffixAt, Deleting, Deleted
  <2>2. QED
    BY <2>1 DEF KnownTransactions
<1>6. QED
  BY <1>1, <1>2, <1>3, <1>4, <1>5 DEF Begun, Planned, Without

\* The requests that Update makes.
LEMMA UpdatesBegun ==
  ASSUME NEW flagged \in BOOLEAN, NEW drafted \in BOOLEAN
  PROVE  /\ Begun(SaveEdit(flagged, drafted)) /\ AnnouncingDrops(SaveEdit(flagged, drafted))
         /\ Without("update", SaveEdit(flagged, drafted))
         /\ Begun(ForgetEdit(flagged)) /\ Announced(ForgetEdit(flagged))
         /\ Without("remove", ForgetEdit(flagged))
<1>1. /\ Whole(UnLock) /\ Whole(SetStatus) /\ Whole(SaveCopy) /\ Whole(DropWorkspace)
      /\ AnnouncingDrops(SetStatus) /\ AnnouncingDrops(SaveCopy)
  BY WholeParts DEF UnLock, SetStatus
<1>2. Whole(ShowRecord(flagged)) /\ AnnouncingDrops(ShowRecord(flagged))
  BY WholeParts DEF ShowRecord
<1>3. Announced(UnLock)
  <2>1. \A r \in Rows : << "tell", r >> \in Tells(r)
    BY DEF Tells, StepsOn
  <2>2. QED
    BY <2>1, UnLockSteps DEF Announced, Contains, Rows
<1>4. Whole(SaveEdit(flagged, drafted)) /\ AnnouncingDrops(SaveEdit(flagged, drafted))
  <2>1. Whole(SetStatus \o SaveCopy) /\ AnnouncingDrops(SetStatus \o SaveCopy)
    BY <1>1, WholeBegun
  <2>2. QED
    BY <1>1, <1>2, <2>1, WholeBegun DEF SaveEdit
<1>5. Whole(ForgetEdit(flagged)) /\ Announced(ForgetEdit(flagged))
  <2>1. Whole(ShowRecord(flagged) \o UnLock) /\ Announced(ShowRecord(flagged) \o UnLock)
    BY <1>1, <1>2, <1>3, WholeBegun
  <2>2. QED
    BY <1>1, <2>1, WholeBegun DEF ForgetEdit
<1>6. QED
  BY <1>4, <1>5, WholeBegun DEF Whole, Without

Requests ==
  {OpenEditor, CancelEdit, RevertEdit, GrabLock, Approve, Delete}
    \cup {SaveEdit(flagged, drafted) : flagged, drafted \in BOOLEAN}
    \cup {ForgetEdit(flagged) : flagged \in BOOLEAN}

LEMMA RequestsBegun ==
  ASSUME NEW s \in Requests
  PROVE  /\ Begun(s)
         /\ s \notin Silent => AnnouncingDrops(s) /\ Without("update", s)
         /\ s \in Silent => Announced(s) /\ Without("remove", s)
<1>. USE DEF Rows
<1>1. /\ Whole(UnLock) /\ Whole(OpenEditor) /\ Whole(ChangeRecord) /\ Whole(DropWorkspace)
      /\ Whole(Index("metadata")) /\ Whole(SetStatus)
      /\ AnnouncingDrops(UnLock) /\ AnnouncingDrops(SetStatus)
  BY WholeParts DEF UnLock, SetStatus
<1>2. Announced(UnLock) /\ Announced(SetStatus)
  <2>1. \A r \in Rows : << "tell", r >> \in Tells(r)
    BY DEF Tells, StepsOn
  <2>2. Announced(UnLock)
    BY <2>1, UnLockSteps DEF Announced, Contains
  <2>3. QED
    BY <2>2 DEF UnLock, SetStatus
<1>3. Begun(OpenEditor) /\ AnnouncingDrops(OpenEditor) /\ Without("update", OpenEditor)
  <2>1. AnnouncingDrops(OpenEditor)
    BY OpenEditorSteps DEF AnnouncingDrops, Followed, StepsOn
  <2>2. QED
    BY <1>1, <2>1, WholeBegun DEF Whole, Without
<1>4. Whole(CancelEdit) /\ Announced(CancelEdit) /\ Begun(CancelEdit)
      /\ Without("remove", CancelEdit)
  <2>1. Whole(UnLock \o DropWorkspace) /\ Announced(UnLock \o DropWorkspace)
    BY <1>1, <1>2, WholeBegun
  <2>2. Whole(CancelEdit) /\ Announced(CancelEdit)
    BY <1>1, <2>1, WholeBegun DEF CancelEdit
  <2>3. QED
    BY <2>2, WholeBegun DEF Whole, Without
<1>5. Begun(RevertEdit) /\ AnnouncingDrops(RevertEdit) /\ Without("update", RevertEdit)
  <2>1. Whole(RevertEdit) /\ AnnouncingDrops(RevertEdit)
    BY <1>1, <1>2, <1>4, WholeBegun DEF RevertEdit
  <2>2. QED
    BY <2>1, WholeBegun DEF Whole, Without
<1>6. Begun(Approve) /\ AnnouncingDrops(Approve) /\ Without("update", Approve)
  <2>1. Whole(UnLock \o ChangeRecord)
    BY <1>1, WholeBegun
  <2>2. Whole(UnLock \o ChangeRecord \o DropWorkspace)
    BY <1>1, <2>1, WholeBegun
  <2>3. Whole(Approve) /\ AnnouncingDrops(Approve)
    BY <1>1, <1>2, <2>2, WholeBegun DEF Approve
  <2>4. QED
    BY <2>3, WholeBegun DEF Whole, Without
<1>7. /\ s \notin Silent => s \in {OpenEditor, RevertEdit, Approve, Delete}
                               \cup {SaveEdit(f, d) : f, d \in BOOLEAN}
      /\ s \in Silent => s \in {CancelEdit, GrabLock} \cup {ForgetEdit(f) : f \in BOOLEAN}
  BY DEF Requests, Silent
<1>8. s \notin Silent => Begun(s) /\ AnnouncingDrops(s) /\ Without("update", s)
  BY <1>3, <1>5, <1>6, <1>7, UpdatesBegun, DeleteBegun
<1>9. s \in Silent => Begun(s) /\ Announced(s) /\ Without("remove", s)
  BY <1>4, <1>7, UpdatesBegun, GrabBegun
<1>10. QED
  BY <1>8, <1>9
--------------------------------------------------------------------------------
(***************************************************************************)
(* A request begins, or makes a step.                                      *)
(***************************************************************************)
LEMMA RequestBegins ==
  ASSUME TypeOK, PlanInv, NEW n \in Nodes, Serve(n)
  PROVE  /\ todo[n] = << >> /\ requests' = requests + 1 /\ requests < MaxRequests
         /\ UNCHANGED << database, seen, inbox, index, doubtful >>
         /\ todo' \in [Nodes -> Seq(Step)] /\ silent' \in [Nodes -> BOOLEAN] /\ PlanInv'
         /\ \A k \in Nodes \ {n} : todo'[k] = todo[k] /\ silent'[k] = silent[k]
         /\ todo'[n] # << >> /\ todo'[n][1][1] # "store"
         /\ silent'[n] => Announced(todo'[n])
<1>1. PICK s \in Requests : Begin(n, s)
  BY DEF Serve, Requests
<1>2. Begun(s) /\ s \in Seq(Step)
  BY RequestsBegun DEF Begun
<1>3. todo \in [Nodes -> Seq(Step)] /\ silent \in [Nodes -> BOOLEAN]
  BY DEF TypeOK, Step
<1>4. /\ todo' = [todo EXCEPT ![n] = s]
      /\ silent' = [silent EXCEPT ![n] = s \in Silent]
  BY <1>1 DEF Begin
<1>5. todo' \in [Nodes -> Seq(Step)] /\ todo'[n] = s
  BY <1>2, <1>3, <1>4
<1>6. silent' \in [Nodes -> BOOLEAN]
  BY <1>3, <1>4
<1>7. silent'[n] <=> s \in Silent
  BY <1>3, <1>4
<1>8. \A k \in Nodes \ {n} : todo'[k] = todo[k] /\ silent'[k] = silent[k]
  BY <1>3, <1>4
<1>9. PlanInv'
  BY <1>2, <1>5, <1>7, <1>8, RequestsBegun DEF PlanInv, Begun
<1>10. /\ todo[n] = << >> /\ requests' = requests + 1 /\ requests < MaxRequests
       /\ UNCHANGED << database, seen, inbox, index, doubtful >>
  BY <1>1 DEF Begin, Idle
<1>11. QED
  BY <1>2, <1>5, <1>6, <1>7, <1>8, <1>9, <1>10, RequestsBegun DEF Begun

LEMMA StepMade ==
  ASSUME TypeOK, PlanInv, NEW n \in Nodes, todo[n] # << >>, StepDone(n)
  PROVE  /\ todo[n] \in Seq(Step) /\ todo'[n] = Tail(todo[n])
         /\ todo' \in [Nodes -> Seq(Step)] /\ silent' \in [Nodes -> BOOLEAN] /\ PlanInv'
         /\ \A k \in Nodes \ {n} : todo'[k] = todo[k] /\ silent'[k] = silent[k]
         /\ silent'[n] <=> silent[n] /\ todo'[n] # << >>
<1>1. todo \in [Nodes -> Seq(Step)] /\ silent \in [Nodes -> BOOLEAN]
  BY DEF TypeOK, Step
<1>2. /\ todo' = [todo EXCEPT ![n] = Tail(todo[n])]
      /\ silent' = [silent EXCEPT ![n] = silent[n] /\ Tail(todo[n]) # << >>]
  BY DEF StepDone, StepsDone
<1>3. todo[n] \in Seq(Step) /\ Tail(todo[n]) \in Seq(Step)
  BY <1>1, TailElements
<1>4. todo' \in [Nodes -> Seq(Step)] /\ todo'[n] = Tail(todo[n])
  BY <1>1, <1>2, <1>3
<1>5. silent' \in [Nodes -> BOOLEAN]
  BY <1>1, <1>2
<1>6. silent'[n] <=> silent[n] /\ todo'[n] # << >>
  BY <1>1, <1>2, <1>4
<1>7. \A k \in Nodes \ {n} : todo'[k] = todo[k] /\ silent'[k] = silent[k]
  BY <1>1, <1>2
<1>8. /\ Planned(todo'[n])
      /\ AnnouncingDrops(todo[n]) => AnnouncingDrops(todo'[n])
  BY <1>3, <1>4, TailPlanned DEF PlanInv
<1>9. \A operation : Without(operation, todo[n]) => Without(operation, todo'[n])
  <2>1. \A i \in 1 .. Len(Tail(todo[n])) :
          i + 1 \in 1 .. Len(todo[n]) /\ Tail(todo[n])[i] = todo[n][i + 1]
    BY <1>3, TailElements
  <2>2. QED
    BY <1>4, <2>1 DEF Without
<1>10. todo'[n] = << >> => AnnouncingDrops(todo'[n]) /\ \A operation : Without(operation, todo'[n])
  BY DEF AnnouncingDrops, Followed, Without
<1>11. PlanInv'
  BY <1>6, <1>7, <1>8, <1>9, <1>10 DEF PlanInv
<1>12. QED
  BY <1>3, <1>4, <1>5, <1>6, <1>7, <1>11

\* Which step has been made.
LEMMA StepKnown ==
  ASSUME TypeOK, PlanInv, NEW n \in Nodes, NEW operation, NEW r, AtStep(n, operation, r)
  PROVE  /\ todo[n] # << >> /\ Head(todo[n]) = << operation, r >>
         /\ todo[n][1] = << operation, r >> /\ 1 \in 1 .. Len(todo[n])
         /\ todo[n] \in Seq(Step) /\ Planned(todo[n])
         /\ operation \in Operation /\ r \in Rows
<1>1. todo[n] # << >> /\ Head(todo[n]) = << operation, r >>
  BY DEF AtStep, Idle
<1>2. todo[n] \in Seq(Step)
  BY DEF TypeOK, Step
<1>3. /\ Head(todo[n]) = todo[n][1] /\ Head(todo[n]) \in Step /\ Len(todo[n]) \in Nat \ {0}
  BY <1>1, <1>2, TailElements
<1>4. operation \in Operation /\ r \in Rows
  BY <1>1, <1>3 DEF Step
<1>5. QED
  BY <1>1, <1>2, <1>3, <1>4 DEF PlanInv

\* A request skips an announcement with what follows it.
LEMMA IndexingSkipped ==
  ASSUME NEW s \in Seq(Step), NEW r \in Rows, s # << >>, s[1] = << "tell", r >>, Planned(s)
  PROVE  /\ Tail(s) \in Seq(Step) /\ Tail(s) # << >> /\ Head(Tail(s)) = << "read", r >>
         /\ Tail(Tail(s)) \in Seq(Step) /\ Tail(Tail(s)) # << >>
         /\ Head(Tail(Tail(s))) = << "store", r >>
         /\ Tail(Tail(Tail(s))) \in Seq(Step) /\ Planned(Tail(Tail(Tail(s))))
<1>1. /\ Tail(s) \in Seq(Step) /\ Len(Tail(s)) = Len(s) - 1 /\ Len(s) \in Nat \ {0}
      /\ Planned(Tail(s))
      /\ \A i \in 1 .. Len(Tail(s)) : Tail(s)[i] = s[i + 1]
  BY TailElements, TailPlanned
<1>2. 2 \in 1 .. Len(s) /\ s[2] = << "read", r >>
  <2>1. 1 \in 1 .. Len(s) /\ 1 + 1 = 2
    BY <1>1
  <2>2. QED
    BY <2>1 DEF Planned, StoringNext
<1>. DEFINE full(u) == u \in Seq(Step) /\ 1 \in 1 .. Len(u)
<1>. HIDE DEF full
<1>0. \A u : full(u) => u # << >>
  BY DEF full
<1>3. Tail(s) # << >> /\ Tail(s)[1] = << "read", r >> /\ 1 \in 1 .. Len(Tail(s))
  <2>1. 1 \in 1 .. Len(Tail(s)) /\ 1 + 1 = 2
    BY <1>1, <1>2
  <2>2. full(Tail(s))
    BY <1>1, <2>1 DEF full
  <2>3. QED
    BY <1>0, <1>1, <1>2, <2>1, <2>2
<1>4. /\ Tail(Tail(s)) \in Seq(Step) /\ Len(Tail(Tail(s))) = Len(Tail(s)) - 1
      /\ Head(Tail(s)) = << "read", r >> /\ Len(Tail(s)) \in Nat \ {0}
      /\ Planned(Tail(Tail(s)))
      /\ \A i \in 1 .. Len(Tail(Tail(s))) : Tail(Tail(s))[i] = Tail(s)[i + 1]
  BY <1>1, <1>3, TailElements, TailPlanned
<1>5. 2 \in 1 .. Len(Tail(s)) /\ Tail(s)[2] = << "store", r >>
  <2>1. 1 + 1 = 2
    OBVIOUS
  <2>2. QED
    BY <1>1, <1>3, <2>1 DEF Planned, StoringNext
<1>6. Tail(Tail(s)) # << >> /\ Tail(Tail(s))[1] = << "store", r >>
  <2>1. 1 \in 1 .. Len(Tail(Tail(s))) /\ 1 + 1 = 2
    BY <1>4, <1>5
  <2>2. full(Tail(Tail(s)))
    BY <1>4, <2>1 DEF full
  <2>3. QED
    BY <1>0, <1>4, <1>5, <2>1, <2>2
<1>7. /\ Head(Tail(Tail(s))) = << "store", r >> /\ Tail(Tail(Tail(s))) \in Seq(Step)
      /\ Planned(Tail(Tail(Tail(s))))
  BY <1>4, <1>6, TailElements, TailPlanned
<1>8. QED
  BY <1>1, <1>3, <1>4, <1>6, <1>7

LEMMA TailWithout ==
  ASSUME NEW s \in Seq(Step), s # << >>, NEW operation, Without(operation, s)
  PROVE  Without(operation, Tail(s))
<1>1. \A i \in 1 .. Len(Tail(s)) : i + 1 \in 1 .. Len(s) /\ Tail(s)[i] = s[i + 1]
  BY TailElements
<1>2. QED
  BY <1>1 DEF Without

LEMMA StepsSkipped ==
  ASSUME TypeOK, PlanInv, NEW n \in Nodes, NEW r \in Rows, TellFails(n, r)
  PROVE  /\ todo[n] # << >> /\ todo[n] \in Seq(Step)
         /\ todo[n][1] = << "tell", r >> /\ Planned(todo[n])
         /\ todo'[n] = Tail(Tail(Tail(todo[n])))
         /\ todo' \in [Nodes -> Seq(Step)] /\ silent' \in [Nodes -> BOOLEAN] /\ PlanInv'
         /\ \A k \in Nodes \ {n} : todo'[k] = todo[k] /\ silent'[k] = silent[k]
         /\ silent'[n] <=> silent[n] /\ todo'[n] # << >>
<1>. DEFINE s == todo[n]
            left == Tail(Tail(Tail(s)))
<1>1. todo \in [Nodes -> Seq(Step)] /\ silent \in [Nodes -> BOOLEAN]
  BY DEF TypeOK, Step
<1>2. s # << >> /\ s \in Seq(Step) /\ s[1] = << "tell", r >> /\ Planned(s)
  BY StepKnown DEF TellFails
<1>3. /\ Tail(s) \in Seq(Step) /\ Tail(s) # << >>
      /\ Tail(Tail(s)) \in Seq(Step) /\ Tail(Tail(s)) # << >>
      /\ left \in Seq(Step) /\ Planned(left)
  BY <1>2, IndexingSkipped
<1>4. /\ todo' = [todo EXCEPT ![n] = left]
      /\ silent' = [silent EXCEPT ![n] = silent[n] /\ left # << >>]
  BY DEF TellFails, StepsDone
<1>5. /\ AnnouncingDrops(s) => AnnouncingDrops(left)
      /\ \A operation : Without(operation, s) => Without(operation, left)
  <2>1. Planned(Tail(s)) /\ Planned(Tail(Tail(s)))
    BY <1>2, <1>3, TailPlanned
  <2>2. AnnouncingDrops(s) => AnnouncingDrops(left)
    BY <1>2, <1>3, <2>1, TailPlanned
  <2>3. \A operation : Without(operation, s) => Without(operation, left)
    BY <1>2, <1>3, TailWithout
  <2>4. QED
    BY <2>2, <2>3
<1>. HIDE DEF left
<1>6. left = << >> => AnnouncingDrops(left) /\ \A operation : Without(operation, left)
  BY DEF AnnouncingDrops, Followed, Without
<1>7. /\ todo' \in [Nodes -> Seq(Step)] /\ todo'[n] = left
      /\ silent' \in [Nodes -> BOOLEAN] /\ (silent'[n] <=> silent[n] /\ left # << >>)
      /\ \A k \in Nodes \ {n} : todo'[k] = todo[k] /\ silent'[k] = silent[k]
  <2>1. todo' \in [Nodes -> Seq(Step)] /\ todo'[n] = left
    BY <1>1, <1>3, <1>4
  <2>2. silent' \in [Nodes -> BOOLEAN] /\ (silent'[n] <=> silent[n] /\ left # << >>)
    BY <1>1, <1>4
  <2>3. \A k \in Nodes \ {n} : todo'[k] = todo[k] /\ silent'[k] = silent[k]
    BY <1>1, <1>4
  <2>4. QED
    BY <2>1, <2>2, <2>3
<1>8. PlanInv'
  BY <1>3, <1>5, <1>6, <1>7 DEF PlanInv
<1>9. QED
  BY <1>2, <1>7, <1>8 DEF left

LEMMA StepsAbandoned ==
  ASSUME TypeOK, PlanInv, NEW n \in Nodes, RequestFails(n)
  PROVE  /\ todo[n] # << >> /\ todo[n] \in Seq(Step)
         /\ todo'[n] = << >> /\ ~silent'[n]
         /\ todo' \in [Nodes -> Seq(Step)] /\ silent' \in [Nodes -> BOOLEAN] /\ PlanInv'
         /\ \A k \in Nodes \ {n} : todo'[k] = todo[k] /\ silent'[k] = silent[k]
<1>1. todo \in [Nodes -> Seq(Step)] /\ silent \in [Nodes -> BOOLEAN]
  BY DEF TypeOK, Step
<1>2. /\ todo[n] # << >> /\ todo' = [todo EXCEPT ![n] = << >>]
      /\ silent' = [silent EXCEPT ![n] = FALSE]
  BY DEF RequestFails, StepsDone, Idle
<1>3. << >> \in Seq(Step)
  OBVIOUS
<1>4. /\ todo' \in [Nodes -> Seq(Step)] /\ silent' \in [Nodes -> BOOLEAN]
      /\ todo'[n] = << >> /\ ~silent'[n]
      /\ \A k \in Nodes \ {n} : todo'[k] = todo[k] /\ silent'[k] = silent[k]
  BY <1>1, <1>2, <1>3
<1>5. Planned(<< >>) /\ AnnouncingDrops(<< >>) /\ Without("update", << >>)
  <2>1. 1 .. Len(<< >>) = {}
    OBVIOUS
  <2>2. QED
    BY <2>1 DEF Planned, Indexing, Announcing, AnnouncingDrops, Followed, StoringNext,
       KnownTransactions, Without
<1>6. PlanInv'
  BY <1>4, <1>5 DEF PlanInv
<1>7. QED
  BY <1>1, <1>2, <1>4, <1>6

\* What any step of a request does to the plans.
LEMMA RequestMoves ==
  ASSUME TypeOK, PlanInv, NEW n \in Nodes, Request(n)
  PROVE  /\ todo[n] # << >> /\ PlanInv'
         /\ todo' \in [Nodes -> Seq(Step)] /\ silent' \in [Nodes -> BOOLEAN]
         /\ \A k \in Nodes \ {n} : todo'[k] = todo[k] /\ silent'[k] = silent[k]
<1>1. CASE RequestFails(n)
  BY <1>1, StepsAbandoned
<1>2. CASE \E r \in Rows : TellFails(n, r)
  BY <1>2, StepsSkipped
<1>3. CASE ~RequestFails(n) /\ ~\E r \in Rows : TellFails(n, r)
  <2>1. todo[n] # << >> /\ StepDone(n)
    BY <1>3, StepKnown DEF Request, WriteRow, Commit, Tell, ReadRow, StoreDocument,
       StoreFails, RemoveDocument
  <2>2. QED
    BY <2>1, StepMade
<1>4. QED
  BY <1>1, <1>2, <1>3
--------------------------------------------------------------------------------
(***************************************************************************)
(* The types of the variables.                                             *)
(***************************************************************************)
LEMMA RowVersion ==
  ASSUME TypeOK, NEW n \in Nodes, NEW r \in Rows
  PROVE  RowAt(n, r) \in Versions
BY DEF TypeOK, RowAt

LEMMA ServeType ==
  ASSUME TypeOK, PlanInv, NEW n \in Nodes, Serve(n)
  PROVE  TypeOK'
<1>1. requests' \in 0 .. MaxRequests
  BY RequestBegins, BoundAssumption DEF TypeOK
<1>2. todo' \in [Nodes -> Seq(Operation \X Rows)] /\ silent' \in [Nodes -> BOOLEAN]
  BY RequestBegins DEF Step
<1>3. UNCHANGED << database, seen, inbox, index, doubtful >>
  BY RequestBegins
<1>4. QED
  BY <1>1, <1>2, <1>3 DEF TypeOK, database, inbox

LEMMA StepType ==
  ASSUME TypeOK, PlanInv, NEW n \in Nodes, NEW operation, NEW r, AtStep(n, operation, r),
         StepDone(n)
  PROVE  todo' \in [Nodes -> Seq(Operation \X Rows)] /\ silent' \in [Nodes -> BOOLEAN]
<1>1. todo' \in [Nodes -> Seq(Step)] /\ silent' \in [Nodes -> BOOLEAN]
  BY StepKnown, StepMade
<1>2. QED
  BY <1>1 DEF Step

LEMMA WriteRowType ==
  ASSUME TypeOK, PlanInv, NEW n \in Nodes, NEW operation \in Statement, NEW r \in Rows,
         WriteRow(n, operation, r)
  PROVE  TypeOK'
<1>1. todo' \in [Nodes -> Seq(Operation \X Rows)] /\ silent' \in [Nodes -> BOOLEAN]
  BY StepType DEF WriteRow
<1>2. UNCHANGED << requests, seen, topic, task, found, index, doubtful >>
  BY DEF WriteRow, inbox
<1>3. /\ row' \in [Rows -> Versions] /\ version' \in Versions
      /\ written' \in [Nodes -> SUBSET Rows] /\ value' \in [Rows -> Versions]
  <2>1. CASE Missing(n, operation, r)
    BY <2>1 DEF WriteRow, TypeOK
  <2>2. CASE ~Missing(n, operation, r)
    <3>1. version' \in Versions
      BY <2>2 DEF WriteRow, TypeOK, Versions
    <3>2. value' \in [Rows -> Versions]
      BY <2>2, <3>1 DEF WriteRow, TypeOK, Versions
    <3>3. CASE operation \in {"update", "remove"}
      <4>1. written' = [written EXCEPT ![n] = written[n] \cup {r}] /\ UNCHANGED row
        BY <2>2, <3>3 DEF WriteRow
      <4>2. QED
        BY <3>1, <3>2, <4>1 DEF TypeOK
    <3>4. CASE operation \notin {"update", "remove"}
      <4>1. row' = [row EXCEPT ![r] = value'[r]] /\ value'[r] \in Versions
        BY <2>2, <3>2, <3>4 DEF WriteRow
      <4>2. UNCHANGED written
        BY <2>2, <3>4 DEF WriteRow
      <4>3. QED
        BY <3>1, <3>2, <4>1, <4>2 DEF TypeOK
    <3>5. QED
      BY <3>1, <3>2, <3>3, <3>4 DEF TypeOK
  <2>3. QED
    BY <2>1, <2>2
<1>4. QED
  BY <1>1, <1>2, <1>3 DEF TypeOK

LEMMA OtherStepsType ==
  ASSUME TypeOK, PlanInv, NEW n \in Nodes, NEW r \in Rows,
         \/ Commit(n, r) \/ Tell(n, r) \/ ReadRow(n, r) \/ StoreDocument(n, r)
         \/ StoreFails(n, r) \/ RemoveDocument(n, r)
  PROVE  TypeOK'
<1>. USE RowVersion DEF TypeOK
<1>1. todo' \in [Nodes -> Seq(Operation \X Rows)] /\ silent' \in [Nodes -> BOOLEAN]
  BY StepType DEF Commit, Tell, ReadRow, StoreDocument, StoreFails, RemoveDocument
<1>2. CASE Commit(n, r)
  BY <1>1, <1>2 DEF Commit, inbox
<1>3. CASE Tell(n, r)
  <2>1. ASSUME NEW delete \in BOOLEAN, Send(n, r, delete)
        PROVE  topic' \in [Nodes -> Seq(Message)]
    <3>. DEFINE m == [row |-> r, delete |-> delete]
    <3>1. m \in Message
      BY DEF Message
    <3>2. \A k \in Nodes : Append(topic[k], m) \in Seq(Message)
      BY <3>1
    <3>3. QED
      BY <2>1, <3>2 DEF Send
  <2>2. topic' \in [Nodes -> Seq(Message)]
    BY <1>3, <2>1 DEF Tell
  <2>3. QED
    BY <1>1, <1>3, <2>2 DEF Tell, database
<1>4. CASE ReadRow(n, r)
  BY <1>1, <1>4 DEF ReadRow, Doubt, database, inbox
<1>5. CASE StoreDocument(n, r)
  BY <1>1, <1>5 DEF StoreDocument, Indexed, database, inbox, Versions
<1>6. CASE RemoveDocument(n, r)
  <2>1. doubtful' \subseteq Nodes \X Rows
    BY <1>6 DEF RemoveDocument, Doubt
  <2>2. index' \in [Nodes -> [Rows -> Versions]]
    BY <1>6 DEF RemoveDocument, Versions
  <2>3. QED
    BY <1>1, <1>6, <2>1, <2>2 DEF RemoveDocument, database, inbox
<1>7. CASE StoreFails(n, r)
  <2>1. doubtful' \subseteq Nodes \X Rows
    BY <1>7 DEF StoreFails, Doubt
  <2>2. index' \in [Nodes -> [Rows -> Versions]]
    <3>1. [index EXCEPT ![n][r] = 0] \in [Nodes -> [Rows -> Versions]]
      BY DEF Versions
    <3>2. QED
      BY <1>7, <3>1 DEF StoreFails
  <2>3. seen' \in [Nodes -> Versions] /\ UNCHANGED << database, requests, inbox >>
    BY <1>7 DEF StoreFails, Versions
  <2>4. QED
    BY <1>1, <2>1, <2>2, <2>3 DEF database, inbox
<1>8. QED
  BY <1>2, <1>3, <1>4, <1>5, <1>6, <1>7

LEMMA FailuresType ==
  ASSUME TypeOK, PlanInv, NEW n \in Nodes, RequestFails(n) \/ \E r \in Rows : TellFails(n, r)
  PROVE  TypeOK'
<1>1. todo' \in [Nodes -> Seq(Operation \X Rows)] /\ silent' \in [Nodes -> BOOLEAN]
  BY StepsAbandoned, StepsSkipped DEF Step
<1>2. \A rows \in SUBSET Rows : DoubtEverywhere(rows) => doubtful' \subseteq Nodes \X Rows
  BY DEF DoubtEverywhere, TypeOK
<1>3. CASE RequestFails(n)
  <2>1. doubtful' \subseteq Nodes \X Rows
    BY <1>2, <1>3 DEF RequestFails
  <2>2. /\ written' \in [Nodes -> SUBSET Rows] /\ value' \in [Rows -> Versions]
        /\ seen' \in [Nodes -> Versions]
    BY <1>3 DEF RequestFails, TypeOK, Versions
  <2>3. QED
    BY <1>1, <1>3, <2>1, <2>2 DEF RequestFails, TypeOK, inbox
<1>4. ASSUME NEW r \in Rows, TellFails(n, r)
      PROVE  TypeOK'
  <2>1. doubtful' \subseteq Nodes \X Rows
    BY <1>2, <1>4 DEF TellFails
  <2>2. QED
    BY <1>1, <1>4, <2>1 DEF TellFails, TypeOK, database, inbox
<1>5. QED
  BY <1>3, <1>4

LEMMA InboxType ==
  ASSUME TypeOK, NEW n \in Nodes,
         TakeMessage(n) \/ HandleMessage(n) \/ HandlingFails(n)
  PROVE  TypeOK'
<1>. USE DEF TypeOK, database, request
<1>1. CASE TakeMessage(n)
  <2>1. topic[n] \in Seq(Message) /\ topic[n] # << >>
    BY <1>1 DEF TakeMessage
  <2>2. Head(topic[n]) \in Message /\ Tail(topic[n]) \in Seq(Message)
    BY <2>1, TailElements
  <2>3. Head(topic[n]).row \in Rows /\ << Head(topic[n]) >> \in Seq(Message)
    BY <2>2 DEF Message
  <2>4. /\ topic' \in [Nodes -> Seq(Message)] /\ task' \in [Nodes -> Seq(Message)]
        /\ found' \in [Nodes -> Versions]
    BY <1>1, <2>2, <2>3 DEF TakeMessage, Versions
  <2>5. doubtful' \subseteq Nodes \X Rows
    BY <1>1, <2>3 DEF TakeMessage, Doubt
  <2>6. QED
    BY <1>1, <2>4, <2>5 DEF TakeMessage
<1>2. CASE HandleMessage(n)
  <2>1. task[n] \in Seq(Message) /\ task[n] # << >>
    BY <1>2 DEF HandleMessage
  <2>2. Head(task[n]) \in Message /\ Head(task[n]).row \in Rows
    <3>1. Head(task[n]) \in Message
      BY <2>1, TailElements
    <3>2. QED
      BY <3>1 DEF Message
  <2>3. << >> \in Seq(Message)
    OBVIOUS
  <2>4. /\ task' \in [Nodes -> Seq(Message)] /\ found' \in [Nodes -> Versions]
        /\ index' \in [Nodes -> [Rows -> Versions]]
    BY <1>2, <2>2, <2>3 DEF HandleMessage, Indexed, Versions
  <2>5. QED
    BY <1>2, <2>4 DEF HandleMessage
<1>3. CASE HandlingFails(n)
  <2>1. task[n] \in Seq(Message) /\ task[n] # << >>
    BY <1>3 DEF HandlingFails
  <2>2. Head(task[n]) \in Message /\ Head(task[n]).row \in Rows
    <3>1. Head(task[n]) \in Message
      BY <2>1, TailElements
    <3>2. QED
      BY <3>1 DEF Message
  <2>3. << >> \in Seq(Message)
    OBVIOUS
  <2>4. task' \in [Nodes -> Seq(Message)] /\ found' \in [Nodes -> Versions]
    BY <1>3, <2>3 DEF HandlingFails, Versions
  <2>5. index' \in [Nodes -> [Rows -> Versions]]
    <3>1. [index EXCEPT ![n][Head(task[n]).row] = 0] \in [Nodes -> [Rows -> Versions]]
      BY <2>2 DEF Versions
    <3>2. QED
      BY <1>3, <3>1 DEF HandlingFails
  <2>6. doubtful' \subseteq Nodes \X Rows
    BY <1>3, <2>2 DEF HandlingFails, Doubt
  <2>7. UNCHANGED << database, request, topic >>
    BY <1>3 DEF HandlingFails
  <2>8. QED
    BY <2>4, <2>5, <2>6, <2>7
<1>4. QED
  BY <1>1, <1>2, <1>3

LEMMA TypeStep ==
  ASSUME TypeOK, PlanInv, [Next]_vars
  PROVE  TypeOK' /\ PlanInv'
<1>1. ASSUME NEW n \in Nodes, Serve(n)
      PROVE  TypeOK' /\ PlanInv'
  BY <1>1, ServeType, RequestBegins
<1>2. ASSUME NEW n \in Nodes, Request(n)
      PROVE  TypeOK' /\ PlanInv'
  <2>1. TypeOK'
    BY <1>2, WriteRowType, OtherStepsType, FailuresType DEF Request
  <2>2. QED
    BY <1>2, <2>1, RequestMoves
<1>3. ASSUME NEW n \in Nodes, TakeMessage(n) \/ HandleMessage(n) \/ HandlingFails(n)
      PROVE  TypeOK' /\ PlanInv'
  BY <1>3, InboxType DEF TakeMessage, HandleMessage, HandlingFails, request, PlanInv
<1>4. CASE UNCHANGED vars
  BY <1>4 DEF vars, database, request, inbox, TypeOK, PlanInv
<1>5. QED
  BY <1>1, <1>2, <1>3, <1>4 DEF Next

LEMMA InitType ==
  Init => TypeOK /\ PlanInv
<1>1. SUFFICES ASSUME Init PROVE TypeOK /\ PlanInv
  OBVIOUS
<1>2. \A S : << >> \in Seq(S)
  OBVIOUS
<1>3. TypeOK
  BY <1>1, <1>2, BoundAssumption DEF Init, TypeOK, Versions, Rows
<1>4. todo = [n \in Nodes |-> << >>]
  BY <1>1 DEF Init
<1>5. \A n \in Nodes : todo[n] = << >> /\ 1 .. Len(todo[n]) = {}
  <2>1. 1 .. Len(<< >>) = {}
    OBVIOUS
  <2>2. QED
    BY <1>4, <2>1
<1>6. PlanInv
  BY <1>5 DEF PlanInv, Planned, Indexing, Announcing, AnnouncingDrops, Followed, StoringNext,
     KnownTransactions, Without
<1>7. QED
  BY <1>3, <1>6
--------------------------------------------------------------------------------
(***************************************************************************)
(* The rows that are changed and not committed.                            *)
(***************************************************************************)
GrabbingLeft ==
  {Grabbing, Tail(Grabbing), Tail(Tail(Grabbing)), Tail(Tail(Tail(Grabbing)))}

LEMMA GrabbingLeftSteps ==
  /\ GrabbingLeft =
       { Grabbing,
         << << "read", "workspace" >>, << "store", "workspace" >>, << "commit", "workspace" >> >>,
         << << "store", "workspace" >>, << "commit", "workspace" >> >>,
         << << "commit", "workspace" >> >> }
  /\ Tail(Tail(Tail(Grabbing))) = << << "commit", "workspace" >> >>
<1>. DEFINE read == << "read", "workspace" >>
            store == << "store", "workspace" >>
            commit == << "commit", "workspace" >>
<1>1. Tail(Grabbing) = << read, store, commit >>
  BY DEF Grabbing
<1>2. Tail(Tail(Grabbing)) = << store, commit >>
  <2>1. Tail(<< read, store, commit >>) = << store, commit >>
    OBVIOUS
  <2>2. QED
    BY <1>1, <2>1
<1>3. Tail(Tail(Tail(Grabbing))) = << commit >>
  <2>1. Tail(<< store, commit >>) = << commit >>
    OBVIOUS
  <2>2. QED
    BY <1>2, <2>1
<1>4. QED
  BY <1>1, <1>2, <1>3 DEF GrabbingLeft

LEMMA GrabbingSteps ==
  ASSUME NEW s \in GrabbingLeft
  PROVE  /\ s # << >> /\ Head(s)[2] = "workspace"
         /\ Head(s)[1] \in {"tell", "read", "store", "commit"}
         /\ Head(s)[1] # "commit" => Tail(s) \in GrabbingLeft
         /\ Head(s)[1] = "commit" => s = << << "commit", "workspace" >> >>
         /\ Tail(s) # << >> => Head(s)[1] # "commit"
         /\ Head(s)[1] = "tell" => s = Grabbing
<1>. DEFINE tell == << "tell", "workspace" >>
            read == << "read", "workspace" >>
            store == << "store", "workspace" >>
            commit == << "commit", "workspace" >>
<1>1. GrabbingLeft =
        {<< tell, read, store, commit >>, << read, store, commit >>, << store, commit >>,
         << commit >>}
  BY GrabbingLeftSteps DEF Grabbing
<1>2. CASE s = << tell, read, store, commit >>
  BY <1>1, <1>2 DEF Grabbing
<1>3. CASE s = << read, store, commit >>
  BY <1>1, <1>3
<1>4. CASE s = << store, commit >>
  BY <1>1, <1>4
<1>5. CASE s = << commit >>
  <2>1. Tail(s) = << >> /\ Head(s) = commit /\ s # << >>
    BY <1>5
  <2>2. QED
    BY <1>5, <2>1
<1>6. QED
  BY <1>1, <1>2, <1>3, <1>4, <1>5

LEMMA DeletingSteps ==
  /\ Deleting # << >> /\ Head(Deleting) = << "remove", "metadata" >> /\ Tail(Deleting) = Deleted
  /\ Deleted # << >> /\ Head(Deleted) = << "commit", "metadata" >>
BY DEF Deleting, Deleted

\* What a request does that has changed rows and not committed them.
LEMMA Transaction ==
  ASSUME WrittenInv, NEW n \in Nodes, written[n] # {}
  PROVE  /\ ~Idle(n)
         /\ \A operation, r : AtStep(n, operation, r) =>
              \/ /\ Grabs(n) /\ r = "workspace"
                 /\ operation \in {"tell", "read", "store", "commit"}
                 /\ operation # "commit" => Tail(todo[n]) \in GrabbingLeft
                 /\ operation = "commit" => todo[n] = << << "commit", "workspace" >> >>
              \/ /\ Deletes(n) /\ r = "metadata"
                 /\ \/ operation = "remove" /\ todo[n] = Deleting /\ written[n] = {"workspace"}
                    \/ operation = "commit" /\ todo[n] = Deleted
<1>1. CASE Grabs(n)
  <2>1. todo[n] \in GrabbingLeft
    BY <1>1 DEF Grabs, GrabbingLeft
  <2>2. ASSUME NEW operation, NEW r, AtStep(n, operation, r)
        PROVE  Head(todo[n])[1] = operation /\ Head(todo[n])[2] = r
    BY <2>2 DEF AtStep
  <2>3. QED
    BY <1>1, <2>1, <2>2, GrabbingSteps DEF Idle
<1>2. CASE Deletes(n) /\ todo[n] = Deleting
  <2>1. written[n] = {"workspace"}
    BY <1>2, DeletingSteps DEF Deletes
  <2>2. QED
    BY <1>2, <2>1, DeletingSteps DEF AtStep, Idle
<1>3. CASE Deletes(n) /\ todo[n] = Deleted
  BY <1>3, DeletingSteps DEF AtStep, Idle
<1>4. QED
  BY <1>1, <1>2, <1>3 DEF WrittenInv, Deletes

WrittenFor(n) ==
  /\ written[n] # {} => Grabs(n) \/ Deletes(n)
  /\ \A r \in written[n] : row[r] # 0 /\ RowFree(n, r)

LEMMA OwnStepWritten ==
  ASSUME TypeOK, PlanInv, WrittenInv, NEW n \in Nodes, NEW r \in Rows,
         \/ Tell(n, r) \/ ReadRow(n, r) \/ StoreDocument(n, r) \/ StoreFails(n, r)
         \/ RemoveDocument(n, r)
  PROVE  WrittenFor(n)'
<1>1. UNCHANGED database /\ StepDone(n)
      /\ \E operation \in {"tell", "tellDelete", "read", "store", "unindex"} :
           AtStep(n, operation, r)
  BY DEF Tell, ReadRow, StoreDocument, StoreFails, RemoveDocument
<1>2. \A q \in written'[n] : row'[q] # 0 /\ RowFree(n, q)'
  BY <1>1 DEF WrittenInv, database, RowFree
<1>3. ASSUME written[n] # {}
      PROVE  Grabs(n)'
  <2>1. Grabs(n) /\ Tail(todo[n]) \in GrabbingLeft /\ todo[n] # << >>
    BY <1>1, <1>3, Transaction DEF Idle
  <2>2. todo'[n] = Tail(todo[n]) /\ (silent'[n] <=> silent[n] /\ todo'[n] # << >>)
    BY <1>1, <2>1, StepMade
  <2>3. todo'[n] # << >>
    BY <2>1, <2>2, GrabbingSteps
  <2>4. QED
    BY <1>1, <2>1, <2>2, <2>3 DEF Grabs, GrabbingLeft, database
<1>4. QED
  BY <1>1, <1>2, <1>3 DEF WrittenFor, database

LEMMA OwnFailureWritten ==
  ASSUME TypeOK, PlanInv, WrittenInv, NEW n \in Nodes,
         RequestFails(n) \/ \E r \in Rows : TellFails(n, r)
  PROVE  WrittenFor(n)'
<1>1. CASE RequestFails(n)
  <2>1. written'[n] = {}
    BY <1>1 DEF RequestFails, TypeOK
  <2>2. QED
    BY <2>1 DEF WrittenFor
<1>2. ASSUME NEW r \in Rows, TellFails(n, r)
      PROVE  WrittenFor(n)'
  <2>1. UNCHANGED database /\ AtStep(n, "tell", r)
    BY <1>2 DEF TellFails
  <2>2. \A q \in written'[n] : row'[q] # 0 /\ RowFree(n, q)'
    BY <2>1 DEF WrittenInv, database, RowFree
  <2>3. ASSUME written[n] # {}
        PROVE  Grabs(n)'
    <3>1. Grabs(n) /\ todo[n] # << >> /\ Head(todo[n]) = << "tell", r >>
      BY <2>1, <2>3, Transaction DEF AtStep, Idle
    <3>2. Tail(Tail(Tail(todo[n]))) \in GrabbingLeft /\ Tail(Tail(Tail(todo[n]))) # << >>
      <4>1. todo[n] \in GrabbingLeft
        BY <3>1 DEF Grabs, GrabbingLeft
      <4>2. Head(todo[n])[1] = "tell"
        BY <3>1
      <4>3. todo[n] = Grabbing
        BY <4>1, <4>2, GrabbingSteps
      <4>4. << << "commit", "workspace" >> >> # << >>
        OBVIOUS
      <4>5. QED
        BY <4>3, <4>4, GrabbingLeftSteps DEF GrabbingLeft
    <3>3. /\ todo'[n] = Tail(Tail(Tail(todo[n])))
          /\ silent'[n] <=> silent[n] /\ todo'[n] # << >>
      BY <1>2, StepsSkipped
    <3>4. QED
      BY <2>1, <3>1, <3>2, <3>3 DEF Grabs, GrabbingLeft, database
  <2>4. QED
    BY <2>1, <2>2, <2>3 DEF WrittenFor, database
<1>3. QED
  BY <1>1, <1>2

LEMMA OwnWriteWritten ==
  ASSUME TypeOK, PlanInv, WrittenInv, NEW n \in Nodes, NEW operation \in Statement,
         NEW r \in Rows, WriteRow(n, operation, r)
  PROVE  /\ WrittenFor(n)'
         /\ operation \notin {"update", "remove"} => written[n] = {}
         /\ operation = "update" => r = "workspace" /\ silent[n] /\ todo'[n] = Grabbing
         /\ operation = "remove" => todo'[n] \in {Deleting, Deleted}
<1>1. AtStep(n, operation, r) /\ StepDone(n)
  BY DEF WriteRow
<1>2. /\ todo[n] # << >> /\ todo[n][1] = << operation, r >> /\ 1 \in 1 .. Len(todo[n])
      /\ todo[n] \in Seq(Step) /\ Planned(todo[n])
  BY <1>1, StepKnown
<1>3. todo'[n] = Tail(todo[n]) /\ (silent'[n] <=> silent[n] /\ todo'[n] # << >>)
  BY <1>1, <1>2, StepMade
<1>4. /\ operation = "update" => r = "workspace" /\ todo'[n] = Grabbing
      /\ operation = "remove" /\ r = "workspace" => todo'[n] = Deleting
      /\ operation = "remove" /\ r = "metadata" => todo'[n] = Deleted
  <2>1. \A s \in Seq(Step) : SuffixAt(todo[n], 1, s) => todo'[n] = s
    BY <1>2, <1>3, SuffixIsTail
  <2>2. QED
    BY <1>2, <2>1, TransactionSteps DEF Planned, KnownTransactions, Rows
<1>5. operation = "update" => silent[n]
  BY <1>2 DEF PlanInv, Without
<1>6. written[n] # {} => /\ Deletes(n) /\ operation = "remove" /\ r = "metadata"
                         /\ written[n] = {"workspace"}
  BY <1>1, Transaction DEF Statement, Removing
<1>7. \A k \in Nodes \ {n} : written'[k] = written[k]
  BY DEF WriteRow, TypeOK
<1>8. CASE operation \notin {"update", "remove"}
  <2>1. written'[n] = {}
    BY <1>6, <1>8 DEF WriteRow
  <2>2. QED
    BY <1>4, <1>6, <1>8, <2>1 DEF WrittenFor
<1>9. CASE operation \in {"update", "remove"} /\ Missing(n, operation, r)
  <2>1. UNCHANGED << row, value, written >>
    BY <1>9 DEF WriteRow
  <2>2. written[n] # {} => Deletes(n)'
    BY <1>4, <1>6, <2>1 DEF Deletes
  <2>3. \A q \in written'[n] : row'[q] # 0 /\ RowFree(n, q)'
    BY <2>1 DEF WrittenInv, RowFree
  <2>4. QED
    BY <1>4, <1>5, <1>9, <2>1, <2>2, <2>3 DEF WrittenFor, Rows
<1>10. CASE operation \in {"update", "remove"} /\ ~Missing(n, operation, r)
  <2>1. written'[n] = written[n] \cup {r} /\ UNCHANGED row
    BY <1>10 DEF WriteRow, TypeOK
  <2>2. \A q \in written'[n] : row'[q] # 0 /\ RowFree(n, q)'
    <3>1. RowFree(n, r) /\ (r \notin written[n] => row[r] # 0)
      BY <1>10 DEF WriteRow, Missing, RowAt
    <3>2. \A q \in written[n] : row[q] # 0 /\ RowFree(n, q)
      BY DEF WrittenInv
    <3>3. QED
      BY <1>7, <2>1, <3>1, <3>2 DEF RowFree
  <2>3. operation = "update" => Grabs(n)'
    <3>1. Grabbing # << >>
      BY GrabbingSteps DEF GrabbingLeft
    <3>2. QED
      BY <1>3, <1>4, <1>5, <1>6, <2>1, <3>1 DEF Grabs
  <2>4. operation = "remove" => Deletes(n)'
    <3>1. ASSUME operation = "remove"
          PROVE  value' = [value EXCEPT ![r] = 0]
      BY <1>10, <3>1 DEF WriteRow, Removing
    <3>2. ASSUME operation = "remove"
          PROVE  \A q \in written'[n] : value'[q] = 0
      BY <1>6, <2>1, <3>1, <3>2 DEF Deletes, TypeOK, Rows
    <3>3. QED
      BY <1>4, <1>6, <2>1, <3>2 DEF Deletes, Rows
  <2>5. QED
    BY <1>4, <1>5, <1>10, <2>2, <2>3, <2>4 DEF WrittenFor, Rows
<1>11. QED
  BY <1>8, <1>9, <1>10

\* What another node does leaves the rows of a transaction alone.
LEMMA OtherWritten ==
  ASSUME TypeOK, PlanInv, WrittenInv, NEW n \in Nodes, NEW k \in Nodes \ {n},
         Serve(k) \/ Request(k)
  PROVE  WrittenFor(n)'
<1>1. WrittenFor(n) /\ \A q \in written[n] : q \notin written[k]
  BY DEF WrittenInv, WrittenFor, RowFree
<1>2. todo'[n] = todo[n] /\ silent'[n] = silent[n]
  <2>1. CASE Serve(k)
    BY <2>1, RequestBegins
  <2>2. CASE Request(k)
    BY <2>2, RequestMoves
  <2>3. QED
    BY <2>1, <2>2
<1>3. ASSUME written'[n] = written[n],
             \A q \in written[n] : q \notin written'[k] /\ row'[q] = row[q] /\ value'[q] = value[q],
             \A other \in Nodes \ {k} : written'[other] = written[other]
      PROVE  WrittenFor(n)'
  <2>1. \A q \in written'[n] : row'[q] # 0 /\ RowFree(n, q)'
    BY <1>1, <1>3 DEF WrittenFor, RowFree
  <2>2. (Grabs(n) => Grabs(n)') /\ (Deletes(n) => Deletes(n)')
    BY <1>2, <1>3 DEF Grabs, Deletes
  <2>3. QED
    BY <1>1, <1>3, <2>1, <2>2 DEF WrittenFor
<1>4. CASE Serve(k)
  BY <1>1, <1>3, <1>4, RequestBegins DEF database
<1>5. ASSUME NEW operation \in Statement, NEW r \in Rows, WriteRow(k, operation, r)
      PROVE  WrittenFor(n)'
  <2>1. r \notin written[n]
    BY <1>5 DEF WriteRow, RowFree
  <2>2. /\ written'[k] \subseteq written[k] \cup {r}
        /\ \A other \in Nodes \ {k} : written'[other] = written[other]
        /\ \A q \in Rows \ {r} : row'[q] = row[q] /\ value'[q] = value[q]
    <3>1. CASE Missing(k, operation, r)
      BY <1>5, <3>1 DEF WriteRow
    <3>2. CASE ~Missing(k, operation, r)
      <4>1. /\ written' = [written EXCEPT ![k] = written[k] \cup {r}] \/ UNCHANGED written
            /\ value' = [value EXCEPT ![r] = value'[r]]
            /\ row' = [row EXCEPT ![r] = value'[r]] \/ UNCHANGED row
        BY <1>5, <3>2 DEF WriteRow, TypeOK
      <4>2. QED
        BY <4>1 DEF TypeOK
    <3>3. QED
      BY <3>1, <3>2
  <2>3. written[n] \subseteq Rows
    BY DEF TypeOK
  <2>4. QED
    BY <1>1, <1>3, <2>1, <2>2, <2>3
<1>6. ASSUME NEW r \in Rows, Commit(k, r)
      PROVE  WrittenFor(n)'
  <2>1. /\ written'[k] = {} /\ UNCHANGED value
        /\ \A other \in Nodes \ {k} : written'[other] = written[other]
        /\ \A q \in written[n] : row'[q] = row[q]
    BY <1>1, <1>6 DEF Commit, TypeOK, RowAt
  <2>2. QED
    BY <1>3, <2>1
<1>7. ASSUME NEW r \in Rows,
             \/ Tell(k, r) \/ TellFails(k, r) \/ ReadRow(k, r) \/ StoreDocument(k, r)
             \/ StoreFails(k, r) \/ RemoveDocument(k, r)
      PROVE  WrittenFor(n)'
  <2>1. UNCHANGED database
    BY <1>7 DEF Tell, TellFails, ReadRow, StoreDocument, StoreFails, RemoveDocument
  <2>2. QED
    BY <1>1, <1>3, <2>1 DEF database
<1>8. CASE RequestFails(k)
  <2>1. /\ written'[k] = {} /\ UNCHANGED row
        /\ \A other \in Nodes \ {k} : written'[other] = written[other]
    BY <1>8 DEF RequestFails, TypeOK
  <2>2. \A q \in written[n] : value'[q] = value[q]
    BY <1>1, <1>8 DEF RequestFails, TypeOK
  <2>3. QED
    BY <1>3, <2>1, <2>2
<1>9. QED
  BY <1>4, <1>5, <1>6, <1>7, <1>8 DEF Request

LEMMA WrittenStep ==
  ASSUME TypeOK, PlanInv, WrittenInv, [Next]_vars
  PROVE  WrittenInv'
<1>1. SUFFICES ASSUME NEW n \in Nodes PROVE WrittenFor(n)'
  BY DEF WrittenInv, WrittenFor
<1>2. ASSUME NEW k \in Nodes \ {n}, Serve(k) \/ Request(k)
      PROVE  WrittenFor(n)'
  BY <1>2, OtherWritten
<1>3. CASE Serve(n)
  <2>1. todo[n] = << >> /\ UNCHANGED database
    BY <1>3, RequestBegins
  <2>2. written[n] = {}
    BY <2>1, Transaction DEF Idle
  <2>3. QED
    BY <2>1, <2>2 DEF database, WrittenFor
<1>4. CASE Request(n)
  <2>1. ASSUME NEW r \in Rows, Commit(n, r)
        PROVE  WrittenFor(n)'
    BY <2>1 DEF Commit, TypeOK, WrittenFor
  <2>2. QED
    BY <1>4, <2>1, OwnStepWritten, OwnFailureWritten, OwnWriteWritten DEF Request
<1>5. CASE UNCHANGED << database, request >>
  BY <1>5 DEF WrittenInv, WrittenFor, database, request, Grabs, Deletes, RowFree
<1>6. QED
  BY <1>2, <1>3, <1>4, <1>5 DEF Next, TakeMessage, HandleMessage, HandlingFails, vars

\* Two transactions that wait for each other would both have changed rows and be at a
\* statement: both would be deletions that have still to remove the published row.
LEMMA NobodyWaitsTwice ==
  WrittenInv => NoCircularWait
<1>1. SUFFICES ASSUME WrittenInv, NEW n \in Nodes, NEW other \in Nodes,
                      WaitsFor(n, other), WaitsFor(other, n)
               PROVE  n = other
  BY DEF NoCircularWait
<1>2. ASSUME NEW a \in Nodes, NEW b \in Nodes, WaitsFor(a, b), written[a] # {}
      PROVE  written[a] = {"workspace"} /\ "metadata" \in written[b]
  <2>1. PICK r \in written[b], operation \in Statement : AtStep(a, operation, r)
    BY <1>2 DEF WaitsFor
  <2>2. operation \notin {"tell", "read", "store", "commit"}
    BY DEF Statement, Removing
  <2>3. r = "metadata" /\ operation = "remove" /\ written[a] = {"workspace"}
    BY <1>1, <1>2, <2>1, <2>2, Transaction
  <2>4. QED
    BY <2>1, <2>3
<1>3. written[n] # {} /\ written[other] # {}
  BY <1>1 DEF WaitsFor
<1>4. QED
  BY <1>1, <1>2, <1>3

--------------------------------------------------------------------------------
(***************************************************************************)
(* What a step leaves of the steps and messages that a node still has to   *)
(* expect.                                                                 *)
(***************************************************************************)
LEMMA StepSets ==
  ASSUME NEW operations, NEW operation, NEW q, NEW r
  PROVE  /\ << operation, q >> \in StepsOn(operations, r) <=> operation \in operations /\ q = r
         /\ << operation, q >> \in Looks(r) <=> operation \in {"read", "unindex"} /\ q = r
         /\ << operation, q >> \in Tells(r) <=> operation \in {"tell", "tellDelete"} /\ q = r
BY DEF StepsOn, Looks, Tells

LEMMA StepLeaves ==
  ASSUME TypeOK, PlanInv, NEW n \in Nodes, NEW operation, NEW q, AtStep(n, operation, q),
         StepDone(n)
  PROVE  /\ \A k \in Nodes \ {n} : todo'[k] = todo[k] /\ silent'[k] = silent[k]
         /\ \A steps : Contains(todo[n], steps) /\ << operation, q >> \notin steps =>
              Contains(todo'[n], steps)
         /\ \A steps, others : << operation, q >> \in steps /\ Followed(todo[n], steps, others) =>
              Contains(todo'[n], others)
         /\ operation \in Operation /\ q \in Rows /\ Planned(todo[n])
<1>1. /\ todo[n] # << >> /\ Head(todo[n]) = << operation, q >> /\ todo[n] \in Seq(Step)
      /\ operation \in Operation /\ q \in Rows /\ Planned(todo[n])
  BY StepKnown
<1>2. /\ todo'[n] = Tail(todo[n])
      /\ \A k \in Nodes \ {n} : todo'[k] = todo[k] /\ silent'[k] = silent[k]
  BY <1>1, StepMade
<1>3. \A steps : Contains(todo[n], steps) /\ << operation, q >> \notin steps =>
        Contains(todo'[n], steps)
  BY <1>1, <1>2, TailContains
<1>4. \A steps, others : << operation, q >> \in steps /\ Followed(todo[n], steps, others) =>
        Contains(todo'[n], others)
  BY <1>1, <1>2, TailFollowed
<1>5. QED
  BY <1>1, <1>2, <1>3, <1>4

\* A node is about to store a row when it has just read it.
LEMMA StoresWhatItReads ==
  ASSUME TypeOK, PlanInv, NEW n \in Nodes, NEW operation, NEW q, AtStep(n, operation, q),
         StepDone(n), NEW r \in Rows
  PROVE  AtStep(n, "store", r)' <=> operation = "read" /\ q = r
<1>1. /\ todo[n] # << >> /\ todo[n][1] = << operation, q >> /\ todo[n] \in Seq(Step)
      /\ 1 \in 1 .. Len(todo[n]) /\ q \in Rows /\ Planned(todo[n])
  BY StepKnown
<1>2. todo'[n] = Tail(todo[n])
  BY <1>1, StepMade
<1>3. ASSUME operation = "read"
      PROVE  AtStep(n, "store", q)'
  <2>1. 2 \in 1 .. Len(todo[n]) /\ todo[n][2] = << "store", q >>
    <3>1. 1 + 1 = 2
      OBVIOUS
    <3>2. QED
      BY <1>1, <1>3, <3>1 DEF Planned, StoringNext
  <2>2. 1 \in 1 .. Len(Tail(todo[n])) /\ Tail(todo[n])[1] = todo[n][2]
    BY <1>1, <2>1, TailElements
  <2>3. Tail(todo[n]) \in Seq(Step)
    BY <1>1, TailElements
  <2>4. Tail(todo[n]) # << >>
    <3>1. \A s \in Seq(Step) : 1 \in 1 .. Len(s) => s # << >>
      OBVIOUS
    <3>2. QED
      BY <2>2, <2>3, <3>1
  <2>5. Head(Tail(todo[n])) = Tail(todo[n])[1]
    BY <2>3, <2>4, TailElements
  <2>6. QED
    BY <1>2, <2>1, <2>2, <2>4, <2>5 DEF AtStep, Idle
<1>4. ASSUME AtStep(n, "store", r)'
      PROVE  operation = "read" /\ q = r
  <2>1. Tail(todo[n]) # << >> /\ Head(Tail(todo[n])) = << "store", r >>
    BY <1>2, <1>4 DEF AtStep, Idle
  <2>2. Tail(todo[n]) \in Seq(Step)
    BY <1>1, TailElements
  <2>3. 1 \in 1 .. Len(Tail(todo[n])) /\ Tail(todo[n])[1] = << "store", r >>
    BY <2>1, <2>2, TailElements
  <2>4. 2 \in 1 .. Len(todo[n]) /\ todo[n][2] = << "store", r >>
    BY <1>1, <2>3, TailElements
  <2>5. 2 - 1 \in 1 .. Len(todo[n]) /\ 2 - 1 = 1
    BY <1>1
  <2>6. todo[n][2 - 1] = << "read", r >>
    BY <1>1, <2>4, <2>5 DEF Planned, StoringNext
  <2>7. QED
    BY <1>1, <2>5, <2>6
<1>5. QED
  BY <1>3, <1>4 DEF AtStep

\* An unannounced change that is to come was so before.
UnannouncedIn(s, r) ==
  \E i \in 1 .. Len(s) :
    /\ s[i] \in {<< "commit", r >>, << "drop", r >>}
    /\ \A j \in i .. Len(s) : s[j] # << "tell", r >>

LEMMA UnannouncedSteps ==
  ASSUME NEW s \in Seq(Step), s # << >>, NEW r, UnannouncedIn(Tail(s), r)
  PROVE  UnannouncedIn(s, r)
<1>1. PICK i \in 1 .. Len(Tail(s)) :
        /\ Tail(s)[i] \in {<< "commit", r >>, << "drop", r >>}
        /\ \A j \in i .. Len(Tail(s)) : Tail(s)[j] # << "tell", r >>
  BY DEF UnannouncedIn
<1>2. i + 1 \in 1 .. Len(s) /\ s[i + 1] = Tail(s)[i]
  BY <1>1, TailElements
<1>3. ASSUME NEW j \in i + 1 .. Len(s)
      PROVE  s[j] # << "tell", r >>
  <2>1. j - 1 \in i .. Len(Tail(s)) /\ j - 1 \in 1 .. Len(Tail(s)) /\ (j - 1) + 1 = j
    BY <1>1, <1>3, TailElements
  <2>2. QED
    BY <1>1, <2>1, TailElements
<1>4. QED
  BY <1>1, <1>2, <1>3 DEF UnannouncedIn

LEMMA UnannouncedMeans ==
  ASSUME todo \in [Nodes -> Seq(Step)], NEW k \in Nodes, NEW r
  PROVE  Unannounced(k, r) <=> silent[k] /\ UnannouncedIn(todo[k], r)
<1>1. DOMAIN todo[k] = 1 .. Len(todo[k])
  OBVIOUS
<1>2. QED
  BY <1>1 DEF Unannounced, UnannouncedIn

LEMMA UnannouncedBefore ==
  ASSUME TypeOK, PlanInv, NEW k \in Nodes, todo[k] # << >>, StepDone(k), NEW r,
         Unannounced(k, r)'
  PROVE  Unannounced(k, r)
<1>1. /\ todo[k] \in Seq(Step) /\ todo'[k] = Tail(todo[k]) /\ (silent'[k] => silent[k])
      /\ todo \in [Nodes -> Seq(Step)] /\ todo' \in [Nodes -> Seq(Step)]
  BY StepMade DEF TypeOK, Step
<1>2. silent'[k] /\ UnannouncedIn(todo'[k], r)
  <2>1. DOMAIN todo'[k] = 1 .. Len(todo'[k])
    BY <1>1
  <2>2. QED
    BY <2>1 DEF Unannounced, UnannouncedIn
<1>3. UnannouncedIn(todo[k], r)
  BY <1>1, <1>2, UnannouncedSteps
<1>4. QED
  BY <1>1, <1>2, <1>3, UnannouncedMeans

\* A request that will not tell of the first step is unannounced if it is silent.
LEMMA UnannouncedFirst ==
  ASSUME TypeOK, PlanInv, NEW k \in Nodes, NEW operation \in {"commit", "drop"}, NEW r,
         AtStep(k, operation, r), silent[k], ~Contains(Tail(todo[k]), Tells(r))
  PROVE  Unannounced(k, r)
<1>1. /\ todo[k] # << >> /\ todo[k][1] = << operation, r >> /\ todo[k] \in Seq(Step)
      /\ 1 \in 1 .. Len(todo[k]) /\ Head(todo[k]) = << operation, r >>
  BY StepKnown
<1>2. << operation, r >> \notin Tells(r) /\ << "tell", r >> \in Tells(r)
  BY StepSets
<1>3. ~Contains(todo[k], Tells(r))
  BY <1>1, <1>2, TailContains
<1>4. \A j \in 1 .. Len(todo[k]) : todo[k][j] # << "tell", r >>
  BY <1>2, <1>3 DEF Contains
<1>5. DOMAIN todo[k] = 1 .. Len(todo[k])
  BY <1>1
<1>6. QED
  BY <1>1, <1>4, <1>5 DEF Unannounced
--------------------------------------------------------------------------------
(***************************************************************************)
(* What a node knows of a row stays known when nothing about it happens.   *)
(***************************************************************************)
LEMMA DeletesAreLooks ==
  ASSUME NEW n \in Nodes
  PROVE  /\ WillDelete(n) => WillLook(n, "metadata")
         /\ WillDelete(n)' => WillLook(n, "metadata")'
<1>1. Deletion \in About("metadata")
  BY DEF Deletion, About, Message, Rows
<1>2. \A operation \in {"unindex"} : << operation, "metadata" >> \in Looks("metadata")
  BY StepSets
<1>3. << "tellDelete", "metadata" >> \in Tells("metadata")
  BY StepSets
<1>4. QED
  BY <1>1, <1>2, <1>3 DEF WillDelete, WillLook, Contains, WillHear, WillBeTold

\* The expected steps and messages about a row, and the news of a deletion, stay.
Expecting(n, r) ==
  /\ WillLook(n, r) => WillLook(n, r)'
  /\ r = "metadata" /\ WillDelete(n) => WillDelete(n)'

KnownKept(n, r) ==
  /\ ToBe(n, r)' = ToBe(n, r) /\ NotBoth(n, r)'
  /\ RowAt(n, r)' = RowAt(n, r) /\ (row'[r] = 0 <=> row[r] = 0)
  /\ UnannouncedTo(n, r)' => UnannouncedTo(n, r)

LEMMA KnowledgeKept ==
  ASSUME NEW n \in Nodes, NEW r \in Rows, KnowledgeFor(n, r), << n, r >> \notin doubtful,
         Expecting(n, r), KnownKept(n, r)
  PROVE  KnowledgeFor(n, r)'
BY DEF KnowledgeFor, Expecting, KnownKept, UpToDate

\* What a node has read, and its documents.
SameNode(n) ==
  /\ task'[n] = task[n] /\ found'[n] = found[n] /\ seen'[n] = seen[n] /\ index'[n] = index[n]

LEMMA ToBeKept ==
  ASSUME NEW n \in Nodes, NEW r \in Rows, SameNode(n),
         AtStep(n, "store", r)' <=> AtStep(n, "store", r)
  PROVE  ToBe(n, r)' = ToBe(n, r) /\ (NotBoth(n, r)' <=> NotBoth(n, r))
BY DEF SameNode, ToBe, Stored, NotBoth, Handles

\* What the steps of a request leave to be expected.
LEMMA OwnStepExpecting ==
  ASSUME TypeOK, PlanInv, NEW n \in Nodes, NEW operation, NEW q, AtStep(n, operation, q),
         StepDone(n), topic'[n] = topic[n], NEW r \in Rows,
         operation \in {"read", "unindex"} => q # r
  PROVE  Expecting(n, r)
<1>1. /\ << operation, q >> \notin Looks(r)
      /\ r = "metadata" => << operation, q >> \notin {<< "unindex", "metadata" >>}
  BY StepSets
<1>2. /\ \A k \in Nodes \ {n} : todo'[k] = todo[k]
      /\ Contains(todo[n], Looks(r)) => Contains(todo'[n], Looks(r))
      /\ r = "metadata" /\ Contains(todo[n], {<< "unindex", "metadata" >>}) =>
           Contains(todo'[n], {<< "unindex", "metadata" >>})
  BY <1>1, StepLeaves
<1>3. \A steps : WillBeTold(n, steps)' <=> WillBeTold(n, steps)
  BY <1>2 DEF WillBeTold
<1>4. \A messages : WillHear(n, messages)' <=> WillHear(n, messages)
  BY DEF WillHear
<1>5. QED
  BY <1>2, <1>3, <1>4 DEF Expecting, WillLook, WillDelete

LEMMA OtherStepExpecting ==
  ASSUME TypeOK, PlanInv, NEW n \in Nodes, NEW k \in Nodes \ {n}, NEW operation, NEW q,
         AtStep(k, operation, q), StepDone(k), topic'[n] = topic[n], NEW r \in Rows,
         operation \notin {"tell", "tellDelete"}
  PROVE  Expecting(n, r)
<1>1. << operation, q >> \notin Tells(r) \cup {<< "tellDelete", "metadata" >>}
  BY StepSets
<1>2. /\ \A other \in Nodes \ {k} : todo'[other] = todo[other]
      /\ Contains(todo[k], Tells(r)) => Contains(todo'[k], Tells(r))
      /\ Contains(todo[k], {<< "tellDelete", "metadata" >>}) =>
           Contains(todo'[k], {<< "tellDelete", "metadata" >>})
  BY <1>1, StepLeaves
<1>3. /\ WillBeTold(n, Tells(r)) => WillBeTold(n, Tells(r))'
      /\ WillBeTold(n, {<< "tellDelete", "metadata" >>}) =>
           WillBeTold(n, {<< "tellDelete", "metadata" >>})'
  BY <1>2 DEF WillBeTold
<1>4. \A messages : WillHear(n, messages)' <=> WillHear(n, messages)
  BY DEF WillHear
<1>5. todo'[n] = todo[n]
  BY <1>2
<1>6. QED
  BY <1>3, <1>4, <1>5 DEF Expecting, WillLook, WillDelete

\* No document is stored just after another.
LEMMA NothingStoredTwice ==
  ASSUME NEW s \in Seq(Step), s # << >>, Planned(s), NEW q, Head(s) = << "store", q >>,
         NEW r \in Rows, Tail(s) # << >>
  PROVE  Head(Tail(s)) # << "store", r >>
<1>1. /\ s[1] = << "store", q >> /\ 1 \in 1 .. Len(s) /\ Tail(s) \in Seq(Step)
      /\ Len(Tail(s)) = Len(s) - 1
      /\ \A i \in 1 .. Len(Tail(s)) : Tail(s)[i] = s[i + 1]
  BY TailElements
<1>2. Head(Tail(s)) = Tail(s)[1] /\ Len(Tail(s)) \in Nat \ {0}
  BY <1>1, TailElements
<1>3. 1 \in 1 .. Len(Tail(s)) /\ 1 + 1 = 2 /\ 2 \in 1 .. Len(s)
  BY <1>1, <1>2
<1>4. Head(Tail(s)) = s[2]
  BY <1>1, <1>2, <1>3
<1>5. 2 - 1 = 1
  OBVIOUS
<1>6. s[2] = << "store", r >> => s[1] = << "read", r >>
  BY <1>1, <1>3, <1>5 DEF Planned, StoringNext
<1>7. QED
  BY <1>1, <1>4, <1>6

\* What a failed announcement leaves of the steps about the other row.
LEMMA SkipLeaves ==
  ASSUME TypeOK, PlanInv, NEW k \in Nodes, NEW q \in Rows, TellFails(k, q),
         NEW r \in Rows, r # q
  PROVE  /\ Contains(todo[k], Looks(r)) => Contains(todo'[k], Looks(r))
         /\ Contains(todo[k], Tells(r)) => Contains(todo'[k], Tells(r))
         /\ \A e \in {"unindex", "tellDelete"} :
              Contains(todo[k], {<< e, r >>}) => Contains(todo'[k], {<< e, r >>})
         /\ Unannounced(k, r)' => Unannounced(k, r)
         /\ ~AtStep(k, "store", r) /\ ~AtStep(k, "store", r)'
<1>. DEFINE s == todo[k]
            left == Tail(Tail(Tail(s)))
<1>1. /\ s # << >> /\ s \in Seq(Step) /\ s[1] = << "tell", q >> /\ Planned(s)
      /\ todo'[k] = left /\ todo' \in [Nodes -> Seq(Step)] /\ (silent'[k] => silent[k])
  BY StepsSkipped
<1>2. /\ Tail(s) \in Seq(Step) /\ Tail(s) # << >> /\ Head(Tail(s)) = << "read", q >>
      /\ Tail(Tail(s)) \in Seq(Step) /\ Tail(Tail(s)) # << >>
      /\ Head(Tail(Tail(s))) = << "store", q >>
      /\ left \in Seq(Step)
  BY <1>1, IndexingSkipped
<1>3. Head(s) = << "tell", q >>
  BY <1>1, TailElements
<1>4. ASSUME NEW steps, << "tell", q >> \notin steps, << "read", q >> \notin steps,
             << "store", q >> \notin steps, Contains(s, steps)
      PROVE  Contains(left, steps)
  <2>1. Contains(Tail(s), steps)
    BY <1>1, <1>3, <1>4, TailContains
  <2>2. Contains(Tail(Tail(s)), steps)
    BY <1>2, <1>4, <2>1, TailContains
  <2>3. QED
    BY <1>2, <1>4, <2>2, TailContains
<1>5. UnannouncedIn(left, r) => UnannouncedIn(s, r)
  BY <1>1, <1>2, UnannouncedSteps
<1>6. Unannounced(k, r)' => Unannounced(k, r)
  <2>1. DOMAIN todo'[k] = 1 .. Len(todo'[k])
    <3>1. todo' \in [Nodes -> Seq(Step)]
      BY <1>1
    <3>2. todo'[k] \in Seq(Step)
      BY <3>1
    <3>. HIDE DEF s, left
    <3>3. QED
      BY <3>2
  <2>2. Unannounced(k, r)' => silent'[k] /\ UnannouncedIn(todo'[k], r)
    BY <2>1 DEF Unannounced, UnannouncedIn
  <2>3. todo \in [Nodes -> Seq(Step)]
    BY DEF TypeOK, Step
  <2>4. QED
    BY <1>1, <1>5, <2>2, <2>3, UnannouncedMeans
<1>7. ~AtStep(k, "store", r)'
  <2>1. Planned(Tail(Tail(s)))
    BY <1>1, <1>2, TailPlanned
  <2>2. left # << >> => Head(left) # << "store", r >>
    BY <1>2, <2>1, NothingStoredTwice
  <2>3. QED
    BY <1>1, <2>2 DEF AtStep, Idle
<1>8. ~AtStep(k, "store", r)
  BY <1>3 DEF AtStep
<1>9. /\ Contains(s, Looks(r)) => Contains(left, Looks(r))
      /\ Contains(s, Tells(r)) => Contains(left, Tells(r))
      /\ \A e \in {"unindex", "tellDelete"} :
           Contains(s, {<< e, r >>}) => Contains(left, {<< e, r >>})
  <2>1. \A e \in {"tell", "read", "store"} : << e, q >> \notin Looks(r) \cup Tells(r)
    BY StepSets
  <2>2. Contains(s, Looks(r)) => Contains(left, Looks(r))
    BY <1>4, <2>1
  <2>3. Contains(s, Tells(r)) => Contains(left, Tells(r))
    BY <1>4, <2>1
  <2>4. \A e \in {"unindex", "tellDelete"} :
          Contains(s, {<< e, r >>}) => Contains(left, {<< e, r >>})
    BY <1>4
  <2>5. QED
    BY <2>2, <2>3, <2>4
<1>10. QED
  BY <1>1, <1>6, <1>7, <1>8, <1>9

\* Only the steps of other requests make a change to come unannounced to a node.
LEMMA StepUnannounced ==
  ASSUME TypeOK, PlanInv, NEW k \in Nodes, NEW operation, NEW q, AtStep(k, operation, q),
         StepDone(k), NEW n \in Nodes, NEW r \in Rows, UnannouncedTo(n, r)'
  PROVE  UnannouncedTo(n, r)
<1>1. PICK other \in Nodes \ {n} : Unannounced(other, r)'
  BY DEF UnannouncedTo
<1>2. todo[k] # << >> /\ \A m \in Nodes \ {k} : todo'[m] = todo[m] /\ silent'[m] = silent[m]
  BY StepKnown, StepLeaves
<1>3. CASE other = k
  BY <1>1, <1>2, <1>3, UnannouncedBefore DEF UnannouncedTo
<1>4. CASE other # k
  <2>1. Unannounced(other, r)
    BY <1>1, <1>2, <1>4 DEF Unannounced
  <2>2. QED
    BY <2>1 DEF UnannouncedTo
<1>5. QED
  BY <1>3, <1>4
--------------------------------------------------------------------------------
(***************************************************************************)
(* The steps of other nodes.                                               *)
(***************************************************************************)
OtherFrame(n, r) ==
  /\ SameNode(n) /\ todo'[n] = todo[n] /\ written'[n] = written[n]
  /\ << n, r >> \in doubtful' <=> << n, r >> \in doubtful

\* Steps that leave no doubt on other nodes.
Apart(k) ==
  \/ Serve(k)
  \/ \E q \in Rows :
       \/ \E operation \in Statement : WriteRow(k, operation, q)
       \/ Commit(k, q) \/ Tell(k, q) \/ ReadRow(k, q) \/ StoreDocument(k, q)
       \/ StoreFails(k, q) \/ RemoveDocument(k, q)
  \/ TakeMessage(k) \/ HandleMessage(k) \/ HandlingFails(k)

LEMMA OtherKept ==
  ASSUME TypeOK, PlanInv, NEW n \in Nodes, NEW k \in Nodes \ {n}, NEW r \in Rows,
         Apart(k)
  PROVE  OtherFrame(n, r)
<1>. USE DEF OtherFrame, SameNode, TypeOK
<1>1. CASE Serve(k)
  BY <1>1, RequestBegins DEF database, inbox
<1>2. ASSUME NEW q \in Rows, NEW operation \in Statement, WriteRow(k, operation, q)
      PROVE  OtherFrame(n, r)
  <2>1. todo'[n] = todo[n]
    BY <1>2, StepLeaves DEF WriteRow
  <2>2. written'[n] = written[n]
    BY <1>2 DEF WriteRow
  <2>3. QED
    BY <1>2, <2>1, <2>2 DEF WriteRow, inbox
<1>3. ASSUME NEW q \in Rows,
             \/ Commit(k, q) \/ Tell(k, q) \/ ReadRow(k, q) \/ StoreDocument(k, q)
             \/ StoreFails(k, q) \/ RemoveDocument(k, q)
      PROVE  OtherFrame(n, r)
  <2>1. todo'[n] = todo[n]
    BY <1>3, StepLeaves DEF Commit, Tell, ReadRow, StoreDocument, StoreFails, RemoveDocument
  <2>2. CASE StoreFails(k, q)
    <3>1. index'[n] = index[n]
      BY <2>2 DEF StoreFails
    <3>2. QED
      BY <2>1, <2>2, <3>1 DEF StoreFails, Doubt, database, inbox
  <2>3. QED
    BY <1>3, <2>1, <2>2 DEF Commit, Tell, ReadRow, StoreDocument, RemoveDocument, Doubt,
       Indexed, database, inbox
<1>4. CASE TakeMessage(k) \/ HandleMessage(k)
  BY <1>4 DEF TakeMessage, HandleMessage, Doubt, Indexed, database, request
<1>5. CASE HandlingFails(k)
  <2>1. index'[n] = index[n]
    BY <1>5 DEF HandlingFails
  <2>2. QED
    BY <1>5, <2>1 DEF HandlingFails, Doubt, database, request
<1>6. QED
  BY <1>1, <1>2, <1>3, <1>4, <1>5 DEF Apart

LEMMA OtherToBe ==
  ASSUME NEW n \in Nodes, NEW r \in Rows, OtherFrame(n, r)
  PROVE  ToBe(n, r)' = ToBe(n, r) /\ (NotBoth(n, r)' <=> NotBoth(n, r))
<1>1. AtStep(n, "store", r)' <=> AtStep(n, "store", r)
  BY DEF OtherFrame, AtStep, Idle
<1>2. QED
  BY <1>1, ToBeKept DEF OtherFrame

LEMMA OtherServes ==
  ASSUME TypeOK, PlanInv, NEW n \in Nodes, NEW k \in Nodes \ {n}, NEW r \in Rows,
         KnowledgeFor(n, r), Serve(k)
  PROVE  KnowledgeFor(n, r)'
<1>1. /\ todo[k] = << >> /\ UNCHANGED << database, inbox >>
      /\ \A m \in Nodes \ {k} : todo'[m] = todo[m] /\ silent'[m] = silent[m]
      /\ silent'[k] => Announced(todo'[k])
  BY RequestBegins
<1>2. OtherFrame(n, r) /\ ToBe(n, r)' = ToBe(n, r) /\ (NotBoth(n, r)' <=> NotBoth(n, r))
  BY OtherKept, OtherToBe DEF Apart
<1>3. Expecting(n, r)
  <2>1. \A steps : ~Contains(todo[k], steps)
    BY <1>1 DEF Contains
  <2>2. \A steps : WillBeTold(n, steps) => WillBeTold(n, steps)'
    BY <1>1, <2>1 DEF WillBeTold
  <2>3. \A messages : WillHear(n, messages)' <=> WillHear(n, messages)
    BY <1>1 DEF WillHear, inbox
  <2>4. QED
    BY <1>1, <2>2, <2>3 DEF Expecting, WillLook, WillDelete
<1>4. RowAt(n, r)' = RowAt(n, r) /\ row'[r] = row[r]
  BY <1>1 DEF RowAt, database
<1>5. CASE silent'[k]
  <2>1. WillLook(n, r)'
    BY <1>1, <1>5 DEF Announced, WillLook, WillBeTold
  <2>2. QED
    BY <1>2, <1>3, <1>4, <2>1 DEF KnowledgeFor, Expecting, OtherFrame
<1>6. CASE ~silent'[k]
  <2>1. UnannouncedTo(n, r)' => UnannouncedTo(n, r)
    BY <1>1, <1>6 DEF UnannouncedTo, Unannounced
  <2>2. KnownKept(n, r) \/ ~NotBoth(n, r)
    BY <1>2, <1>4, <2>1 DEF KnownKept
  <2>3. QED
    BY <1>2, <1>3, <2>2, KnowledgeKept DEF KnowledgeFor, OtherFrame
<1>7. QED
  BY <1>5, <1>6

\* The other nodes hear of what is changed, or know that they do not.
LEMMA OtherWrites ==
  ASSUME TypeOK, PlanInv, WrittenInv, NEW n \in Nodes, NEW k \in Nodes \ {n}, NEW r \in Rows,
         KnowledgeFor(n, r), << n, r >> \notin doubtful,
         NEW operation \in Statement, NEW q \in Rows, WriteRow(k, operation, q)
  PROVE  KnowledgeFor(n, r)'
<1>1. AtStep(k, operation, q) /\ StepDone(k) /\ topic'[n] = topic[n]
  BY DEF WriteRow, inbox
<1>2. OtherFrame(n, r) /\ ToBe(n, r)' = ToBe(n, r) /\ (NotBoth(n, r)' <=> NotBoth(n, r))
  BY OtherKept, OtherToBe DEF Apart
<1>3. Expecting(n, r)
  BY <1>1, OtherStepExpecting DEF Statement, Removing
<1>4. UnannouncedTo(n, r)' => UnannouncedTo(n, r)
  BY <1>1, StepUnannounced
<1>5. CASE row'[r] = row[r]
  <2>1. r \in written[n] => value'[r] = value[r]
    <3>1. r \in written[n] => r # q
      BY DEF WriteRow, RowFree
    <3>2. UNCHANGED value \/ value' = [value EXCEPT ![q] = value'[q]]
      BY DEF WriteRow, TypeOK
    <3>3. QED
      BY <3>1, <3>2 DEF TypeOK
  <2>2. RowAt(n, r)' = RowAt(n, r)
    BY <1>2, <1>5, <2>1 DEF RowAt, OtherFrame
  <2>3. QED
    BY <1>2, <1>3, <1>4, <1>5, <2>2, KnowledgeKept DEF KnownKept, KnowledgeFor
<1>6. CASE row'[r] # row[r]
  <2>1. /\ q = r /\ ~Missing(k, operation, q) /\ operation \notin {"update", "remove"}
        /\ row'[r] = IF operation \in Removing THEN 0 ELSE version + 1
    BY <1>6 DEF WriteRow, TypeOK
  <2>2. operation \in {"write", "copy", "drop"} /\ written[k] = {}
    BY <2>1, OwnWriteWritten DEF Statement, Removing
  <2>3. Planned(todo[k])
    BY <1>1, StepLeaves
  <2>4. operation # "drop" => WillLook(n, r)'
    <3>1. ASSUME operation # "drop"
          PROVE  Contains(todo'[k], Tells(r))
      <4>1. << operation, r >> \in StepsOn(Statement \ {"drop"}, r)
        BY <3>1, StepSets
      <4>2. Followed(todo[k], StepsOn(Statement \ {"drop"}, r), Tells(r))
        BY <2>3 DEF Planned, Announcing
      <4>3. QED
        BY <1>1, <2>1, <4>1, <4>2, StepLeaves
    <3>2. QED
      BY <3>1 DEF WillLook, WillBeTold
  <2>5. operation = "drop" => r = "workspace" /\ row[r] # 0 /\ row'[r] = 0
    <3>1. operation = "drop" => r # "metadata"
      BY <1>1, <2>1, <2>3, StepKnown DEF Planned, KnownTransactions
    <3>2. row[r] # 0 \/ operation = "copy"
      BY <2>1, <2>2 DEF Missing, RowAt
    <3>3. QED
      BY <2>1, <3>1, <3>2 DEF Rows, Removing
  <2>6. operation = "drop" => WillLook(n, r)'
    <3>1. SUFFICES ASSUME operation = "drop", ~Contains(todo'[k], Tells(r)) PROVE WillLook(n, r)'
      BY DEF WillLook, WillBeTold
    <3>2. silent[k]
      <4>1. AnnouncingDrops(todo[k]) => Contains(todo'[k], Tells(r))
        <5>1. << operation, r >> \in StepsOn({"drop"}, r)
          BY <3>1, StepSets
        <5>2. QED
          BY <1>1, <2>1, <5>1, StepLeaves DEF AnnouncingDrops
      <4>2. QED
        BY <3>1, <4>1 DEF PlanInv
    <3>3. todo'[k] = Tail(todo[k])
      BY <1>1, StepKnown, StepMade
    <3>4. Unannounced(k, r)
      BY <1>1, <2>1, <3>1, <3>2, <3>3, UnannouncedFirst
    <3>5. WillLook(n, r)
      BY <2>5, <3>1, <3>4 DEF KnowledgeFor, UpToDate, UnannouncedTo
    <3>6. QED
      BY <1>3, <3>5 DEF Expecting
  <2>7. r = "metadata" => row'[r] # 0
    <3>1. version + 1 # 0
      BY DEF TypeOK, Versions
    <3>2. QED
      BY <2>1, <2>2, <2>5, <3>1 DEF Removing
  <2>8. QED
    BY <1>2, <2>4, <2>6, <2>7 DEF KnowledgeFor
<1>7. QED
  BY <1>5, <1>6

LEMMA OtherCommits ==
  ASSUME TypeOK, PlanInv, WrittenInv, NEW n \in Nodes, NEW k \in Nodes \ {n}, NEW r \in Rows,
         KnowledgeFor(n, r), << n, r >> \notin doubtful, NEW q \in Rows, Commit(k, q)
  PROVE  KnowledgeFor(n, r)'
<1>1. /\ AtStep(k, "commit", q) /\ StepDone(k) /\ topic'[n] = topic[n] /\ UNCHANGED value
      /\ row' = [p \in Rows |-> RowAt(k, p)]
  BY DEF Commit, inbox
<1>2. OtherFrame(n, r) /\ ToBe(n, r)' = ToBe(n, r) /\ (NotBoth(n, r)' <=> NotBoth(n, r))
  BY OtherKept, OtherToBe DEF Apart
<1>3. Expecting(n, r)
  BY <1>1, OtherStepExpecting
<1>4. UnannouncedTo(n, r)' => UnannouncedTo(n, r)
  BY <1>1, StepUnannounced
<1>5. CASE r \notin written[k]
  <2>1. row'[r] = row[r] /\ RowAt(n, r)' = RowAt(n, r)
    BY <1>1, <1>2, <1>5 DEF RowAt, OtherFrame
  <2>2. QED
    BY <1>2, <1>3, <1>4, <2>1, KnowledgeKept DEF KnownKept, KnowledgeFor
<1>6. CASE r \in written[k]
  <2>1. \/ Grabs(k) /\ todo[k] = << << "commit", "workspace" >> >> /\ q = "workspace"
        \/ todo[k] = Deleted
    BY <1>1, <1>6, Transaction
  <2>2. todo'[k] = Tail(todo[k])
    BY <1>1, StepKnown, StepMade
  <2>3. CASE Grabs(k) /\ todo[k] = << << "commit", "workspace" >> >> /\ q = "workspace"
    <3>1. r = "workspace" /\ silent[k]
      BY <1>6, <2>3 DEF Grabs
    <3>2. ~Contains(Tail(todo[k]), Tells(r))
      <4>1. Tail(<< << "commit", "workspace" >> >>) = << >>
        OBVIOUS
      <4>2. QED
        BY <2>3, <4>1 DEF Contains
    <3>3. UnannouncedTo(n, r)
      BY <1>1, <2>3, <3>1, <3>2, UnannouncedFirst DEF UnannouncedTo
    <3>4. row[r] # 0
      BY <1>6 DEF WrittenInv
    <3>5. WillLook(n, r)'
      BY <1>3, <3>3, <3>4 DEF KnowledgeFor, UpToDate, Expecting
    <3>6. QED
      BY <1>2, <3>1, <3>5 DEF KnowledgeFor
  <2>4. CASE todo[k] = Deleted
    <3>1. Tail(Deleted) =
            << << "tellDelete", "metadata" >>, << "tellDelete", "workspace" >>,
               << "unindex", "metadata" >>, << "unindex", "workspace" >> >>
      BY DEF Deleted
    <3>2. /\ Contains(todo'[k], {<< "tellDelete", "metadata" >>})
          /\ Contains(todo'[k], {<< "tellDelete", "workspace" >>})
      <4>. DEFINE s == << << "tellDelete", "metadata" >>, << "tellDelete", "workspace" >>,
                         << "unindex", "metadata" >>, << "unindex", "workspace" >> >>
      <4>1. /\ 1 \in 1 .. Len(s) /\ s[1] = << "tellDelete", "metadata" >>
            /\ 2 \in 1 .. Len(s) /\ s[2] = << "tellDelete", "workspace" >>
        OBVIOUS
      <4>2. todo'[k] = s
        BY <2>2, <2>4, <3>1
      <4>. HIDE DEF s
      <4>3. QED
        BY <4>1, <4>2 DEF Contains
    <3>3. << "tellDelete", r >> \in Tells(r)
      BY StepSets
    <3>4. WillLook(n, r)' /\ (r = "metadata" => WillDelete(n)')
      BY <3>2, <3>3 DEF WillLook, WillDelete, WillBeTold, Contains, Rows
    <3>5. QED
      BY <1>2, <3>4 DEF KnowledgeFor
  <2>5. QED
    BY <2>1, <2>3, <2>4
<1>7. QED
  BY <1>5, <1>6

LEMMA OtherTells ==
  ASSUME TypeOK, PlanInv, NEW n \in Nodes, NEW k \in Nodes \ {n}, NEW r \in Rows,
         KnowledgeFor(n, r), << n, r >> \notin doubtful, NEW q \in Rows, Tell(k, q)
  PROVE  KnowledgeFor(n, r)'
<1>1. PICK delete \in BOOLEAN :
        /\ AtStep(k, IF delete THEN "tellDelete" ELSE "tell", q)
        /\ Send(k, q, delete)
  BY DEF Tell
<1>2. StepDone(k) /\ UNCHANGED database
  BY DEF Tell
<1>. DEFINE operation == IF delete THEN "tellDelete" ELSE "tell"
            m == [row |-> q, delete |-> delete]
<1>3. OtherFrame(n, r) /\ ToBe(n, r)' = ToBe(n, r) /\ (NotBoth(n, r)' <=> NotBoth(n, r))
  BY OtherKept, OtherToBe DEF Apart
<1>4. KnownKept(n, r)
  <2>1. UnannouncedTo(n, r)' => UnannouncedTo(n, r)
    BY <1>1, <1>2, StepUnannounced
  <2>2. RowAt(n, r)' = RowAt(n, r) /\ row'[r] = row[r]
    BY <1>2 DEF RowAt, database
  <2>3. QED
    BY <1>3, <2>1, <2>2 DEF KnownKept, KnowledgeFor
<1>5. /\ m \in Message /\ topic[n] \in Seq(Message) /\ topic'[n] = Append(topic[n], m)
  BY <1>1 DEF Send, TypeOK, Message
<1>6. /\ \A messages : WillHear(n, messages) => WillHear(n, messages)'
      /\ \A messages : m \in messages => WillHear(n, messages)'
  <2>1. /\ Len(topic'[n]) = Len(topic[n]) + 1 /\ Len(topic[n]) \in Nat
        /\ \A i \in 1 .. Len(topic[n]) : topic'[n][i] = topic[n][i]
        /\ topic'[n][Len(topic[n]) + 1] = m
    BY <1>5
  <2>2. /\ \A i \in 1 .. Len(topic[n]) : i \in 1 .. Len(topic'[n])
        /\ Len(topic[n]) + 1 \in 1 .. Len(topic'[n])
    BY <2>1
  <2>3. QED
    BY <2>1, <2>2 DEF WillHear
<1>7. \A other \in Nodes \ {k} : todo'[other] = todo[other]
  BY <1>1, <1>2, StepLeaves
<1>8. WillLook(n, r) => WillLook(n, r)'
  <2>1. << operation, q >> \in Tells(r) => m \in About(r)
    BY <1>5, StepSets DEF About
  <2>2. << operation, q >> \notin Tells(r) =>
          (Contains(todo[k], Tells(r)) => Contains(todo'[k], Tells(r)))
    BY <1>1, <1>2, StepLeaves
  <2>3. QED
    BY <1>6, <1>7, <2>1, <2>2 DEF WillLook, WillBeTold
<1>9. WillDelete(n) => WillDelete(n)'
  <2>1. << operation, q >> = << "tellDelete", "metadata" >> => m = Deletion
    BY DEF Deletion
  <2>2. << operation, q >> # << "tellDelete", "metadata" >> =>
          (Contains(todo[k], {<< "tellDelete", "metadata" >>}) =>
             Contains(todo'[k], {<< "tellDelete", "metadata" >>}))
    BY <1>1, <1>2, StepLeaves
  <2>3. QED
    BY <1>6, <1>7, <2>1, <2>2 DEF WillDelete, WillBeTold
<1>10. QED
  BY <1>4, <1>8, <1>9, KnowledgeKept DEF Expecting

\* What another node reads and stores is its own affair.
LEMMA OtherReadsOrStores ==
  ASSUME TypeOK, PlanInv, NEW n \in Nodes, NEW k \in Nodes \ {n}, NEW r \in Rows,
         KnowledgeFor(n, r), << n, r >> \notin doubtful,
         \/ \E q \in Rows : \/ ReadRow(k, q) \/ StoreDocument(k, q) \/ StoreFails(k, q)
                          \/ RemoveDocument(k, q)
         \/ TakeMessage(k) \/ HandleMessage(k) \/ HandlingFails(k)
  PROVE  KnowledgeFor(n, r)'
<1>1. OtherFrame(n, r) /\ ToBe(n, r)' = ToBe(n, r) /\ (NotBoth(n, r)' <=> NotBoth(n, r))
  BY OtherKept, OtherToBe DEF Apart
<1>2. UNCHANGED database /\ topic'[n] = topic[n]
  BY DEF ReadRow, StoreDocument, StoreFails, RemoveDocument, TakeMessage, HandleMessage,
     HandlingFails, inbox, TypeOK
<1>3. RowAt(n, r)' = RowAt(n, r) /\ row'[r] = row[r]
  BY <1>2 DEF RowAt, database
<1>4. Expecting(n, r) /\ (UnannouncedTo(n, r)' => UnannouncedTo(n, r))
  <2>1. ASSUME NEW q \in Rows, \/ ReadRow(k, q) \/ StoreDocument(k, q) \/ StoreFails(k, q)
                               \/ RemoveDocument(k, q)
        PROVE  Expecting(n, r) /\ (UnannouncedTo(n, r)' => UnannouncedTo(n, r))
    <3>1. PICK operation \in {"read", "store", "unindex"} :
            AtStep(k, operation, q) /\ StepDone(k)
      BY <2>1 DEF ReadRow, StoreDocument, StoreFails, RemoveDocument
    <3>2. QED
      BY <1>2, <3>1, OtherStepExpecting, StepUnannounced
  <2>2. CASE TakeMessage(k) \/ HandleMessage(k) \/ HandlingFails(k)
    <3>1. UNCHANGED request
      BY <2>2 DEF TakeMessage, HandleMessage, HandlingFails
    <3>2. QED
      BY <1>2, <3>1 DEF request, Expecting, WillLook, WillDelete, WillHear, WillBeTold,
         UnannouncedTo, Unannounced
  <2>3. QED
    BY <2>1, <2>2
<1>5. QED
  BY <1>1, <1>3, <1>4, KnowledgeKept DEF KnownKept, KnowledgeFor
--------------------------------------------------------------------------------
(***************************************************************************)
(* What fails on a node leaves what the nodes know of a row as it is, or   *)
(* in doubt.                                                               *)
(***************************************************************************)
LEMMA TellingFails ==
  ASSUME TypeOK, PlanInv, NEW n \in Nodes, NEW k \in Nodes, NEW r \in Rows,
         KnowledgeFor(n, r), << n, r >> \notin doubtful', NEW q \in Rows, TellFails(k, q)
  PROVE  KnowledgeFor(n, r)'
<1>1. /\ UNCHANGED << database, seen, topic, task, found, index >>
      /\ DoubtEverywhere({q})
  BY DEF TellFails, inbox
<1>2. q # r /\ << n, r >> \notin doubtful
  BY <1>1 DEF DoubtEverywhere
<1>3. \A m \in Nodes \ {k} : todo'[m] = todo[m] /\ silent'[m] = silent[m]
  BY StepsSkipped
<1>4. /\ Contains(todo[k], Looks(r)) => Contains(todo'[k], Looks(r))
      /\ Contains(todo[k], Tells(r)) => Contains(todo'[k], Tells(r))
      /\ \A e \in {"unindex", "tellDelete"} :
           Contains(todo[k], {<< e, r >>}) => Contains(todo'[k], {<< e, r >>})
      /\ Unannounced(k, r)' => Unannounced(k, r)
      /\ ~AtStep(k, "store", r) /\ ~AtStep(k, "store", r)'
  BY <1>2, SkipLeaves
<1>5. \A m \in Nodes :
        /\ Contains(todo[m], Looks(r)) => Contains(todo'[m], Looks(r))
        /\ Contains(todo[m], Tells(r)) => Contains(todo'[m], Tells(r))
        /\ \A e \in {"unindex", "tellDelete"} :
             Contains(todo[m], {<< e, r >>}) => Contains(todo'[m], {<< e, r >>})
  BY <1>3, <1>4
<1>6. \A m \in Nodes : /\ Unannounced(m, r)' => Unannounced(m, r)
                       /\ AtStep(m, "store", r)' <=> AtStep(m, "store", r)
  <2>1. \A m \in Nodes \ {k} : /\ Unannounced(m, r)' => Unannounced(m, r)
                               /\ AtStep(m, "store", r)' <=> AtStep(m, "store", r)
    BY <1>3 DEF Unannounced, AtStep, Idle
  <2>2. QED
    BY <1>4, <2>1
<1>7. Expecting(n, r)
  BY <1>1, <1>5 DEF Expecting, WillLook, WillDelete, WillHear, WillBeTold
<1>8. KnownKept(n, r) \/ ~NotBoth(n, r)
  <2>1. ToBe(n, r)' = ToBe(n, r) /\ (NotBoth(n, r)' <=> NotBoth(n, r))
    BY <1>1, <1>6, ToBeKept DEF SameNode
  <2>2. RowAt(n, r)' = RowAt(n, r) /\ row'[r] = row[r]
    BY <1>1 DEF RowAt, database
  <2>3. UnannouncedTo(n, r)' => UnannouncedTo(n, r)
    BY <1>6 DEF UnannouncedTo
  <2>4. QED
    BY <2>1, <2>2, <2>3 DEF KnownKept
<1>9. QED
  BY <1>2, <1>7, <1>8, KnowledgeKept DEF KnowledgeFor

\* A request that has changed rows has still steps about them.
LEMMA WrittenIsOwed ==
  ASSUME TypeOK, WrittenInv, NEW k \in Nodes, NEW r \in written[k]
  PROVE  \E i \in DOMAIN todo[k] : todo[k][i][2] = r
<1>1. CASE Grabs(k)
  <2>1. r = "workspace" /\ todo[k] \in GrabbingLeft
    BY <1>1 DEF Grabs, GrabbingLeft
  <2>2. /\ 1 \in DOMAIN Grabbing /\ Grabbing[1][2] = "workspace"
        /\ \A a, b, c : /\ 1 \in DOMAIN << a >> /\ << a >>[1] = a
                        /\ 1 \in DOMAIN << a, b >> /\ << a, b >>[1] = a
                        /\ 1 \in DOMAIN << a, b, c >> /\ << a, b, c >>[1] = a
    BY DEF Grabbing
  <2>3. 1 \in DOMAIN todo[k] /\ todo[k][1][2] = "workspace"
    BY <2>1, <2>2, GrabbingLeftSteps
  <2>4. QED
    BY <2>1, <2>3
<1>2. CASE Deletes(k)
  <2>1. todo[k] \in {Deleting, Deleted} /\ r \in Rows
    BY <1>2 DEF Deletes, TypeOK
  <2>2. /\ 1 \in DOMAIN Deleted /\ Deleted[1][2] = "metadata"
        /\ 3 \in DOMAIN Deleted /\ Deleted[3][2] = "workspace"
        /\ 1 \in DOMAIN Deleting /\ Deleting[1][2] = "metadata"
        /\ 4 \in DOMAIN Deleting /\ Deleting[4][2] = "workspace"
    BY DEF Deleted, Deleting
  <2>3. QED
    BY <2>1, <2>2 DEF Rows
<1>3. QED
  BY <1>1, <1>2 DEF WrittenInv

LEMMA RequestsFail ==
  ASSUME TypeOK, PlanInv, WrittenInv, NEW n \in Nodes, NEW k \in Nodes, NEW r \in Rows,
         KnowledgeFor(n, r), << n, r >> \notin doubtful', RequestFails(k)
  PROVE  KnowledgeFor(n, r)'
<1>1. /\ UNCHANGED << row, topic, task, found, index >>
      /\ written' = [written EXCEPT ![k] = {}]
      /\ value' = [q \in Rows |-> IF q \in written[k] THEN row[q] ELSE value[q]]
      /\ seen' = [seen EXCEPT ![k] = 0]
      /\ DoubtEverywhere({ q \in Rows : \E i \in DOMAIN todo[k] : todo[k][i][2] = q })
  BY DEF RequestFails, inbox
<1>2. << n, r >> \notin doubtful /\ ~\E i \in DOMAIN todo[k] : todo[k][i][2] = r
  BY <1>1 DEF DoubtEverywhere
<1>3. /\ todo[k] # << >> /\ todo[k] \in Seq(Step) /\ todo'[k] = << >> /\ ~silent'[k]
      /\ \A m \in Nodes \ {k} : todo'[m] = todo[m] /\ silent'[m] = silent[m]
  BY StepsAbandoned
<1>4. r \notin written[k]
  BY <1>2, WrittenIsOwed
<1>5. \A steps : (\A e \in steps : e[2] = r) => ~Contains(todo[k], steps)
  <2>1. DOMAIN todo[k] = 1 .. Len(todo[k])
    BY <1>3
  <2>2. QED
    BY <1>2, <2>1 DEF Contains
<1>6. /\ ~Contains(todo[k], Looks(r)) /\ ~Contains(todo[k], Tells(r))
      /\ \A e : ~Contains(todo[k], {<< e, r >>})
  <2>1. (\A e \in Looks(r) : e[2] = r) /\ (\A e \in Tells(r) : e[2] = r)
    BY DEF Looks, Tells, StepsOn
  <2>2. QED
    BY <1>5, <2>1
<1>7. \A m \in Nodes :
        /\ Contains(todo[m], Looks(r)) => Contains(todo'[m], Looks(r))
        /\ Contains(todo[m], Tells(r)) => Contains(todo'[m], Tells(r))
        /\ \A e : Contains(todo[m], {<< e, r >>}) => Contains(todo'[m], {<< e, r >>})
  BY <1>3, <1>6
<1>8. ~AtStep(k, "store", r) /\ ~AtStep(k, "store", r)'
  <2>1. Head(todo[k]) = todo[k][1] /\ 1 \in DOMAIN todo[k]
    BY <1>3, TailElements
  <2>2. Head(todo[k]) # << "store", r >>
    BY <1>2, <2>1
  <2>3. QED
    BY <1>3, <2>2 DEF AtStep, Idle
<1>9. \A m \in Nodes : Unannounced(m, r)' => Unannounced(m, r)
  BY <1>3 DEF Unannounced
<1>10. Expecting(n, r)
  BY <1>1, <1>7 DEF Expecting, WillLook, WillDelete, WillHear, WillBeTold
<1>11. KnownKept(n, r) \/ ~NotBoth(n, r)
  <2>1. AtStep(n, "store", r)' <=> AtStep(n, "store", r)
    BY <1>3, <1>8 DEF AtStep, Idle
  <2>2. AtStep(n, "store", r) => seen'[n] = seen[n]
    BY <1>1, <1>8 DEF TypeOK
  <2>3. ToBe(n, r)' = ToBe(n, r) /\ (NotBoth(n, r)' <=> NotBoth(n, r))
    BY <1>1, <2>1, <2>2 DEF ToBe, Stored, NotBoth, Handles
  <2>4. (r \in written'[n] <=> r \in written[n]) /\ value'[r] = value[r]
    BY <1>1, <1>4 DEF TypeOK
  <2>5. RowAt(n, r)' = RowAt(n, r)
    BY <1>1, <2>4 DEF RowAt
  <2>6. UnannouncedTo(n, r)' => UnannouncedTo(n, r)
    BY <1>9 DEF UnannouncedTo
  <2>7. QED
    BY <1>1, <2>3, <2>5, <2>6 DEF KnownKept
<1>12. QED
  BY <1>2, <1>10, <1>11, KnowledgeKept DEF KnowledgeFor
--------------------------------------------------------------------------------
(***************************************************************************)
(* The steps of the node itself.                                           *)
(***************************************************************************)
LEMMA OwnServes ==
  ASSUME TypeOK, PlanInv, NEW n \in Nodes, NEW r \in Rows, KnowledgeFor(n, r), Serve(n)
  PROVE  KnowledgeFor(n, r)'
<1>1. /\ todo[n] = << >> /\ UNCHANGED << database, seen, inbox, index, doubtful >>
      /\ \A m \in Nodes \ {n} : todo'[m] = todo[m] /\ silent'[m] = silent[m]
      /\ todo'[n] # << >> /\ todo'[n][1][1] # "store" /\ todo' \in [Nodes -> Seq(Step)]
  BY RequestBegins
<1>2. ~AtStep(n, "store", r)' /\ ~AtStep(n, "store", r)
  <2>1. Head(todo'[n]) = todo'[n][1] /\ todo'[n][1] # << "store", r >>
    <3>1. todo'[n] \in Seq(Step)
      BY <1>1
    <3>2. Head(todo'[n]) = todo'[n][1]
      BY <1>1, <3>1, TailElements
    <3>3. QED
      BY <1>1, <3>2
  <2>2. QED
    BY <1>1, <2>1 DEF AtStep, Idle
<1>3. ToBe(n, r)' = ToBe(n, r) /\ (NotBoth(n, r)' <=> NotBoth(n, r))
  BY <1>1, <1>2, ToBeKept DEF SameNode, inbox
<1>4. Expecting(n, r)
  <2>1. \A steps : ~Contains(todo[n], steps)
    BY <1>1 DEF Contains
  <2>2. \A steps : WillBeTold(n, steps) => WillBeTold(n, steps)'
    BY <1>1 DEF WillBeTold
  <2>3. \A messages : WillHear(n, messages)' <=> WillHear(n, messages)
    BY <1>1 DEF WillHear, inbox
  <2>4. QED
    BY <2>1, <2>2, <2>3 DEF Expecting, WillLook, WillDelete
<1>5. /\ RowAt(n, r)' = RowAt(n, r) /\ row'[r] = row[r]
      /\ UnannouncedTo(n, r)' => UnannouncedTo(n, r)
  <2>1. RowAt(n, r)' = RowAt(n, r) /\ row'[r] = row[r]
    BY <1>1 DEF RowAt, database
  <2>2. ASSUME NEW k \in Nodes \ {n}, Unannounced(k, r)'
        PROVE  Unannounced(k, r)
    <3>1. todo'[k] = todo[k] /\ silent'[k] = silent[k]
      BY <1>1
    <3>2. QED
      BY <2>2, <3>1 DEF Unannounced
  <2>3. QED
    BY <2>1, <2>2 DEF UnannouncedTo
<1>6. QED
  BY <1>1, <1>3, <1>4, <1>5, KnowledgeKept DEF KnownKept, KnowledgeFor

\* What a request changes it will index.
LEMMA OwnWrites ==
  ASSUME TypeOK, PlanInv, WrittenInv, NEW n \in Nodes, NEW r \in Rows,
         KnowledgeFor(n, r), << n, r >> \notin doubtful,
         NEW operation \in Statement, NEW q \in Rows, WriteRow(n, operation, q)
  PROVE  KnowledgeFor(n, r)'
<1>1. /\ AtStep(n, operation, q) /\ StepDone(n)
      /\ UNCHANGED << topic, task, found, seen, index, doubtful >>
  BY DEF WriteRow, inbox
<1>2. ~AtStep(n, "store", r)' /\ ~AtStep(n, "store", r)
  <2>1. operation # "read" /\ operation # "store"
    BY DEF Statement, Removing
  <2>2. QED
    BY <1>1, <2>1, StoresWhatItReads DEF AtStep
<1>3. ToBe(n, r)' = ToBe(n, r) /\ (NotBoth(n, r)' <=> NotBoth(n, r))
  BY <1>1, <1>2, ToBeKept DEF SameNode
<1>4. Expecting(n, r)
  BY <1>1, OwnStepExpecting DEF Statement, Removing
<1>5. UnannouncedTo(n, r)' => UnannouncedTo(n, r)
  BY <1>1, StepUnannounced
<1>6. CASE q # r
  <2>1. row'[r] = row[r] /\ value'[r] = value[r] /\ (r \in written'[n] <=> r \in written[n])
    <3>1. CASE Missing(n, operation, q)
      BY <3>1 DEF WriteRow
    <3>2. CASE ~Missing(n, operation, q)
      <4>1. /\ written' = [written EXCEPT ![n] = written[n] \cup {q}] \/ UNCHANGED written
            /\ value' = [value EXCEPT ![q] = value'[q]]
            /\ row' = [row EXCEPT ![q] = value'[q]] \/ UNCHANGED row
        BY <3>2 DEF WriteRow, TypeOK
      <4>2. QED
        BY <1>6, <4>1 DEF TypeOK
    <3>3. QED
      BY <3>1, <3>2
  <2>2. RowAt(n, r)' = RowAt(n, r)
    BY <2>1 DEF RowAt
  <2>3. QED
    BY <1>3, <1>4, <1>5, <2>1, <2>2, KnowledgeKept DEF KnownKept, KnowledgeFor
<1>7. CASE q = r
  <2>1. WillLook(n, r)'
    <3>1. << operation, r >> \in StepsOn(Statement, r)
      BY StepSets
    <3>2. Followed(todo[n], StepsOn(Statement, r), Looks(r))
      BY <1>1, StepLeaves DEF Planned, Indexing
    <3>3. QED
      BY <1>1, <1>7, <3>1, <3>2, StepLeaves DEF WillLook
  <2>2. r = "metadata" /\ row'[r] = 0 => row[r] = 0
    <3>1. r = "metadata" => operation # "drop"
      BY <1>1, <1>7, StepKnown DEF Planned, KnownTransactions
    <3>2. r = "metadata" => row'[r] = row[r] \/ row'[r] = version + 1
      BY <1>7, <3>1 DEF WriteRow, TypeOK, Removing
    <3>3. version + 1 # 0
      BY DEF TypeOK, Versions
    <3>4. QED
      BY <3>2, <3>3
  <2>3. QED
    BY <1>3, <1>4, <2>1, <2>2 DEF KnowledgeFor, Expecting
<1>8. QED
  BY <1>6, <1>7

LEMMA OwnCommits ==
  ASSUME TypeOK, PlanInv, WrittenInv, NEW n \in Nodes, NEW r \in Rows,
         KnowledgeFor(n, r), << n, r >> \notin doubtful, NEW q \in Rows, Commit(n, q)
  PROVE  KnowledgeFor(n, r)'
<1>1. /\ AtStep(n, "commit", q) /\ StepDone(n) /\ written'[n] = {}
      /\ row' = [p \in Rows |-> RowAt(n, p)]
      /\ UNCHANGED << topic, task, found, seen, index, doubtful >>
  BY DEF Commit, inbox, TypeOK
<1>2. ~AtStep(n, "store", r)' /\ ~AtStep(n, "store", r)
  BY <1>1, StoresWhatItReads DEF AtStep
<1>3. ToBe(n, r)' = ToBe(n, r) /\ (NotBoth(n, r)' <=> NotBoth(n, r))
  BY <1>1, <1>2, ToBeKept DEF SameNode
<1>4. Expecting(n, r)
  BY <1>1, OwnStepExpecting
<1>5. UnannouncedTo(n, r)' => UnannouncedTo(n, r)
  BY <1>1, StepUnannounced
<1>6. RowAt(n, r)' = RowAt(n, r)
  BY <1>1 DEF RowAt
<1>7. row[r] = 0 => row'[r] = 0
  BY <1>1 DEF RowAt, WrittenInv
<1>8. r = "metadata" /\ row'[r] = 0 /\ row[r] # 0 => WillDelete(n)'
  <2>1. SUFFICES ASSUME r = "metadata", r \in written[n] PROVE WillDelete(n)'
    BY <1>1 DEF RowAt
  <2>2. todo[n] = Deleted
    BY <1>1, <2>1, Transaction DEF Grabs
  <2>3. /\ << "commit", q >> # << "unindex", "metadata" >>
        /\ Contains(Deleted, {<< "unindex", "metadata" >>})
    <3>1. 4 \in 1 .. Len(Deleted) /\ Deleted[4] = << "unindex", "metadata" >>
      BY DEF Deleted
    <3>2. QED
      BY <3>1 DEF Contains
  <2>4. QED
    BY <1>1, <2>2, <2>3, StepLeaves DEF WillDelete
<1>9. QED
  BY <1>1, <1>3, <1>4, <1>5, <1>6, <1>7, <1>8 DEF KnowledgeFor, UpToDate, Expecting

LEMMA OwnTells ==
  ASSUME TypeOK, PlanInv, NEW n \in Nodes, NEW r \in Rows,
         KnowledgeFor(n, r), << n, r >> \notin doubtful, NEW q \in Rows, Tell(n, q)
  PROVE  KnowledgeFor(n, r)'
<1>1. PICK operation \in {"tell", "tellDelete"} : AtStep(n, operation, q)
  BY DEF Tell
<1>2. /\ StepDone(n) /\ topic'[n] = topic[n]
      /\ UNCHANGED << database, task, found, seen, index, doubtful >>
  BY DEF Tell, Send
<1>3. ~AtStep(n, "store", r)' /\ ~AtStep(n, "store", r)
  BY <1>1, <1>2, StoresWhatItReads DEF AtStep
<1>4. ToBe(n, r)' = ToBe(n, r) /\ (NotBoth(n, r)' <=> NotBoth(n, r))
  BY <1>2, <1>3, ToBeKept DEF SameNode
<1>5. Expecting(n, r) /\ (UnannouncedTo(n, r)' => UnannouncedTo(n, r))
  BY <1>1, <1>2, OwnStepExpecting, StepUnannounced
<1>6. RowAt(n, r)' = RowAt(n, r) /\ row'[r] = row[r]
  BY <1>2 DEF RowAt, database
<1>7. QED
  BY <1>4, <1>5, <1>6, KnowledgeKept DEF KnownKept, KnowledgeFor

\* A reading without a doubt about it is of the row as it is.
LEMMA OwnReads ==
  ASSUME TypeOK, PlanInv, WrittenInv, NEW n \in Nodes, NEW r \in Rows,
         KnowledgeFor(n, r), << n, r >> \notin doubtful', NEW q \in Rows, ReadRow(n, q)
  PROVE  KnowledgeFor(n, r)'
<1>1. /\ AtStep(n, "read", q) /\ StepDone(n) /\ seen'[n] = RowAt(n, q)
      /\ UNCHANGED << database, topic, task, found, index >>
      /\ Doubt(n, q, Handles(n, q) \/ UnannouncedTo(n, q) \/ StillInDoubt(n, q))
  BY DEF ReadRow, inbox, TypeOK
<1>2. ~AtStep(n, "store", r) /\ (AtStep(n, "store", r)' <=> q = r)
  BY <1>1, StoresWhatItReads DEF AtStep
<1>3. UnannouncedTo(n, r)' => UnannouncedTo(n, r)
  BY <1>1, StepUnannounced
<1>4. RowAt(n, r)' = RowAt(n, r) /\ row'[r] = row[r]
  BY <1>1 DEF RowAt, database
<1>5. CASE q # r
  <2>1. << n, r >> \notin doubtful
    BY <1>1, <1>5 DEF Doubt
  <2>2. ToBe(n, r)' = ToBe(n, r) /\ (NotBoth(n, r)' <=> NotBoth(n, r))
    <3>1. Handles(n, r)' <=> Handles(n, r)
      BY <1>1 DEF Handles
    <3>2. QED
      BY <1>1, <1>2, <1>5, <3>1 DEF ToBe, NotBoth, Stored
  <2>3. Expecting(n, r)
    BY <1>1, <1>5, OwnStepExpecting
  <2>4. QED
    BY <1>3, <1>4, <2>1, <2>2, <2>3, KnowledgeKept DEF KnownKept, KnowledgeFor
<1>6. CASE q = r
  <2>1. ~Handles(n, r) /\ ~UnannouncedTo(n, r) /\ ~StillInDoubt(n, r)
    BY <1>1, <1>6 DEF Doubt
  <2>2. ~Handles(n, r)'
    BY <1>1, <2>1 DEF Handles
  <2>3. NotBoth(n, r)' /\ ToBe(n, r)' = IF RowAt(n, r) = 0 /\ r = "metadata" THEN index[n][r]
                                        ELSE RowAt(n, r)
    BY <1>1, <1>2, <1>6, <2>2 DEF NotBoth, ToBe, Stored
  <2>4. r = "metadata" => r \notin written[n]
    BY <1>1, <1>6, Transaction
  <2>5. r \in written[n] => row[r] # 0
    BY DEF WrittenInv
  <2>6. CASE RowAt(n, r) # 0 \/ r # "metadata"
    BY <1>3, <1>4, <2>1, <2>3, <2>4, <2>6 DEF KnowledgeFor, UpToDate, RowAt
  <2>7. CASE RowAt(n, r) = 0 /\ r = "metadata"
    <3>1. row[r] = 0 /\ << n, r >> \notin doubtful
      BY <2>1, <2>4, <2>7 DEF RowAt, StillInDoubt
    <3>2. ToBe(n, r) = index[n][r] /\ (WillDelete(n) \/ index[n][r] = 0)
      BY <1>2, <2>1, <2>7, <3>1 DEF KnowledgeFor, ToBe
    <3>3. WillDelete(n) => WillDelete(n)'
      <4>1. << "read", q >> # << "unindex", "metadata" >>
        OBVIOUS
      <4>2. /\ Contains(todo[n], {<< "unindex", "metadata" >>}) =>
                 Contains(todo'[n], {<< "unindex", "metadata" >>})
            /\ \A k \in Nodes \ {n} : todo'[k] = todo[k]
        BY <1>1, <4>1, StepLeaves
      <4>3. QED
        BY <1>1, <4>2 DEF WillDelete, WillHear, WillBeTold
    <3>4. WillDelete(n)' => WillLook(n, r)'
      BY <2>7, DeletesAreLooks
    <3>5. QED
      BY <1>3, <1>4, <2>1, <2>3, <2>7, <3>1, <3>2, <3>3, <3>4 DEF KnowledgeFor, UpToDate
  <2>8. QED
    BY <2>6, <2>7
<1>7. QED
  BY <1>5, <1>6

LEMMA OwnStores ==
  ASSUME TypeOK, PlanInv, NEW n \in Nodes, NEW r \in Rows,
         KnowledgeFor(n, r), << n, r >> \notin doubtful, NEW q \in Rows, StoreDocument(n, q)
  PROVE  KnowledgeFor(n, r)'
<1>1. /\ AtStep(n, "store", q) /\ StepDone(n) /\ index' = Indexed(n, q, seen[n])
      /\ UNCHANGED << database, topic, task, found, doubtful >>
  BY DEF StoreDocument, inbox
<1>2. ~AtStep(n, "store", r)' /\ (AtStep(n, "store", r) <=> q = r)
  BY <1>1, StoresWhatItReads DEF AtStep
<1>3. Handles(n, r)' <=> Handles(n, r)
  BY <1>1 DEF Handles
<1>4. ToBe(n, r)' = ToBe(n, r) /\ NotBoth(n, r)'
  <2>1. NotBoth(n, r)'
    BY <1>2 DEF NotBoth
  <2>2. CASE q # r
    <3>1. index'[n][r] = index[n][r]
      BY <1>1, <2>2 DEF Indexed, TypeOK
    <3>2. QED
      BY <1>1, <1>2, <1>3, <2>1, <2>2, <3>1 DEF ToBe, Stored
  <2>3. CASE q = r
    <3>1. ~Handles(n, r) /\ ToBe(n, r) = Stored(n, r, seen[n])
      BY <1>2, <2>3 DEF KnowledgeFor, NotBoth, ToBe
    <3>2. index'[n][r] = Stored(n, r, seen[n])
      BY <1>1, <2>3 DEF Indexed, Stored, TypeOK
    <3>3. QED
      BY <1>2, <1>3, <2>1, <3>1, <3>2 DEF ToBe
  <2>4. QED
    BY <2>2, <2>3
<1>5. Expecting(n, r) /\ (UnannouncedTo(n, r)' => UnannouncedTo(n, r))
  BY <1>1, OwnStepExpecting, StepUnannounced
<1>6. RowAt(n, r)' = RowAt(n, r) /\ row'[r] = row[r]
  BY <1>1 DEF RowAt, database
<1>7. QED
  BY <1>4, <1>5, <1>6, KnowledgeKept DEF KnownKept

LEMMA OwnStoreFails ==
  ASSUME TypeOK, PlanInv, NEW n \in Nodes, NEW r \in Rows,
         KnowledgeFor(n, r), << n, r >> \notin doubtful', NEW q \in Rows, StoreFails(n, q)
  PROVE  KnowledgeFor(n, r)'
<1>1. /\ AtStep(n, "store", q) /\ StepDone(n)
      /\ UNCHANGED << database, topic, task, found >>
      /\ index' \in {index, [index EXCEPT ![n][q] = 0]}
      /\ doubtful' = doubtful \cup {<< n, q >>}
  BY DEF StoreFails, Doubt, inbox
<1>2. q # r /\ << n, r >> \notin doubtful
  BY <1>1
<1>3. ~AtStep(n, "store", r)' /\ ~AtStep(n, "store", r)
  BY <1>1, <1>2, StoresWhatItReads DEF AtStep
<1>4. index'[n][r] = index[n][r]
  BY <1>1, <1>2 DEF TypeOK
<1>5. Handles(n, r)' <=> Handles(n, r)
  BY <1>1 DEF Handles
<1>6. ToBe(n, r)' = ToBe(n, r) /\ NotBoth(n, r)'
  BY <1>1, <1>3, <1>4, <1>5 DEF ToBe, Stored, NotBoth
<1>7. Expecting(n, r) /\ (UnannouncedTo(n, r)' => UnannouncedTo(n, r))
  BY <1>1, OwnStepExpecting, StepUnannounced
<1>8. RowAt(n, r)' = RowAt(n, r) /\ row'[r] = row[r]
  BY <1>1 DEF RowAt, database
<1>9. QED
  BY <1>2, <1>6, <1>7, <1>8, KnowledgeKept DEF KnownKept

LEMMA OwnRemoves ==
  ASSUME TypeOK, PlanInv, WrittenInv, NEW n \in Nodes, NEW r \in Rows,
         KnowledgeFor(n, r), << n, r >> \notin doubtful', NEW q \in Rows, RemoveDocument(n, q)
  PROVE  KnowledgeFor(n, r)'
<1>1. /\ AtStep(n, "unindex", q) /\ StepDone(n) /\ index' = [index EXCEPT ![n][q] = 0]
      /\ UNCHANGED << database, seen, topic, task, found >>
      /\ Doubt(n, q, Handles(n, q) \/ row[q] # 0)
  BY DEF RemoveDocument, inbox
<1>2. ~AtStep(n, "store", r)' /\ ~AtStep(n, "store", r)
  BY <1>1, StoresWhatItReads DEF AtStep
<1>3. Handles(n, r)' <=> Handles(n, r)
  BY <1>1 DEF Handles
<1>4. RowAt(n, r)' = RowAt(n, r) /\ row'[r] = row[r]
  BY <1>1 DEF RowAt, database
<1>5. CASE q # r
  <2>1. << n, r >> \notin doubtful /\ index'[n][r] = index[n][r]
    BY <1>1, <1>5 DEF Doubt, TypeOK
  <2>2. ToBe(n, r)' = ToBe(n, r) /\ NotBoth(n, r)'
    BY <1>1, <1>2, <1>3, <2>1 DEF ToBe, Stored, NotBoth
  <2>3. Expecting(n, r) /\ (UnannouncedTo(n, r)' => UnannouncedTo(n, r))
    BY <1>1, <1>5, OwnStepExpecting, StepUnannounced
  <2>4. QED
    BY <1>4, <2>1, <2>2, <2>3, KnowledgeKept DEF KnownKept
<1>6. CASE q = r
  <2>1. ~Handles(n, r) /\ row[r] = 0 /\ index'[n][r] = 0
    BY <1>1, <1>6 DEF Doubt, TypeOK
  <2>2. ToBe(n, r)' = 0 /\ NotBoth(n, r)'
    BY <1>2, <1>3, <2>1 DEF ToBe, NotBoth
  <2>3. RowAt(n, r)' = 0
    BY <1>4, <2>1 DEF RowAt, WrittenInv
  <2>4. QED
    BY <1>4, <2>1, <2>2, <2>3 DEF KnowledgeFor, UpToDate
<1>7. QED
  BY <1>5, <1>6

LEMMA OwnTakes ==
  ASSUME TypeOK, PlanInv, NEW n \in Nodes, NEW r \in Rows,
         KnowledgeFor(n, r), << n, r >> \notin doubtful', TakeMessage(n)
  PROVE  KnowledgeFor(n, r)'
<1>. DEFINE m == Head(topic[n])
<1>1. /\ task[n] = << >> /\ topic[n] # << >> /\ topic[n] \in Seq(Message)
      /\ UNCHANGED << database, request, index >>
      /\ task'[n] = << m >> /\ found'[n] = (IF m.delete THEN 0 ELSE row[m.row])
      /\ topic'[n] = Tail(topic[n])
      /\ Doubt(n, m.row, \/ Indexes(n, m.row)
                         \/ UnannouncedTo(n, m.row)
                         \/ IF m.delete THEN row[m.row] # 0 ELSE StillInDoubt(n, m.row))
  BY DEF TakeMessage, TypeOK
<1>2. m \in Message /\ m.row \in Rows /\ m.delete \in BOOLEAN
  <2>1. m \in Message
    BY <1>1, TailElements
  <2>2. QED
    BY <2>1 DEF Message
<1>3. ~Handles(n, r) /\ (Handles(n, r)' <=> m.row = r) /\ Head(task'[n]) = m
  BY <1>1 DEF Handles
<1>4. AtStep(n, "store", r)' <=> AtStep(n, "store", r)
  BY <1>1 DEF AtStep, Idle, request
<1>5. /\ RowAt(n, r)' = RowAt(n, r) /\ row'[r] = row[r]
      /\ UnannouncedTo(n, r)' => UnannouncedTo(n, r)
  BY <1>1 DEF RowAt, UnannouncedTo, Unannounced, database, request
<1>6. \A messages : m \notin messages /\ WillHear(n, messages) => WillHear(n, messages)'
  <2>1. SUFFICES ASSUME NEW messages, m \notin messages, WillHear(n, messages)
                 PROVE  WillHear(n, messages)'
    OBVIOUS
  <2>2. PICK i \in 1 .. Len(topic[n]) : topic[n][i] \in messages
    BY <2>1 DEF WillHear
  <2>3. m = topic[n][1]
    BY <1>1, TailElements
  <2>4. i - 1 \in 1 .. Len(Tail(topic[n])) /\ Tail(topic[n])[i - 1] = topic[n][i]
    <3>1. i # 1
      BY <2>1, <2>2, <2>3
    <3>2. i - 1 \in 1 .. Len(Tail(topic[n])) /\ (i - 1) + 1 = i
      BY <1>1, <3>1, TailElements
    <3>3. QED
      BY <1>1, <3>2, TailElements
  <2>5. QED
    BY <1>1, <2>2, <2>4 DEF WillHear
<1>7. \A steps : (Contains(todo[n], steps) => Contains(todo'[n], steps))
                 /\ (WillBeTold(n, steps) => WillBeTold(n, steps)')
  BY <1>1 DEF WillBeTold, request
<1>. HIDE DEF m
<1>8. m # Deletion => (WillDelete(n) => WillDelete(n)')
  BY <1>6, <1>7 DEF WillDelete
<1>9. CASE m.row # r
  <2>1. << n, r >> \notin doubtful
    BY <1>1, <1>9 DEF Doubt
  <2>2. ToBe(n, r)' = ToBe(n, r) /\ NotBoth(n, r)'
    BY <1>1, <1>3, <1>4, <1>9 DEF ToBe, Stored, NotBoth, request
  <2>3. WillLook(n, r) => WillLook(n, r)'
    BY <1>6, <1>7, <1>9 DEF WillLook, About
  <2>4. r = "metadata" => m # Deletion
    BY <1>9 DEF Deletion
  <2>5. QED
    BY <1>5, <1>8, <2>1, <2>2, <2>3, <2>4, KnowledgeKept DEF KnownKept, Expecting
<1>10. CASE m.row = r
  <2>1. /\ ~AtStep(n, "store", r) /\ r \notin written[n] /\ ~UnannouncedTo(n, r)
        /\ m.delete => row[r] = 0
        /\ ~m.delete => ~StillInDoubt(n, r)
    BY <1>1, <1>10 DEF Doubt, Indexes
  <2>2. NotBoth(n, r)' /\ RowAt(n, r)' = row[r] /\ ~UnannouncedTo(n, r)'
    BY <1>4, <1>5, <2>1 DEF NotBoth, RowAt
  <2>3. ToBe(n, r)' = IF m.delete THEN 0
                      ELSE IF row[r] = 0 /\ r = "metadata" THEN index[n][r] ELSE row[r]
    BY <1>1, <1>3, <1>10 DEF ToBe, Stored
  <2>4. CASE m.delete
    BY <1>5, <2>1, <2>2, <2>3, <2>4 DEF KnowledgeFor, UpToDate
  <2>5. CASE ~m.delete /\ (row[r] # 0 \/ r # "metadata")
    BY <1>5, <2>2, <2>3, <2>5 DEF KnowledgeFor, UpToDate
  <2>6. CASE ~m.delete /\ row[r] = 0 /\ r = "metadata"
    <3>1. << n, r >> \notin doubtful
      BY <2>1, <2>6 DEF StillInDoubt
    <3>2. ToBe(n, r) = index[n][r] /\ (WillDelete(n) \/ index[n][r] = 0)
      BY <1>3, <2>1, <2>6, <3>1 DEF KnowledgeFor, ToBe
    <3>3. WillDelete(n) => WillDelete(n)' /\ WillLook(n, r)'
      BY <1>8, <2>6, DeletesAreLooks DEF Deletion
    <3>4. QED
      BY <1>5, <2>2, <2>3, <2>6, <3>2, <3>3 DEF KnowledgeFor, UpToDate
  <2>7. QED
    BY <1>2, <2>4, <2>5, <2>6
<1>11. QED
  BY <1>9, <1>10

LEMMA OwnHandles ==
  ASSUME TypeOK, NEW n \in Nodes, NEW r \in Rows,
         KnowledgeFor(n, r), << n, r >> \notin doubtful, HandleMessage(n)
  PROVE  KnowledgeFor(n, r)'
<1>. DEFINE m == Head(task[n])
<1>1. /\ task[n] # << >> /\ task'[n] = << >>
      /\ UNCHANGED << database, request, topic, doubtful >>
      /\ index' = IF m.delete THEN [index EXCEPT ![n][m.row] = 0]
                  ELSE Indexed(n, m.row, found[n])
  BY DEF HandleMessage, TypeOK
<1>2. m.row \in Rows
  <2>1. task[n] \in Seq(Message)
    BY DEF TypeOK
  <2>2. m \in Message
    BY <1>1, <2>1, TailElements
  <2>3. QED
    BY <2>2 DEF Message
<1>3. ~Handles(n, r)' /\ (Handles(n, r) <=> m.row = r)
  BY <1>1 DEF Handles
<1>4. AtStep(n, "store", r)' <=> AtStep(n, "store", r)
  BY <1>1 DEF AtStep, Idle, request
<1>5. /\ RowAt(n, r)' = RowAt(n, r) /\ row'[r] = row[r]
      /\ UnannouncedTo(n, r)' => UnannouncedTo(n, r)
  BY <1>1 DEF RowAt, UnannouncedTo, Unannounced, database, request
<1>6. Expecting(n, r)
  BY <1>1 DEF Expecting, WillLook, WillDelete, WillHear, WillBeTold, request
<1>. HIDE DEF m
<1>7. ToBe(n, r)' = ToBe(n, r)
  <2>1. CASE m.row # r
    <3>1. index'[n][r] = index[n][r]
      BY <1>1, <1>2, <2>1 DEF Indexed, TypeOK
    <3>2. QED
      BY <1>1, <1>3, <1>4, <2>1, <3>1 DEF ToBe, Stored, request
  <2>2. CASE m.row = r
    <3>1. index'[n][r] = IF m.delete THEN 0 ELSE Stored(n, r, found[n])
      BY <1>1, <1>2, <2>2 DEF Indexed, Stored, TypeOK
    <3>2. ~AtStep(n, "store", r)
      BY <1>3, <2>2 DEF KnowledgeFor, NotBoth
    <3>3. ToBe(n, r) = IF m.delete THEN 0 ELSE Stored(n, r, found[n])
      BY <1>3, <2>2 DEF ToBe, m
    <3>4. QED
      BY <1>3, <1>4, <3>1, <3>2, <3>3 DEF ToBe
  <2>3. QED
    BY <2>1, <2>2
<1>8. QED
  BY <1>3, <1>5, <1>6, <1>7, KnowledgeKept DEF KnownKept, NotBoth

LEMMA OwnHandlingFails ==
  ASSUME TypeOK, NEW n \in Nodes, NEW r \in Rows,
         KnowledgeFor(n, r), << n, r >> \notin doubtful', HandlingFails(n)
  PROVE  KnowledgeFor(n, r)'
<1>. DEFINE q == Head(task[n]).row
<1>1. /\ task[n] # << >> /\ task'[n] = << >>
      /\ UNCHANGED << database, request, topic >>
      /\ index' \in {index, [index EXCEPT ![n][q] = 0]}
      /\ doubtful' = doubtful \cup {<< n, q >>}
  BY DEF HandlingFails, Doubt, TypeOK
<1>2. q # r /\ << n, r >> \notin doubtful
  BY <1>1
<1>3. ~Handles(n, r)' /\ ~Handles(n, r)
  BY <1>1, <1>2 DEF Handles
<1>4. AtStep(n, "store", r)' <=> AtStep(n, "store", r)
  BY <1>1 DEF AtStep, Idle, request
<1>. HIDE DEF q
<1>5. index'[n][r] = index[n][r]
  BY <1>1, <1>2 DEF TypeOK
<1>6. ToBe(n, r)' = ToBe(n, r) /\ NotBoth(n, r)'
  BY <1>1, <1>3, <1>4, <1>5 DEF ToBe, Stored, NotBoth, request
<1>7. /\ RowAt(n, r)' = RowAt(n, r) /\ row'[r] = row[r]
      /\ UnannouncedTo(n, r)' => UnannouncedTo(n, r)
  BY <1>1 DEF RowAt, UnannouncedTo, Unannounced, database, request
<1>8. Expecting(n, r)
  BY <1>1 DEF Expecting, WillLook, WillDelete, WillHear, WillBeTold, request
<1>9. QED
  BY <1>2, <1>6, <1>7, <1>8, KnowledgeKept DEF KnownKept

LEMMA KnowledgeStep ==
  ASSUME TypeOK, PlanInv, WrittenInv, KnowledgeInv, [Next]_vars
  PROVE  KnowledgeInv'
<1>1. SUFFICES ASSUME NEW n \in Nodes, NEW r \in Rows, << n, r >> \notin doubtful'
               PROVE  KnowledgeFor(n, r)'
  BY DEF KnowledgeInv, KnowledgeFor
<1>2. KnowledgeFor(n, r)
  BY DEF KnowledgeInv
<1>3. ASSUME NEW k \in Nodes \ {n}, Apart(k)
      PROVE  KnowledgeFor(n, r)'
  <2>1. << n, r >> \notin doubtful
    BY <1>1, <1>3, OtherKept DEF OtherFrame
  <2>2. QED
    BY <1>2, <1>3, <2>1, OtherServes, OtherWrites, OtherCommits, OtherTells,
       OtherReadsOrStores DEF Apart
<1>4. CASE Serve(n)
  BY <1>2, <1>4, OwnServes
<1>5. CASE \E q \in Rows :
             \/ \E operation \in Statement : WriteRow(n, operation, q)
             \/ Commit(n, q) \/ Tell(n, q) \/ ReadRow(n, q) \/ StoreDocument(n, q)
             \/ StoreFails(n, q) \/ RemoveDocument(n, q)
  <2>1. ASSUME NEW q \in Rows,
               \/ \E operation \in Statement : WriteRow(n, operation, q)
               \/ Commit(n, q) \/ Tell(n, q) \/ StoreDocument(n, q)
        PROVE  << n, r >> \notin doubtful
    BY <1>1, <2>1 DEF WriteRow, Commit, Tell, StoreDocument
  <2>2. QED
    BY <1>1, <1>2, <1>5, <2>1, OwnWrites, OwnCommits, OwnTells, OwnReads, OwnStores,
       OwnStoreFails, OwnRemoves
<1>6. CASE TakeMessage(n)
  BY <1>1, <1>2, <1>6, OwnTakes
<1>7. CASE HandleMessage(n)
  BY <1>1, <1>2, <1>7, OwnHandles DEF HandleMessage
<1>8. CASE HandlingFails(n)
  BY <1>1, <1>2, <1>8, OwnHandlingFails
<1>9. ASSUME NEW k \in Nodes, RequestFails(k) \/ \E q \in Rows : TellFails(k, q)
      PROVE  KnowledgeFor(n, r)'
  BY <1>1, <1>2, <1>9, RequestsFail, TellingFails
<1>10. CASE UNCHANGED vars
  <2>1. /\ Expecting(n, r) /\ ToBe(n, r)' = ToBe(n, r) /\ (NotBoth(n, r)' <=> NotBoth(n, r))
        /\ << n, r >> \notin doubtful
    BY <1>1, <1>10 DEF vars, request, inbox, Expecting, WillLook, WillDelete, WillHear,
       WillBeTold, ToBe, Stored, NotBoth, Handles, AtStep, Idle
  <2>2. RowAt(n, r)' = RowAt(n, r) /\ row'[r] = row[r] /\ (UnannouncedTo(n, r)' => UnannouncedTo(n, r))
    BY <1>10 DEF vars, database, request, RowAt, UnannouncedTo, Unannounced
  <2>3. QED
    BY <1>2, <2>1, <2>2, KnowledgeKept DEF KnownKept, KnowledgeFor
<1>11. ASSUME NEW k \in Nodes, \/ Serve(k) \/ Request(k) \/ TakeMessage(k)
                                 \/ HandleMessage(k) \/ HandlingFails(k)
       PROVE  KnowledgeFor(n, r)'
  <2>1. CASE RequestFails(k) \/ \E q \in Rows : TellFails(k, q)
    BY <1>9, <2>1
  <2>2. CASE Apart(k) /\ k # n
    BY <1>3, <2>2
  <2>3. CASE Apart(k) /\ k = n
    BY <1>4, <1>5, <1>6, <1>7, <1>8, <2>3 DEF Apart
  <2>4. QED
    BY <1>11, <2>1, <2>2, <2>3 DEF Request, Apart
<1>12. QED
  BY <1>10, <1>11 DEF Next

--------------------------------------------------------------------------------
LEMMA InvariantsInit ==
  Init => TypeOK /\ PlanInv /\ WrittenInv /\ KnowledgeInv
<1>1. SUFFICES ASSUME Init PROVE WrittenInv /\ KnowledgeInv
  BY InitType
<1>2. /\ written = [n \in Nodes |-> {}] /\ todo = [n \in Nodes |-> << >>]
      /\ task = [n \in Nodes |-> << >>] /\ index = [n \in Nodes |-> row]
      /\ silent = [n \in Nodes |-> FALSE]
      /\ \E v \in {0, 1} : row = [metadata |-> 1, workspace |-> v]
  BY <1>1 DEF Init
<1>3. WrittenInv
  BY <1>2 DEF WrittenInv
<1>4. ASSUME NEW n \in Nodes, NEW r \in Rows
      PROVE  KnowledgeFor(n, r)
  <2>1. ToBe(n, r) = row[r] /\ RowAt(n, r) = row[r] /\ NotBoth(n, r)
    BY <1>2 DEF ToBe, Handles, AtStep, Idle, RowAt, NotBoth
  <2>2. ~UnannouncedTo(n, r)
    BY <1>2 DEF UnannouncedTo, Unannounced
  <2>3. QED
    BY <2>1, <2>2 DEF KnowledgeFor, UpToDate
<1>5. QED
  BY <1>3, <1>4 DEF KnowledgeInv

LEMMA Invariants ==
  Spec => [](TypeOK /\ PlanInv /\ WrittenInv /\ KnowledgeInv)
<1>1. TypeOK /\ PlanInv /\ WrittenInv /\ KnowledgeInv /\ [Next]_vars =>
        (TypeOK /\ PlanInv /\ WrittenInv /\ KnowledgeInv)'
  BY TypeStep, WrittenStep, KnowledgeStep
<1>2. QED
  BY <1>1, InvariantsInit, PTL DEF Spec

\* The variables keep their types: requests and messages are made of steps and messages
\* about the two rows.
THEOREM TypeCorrect == Spec => []TypeOK
BY Invariants, PTL

\* No two transactions of the nodes ever wait for each other's rows.
THEOREM NoCircularWaits == Spec => []NoCircularWait
BY Invariants, NobodyWaitsTwice, PTL

\* When nothing is under way, every index agrees with the database, for each row of which
\* the last reading was not a doubtful one.
THEOREM InSync == Spec => []InSyncWhenQuiet
<1>1. TypeOK /\ WrittenInv /\ KnowledgeInv => InSyncWhenQuiet
  <2>1. SUFFICES ASSUME WrittenInv, KnowledgeInv, Quiet, NEW n \in Nodes, NEW r \in Rows,
                        << n, r >> \notin doubtful
                 PROVE  index[n][r] = row[r]
    BY DEF InSyncWhenQuiet
  <2>2. \A k \in Nodes : todo[k] = << >> /\ topic[k] = << >> /\ task[k] = << >>
    BY <2>1 DEF Quiet, Idle
  <2>3. written[n] = {}
    BY <2>1, <2>2, Transaction DEF Idle
  <2>4. ~WillLook(n, r)
    BY <2>2 DEF WillLook, Contains, WillHear, WillBeTold
  <2>5. ToBe(n, r) = index[n][r] /\ RowAt(n, r) = row[r]
    BY <2>2, <2>3 DEF ToBe, Handles, AtStep, Idle, RowAt
  <2>6. QED
    BY <2>1, <2>4, <2>5 DEF KnowledgeInv, KnowledgeFor, UpToDate
<1>2. QED
  BY <1>1, Invariants, PTL
================================================================================
