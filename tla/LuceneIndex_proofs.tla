-------------------------- MODULE LuceneIndex_proofs ---------------------------
(***************************************************************************)
(* Theorems about the index of a node, for any number of rows and of       *)
(* threads of each kind.                                                   *)
(***************************************************************************)
EXTENDS LuceneIndex, TLAPS

Call == Operations \X Subjects

\* A thread has still to make this call.
Ahead(s, call) == \E i \in 1 .. Len(s) : s[i] = call

AheadOf(s, operations) == \E i \in 1 .. Len(s) : s[i][1] \in operations

(***************************************************************************)
(* Where a call is made: without MUTEX, with it, or with it and a          *)
(* reference to the writers.                                               *)
(***************************************************************************)
Before(operation) ==
  IF operation \in {"open", "unlock"} THEN "locked"
  ELSE IF operation \in {"delete", "add", "group", "optimize", "close"} THEN "opened"
  ELSE "out"

After(operation) ==
  IF operation \in {"lock", "close"} THEN "locked"
  ELSE IF operation \in {"open", "delete", "add", "group", "optimize"} THEN "opened"
  ELSE "out"

\* Before the i-th of the calls, if the last of them leads there.
Place(s, i, to) == IF i \in 1 .. Len(s) THEN Before(s[i][1]) ELSE to

Leads(s, from, to) ==
  /\ Place(s, 1, to) = from
  /\ \A i \in 1 .. Len(s) : After(s[i][1]) = Place(s, i + 1, to)

Stands(t) == Place(todo[t], 1, "out")

LockInv == \A t \in Threads : mutex = t <=> Stands(t) # "out"

CountInv ==
  /\ count = IF \E t \in Threads : Stands(t) = "opened" THEN 1 ELSE 0
  /\ writers => count = 1
  /\ count = 0 => buffer = disk

(***************************************************************************)
(* The order of the calls that a thread has still to make.                 *)
(***************************************************************************)
MayPrecede(earlier, call) ==
  /\ call[1] = "add" =>
       earlier[1] \in {"lock", "open", "delete", "close"} /\ earlier[2] = call[2]
  /\ call[1] = "delete" => earlier[1] \in {"lock", "open"} /\ earlier[2] = call[2]
  /\ call[1] = "sweep" => earlier[1] \in {"lock", "open", "delete", "close", "unlock"}
  /\ call[1] \in {"select", "docs"} => earlier[1] # "done"
  /\ ~(call[1] = "lock" /\ call[2] \in Rows)

Ordered(s) ==
  \A i \in 1 .. Len(s) : \A k \in 1 .. i - 1 : MayPrecede(s[k], s[i])

\* The documents of a table are compared when its rows have been selected.
Comparing(s) ==
  \A i \in 1 .. Len(s) :
    /\ s[i][1] = "select" => i + 1 \in 1 .. Len(s) /\ s[i + 1] = << "docs", s[i][2] >>
    /\ s[i][1] = "docs" /\ i # 1 => s[i - 1][1] = "select"

RebuildOperations == {"check", "create", "init", "select", "docs", "sweep", "done"}

Listed(t, s) ==
  /\ Ordered(s) /\ Comparing(s) /\ Leads(s, Place(s, 1, "out"), "out")
  /\ AheadOf(s, {"create"}) => s \in {Rebuild, Tail(Rebuild)}
  /\ AheadOf(s, {"check"}) => s = Rebuild
  /\ AheadOf(s, {"enter"}) => t \in Optimisers
  /\ AheadOf(s, RebuildOperations) => t \in Rebuilders

ListInv == \A t \in Threads : Listed(t, todo[t])

(***************************************************************************)
(* Whoever has still to add a document has read its row, and has still to  *)
(* delete the old document or has done so and kept MUTEX.                  *)
(***************************************************************************)
AddInv ==
  \A t \in Threads, r \in Rows :
    Ahead(todo[t], << "add", r >>) =>
      /\ seen[t] # 0
      /\ Ahead(todo[t], << "delete", r >>) \/ (mutex = t /\ buffer[r] = << >>)

(***************************************************************************)
(* What threads know of a row, and whether it will be read again.          *)
(***************************************************************************)
Touches(t, r) == Ahead(todo[t], << "delete", r >>) \/ Ahead(todo[t], << "add", r >>)

Right(t, r) == row[r] = IF Ahead(todo[t], << "add", r >>) THEN seen[t] ELSE 0

Selecting(t) == ~Ahead(todo[t], << "create", None >>)

WillRead(t, r) ==
  /\ Indexable(r)
  /\ \/ Ahead(todo[t], << "read", r >>)
     \/ \E rows \in SUBSET Rows : r \in rows /\ Ahead(todo[t], << "group", rows >>)

WillHandOut(t, r) ==
  /\ Selecting(t)
  /\ \E table \in {Metadata, Workspaces} :
       /\ r \in table
       /\ \/ Ahead(todo[t], << "docs", table >>) /\ r \in selected[t] /\ Indexable(r)
          \/ Ahead(todo[t], << "select", table >>) /\ row[r] # 0

Waits(t, r) == AtCall(t, "lock", r) /\ Ahead(todo[t], << "delete", r >>)

WillIndex(r) == \E t \in Threads : WillRead(t, r) \/ WillHandOut(t, r) \/ Waits(t, r)

Document(r) == IF row[r] = 0 THEN << >> ELSE << row[r] >>

Held(r) == \E t \in Threads : mutex = t /\ Touches(t, r)

\* Who waits for MUTEX with a row knows it as it is.
WaitsRight(t, r) == AtCall(t, "lock", r) => Right(t, r) \/ r \in overtaken

WaitingInv == \A t \in Threads, r \in Rows : WaitsRight(t, r)

\* Who holds MUTEX knows the row that he changes in the index, or it is read again.
HoldsRight(t, r) ==
  mutex = t /\ Touches(t, r) =>
    Right(t, r) \/ WillIndex(r) \/ r \in overtaken \cup failed

HolderInv == \A t \in Threads, r \in Rows : HoldsRight(t, r)

\* What is not yet right in the index is in work, or is read again.
InIndex(r) ==
  r \notin overtaken \cup failed => Held(r) \/ WillIndex(r) \/ buffer[r] = Document(r)

BufferInv == \A r \in Rows : InIndex(r)

(***************************************************************************)
(* What a rebuilding has found, and what it has missed.                    *)
(***************************************************************************)
Gone(r) == row[r] = 0 \/ r \in overtaken

TableFound(t, table) ==
  AtCall(t, "docs", table) => \A r \in table \ selected[t] : Gone(r)

SweepRight(t, gone) == Ahead(todo[t], << "sweep", gone >>) => \A r \in gone : Gone(r)

RebuildInv ==
  /\ \A t \in Threads, table \in {Metadata, Workspaces} : TableFound(t, table)
  /\ \A t \in Threads, gone \in SUBSET Rows : SweepRight(t, gone)
--------------------------------------------------------------------------------
(***************************************************************************)
(* Sequences of calls: what is ahead in the rest of one, or in two of      *)
(* them, one after the other.                                              *)
(***************************************************************************)
LEMMA TailElements ==
  ASSUME NEW S, NEW s \in Seq(S), s # << >>
  PROVE  /\ Tail(s) \in Seq(S) /\ Head(s) = s[1] /\ Head(s) \in S
         /\ Len(s) \in Nat \ {0} /\ Len(Tail(s)) = Len(s) - 1
         /\ \A i \in 1 .. Len(Tail(s)) : Tail(s)[i] = s[i + 1]
OBVIOUS

LEMMA BothElements ==
  ASSUME NEW S, NEW a \in Seq(S), NEW b \in Seq(S)
  PROVE  /\ a \o b \in Seq(S) /\ Len(a \o b) = Len(a) + Len(b)
         /\ Len(a) \in Nat /\ Len(b) \in Nat
         /\ \A i \in 1 .. Len(a) : (a \o b)[i] = a[i]
         /\ \A i \in 1 .. Len(b) : (a \o b)[Len(a) + i] = b[i]
OBVIOUS

LEMMA TailAhead ==
  ASSUME NEW s \in Seq(Call), s # << >>, NEW call
  PROVE  Ahead(s, call) <=> Head(s) = call \/ Ahead(Tail(s), call)
<1>. USE TailElements DEF Ahead
<1>1. ASSUME Ahead(s, call), Head(s) # call
      PROVE  Ahead(Tail(s), call)
  <2>1. PICK i \in 1 .. Len(s) : s[i] = call
    BY <1>1
  <2>2. i - 1 \in 1 .. Len(Tail(s)) /\ Tail(s)[i - 1] = s[i]
    BY <1>1, <2>1
  <2>3. QED
    BY <2>1, <2>2
<1>2. ASSUME Ahead(Tail(s), call)
      PROVE  Ahead(s, call)
  <2>1. PICK i \in 1 .. Len(Tail(s)) : Tail(s)[i] = call
    BY <1>2
  <2>2. i + 1 \in 1 .. Len(s) /\ s[i + 1] = call
    BY <2>1
  <2>3. QED
    BY <2>2
<1>3. ASSUME Head(s) = call
      PROVE  Ahead(s, call)
  BY <1>3
<1>4. QED
  BY <1>1, <1>2, <1>3

LEMMA TailAheadOf ==
  ASSUME NEW s \in Seq(Call), s # << >>, NEW operations
  PROVE  AheadOf(s, operations) <=> Head(s)[1] \in operations \/ AheadOf(Tail(s), operations)
<1>. USE TailElements DEF AheadOf
<1>1. ASSUME AheadOf(s, operations), Head(s)[1] \notin operations
      PROVE  AheadOf(Tail(s), operations)
  <2>1. PICK i \in 1 .. Len(s) : s[i][1] \in operations
    BY <1>1
  <2>2. i - 1 \in 1 .. Len(Tail(s)) /\ Tail(s)[i - 1] = s[i]
    BY <1>1, <2>1
  <2>3. QED
    BY <2>1, <2>2
<1>2. ASSUME AheadOf(Tail(s), operations)
      PROVE  AheadOf(s, operations)
  <2>1. PICK i \in 1 .. Len(Tail(s)) : Tail(s)[i][1] \in operations
    BY <1>2
  <2>2. i + 1 \in 1 .. Len(s) /\ s[i + 1][1] \in operations
    BY <2>1
  <2>3. QED
    BY <2>2
<1>3. ASSUME Head(s)[1] \in operations
      PROVE  AheadOf(s, operations)
  BY <1>3
<1>4. QED
  BY <1>1, <1>2, <1>3

LEMMA BothAhead ==
  ASSUME NEW a \in Seq(Call), NEW b \in Seq(Call), NEW call
  PROVE  Ahead(a \o b, call) <=> Ahead(a, call) \/ Ahead(b, call)
<1>. USE BothElements DEF Ahead
<1>1. ASSUME Ahead(a \o b, call), ~Ahead(a, call)
      PROVE  Ahead(b, call)
  <2>1. PICK i \in 1 .. Len(a \o b) : (a \o b)[i] = call
    BY <1>1
  <2>2. i \notin 1 .. Len(a)
    BY <1>1, <2>1
  <2>3. i - Len(a) \in 1 .. Len(b) /\ Len(a) + (i - Len(a)) = i
    BY <2>1, <2>2
  <2>4. QED
    BY <2>1, <2>3
<1>2. ASSUME Ahead(a, call)
      PROVE  Ahead(a \o b, call)
  <2>1. PICK i \in 1 .. Len(a) : a[i] = call
    BY <1>2
  <2>2. i \in 1 .. Len(a \o b) /\ (a \o b)[i] = call
    BY <2>1
  <2>3. QED
    BY <2>2
<1>3. ASSUME Ahead(b, call)
      PROVE  Ahead(a \o b, call)
  <2>1. PICK i \in 1 .. Len(b) : b[i] = call
    BY <1>3
  <2>2. Len(a) + i \in 1 .. Len(a \o b) /\ (a \o b)[Len(a) + i] = call
    BY <2>1
  <2>3. QED
    BY <2>2
<1>4. QED
  BY <1>1, <1>2, <1>3

LEMMA BothAheadOf ==
  ASSUME NEW a \in Seq(Call), NEW b \in Seq(Call), NEW operations
  PROVE  AheadOf(a \o b, operations) <=> AheadOf(a, operations) \/ AheadOf(b, operations)
<1>. USE BothElements DEF AheadOf
<1>1. ASSUME AheadOf(a \o b, operations), ~AheadOf(a, operations)
      PROVE  AheadOf(b, operations)
  <2>1. PICK i \in 1 .. Len(a \o b) : (a \o b)[i][1] \in operations
    BY <1>1
  <2>2. i \notin 1 .. Len(a)
    BY <1>1, <2>1
  <2>3. i - Len(a) \in 1 .. Len(b) /\ Len(a) + (i - Len(a)) = i
    BY <2>1, <2>2
  <2>4. QED
    BY <2>1, <2>3
<1>2. ASSUME AheadOf(a, operations)
      PROVE  AheadOf(a \o b, operations)
  <2>1. PICK i \in 1 .. Len(a) : a[i][1] \in operations
    BY <1>2
  <2>2. i \in 1 .. Len(a \o b) /\ (a \o b)[i] = a[i]
    BY <2>1
  <2>3. QED
    BY <2>1, <2>2
<1>3. ASSUME AheadOf(b, operations)
      PROVE  AheadOf(a \o b, operations)
  <2>1. PICK i \in 1 .. Len(b) : b[i][1] \in operations
    BY <1>3
  <2>2. Len(a) + i \in 1 .. Len(a \o b) /\ (a \o b)[Len(a) + i] = b[i]
    BY <2>1
  <2>3. QED
    BY <2>1, <2>2
<1>4. QED
  BY <1>1, <1>2, <1>3

LEMMA AheadIsAheadOf ==
  ASSUME NEW s, NEW operation, NEW subject, Ahead(s, << operation, subject >>)
  PROVE  AheadOf(s, {operation})
BY DEF Ahead, AheadOf

\* Calls that may follow any other but the end of a rebuilding.
Free(s) ==
  \A i \in 1 .. Len(s) :
    /\ s[i][1] \notin {"add", "delete", "sweep"}
    /\ ~(s[i][1] = "lock" /\ s[i][2] \in Rows)

LEMMA TailOrdered ==
  ASSUME NEW s \in Seq(Call), s # << >>, Ordered(s)
  PROVE  /\ Ordered(Tail(s))
         /\ \A i \in 1 .. Len(Tail(s)) : MayPrecede(Head(s), Tail(s)[i])
         /\ Head(s)[1] \in {"read", "group", "sweep", "docs"} => Free(Tail(s))
<1>1. ASSUME NEW i \in 1 .. Len(Tail(s)), NEW k \in 1 .. i - 1
      PROVE  MayPrecede(Tail(s)[k], Tail(s)[i])
  <2>1. /\ i + 1 \in 1 .. Len(s) /\ k + 1 \in 1 .. (i + 1) - 1
        /\ Tail(s)[k] = s[k + 1] /\ Tail(s)[i] = s[i + 1]
    BY TailElements
  <2>2. QED
    BY <2>1 DEF Ordered
<1>2. ASSUME NEW i \in 1 .. Len(Tail(s))
      PROVE  MayPrecede(Head(s), Tail(s)[i])
  <2>1. i + 1 \in 1 .. Len(s) /\ 1 \in 1 .. (i + 1) - 1 /\ Tail(s)[i] = s[i + 1] /\ Head(s) = s[1]
    BY TailElements
  <2>2. QED
    BY <2>1 DEF Ordered
<1>3. ASSUME Head(s)[1] \in {"read", "group", "sweep", "docs"}
      PROVE  Free(Tail(s))
  BY <1>2, <1>3 DEF Free, MayPrecede
<1>4. QED
  BY <1>1, <1>2, <1>3 DEF Ordered

LEMMA BothOrdered ==
  ASSUME NEW a \in Seq(Call), NEW b \in Seq(Call), Ordered(a), Ordered(b), Free(b),
         ~AheadOf(a, {"done"})
  PROVE  Ordered(a \o b)
<1>1. ASSUME NEW i \in 1 .. Len(a \o b), NEW k \in 1 .. i - 1
      PROVE  MayPrecede((a \o b)[k], (a \o b)[i])
  <2>1. CASE i \in 1 .. Len(a)
    <3>1. k \in 1 .. Len(a) /\ (a \o b)[k] = a[k] /\ (a \o b)[i] = a[i]
      BY <2>1, BothElements
    <3>2. QED
      BY <2>1, <3>1 DEF Ordered
  <2>2. CASE i \notin 1 .. Len(a)
    <3>1. i - Len(a) \in 1 .. Len(b) /\ Len(a) + (i - Len(a)) = i
      BY <2>2, BothElements
    <3>2. (a \o b)[i] = b[i - Len(a)]
      BY <3>1, BothElements
    <3>3. CASE k \in 1 .. Len(a)
      <4>1. (a \o b)[k] = a[k] /\ a[k][1] # "done"
        BY <3>3, BothElements DEF AheadOf
      <4>2. QED
        BY <3>1, <3>2, <4>1 DEF Free, MayPrecede
    <3>4. CASE k \notin 1 .. Len(a)
      <4>1. /\ k - Len(a) \in 1 .. (i - Len(a)) - 1 /\ k - Len(a) \in 1 .. Len(b)
            /\ Len(a) + (k - Len(a)) = k
        BY <3>1, <3>4, BothElements
      <4>2. (a \o b)[k] = b[k - Len(a)]
        BY <4>1, BothElements
      <4>3. QED
        BY <3>1, <3>2, <4>1, <4>2 DEF Ordered
    <3>5. QED
      BY <3>3, <3>4
  <2>3. QED
    BY <2>1, <2>2
<1>2. QED
  BY <1>1 DEF Ordered

LEMMA TailComparing ==
  ASSUME NEW s \in Seq(Call), s # << >>, Comparing(s)
  PROVE  /\ Comparing(Tail(s))
         /\ Head(s)[1] = "select" => /\ Tail(s) # << >>
                                    /\ Head(Tail(s)) = << "docs", Head(s)[2] >>
                                    /\ Ahead(Tail(s), << "docs", Head(s)[2] >>)
         /\ Tail(s) # << >> /\ Head(s)[1] # "select" => Head(Tail(s))[1] # "docs"
<1>1. ASSUME NEW i \in 1 .. Len(Tail(s)), Tail(s)[i][1] = "select"
      PROVE  i + 1 \in 1 .. Len(Tail(s)) /\ Tail(s)[i + 1] = << "docs", Tail(s)[i][2] >>
  <2>1. i + 1 \in 1 .. Len(s) /\ Tail(s)[i] = s[i + 1]
    BY TailElements
  <2>2. (i + 1) + 1 \in 1 .. Len(s) /\ s[(i + 1) + 1] = << "docs", s[i + 1][2] >>
    BY <1>1, <2>1 DEF Comparing
  <2>3. QED
    BY <2>1, <2>2, TailElements
<1>2. ASSUME NEW i \in 1 .. Len(Tail(s)), Tail(s)[i][1] = "docs"
      PROVE  s[i][1] = "select"
  <2>1. i + 1 \in 1 .. Len(s) /\ Tail(s)[i] = s[i + 1] /\ i + 1 # 1 /\ (i + 1) - 1 = i
    BY TailElements
  <2>2. QED
    BY <1>2, <2>1 DEF Comparing
<1>3. ASSUME NEW i \in 1 .. Len(Tail(s)), Tail(s)[i][1] = "docs", i # 1
      PROVE  Tail(s)[i - 1][1] = "select"
  <2>1. i - 1 \in 1 .. Len(Tail(s)) /\ (i - 1) + 1 = i
    BY <1>3, TailElements
  <2>2. Tail(s)[i - 1] = s[i]
    BY <2>1, TailElements
  <2>3. QED
    BY <1>2, <1>3, <2>2
<1>4. ASSUME Head(s)[1] = "select"
      PROVE  /\ Tail(s) # << >> /\ Head(Tail(s)) = << "docs", Head(s)[2] >>
             /\ Ahead(Tail(s), << "docs", Head(s)[2] >>)
  <2>1. 1 \in 1 .. Len(s) /\ s[1] = Head(s)
    BY TailElements
  <2>2. 1 + 1 \in 1 .. Len(s) /\ s[1 + 1] = << "docs", Head(s)[2] >>
    BY <1>4, <2>1 DEF Comparing
  <2>3. 1 \in 1 .. Len(Tail(s)) /\ Tail(s)[1] = s[1 + 1]
    BY <2>2, TailElements
  <2>4. Tail(s) # << >> /\ Head(Tail(s)) = Tail(s)[1]
    BY <2>3, TailElements
  <2>5. QED
    BY <2>2, <2>3, <2>4 DEF Ahead
<1>5. ASSUME Tail(s) # << >>, Head(s)[1] # "select"
      PROVE  Head(Tail(s))[1] # "docs"
  <2>1. Tail(s) \in Seq(Call)
    BY TailElements
  <2>2. 1 \in 1 .. Len(Tail(s)) /\ Head(Tail(s)) = Tail(s)[1] /\ s[1] = Head(s)
    BY <1>5, <2>1, TailElements
  <2>3. QED
    BY <1>2, <1>5, <2>2
<1>6. QED
  BY <1>1, <1>3, <1>4, <1>5 DEF Comparing

LEMMA BothComparing ==
  ASSUME NEW a \in Seq(Call), NEW b \in Seq(Call), Comparing(a), Comparing(b),
         b # << >> => Head(b)[1] # "docs"
  PROVE  Comparing(a \o b)
<1>1. ASSUME NEW i \in 1 .. Len(a \o b), (a \o b)[i][1] = "select"
      PROVE  i + 1 \in 1 .. Len(a \o b) /\ (a \o b)[i + 1] = << "docs", (a \o b)[i][2] >>
  <2>1. CASE i \in 1 .. Len(a)
    <3>1. i + 1 \in 1 .. Len(a) /\ a[i + 1] = << "docs", a[i][2] >>
      BY <1>1, <2>1, BothElements DEF Comparing
    <3>2. QED
      BY <2>1, <3>1, BothElements
  <2>2. CASE i \notin 1 .. Len(a)
    <3>. DEFINE j == i - Len(a)
    <3>1. j \in 1 .. Len(b) /\ Len(a) + j = i /\ Len(a) + (j + 1) = i + 1
      BY <2>2, BothElements
    <3>2. (a \o b)[i] = b[j]
      BY <3>1, BothElements
    <3>3. j + 1 \in 1 .. Len(b) /\ b[j + 1] = << "docs", b[j][2] >>
      BY <1>1, <3>1, <3>2 DEF Comparing
    <3>4. (a \o b)[i + 1] = b[j + 1] /\ i + 1 \in 1 .. Len(a \o b)
      BY <3>1, <3>3, BothElements
    <3>5. QED
      BY <3>2, <3>3, <3>4
  <2>3. QED
    BY <2>1, <2>2
<1>2. ASSUME NEW i \in 1 .. Len(a \o b), (a \o b)[i][1] = "docs", i # 1
      PROVE  (a \o b)[i - 1][1] = "select"
  <2>1. CASE i \in 1 .. Len(a)
    <3>1. i - 1 \in 1 .. Len(a) /\ a[i - 1][1] = "select"
      BY <1>2, <2>1, BothElements DEF Comparing
    <3>2. QED
      BY <3>1, BothElements
  <2>2. CASE i \notin 1 .. Len(a)
    <3>. DEFINE j == i - Len(a)
    <3>1. j \in 1 .. Len(b) /\ Len(a) + j = i /\ Len(a) + (j - 1) = i - 1
      BY <2>2, BothElements
    <3>2. (a \o b)[i] = b[j]
      BY <3>1, BothElements
    <3>3. j # 1
      <4>1. b # << >>
        BY <3>1
      <4>2. Head(b) = b[1]
        BY <4>1, TailElements
      <4>3. QED
        BY <1>2, <3>2, <4>1, <4>2
    <3>4. j - 1 \in 1 .. Len(b) /\ b[j - 1][1] = "select"
      BY <1>2, <3>1, <3>2, <3>3 DEF Comparing
    <3>5. QED
      BY <3>1, <3>4, BothElements
  <2>3. QED
    BY <2>1, <2>2
<1>3. QED
  BY <1>1, <1>2 DEF Comparing

LEMMA TailLeads ==
  ASSUME NEW s \in Seq(Call), s # << >>, NEW from, NEW to, Leads(s, from, to)
  PROVE  /\ Leads(Tail(s), After(Head(s)[1]), to)
         /\ from = Before(Head(s)[1]) /\ Place(Tail(s), 1, to) = After(Head(s)[1])
<1>1. \A i \in 1 .. Len(s) : Place(Tail(s), i, to) = Place(s, i + 1, to)
  <2>1. SUFFICES ASSUME NEW i \in 1 .. Len(s)
                 PROVE  Place(Tail(s), i, to) = Place(s, i + 1, to)
    OBVIOUS
  <2>2. i \in 1 .. Len(Tail(s)) <=> i + 1 \in 1 .. Len(s)
    BY TailElements
  <2>3. i \in 1 .. Len(Tail(s)) => Tail(s)[i] = s[i + 1]
    BY TailElements
  <2>4. QED
    BY <2>2, <2>3 DEF Place
<1>2. 1 \in 1 .. Len(s) /\ Head(s) = s[1]
  BY TailElements
<1>3. from = Before(Head(s)[1]) /\ Place(Tail(s), 1, to) = After(Head(s)[1])
  BY <1>1, <1>2 DEF Leads, Place
<1>4. ASSUME NEW i \in 1 .. Len(Tail(s))
      PROVE  After(Tail(s)[i][1]) = Place(Tail(s), i + 1, to)
  <2>1. i + 1 \in 1 .. Len(s) /\ Tail(s)[i] = s[i + 1]
    BY TailElements
  <2>2. QED
    BY <1>1, <2>1 DEF Leads
<1>5. QED
  BY <1>3, <1>4 DEF Leads

LEMMA BothLead ==
  ASSUME NEW a \in Seq(Call), NEW b \in Seq(Call), NEW from, NEW via, NEW to,
         Leads(a, from, via), Leads(b, via, to)
  PROVE  Leads(a \o b, from, to)
<1>1. ASSUME NEW i \in 1 .. Len(a) + 1
      PROVE  Place(a \o b, i, to) = Place(a, i, via)
  <2>1. CASE i \in 1 .. Len(a)
    BY <2>1, BothElements DEF Place
  <2>2. CASE i = Len(a) + 1
    <3>1. i \notin 1 .. Len(a)
      BY <2>2, BothElements
    <3>2. CASE 1 \in 1 .. Len(b)
      <4>1. i \in 1 .. Len(a \o b) /\ (a \o b)[i] = b[1]
        BY <2>2, <3>2, BothElements
      <4>2. QED
        BY <3>1, <3>2, <4>1 DEF Place, Leads
    <3>3. CASE 1 \notin 1 .. Len(b)
      <4>1. i \notin 1 .. Len(a \o b)
        BY <2>2, <3>3, BothElements
      <4>2. QED
        BY <3>1, <3>3, <4>1 DEF Place, Leads
    <3>4. QED
      BY <3>2, <3>3
  <2>3. QED
    BY <2>1, <2>2, BothElements
<1>2. ASSUME NEW i \in 1 .. Len(b)
      PROVE  Place(a \o b, Len(a) + i + 1, to) = Place(b, i + 1, to)
  <2>1. /\ Len(a) + i + 1 = Len(a) + (i + 1)
        /\ Len(a) + i + 1 \in 1 .. Len(a \o b) <=> i + 1 \in 1 .. Len(b)
    BY BothElements
  <2>2. i + 1 \in 1 .. Len(b) => (a \o b)[Len(a) + (i + 1)] = b[i + 1]
    BY BothElements
  <2>3. QED
    BY <2>1, <2>2 DEF Place
<1>3. ASSUME NEW i \in 1 .. Len(a \o b)
      PROVE  After((a \o b)[i][1]) = Place(a \o b, i + 1, to)
  <2>1. CASE i \in 1 .. Len(a)
    <3>1. i + 1 \in 1 .. Len(a) + 1 /\ (a \o b)[i] = a[i]
      BY <2>1, BothElements
    <3>2. QED
      BY <1>1, <2>1, <3>1 DEF Leads
  <2>2. CASE i \notin 1 .. Len(a)
    <3>. DEFINE j == i - Len(a)
    <3>1. j \in 1 .. Len(b) /\ Len(a) + j = i /\ Len(a) + j + 1 = i + 1
      BY <2>2, BothElements
    <3>2. (a \o b)[i] = b[j]
      BY <3>1, BothElements
    <3>3. QED
      BY <1>2, <3>1, <3>2 DEF Leads
  <2>3. QED
    BY <2>1, <2>2
<1>4. Place(a \o b, 1, to) = from
  <2>1. 1 \in 1 .. Len(a) + 1
    BY BothElements
  <2>2. QED
    BY <1>1, <2>1 DEF Leads
<1>5. QED
  BY <1>3, <1>4 DEF Leads
--------------------------------------------------------------------------------
(***************************************************************************)
(* The lists of calls of the operations.                                   *)
(***************************************************************************)
LEMMA RowCalls ==
  ASSUME NEW r \in Rows
  PROVE  /\ Index(r) = << << "lock", r >>, << "open", r >>, << "delete", r >>,
                          << "close", r >>, << "open", r >>, << "add", r >>,
                          << "close", r >>, << "unlock", r >> >>
         /\ Unindex(r) = << << "lock", r >>, << "open", r >>, << "delete", r >>,
                            << "close", r >>, << "unlock", r >> >>
         /\ IndexOne(r) = << << "read", r >> >>
         /\ Calls(r, << "delete", "add" >>) = << << "delete", r >>, << "add", r >> >>
         /\ Calls(r, << "delete" >>) = << << "delete", r >> >>
         /\ Calls(r, << >>) = << >>
BY DEF Index, Unindex, IndexOne, Calls

LEMMA OptimiseCalls ==
  Optimise = << << "enter", None >>, << "lock", None >>, << "open", None >>,
                << "optimize", None >>, << "close", None >>, << "unlock", None >>,
                << "leave", None >> >>
BY DEF Optimise, Calls

\* What a thread can be given to do, wherever it stands.
Brought(t, s, at) ==
  /\ s \in Seq(Call)
  /\ Ordered(s) /\ Comparing(s) /\ Leads(s, at, at)
  /\ ~AheadOf(s, {"create", "check", "docs", "done"})
  /\ AheadOf(s, {"enter"}) => t \in Optimisers
  /\ AheadOf(s, RebuildOperations) => t \in Rebuilders

LEMMA NothingBrought ==
  ASSUME NEW t, NEW at
  PROVE  Brought(t, << >>, at) /\ Free(<< >>)
BY DEF Brought, Ordered, Comparing, Leads, Place, AheadOf, Free

LEMMA OneBrought ==
  ASSUME NEW t, NEW call \in Call, call[1] \notin RebuildOperations \cup {"enter"},
         Before(call[1]) = After(call[1])
  PROVE  Brought(t, << call >>, Before(call[1]))
<1>. DEFINE s == << call >>
<1>1. s \in Seq(Call) /\ Len(s) = 1 /\ s[1] = call
  OBVIOUS
<1>. HIDE DEF s
<1>2. Ordered(s)
  BY <1>1 DEF Ordered
<1>3. Comparing(s)
  BY <1>1 DEF Comparing, RebuildOperations
<1>4. Leads(s, Before(call[1]), Before(call[1]))
  BY <1>1 DEF Leads, Place
<1>5. QED
  BY <1>1, <1>2, <1>3, <1>4 DEF Brought, AheadOf, RebuildOperations, s

LEMMA IndexBrought ==
  ASSUME NEW t, NEW r \in Rows
  PROVE  Brought(t, Index(r), "out")
<1>. DEFINE s == << << "lock", r >>, << "open", r >>, << "delete", r >>, << "close", r >>,
                    << "open", r >>, << "add", r >>, << "close", r >>, << "unlock", r >> >>
<1>1. /\ s \in Seq(Call) /\ Len(s) = 8
      /\ s[1] = << "lock", r >> /\ s[2] = << "open", r >> /\ s[3] = << "delete", r >>
      /\ s[4] = << "close", r >> /\ s[5] = << "open", r >> /\ s[6] = << "add", r >>
      /\ s[7] = << "close", r >> /\ s[8] = << "unlock", r >>
  BY DEF Call, Operations, Subjects
<1>2. Index(r) = s
  BY RowCalls
<1>. HIDE DEF s
<1>3. \A i \in 1 .. 8 : i \in {1, 2, 3, 4, 5, 6, 7, 8}
  OBVIOUS
<1>4. ASSUME NEW i \in 1 .. Len(s), NEW k \in 1 .. i - 1
      PROVE  MayPrecede(s[k], s[i])
  <2>1. CASE i = 3
    <3>1. k \in {1, 2}
      BY <2>1
    <3>2. QED
      BY <1>1, <2>1, <3>1 DEF MayPrecede
  <2>2. CASE i = 6
    <3>1. k \in {1, 2, 3, 4, 5}
      BY <2>2
    <3>2. QED
      BY <1>1, <2>2, <3>1 DEF MayPrecede
  <2>3. CASE i \in {2, 4, 5, 7, 8}
    <3>1. s[i][1] \in {"open", "close", "unlock"}
      BY <1>1, <2>3
    <3>2. QED
      BY <3>1 DEF MayPrecede
  <2>4. i # 1
    OBVIOUS
  <2>5. QED
    BY <1>1, <1>3, <2>1, <2>2, <2>3, <2>4
<1>5. Comparing(s)
  BY <1>1, <1>3 DEF Comparing
<1>6. Leads(s, "out", "out")
  <2>1. ASSUME NEW i \in 1 .. Len(s)
        PROVE  After(s[i][1]) = Place(s, i + 1, "out")
    <3>1. CASE i \in {1, 2, 3, 4}
      BY <1>1, <3>1 DEF After, Before, Place
    <3>2. CASE i \in {5, 6, 7, 8}
      BY <1>1, <3>2 DEF After, Before, Place
    <3>3. QED
      BY <1>1, <1>3, <3>1, <3>2
  <2>2. Place(s, 1, "out") = "out"
    BY <1>1 DEF Before, Place
  <2>3. QED
    BY <2>1, <2>2 DEF Leads
<1>7. \A i \in 1 .. Len(s) : s[i][1] \notin RebuildOperations \cup {"enter"}
  BY <1>1, <1>3 DEF RebuildOperations
<1>8. QED
  BY <1>1, <1>2, <1>4, <1>5, <1>6, <1>7 DEF Brought, Ordered, AheadOf, RebuildOperations

LEMMA UnindexBrought ==
  ASSUME NEW t, NEW r \in Rows
  PROVE  Brought(t, Unindex(r), "out")
<1>. DEFINE s == << << "lock", r >>, << "open", r >>, << "delete", r >>, << "close", r >>,
                    << "unlock", r >> >>
<1>1. /\ s \in Seq(Call) /\ Len(s) = 5
      /\ s[1] = << "lock", r >> /\ s[2] = << "open", r >> /\ s[3] = << "delete", r >>
      /\ s[4] = << "close", r >> /\ s[5] = << "unlock", r >>
  BY DEF Call, Operations, Subjects
<1>2. Unindex(r) = s
  BY RowCalls
<1>. HIDE DEF s
<1>3. \A i \in 1 .. 5 : i \in {1, 2, 3, 4, 5}
  OBVIOUS
<1>4. ASSUME NEW i \in 1 .. Len(s), NEW k \in 1 .. i - 1
      PROVE  MayPrecede(s[k], s[i])
  <2>1. CASE i = 3
    <3>1. k \in {1, 2}
      BY <2>1
    <3>2. QED
      BY <1>1, <2>1, <3>1 DEF MayPrecede
  <2>2. CASE i \in {2, 4, 5}
    <3>1. s[i][1] \in {"open", "close", "unlock"}
      BY <1>1, <2>2
    <3>2. QED
      BY <3>1 DEF MayPrecede
  <2>3. i # 1
    OBVIOUS
  <2>4. QED
    BY <1>1, <1>3, <2>1, <2>2, <2>3
<1>5. Comparing(s)
  BY <1>1, <1>3 DEF Comparing
<1>6. Leads(s, "out", "out")
  <2>1. ASSUME NEW i \in 1 .. Len(s)
        PROVE  After(s[i][1]) = Place(s, i + 1, "out")
    BY <1>1, <1>3 DEF After, Before, Place
  <2>2. Place(s, 1, "out") = "out"
    BY <1>1 DEF Before, Place
  <2>3. QED
    BY <2>1, <2>2 DEF Leads
<1>7. \A i \in 1 .. Len(s) : s[i][1] \notin RebuildOperations \cup {"enter"}
  BY <1>1, <1>3 DEF RebuildOperations
<1>8. QED
  BY <1>1, <1>2, <1>4, <1>5, <1>6, <1>7 DEF Brought, Ordered, AheadOf, RebuildOperations

LEMMA GroupBrought ==
  ASSUME NEW t, NEW rows \in SUBSET Rows
  PROVE  Brought(t, IndexGroup(rows), "out") /\ Free(IndexGroup(rows))
<1>. DEFINE s == << << "lock", None >>, << "open", None >>, << "group", rows >>,
                    << "close", None >>, << "unlock", None >> >>
<1>1. /\ s \in Seq(Call) /\ Len(s) = 5
      /\ s[1] = << "lock", None >> /\ s[2] = << "open", None >> /\ s[3] = << "group", rows >>
      /\ s[4] = << "close", None >> /\ s[5] = << "unlock", None >>
  BY DEF Call, Operations, Subjects
<1>2. IndexGroup(rows) = s
  BY DEF IndexGroup
<1>. HIDE DEF s
<1>3. \A i \in 1 .. 5 : i \in {1, 2, 3, 4, 5}
  OBVIOUS
<1>4. Free(s)
  BY <1>1, <1>3, NoneAssumption DEF Free
<1>5. Ordered(s)
  <2>1. \A i \in 1 .. Len(s) : s[i][1] \notin {"select", "docs"}
    BY <1>1, <1>3
  <2>2. QED
    BY <1>4, <2>1 DEF Ordered, Free, MayPrecede
<1>6. Comparing(s)
  BY <1>1, <1>3 DEF Comparing
<1>7. Leads(s, "out", "out")
  <2>1. ASSUME NEW i \in 1 .. Len(s)
        PROVE  After(s[i][1]) = Place(s, i + 1, "out")
    BY <1>1, <1>3 DEF After, Before, Place
  <2>2. Place(s, 1, "out") = "out"
    BY <1>1 DEF Before, Place
  <2>3. QED
    BY <2>1, <2>2 DEF Leads
<1>8. \A i \in 1 .. Len(s) : s[i][1] \notin RebuildOperations \cup {"enter"}
  BY <1>1, <1>3 DEF RebuildOperations
<1>9. QED
  BY <1>1, <1>2, <1>4, <1>5, <1>6, <1>7, <1>8 DEF Brought, AheadOf, RebuildOperations

LEMMA OptimiseBrought ==
  ASSUME NEW t \in Optimisers
  PROVE  Brought(t, Optimise, "out")
<1>. DEFINE s == << << "enter", None >>, << "lock", None >>, << "open", None >>,
                    << "optimize", None >>, << "close", None >>, << "unlock", None >>,
                    << "leave", None >> >>
<1>1. /\ s \in Seq(Call) /\ Len(s) = 7
      /\ s[1] = << "enter", None >> /\ s[2] = << "lock", None >> /\ s[3] = << "open", None >>
      /\ s[4] = << "optimize", None >> /\ s[5] = << "close", None >>
      /\ s[6] = << "unlock", None >> /\ s[7] = << "leave", None >>
  BY DEF Call, Operations, Subjects
<1>2. Optimise = s
  BY OptimiseCalls
<1>. HIDE DEF s
<1>3. \A i \in 1 .. 7 : i \in {1, 2, 3, 4, 5, 6, 7}
  OBVIOUS
<1>4. Free(s)
  BY <1>1, <1>3, NoneAssumption DEF Free
<1>5. Ordered(s)
  <2>1. \A i \in 1 .. Len(s) : s[i][1] \notin {"select", "docs"}
    BY <1>1, <1>3
  <2>2. QED
    BY <1>4, <2>1 DEF Ordered, Free, MayPrecede
<1>6. Comparing(s)
  BY <1>1, <1>3 DEF Comparing
<1>7. Leads(s, "out", "out")
  <2>1. ASSUME NEW i \in 1 .. Len(s)
        PROVE  After(s[i][1]) = Place(s, i + 1, "out")
    BY <1>1, <1>3 DEF After, Before, Place
  <2>2. Place(s, 1, "out") = "out"
    BY <1>1 DEF Before, Place
  <2>3. QED
    BY <2>1, <2>2 DEF Leads
<1>8. \A i \in 1 .. Len(s) : s[i][1] \notin RebuildOperations
  BY <1>1, <1>3 DEF RebuildOperations
<1>9. QED
  BY <1>1, <1>2, <1>5, <1>6, <1>7, <1>8 DEF Brought, AheadOf, RebuildOperations

LEMMA RebuildListed ==
  ASSUME NEW t \in Rebuilders
  PROVE  Rebuild \in Seq(Call) /\ Listed(t, Rebuild) /\ Place(Rebuild, 1, "out") = "out"
<1>. DEFINE s == << << "check", None >>, << "create", None >>, << "init", None >>,
                    << "select", Metadata >>, << "docs", Metadata >>,
                    << "select", Workspaces >>, << "docs", Workspaces >>,
                    << "done", None >> >>
<1>1. /\ s \in Seq(Call) /\ Len(s) = 8
      /\ s[1] = << "check", None >> /\ s[2] = << "create", None >>
      /\ s[3] = << "init", None >>
      /\ s[4] = << "select", Metadata >> /\ s[5] = << "docs", Metadata >>
      /\ s[6] = << "select", Workspaces >> /\ s[7] = << "docs", Workspaces >>
      /\ s[8] = << "done", None >>
  BY DEF Call, Operations, Subjects, Rows
<1>2. Rebuild = s
  BY DEF Rebuild
<1>. HIDE DEF s
<1>3. \A i \in 1 .. 8 : i \in {1, 2, 3, 4, 5, 6, 7, 8}
  OBVIOUS
<1>4. Ordered(s)
  <2>1. \A i \in 1 .. Len(s) : s[i][1] \in RebuildOperations \ {"sweep"}
    BY <1>1, <1>3 DEF RebuildOperations
  <2>2. \A i \in 1 .. Len(s) : \A k \in 1 .. i - 1 : s[k][1] # "done"
    <3>1. \A k \in {1, 2, 3, 4, 5, 6, 7} : s[k][1] # "done"
      BY <1>1
    <3>2. \A i \in 1 .. Len(s) : \A k \in 1 .. i - 1 : k \in {1, 2, 3, 4, 5, 6, 7}
      BY <1>1
    <3>3. QED
      BY <3>1, <3>2
  <2>3. QED
    BY <2>1, <2>2 DEF Ordered, MayPrecede, RebuildOperations
<1>5. Comparing(s)
  <2>1. ASSUME NEW i \in 1 .. Len(s)
        PROVE  /\ s[i][1] = "select" =>
                    i + 1 \in 1 .. Len(s) /\ s[i + 1] = << "docs", s[i][2] >>
               /\ s[i][1] = "docs" /\ i # 1 => s[i - 1][1] = "select"
    <3>1. CASE i \in {1, 2, 3, 8}
      BY <1>1, <3>1
    <3>2. CASE i = 4
      BY <1>1, <3>2
    <3>3. CASE i = 5
      BY <1>1, <3>3
    <3>4. CASE i = 6
      BY <1>1, <3>4
    <3>5. CASE i = 7
      BY <1>1, <3>5
    <3>6. QED
      BY <1>1, <1>3, <3>1, <3>2, <3>3, <3>4, <3>5
  <2>2. QED
    BY <2>1 DEF Comparing
<1>6. Place(s, 1, "out") = "out"
  BY <1>1 DEF Before, Place
<1>7. Leads(s, "out", "out")
  <2>1. \A i \in 1 .. Len(s) : After(s[i][1]) = "out" /\ Before(s[i][1]) = "out"
    BY <1>1, <1>3 DEF After, Before
  <2>2. QED
    BY <1>6, <2>1 DEF Leads, Place
<1>8. \A i \in 1 .. Len(s) : s[i][1] # "enter"
  BY <1>1, <1>3
<1>9. QED
  BY <1>1, <1>2, <1>4, <1>5, <1>6, <1>7, <1>8 DEF Listed, AheadOf

\* What is brought does not compare documents, nor end a rebuilding.
LEMMA BroughtHead ==
  ASSUME NEW t, NEW s, NEW at, Brought(t, s, at)
  PROVE  /\ s \in Seq(Call) /\ (s # << >> => Head(s)[1] # "docs")
         /\ ~AheadOf(s, {"done"}) /\ ~AheadOf(s, {"create"}) /\ ~AheadOf(s, {"check"})
<1>1. s \in Seq(Call) /\ ~AheadOf(s, {"create", "check", "docs", "done"})
  BY DEF Brought
<1>2. s # << >> => Head(s)[1] # "docs"
  BY <1>1, TailAheadOf
<1>3. ~AheadOf(s, {"done"}) /\ ~AheadOf(s, {"create"}) /\ ~AheadOf(s, {"check"})
  BY <1>1 DEF AheadOf
<1>4. QED
  BY <1>1, <1>2, <1>3

LEMMA LoopCalls ==
  ASSUME NEW operation \in {"group", "sweep"}, NEW rows \in SUBSET Rows
  PROVE  /\ Loop(operation, rows) \in Seq(Call)
         /\ \A i \in 1 .. Len(Loop(operation, rows)) :
              Loop(operation, rows)[i] = << operation, rows >>
         /\ Ordered(Loop(operation, rows)) /\ Comparing(Loop(operation, rows))
         /\ \A at : Before(operation) = at => Leads(Loop(operation, rows), at, at)
<1>. DEFINE s == Loop(operation, rows)
<1>1. CASE rows = {}
  <2>1. s = << >>
    BY <1>1 DEF Loop
  <2>. HIDE DEF s
  <2>2. QED
    BY <2>1 DEF s, Ordered, Comparing, Leads, Place
<1>2. CASE rows # {}
  <2>1. s = << << operation, rows >> >>
    BY <1>2 DEF Loop
  <2>. HIDE DEF s
  <2>2. s \in Seq(Call) /\ Len(s) = 1 /\ s[1] = << operation, rows >>
    BY <2>1 DEF Call, Operations, Subjects
  <2>3. Ordered(s) /\ Comparing(s)
    BY <2>2 DEF Ordered, Comparing
  <2>4. \A at : Before(operation) = at => Leads(s, at, at)
    BY <2>2 DEF Leads, Place, Before, After
  <2>5. QED
    BY <2>2, <2>3, <2>4 DEF s
<1>3. QED
  BY <1>1, <1>2

LEMMA SweepBrought ==
  ASSUME NEW t \in Rebuilders, NEW rows \in SUBSET Rows
  PROVE  Brought(t, Loop("sweep", rows), "out")
<1>. DEFINE s == Loop("sweep", rows)
<1>1. /\ s \in Seq(Call) /\ Ordered(s) /\ Comparing(s) /\ Leads(s, "out", "out")
      /\ \A i \in 1 .. Len(s) : s[i] = << "sweep", rows >>
  BY LoopCalls DEF Before
<1>. HIDE DEF s
<1>2. QED
  BY <1>1 DEF Brought, AheadOf, s

LEMMA UnindexAndSweepBrought ==
  ASSUME NEW t \in Rebuilders, NEW r \in Rows, NEW rows \in SUBSET Rows
  PROVE  Brought(t, Unindex(r) \o Loop("sweep", rows), "out")
<1>. DEFINE a == Unindex(r)
            b == Loop("sweep", rows)
            s == a \o b
<1>. HIDE DEF s
<1>1. /\ a \in Seq(Call)
      /\ \A i \in 1 .. Len(a) : a[i][1] \in {"lock", "open", "delete", "close", "unlock"}
  <2>. DEFINE u == << << "lock", r >>, << "open", r >>, << "delete", r >>, << "close", r >>,
                      << "unlock", r >> >>
  <2>1. /\ u \in Seq(Call) /\ Len(u) = 5
        /\ u[1] = << "lock", r >> /\ u[2] = << "open", r >> /\ u[3] = << "delete", r >>
        /\ u[4] = << "close", r >> /\ u[5] = << "unlock", r >>
    BY DEF Call, Operations, Subjects
  <2>2. a = u
    BY RowCalls
  <2>. HIDE DEF u, a
  <2>3. \A i \in 1 .. 5 : i \in {1, 2, 3, 4, 5}
    OBVIOUS
  <2>4. \A i \in 1 .. Len(u) : u[i][1] \in {"lock", "open", "delete", "close", "unlock"}
    BY <2>1, <2>3
  <2>5. QED
    BY <2>1, <2>2, <2>4
<1>2. /\ b \in Seq(Call) /\ Ordered(b) /\ Comparing(b) /\ Leads(b, "out", "out")
      /\ \A i \in 1 .. Len(b) : b[i] = << "sweep", rows >>
  <2>1. Before("sweep") = "out"
    BY DEF Before
  <2>. HIDE DEF a
  <2>2. QED
    BY <2>1, LoopCalls
<1>3. Ordered(a) /\ Comparing(a) /\ Leads(a, "out", "out")
  BY UnindexBrought DEF Brought
<1>4. Brought(t, a, "out") /\ Brought(t, b, "out")
  BY UnindexBrought, SweepBrought
<1>. HIDE DEF a, b
<1>5. Ordered(s)
  <2>. USE DEF s
  <2>1. ASSUME NEW i \in 1 .. Len(s), NEW k \in 1 .. i - 1
        PROVE  MayPrecede(s[k], s[i])
    <3>1. CASE i \in 1 .. Len(a)
      <4>1. k \in 1 .. Len(a) /\ s[k] = a[k] /\ s[i] = a[i]
        BY <1>1, <1>2, <3>1, BothElements
      <4>2. QED
        BY <1>3, <3>1, <4>1 DEF Ordered
    <3>2. CASE i \notin 1 .. Len(a) /\ k \in 1 .. Len(a)
      <4>1. i - Len(a) \in 1 .. Len(b) /\ Len(a) + (i - Len(a)) = i
        BY <1>1, <1>2, <3>2, BothElements
      <4>2. s[i] = << "sweep", rows >> /\ s[k] = a[k]
        BY <1>1, <1>2, <3>2, <4>1, BothElements
      <4>3. QED
        BY <1>1, <3>2, <4>2 DEF MayPrecede
    <3>3. CASE i \notin 1 .. Len(a) /\ k \notin 1 .. Len(a)
      <4>1. /\ i - Len(a) \in 1 .. Len(b) /\ Len(a) + (i - Len(a)) = i
            /\ k - Len(a) \in 1 .. (i - Len(a)) - 1 /\ Len(a) + (k - Len(a)) = k
            /\ k - Len(a) \in 1 .. Len(b)
        BY <1>1, <1>2, <3>3, BothElements
      <4>2. s[i] = b[i - Len(a)] /\ s[k] = b[k - Len(a)]
        BY <1>1, <1>2, <4>1, BothElements
      <4>3. QED
        BY <1>2, <4>1, <4>2 DEF Ordered
    <3>4. QED
      BY <3>1, <3>2, <3>3
  <2>2. QED
    BY <2>1 DEF Ordered
<1>6. Comparing(s) /\ Leads(s, "out", "out") /\ s \in Seq(Call)
  <2>1. b # << >> => Head(b)[1] # "docs"
    BY <1>4, BroughtHead
  <2>2. QED
    BY <1>1, <1>2, <1>3, <2>1, BothComparing, BothLead, BothElements DEF s
<1>7. \A operations : AheadOf(s, operations) <=> AheadOf(a, operations) \/ AheadOf(b, operations)
  BY <1>1, <1>2, BothAheadOf DEF s
<1>8. QED
  BY <1>4, <1>5, <1>6, <1>7 DEF Brought, a, b, s

LEMMA BothBrought ==
  ASSUME NEW t, NEW a, NEW b, NEW at, Brought(t, a, at), Brought(t, b, at), Free(b)
  PROVE  Brought(t, a \o b, at)
<1>1. a \in Seq(Call) /\ b \in Seq(Call)
  BY DEF Brought
<1>2. Ordered(a \o b) /\ Comparing(a \o b) /\ Leads(a \o b, at, at) /\ a \o b \in Seq(Call)
  <2>1. ~AheadOf(a, {"done"}) /\ (b # << >> => Head(b)[1] # "docs")
    BY BroughtHead
  <2>2. QED
    BY <1>1, <2>1, BothOrdered, BothComparing, BothLead, BothElements DEF Brought
<1>3. \A operations : AheadOf(a \o b, operations) <=> AheadOf(a, operations) \/ AheadOf(b, operations)
  BY <1>1, BothAheadOf
<1>4. QED
  BY <1>2, <1>3 DEF Brought

LEMMA GroupLoopBrought ==
  ASSUME NEW t, NEW rows \in SUBSET Rows
  PROVE  Brought(t, Loop("group", rows), "opened") /\ Free(Loop("group", rows))
<1>. DEFINE rest == Loop("group", rows)
<1>1. /\ rest \in Seq(Call) /\ Ordered(rest) /\ Comparing(rest)
      /\ Leads(rest, "opened", "opened")
      /\ \A i \in 1 .. Len(rest) : rest[i] = << "group", rows >>
  BY LoopCalls DEF Before
<1>. HIDE DEF rest
<1>2. Brought(t, rest, "opened") /\ Free(rest)
  BY <1>1 DEF Brought, AheadOf, RebuildOperations, Free
<1>3. QED
  BY <1>2 DEF rest

\* What the reading of a row in a group is followed by.
InGroup(r, exists) ==
  Calls(r, IF exists THEN << "delete", "add" >>
           ELSE IF r \in Workspaces THEN << "delete" >> ELSE << >>)

LEMMA InGroupBrought ==
  ASSUME NEW t, NEW r \in Rows, NEW exists \in BOOLEAN, NEW rows \in SUBSET Rows
  PROVE  /\ InGroup(r, exists) \in Seq(Call)
         /\ Brought(t, InGroup(r, exists) \o Loop("group", rows), "opened")
<1>. DEFINE calls == InGroup(r, exists)
            rest == Loop("group", rows)
<1>1. Brought(t, calls, "opened")
  <2>1. CASE exists
    <3>. DEFINE s == << << "delete", r >>, << "add", r >> >>
    <3>1. s \in Seq(Call) /\ Len(s) = 2 /\ s[1] = << "delete", r >> /\ s[2] = << "add", r >>
      BY DEF Call, Operations, Subjects
    <3>2. calls = s
      BY <2>1, RowCalls DEF InGroup
    <3>. HIDE DEF s
    <3>3. Ordered(s)
      <4>1. ASSUME NEW i \in 1 .. Len(s), NEW k \in 1 .. i - 1
            PROVE  MayPrecede(s[k], s[i])
        <5>1. i = 2 /\ k = 1
          BY <3>1
        <5>2. QED
          BY <3>1, <5>1 DEF MayPrecede
      <4>2. QED
        BY <4>1 DEF Ordered
    <3>4. Comparing(s) /\ Leads(s, "opened", "opened")
      BY <3>1 DEF Comparing, Leads, Place, Before, After
    <3>5. \A i \in 1 .. Len(s) : s[i][1] \notin RebuildOperations \cup {"enter"}
      BY <3>1 DEF RebuildOperations
    <3>6. QED
      BY <3>1, <3>2, <3>3, <3>4, <3>5 DEF Brought, AheadOf, RebuildOperations
  <2>2. CASE ~exists /\ r \in Workspaces
    <3>1. calls = << << "delete", r >> >>
      BY <2>2, RowCalls DEF InGroup
    <3>2. << "delete", r >> \in Call
      BY DEF Call, Operations, Subjects
    <3>3. QED
      BY <3>1, <3>2, OneBrought DEF Before, After, RebuildOperations
  <2>3. CASE ~exists /\ r \notin Workspaces
    <3>1. calls = << >>
      BY <2>3, RowCalls DEF InGroup
    <3>2. QED
      BY <3>1, NothingBrought
  <2>4. QED
    BY <2>1, <2>2, <2>3
<1>2. Brought(t, rest, "opened") /\ Free(rest)
  BY GroupLoopBrought
<1>. HIDE DEF calls, rest
<1>3. QED
  BY <1>1, <1>2, BothBrought DEF Brought, calls, rest

LEMMA TaskBrought ==
  ASSUME NEW t, NEW rows \in SUBSET Rows
  PROVE  Brought(t, IndexMetadataTask(rows), "out") /\ Free(IndexMetadataTask(rows))
<1>1. CASE rows = {}
  BY <1>1, NothingBrought DEF IndexMetadataTask
<1>2. CASE rows # {} /\ \E r \in rows : rows = {r}
  <2>1. PICK r \in rows : rows = {r}
    BY <1>2
  <2>2. (CHOOSE q \in rows : TRUE) = r
    BY <2>1
  <2>3. IndexMetadataTask(rows) = << << "read", r >> >>
    BY <1>2, <2>2, RowCalls DEF IndexMetadataTask
  <2>4. << "read", r >> \in Call
    BY DEF Call, Operations, Subjects
  <2>5. Brought(t, << << "read", r >> >>, "out")
    BY <2>4, OneBrought DEF Before, After, RebuildOperations
  <2>6. Free(<< << "read", r >> >>)
    BY DEF Free
  <2>7. QED
    BY <2>3, <2>5, <2>6
<1>3. CASE rows # {} /\ ~\E r \in rows : rows = {r}
  <2>1. IndexMetadataTask(rows) = IndexGroup(rows)
    BY <1>3 DEF IndexMetadataTask
  <2>2. QED
    BY <2>1, GroupBrought
<1>4. QED
  BY <1>1, <1>2, <1>3
--------------------------------------------------------------------------------
(***************************************************************************)
(* A thread makes a call, or is given more of them.                        *)
(***************************************************************************)
\* The next call compares the documents of a table.
ToCompare(s) == s # << >> /\ Head(s)[1] = "docs"

LEMMA RebuildTails ==
  /\ Tail(Rebuild) = << << "create", None >>, << "init", None >>,
                        << "select", Metadata >>, << "docs", Metadata >>,
                        << "select", Workspaces >>, << "docs", Workspaces >>,
                        << "done", None >> >>
  /\ Tail(Tail(Rebuild)) = << << "init", None >>,
                              << "select", Metadata >>, << "docs", Metadata >>,
                              << "select", Workspaces >>, << "docs", Workspaces >>,
                              << "done", None >> >>
BY DEF Rebuild

LEMMA RebuildAhead ==
  /\ Rebuild \in Seq(Call) /\ Rebuild # << >> /\ Tail(Rebuild) \in Seq(Call) /\ Tail(Rebuild) # << >>
  /\ Tail(Tail(Rebuild)) # << >> /\ Head(Tail(Tail(Rebuild))) = << "init", None >>
  /\ Head(Rebuild) = << "check", None >> /\ Head(Tail(Rebuild)) = << "create", None >>
  /\ ~AheadOf(Tail(Rebuild), {"check"})
  /\ ~AheadOf(Tail(Tail(Rebuild)), {"create"}) /\ ~AheadOf(Tail(Tail(Rebuild)), {"check"})
<1>1. << "check", None >> \in Call /\ << "create", None >> \in Call
  BY DEF Call, Operations, Subjects
<1>2. Rebuild \in Seq(Call) /\ Rebuild # << >> /\ Head(Rebuild) = << "check", None >>
  BY DEF Rebuild, Call, Operations, Subjects, Rows
<1>3. Tail(Rebuild) \in Seq(Call) /\ Tail(Rebuild) # << >> /\ Head(Tail(Rebuild)) = << "create", None >>
  <2>. DEFINE s == << << "create", None >>, << "init", None >>,
                      << "select", Metadata >>, << "docs", Metadata >>,
                      << "select", Workspaces >>, << "docs", Workspaces >>,
                      << "done", None >> >>
  <2>1. s \in Seq(Call)
    BY DEF Call, Operations, Subjects, Rows
  <2>2. s # << >> /\ Head(s) = << "create", None >>
    OBVIOUS
  <2>3. s = Tail(Rebuild)
    BY RebuildTails
  <2>. HIDE DEF s
  <2>4. QED
    BY <2>1, <2>2, <2>3
<1>4. /\ ~AheadOf(Tail(Tail(Rebuild)), {"create"}) /\ ~AheadOf(Tail(Tail(Rebuild)), {"check"})
      /\ Tail(Tail(Rebuild)) # << >> /\ Head(Tail(Tail(Rebuild))) = << "init", None >>
  <2>. DEFINE s == << << "init", None >>, << "select", Metadata >>, << "docs", Metadata >>,
                      << "select", Workspaces >>, << "docs", Workspaces >>,
                      << "done", None >> >>
  <2>1. \A i \in 1 .. Len(s) : s[i][1] \in {"init", "select", "docs", "done"}
    OBVIOUS
  <2>2. s # << >> /\ Head(s) = << "init", None >>
    OBVIOUS
  <2>3. Tail(Tail(Rebuild)) = s
    BY RebuildTails
  <2>. HIDE DEF s
  <2>4. QED
    BY <2>1, <2>2, <2>3 DEF AheadOf
<1>5. ~AheadOf(Tail(Rebuild), {"check"})
  <2>1. Head(Tail(Rebuild))[1] \notin {"check"}
    BY <1>3
  <2>2. QED
    BY <1>3, <1>4, <2>1, TailAheadOf
<1>6. QED
  BY <1>2, <1>3, <1>4, <1>5

LEMMA TailListed ==
  ASSUME NEW t, NEW s \in Seq(Call), s # << >>, Listed(t, s)
  PROVE  /\ Tail(s) \in Seq(Call) /\ Listed(t, Tail(s))
         /\ Place(s, 1, "out") = Before(Head(s)[1])
         /\ Place(Tail(s), 1, "out") = After(Head(s)[1])
<1>1. /\ Ordered(Tail(s)) /\ Comparing(Tail(s)) /\ Tail(s) \in Seq(Call)
      /\ Place(s, 1, "out") = Before(Head(s)[1])
      /\ Place(Tail(s), 1, "out") = After(Head(s)[1])
      /\ Leads(Tail(s), After(Head(s)[1]), "out")
  BY TailElements, TailOrdered, TailComparing, TailLeads DEF Listed
<1>2. \A operations : AheadOf(Tail(s), operations) => AheadOf(s, operations)
  BY TailAheadOf
<1>3. AheadOf(Tail(s), {"create"}) => Tail(s) \in {Rebuild, Tail(Rebuild)}
  BY <1>2, RebuildAhead DEF Listed
<1>4. AheadOf(Tail(s), {"check"}) => Tail(s) = Rebuild
  BY <1>2, RebuildAhead DEF Listed
<1>5. QED
  BY <1>1, <1>2, <1>3, <1>4 DEF Listed

LEMMA BroughtListed ==
  ASSUME NEW t, NEW s, Brought(t, s, "out")
  PROVE  s \in Seq(Call) /\ Listed(t, s) /\ Place(s, 1, "out") = "out"
<1>1. ~AheadOf(s, {"create"}) /\ ~AheadOf(s, {"check"})
  BY BroughtHead
<1>2. QED
  BY <1>1 DEF Brought, Listed, Leads

LEMMA BroughtThen ==
  ASSUME NEW t, NEW s \in Seq(Call), s # << >>, Listed(t, s), NEW new,
         Head(s)[1] \in {"read", "group", "sweep", "docs"},
         Brought(t, new, Before(Head(s)[1]))
  PROVE  /\ new \o Tail(s) \in Seq(Call) /\ Listed(t, new \o Tail(s))
         /\ Place(new \o Tail(s), 1, "out") = Place(s, 1, "out")
         /\ Free(Tail(s)) /\ ~ToCompare(new \o Tail(s))
<1>. DEFINE at == Before(Head(s)[1])
            all == new \o Tail(s)
<1>1. new \in Seq(Call) /\ Tail(s) \in Seq(Call)
  BY TailElements DEF Brought
<1>2. Free(Tail(s)) /\ Listed(t, Tail(s)) /\ Place(s, 1, "out") = at
  BY TailListed, TailOrdered DEF Listed
<1>3. Leads(Tail(s), at, "out")
  <2>1. After(Head(s)[1]) = at
    BY DEF Before, After
  <2>2. Leads(s, Place(s, 1, "out"), "out")
    BY DEF Listed
  <2>3. QED
    BY <2>1, <2>2, TailLeads
<1>4. ~AheadOf(s, {"create"}) /\ ~AheadOf(s, {"check"})
  <2>1. Head(s)[1] \notin {"check", "create"}
    OBVIOUS
  <2>2. Head(Rebuild)[1] = "check" /\ Head(Tail(Rebuild))[1] = "create"
    BY RebuildAhead
  <2>3. s # Rebuild /\ s # Tail(Rebuild)
    BY <2>1, <2>2
  <2>4. QED
    BY <2>3 DEF Listed
<1>5. \A operations : AheadOf(all, operations) <=> AheadOf(new, operations) \/ AheadOf(Tail(s), operations)
  BY <1>1, BothAheadOf
<1>6. \A operations : AheadOf(Tail(s), operations) => AheadOf(s, operations)
  BY TailAheadOf
<1>7. all \in Seq(Call) /\ Ordered(all) /\ Comparing(all) /\ Leads(all, at, "out")
  <2>1. ~AheadOf(new, {"done"})
    BY BroughtHead
  <2>2. Tail(s) # << >> => Head(Tail(s))[1] # "docs"
    BY TailComparing DEF Listed
  <2>3. QED
    BY <1>1, <1>2, <1>3, <2>1, <2>2, BothElements, BothOrdered, BothComparing, BothLead
       DEF Brought, Listed
<1>8. Place(all, 1, "out") = at
  BY <1>7 DEF Leads
<1>9. ~AheadOf(new, {"create"}) /\ ~AheadOf(new, {"check"})
  BY BroughtHead
<1>10. ~ToCompare(all)
  <2>1. (new # << >> => Head(new)[1] # "docs") /\ (Tail(s) # << >> => Head(Tail(s))[1] # "docs")
    BY BroughtHead, TailComparing DEF Listed
  <2>2. CASE new = << >>
    BY <1>1, <2>1, <2>2 DEF ToCompare
  <2>3. CASE new # << >>
    <3>1. Head(all) = Head(new)
      BY <1>1, <2>3
    <3>2. QED
      BY <2>1, <2>3, <3>1 DEF ToCompare
  <2>4. QED
    BY <2>2, <2>3
<1>11. QED
  BY <1>2, <1>4, <1>5, <1>6, <1>7, <1>8, <1>9, <1>10 DEF Brought, Listed

LEMMA BroughtAfter ==
  ASSUME NEW t, NEW s \in Seq(Call), Listed(t, s), NEW new, Brought(t, new, "out"), Free(new),
         t \notin Rebuilders
  PROVE  /\ s \o new \in Seq(Call) /\ Listed(t, s \o new)
         /\ Place(s \o new, 1, "out") = Place(s, 1, "out")
<1>. DEFINE all == s \o new
            at == Place(s, 1, "out")
<1>1. new \in Seq(Call)
  BY DEF Brought
<1>2. all \in Seq(Call) /\ Ordered(all) /\ Comparing(all) /\ Leads(all, at, "out")
  <2>1. ~AheadOf(s, {"done"})
    BY DEF Listed, AheadOf, RebuildOperations
  <2>2. new # << >> => Head(new)[1] # "docs"
    BY BroughtHead
  <2>3. QED
    BY <1>1, <2>1, <2>2, BothElements, BothOrdered, BothComparing, BothLead
       DEF Brought, Listed
<1>3. Place(all, 1, "out") = at
  BY <1>2 DEF Leads
<1>4. \A operations : AheadOf(all, operations) <=> AheadOf(s, operations) \/ AheadOf(new, operations)
  BY <1>1, BothAheadOf
<1>5. ~AheadOf(s, RebuildOperations) /\ ~AheadOf(s, {"create"}) /\ ~AheadOf(s, {"check"})
  BY DEF Listed, AheadOf, RebuildOperations
<1>6. ~AheadOf(new, {"create"}) /\ ~AheadOf(new, {"check"})
  BY BroughtHead
<1>7. QED
  BY <1>2, <1>3, <1>4, <1>5, <1>6 DEF Brought, Listed
--------------------------------------------------------------------------------
(***************************************************************************)
(* The effect of a step on the lists and on where the threads stand.       *)
(***************************************************************************)
ListsTyped == todo \in [Threads -> Seq(Call)]

StandsKept == \A u \in Threads : Stands(u)' = Stands(u)

OthersKept(t) == \A u \in Threads \ {t} : todo'[u] = todo[u]

\* After one thread has got a new list.
LEMMA NewList ==
  ASSUME ListsTyped, ListInv, NEW t \in Threads, NEW s \in Seq(Call), Listed(t, s),
         todo' = [todo EXCEPT ![t] = s]
  PROVE  /\ ListsTyped' /\ ListInv' /\ OthersKept(t) /\ todo'[t] = s
         /\ \A u \in Threads \ {t} : Stands(u)' = Stands(u)
         /\ Stands(t)' = Place(s, 1, "out")
BY DEF ListsTyped, ListInv, OthersKept, Stands

LEMMA CallMadeStep ==
  ASSUME ListsTyped, ListInv, NEW t \in Threads, NEW operation, NEW subject,
         AtCall(t, operation, subject), CallMade(t)
  PROVE  /\ ListsTyped' /\ ListInv' /\ OthersKept(t)
         /\ todo[t] # << >> /\ todo[t] \in Seq(Call) /\ Listed(t, todo[t])
         /\ Head(todo[t]) = << operation, subject >>
         /\ todo'[t] = Tail(todo[t]) /\ Tail(todo[t]) \in Seq(Call)
         /\ Stands(t) = Before(operation) /\ Stands(t)' = After(operation)
         /\ \A u \in Threads \ {t} : Stands(u)' = Stands(u)
         /\ \A call : Ahead(todo[t], call) <=>
                        call = << operation, subject >> \/ Ahead(todo'[t], call)
         /\ \A i \in 1 .. Len(todo'[t]) : MayPrecede(<< operation, subject >>, todo'[t][i])
         /\ operation # "select" => ~ToCompare(todo'[t])
         /\ operation = "select" =>
              todo'[t] # << >> /\ Head(todo'[t]) = << "docs", subject >>
<1>. DEFINE s == todo[t]
<1>1. s \in Seq(Call) /\ s # << >> /\ Listed(t, s) /\ Head(s) = << operation, subject >>
  BY DEF AtCall, Idle, ListsTyped, ListInv
<1>2. Head(s)[1] = operation
  BY <1>1
<1>3. todo' = [todo EXCEPT ![t] = Tail(s)]
  BY DEF CallMade
<1>4. Stands(t) = Place(s, 1, "out")
  BY DEF Stands
<1>. HIDE DEF s
<1>5. /\ Tail(s) \in Seq(Call) /\ Listed(t, Tail(s))
      /\ Place(s, 1, "out") = Before(operation)
      /\ Place(Tail(s), 1, "out") = After(operation)
  BY <1>1, <1>2, TailListed
<1>6. /\ ListsTyped' /\ ListInv' /\ OthersKept(t) /\ todo'[t] = Tail(s)
      /\ \A u \in Threads \ {t} : Stands(u)' = Stands(u)
      /\ Stands(t)' = Place(Tail(s), 1, "out")
  BY <1>3, <1>5, NewList
<1>7. \A call : Ahead(s, call) <=> call = << operation, subject >> \/ Ahead(Tail(s), call)
  BY <1>1, TailAhead
<1>8. \A i \in 1 .. Len(Tail(s)) : MayPrecede(<< operation, subject >>, Tail(s)[i])
  BY <1>1, TailOrdered DEF Listed
<1>9. /\ operation # "select" => ~ToCompare(Tail(s))
      /\ operation = "select" => Tail(s) # << >> /\ Head(Tail(s)) = << "docs", subject >>
  <2>1. Comparing(s) /\ Head(s)[2] = subject
    BY <1>1 DEF Listed
  <2>2. /\ operation = "select" => Tail(s) # << >> /\ Head(Tail(s)) = << "docs", Head(s)[2] >>
        /\ Tail(s) # << >> /\ operation # "select" => Head(Tail(s))[1] # "docs"
    BY <1>1, <1>2, <2>1, TailComparing
  <2>3. QED
    BY <2>1, <2>2 DEF ToCompare
<1>10. Stands(t) = Before(operation) /\ Stands(t)' = After(operation)
  BY <1>4, <1>5, <1>6
<1>11. /\ \A call : Ahead(s, call) <=> call = << operation, subject >> \/ Ahead(todo'[t], call)
       /\ \A i \in 1 .. Len(todo'[t]) : MayPrecede(<< operation, subject >>, todo'[t][i])
       /\ operation # "select" => ~ToCompare(todo'[t])
       /\ operation = "select" => todo'[t] # << >> /\ Head(todo'[t]) = << "docs", subject >>
  BY <1>6, <1>7, <1>8, <1>9
<1>12. QED
  BY <1>1, <1>5, <1>6, <1>10, <1>11 DEF s

LEMMA CallBringsStep ==
  ASSUME ListsTyped, ListInv, NEW t \in Threads,
         NEW operation \in {"read", "group", "sweep", "docs"}, NEW subject,
         AtCall(t, operation, subject),
         NEW new, Brought(t, new, Before(operation)), CallBrings(t, new)
  PROVE  /\ ListsTyped' /\ ListInv' /\ OthersKept(t) /\ StandsKept
         /\ todo[t] # << >> /\ todo[t] \in Seq(Call) /\ Tail(todo[t]) \in Seq(Call)
         /\ Head(todo[t]) = << operation, subject >> /\ Stands(t) = Before(operation)
         /\ todo'[t] = new \o Tail(todo[t]) /\ Free(Tail(todo[t]))
         /\ \A call : Ahead(todo[t], call) <=>
                        call = << operation, subject >> \/ Ahead(Tail(todo[t]), call)
         /\ \A call : Ahead(todo'[t], call) <=>
                        Ahead(new, call) \/ Ahead(Tail(todo[t]), call)
         /\ ~ToCompare(todo'[t])
<1>. DEFINE s == todo[t]
<1>1. s \in Seq(Call) /\ s # << >> /\ Listed(t, s) /\ Head(s) = << operation, subject >>
  BY DEF AtCall, Idle, ListsTyped, ListInv
<1>2. Head(s)[1] = operation
  BY <1>1
<1>3. todo' = [todo EXCEPT ![t] = new \o Tail(s)]
  BY DEF CallBrings
<1>4. Stands(t) = Place(s, 1, "out")
  BY DEF Stands
<1>. HIDE DEF s
<1>5. /\ new \o Tail(s) \in Seq(Call) /\ Listed(t, new \o Tail(s))
      /\ Place(new \o Tail(s), 1, "out") = Place(s, 1, "out")
      /\ Free(Tail(s)) /\ ~ToCompare(new \o Tail(s))
  BY <1>1, <1>2, BroughtThen
<1>6. /\ ListsTyped' /\ ListInv' /\ OthersKept(t) /\ todo'[t] = new \o Tail(s)
      /\ \A u \in Threads \ {t} : Stands(u)' = Stands(u)
      /\ Stands(t)' = Place(new \o Tail(s), 1, "out")
  BY <1>3, <1>5, NewList
<1>7. \A call : Ahead(s, call) <=> call = << operation, subject >> \/ Ahead(Tail(s), call)
  BY <1>1, TailAhead
<1>8. Tail(s) \in Seq(Call) /\ new \in Seq(Call)
  BY <1>1, TailElements DEF Brought
<1>9. \A call : Ahead(new \o Tail(s), call) <=> Ahead(new, call) \/ Ahead(Tail(s), call)
  BY <1>8, BothAhead
<1>10. Stands(t) = Before(operation)
  BY <1>1, <1>2, <1>4, TailListed
<1>11. QED
  BY <1>1, <1>4, <1>5, <1>6, <1>7, <1>8, <1>9, <1>10 DEF s, StandsKept

LEMMA BeginStep ==
  ASSUME ListsTyped, ListInv, NEW t \in Threads, NEW new, Begin(t, new),
         new \in Seq(Call), Listed(t, new), Place(new, 1, "out") = "out"
  PROVE  /\ ListsTyped' /\ ListInv' /\ OthersKept(t) /\ StandsKept
         /\ todo[t] = << >> /\ todo'[t] = new /\ Stands(t) = "out"
<1>1. todo' = [todo EXCEPT ![t] = new] /\ todo[t] = << >>
  BY DEF Begin, Idle
<1>2. Stands(t) = "out"
  BY <1>1 DEF Stands, Place
<1>3. QED
  BY <1>1, <1>2, NewList DEF StandsKept

LEMMA NothingListed ==
  ASSUME NEW t
  PROVE  << >> \in Seq(Call) /\ Listed(t, << >>) /\ Place(<< >>, 1, "out") = "out"
BY NothingBrought, BroughtListed

LEMMA ListsAreTyped ==
  ASSUME TypeOK
  PROVE  ListsTyped
BY DEF TypeOK, ListsTyped, Call

\* A rebuilding before it has made an empty index.
LEMMA AtCheck ==
  ASSUME ListsTyped, ListInv, NEW t \in Threads, AtCall(t, "check", None)
  PROVE  todo[t] = Rebuild /\ t \in Rebuilders
<1>1. todo[t] \in Seq(Call) /\ todo[t] # << >> /\ Listed(t, todo[t])
      /\ Head(todo[t]) = << "check", None >>
  BY DEF AtCall, Idle, ListsTyped, ListInv
<1>2. Head(todo[t])[1] \in {"check"} /\ Head(todo[t])[1] \in RebuildOperations
  BY <1>1 DEF RebuildOperations
<1>3. AheadOf(todo[t], {"check"}) /\ AheadOf(todo[t], RebuildOperations)
  BY <1>1, <1>2, TailAheadOf
<1>4. QED
  BY <1>1, <1>3 DEF Listed

LEMMA AtCreate ==
  ASSUME ListsTyped, ListInv, NEW t \in Threads, AtCall(t, "create", None)
  PROVE  todo[t] = Tail(Rebuild) /\ t \in Rebuilders
<1>1. todo[t] \in Seq(Call) /\ todo[t] # << >> /\ Listed(t, todo[t])
      /\ Head(todo[t]) = << "create", None >>
  BY DEF AtCall, Idle, ListsTyped, ListInv
<1>2. Head(todo[t])[1] \in {"create"} /\ Head(todo[t])[1] \in RebuildOperations
  BY <1>1 DEF RebuildOperations
<1>3. AheadOf(todo[t], {"create"}) /\ AheadOf(todo[t], RebuildOperations)
  BY <1>1, <1>2, TailAheadOf
<1>4. Head(Rebuild)[1] = "check"
  BY RebuildAhead
<1>5. QED
  BY <1>1, <1>2, <1>3, <1>4 DEF Listed

LEMMA CheckClosedStep ==
  ASSUME ListsTyped, ListInv, NEW t \in Threads, CheckClosed(t)
  PROVE  /\ ListsTyped' /\ ListInv' /\ OthersKept(t) /\ StandsKept
         /\ todo[t] = Rebuild /\ todo'[t] \in {<< >>, Tail(Rebuild)} /\ Stands(t) = "out"
<1>1. todo[t] = Rebuild /\ Listed(t, Rebuild) /\ Rebuild \in Seq(Call)
  BY AtCheck DEF CheckClosed, ListInv, ListsTyped
<1>2. Place(Rebuild, 1, "out") = "out" /\ Place(Tail(Rebuild), 1, "out") = "out"
      /\ Tail(Rebuild) \in Seq(Call) /\ Listed(t, Tail(Rebuild))
  <2>1. Head(Rebuild)[1] = "check"
    BY RebuildAhead
  <2>2. QED
    BY <1>1, <2>1, RebuildAhead, TailListed DEF Before, After
<1>3. todo' = [todo EXCEPT ![t] = << >>] \/ todo' = [todo EXCEPT ![t] = Tail(Rebuild)]
  BY <1>1 DEF CheckClosed
<1>4. Stands(t) = "out"
  BY <1>1, <1>2 DEF Stands
<1>5. QED
  BY <1>1, <1>2, <1>3, <1>4, NothingListed, NewList DEF StandsKept

LEMMA CreateIndexStep ==
  ASSUME ListsTyped, ListInv, NEW t \in Threads, CreateIndex(t)
  PROVE  /\ ListsTyped' /\ ListInv' /\ OthersKept(t) /\ StandsKept
         /\ todo[t] = Tail(Rebuild) /\ Stands(t) = "out"
         /\ todo'[t] = IF writers THEN << >> ELSE Tail(Tail(Rebuild))
<1>1. todo[t] = Tail(Rebuild) /\ Listed(t, Tail(Rebuild)) /\ Tail(Rebuild) \in Seq(Call)
  BY AtCreate DEF CreateIndex, ListInv, ListsTyped
<1>. DEFINE s == Tail(Rebuild)
<1>2. Place(s, 1, "out") = "out" /\ Place(Tail(s), 1, "out") = "out"
      /\ Tail(s) \in Seq(Call) /\ Listed(t, Tail(s))
  <2>1. Head(s)[1] = "create" /\ s # << >>
    BY RebuildAhead
  <2>. HIDE DEF s
  <2>2. QED
    BY <1>1, <2>1, TailListed DEF Before, After, s
<1>3. todo' = [todo EXCEPT ![t] = IF writers THEN << >> ELSE Tail(s)]
  BY <1>1 DEF CreateIndex, CallMade
<1>4. Stands(t) = "out"
  BY <1>1, <1>2 DEF Stands
<1>. HIDE DEF s
<1>5. CASE writers
  <2>1. todo' = [todo EXCEPT ![t] = << >>]
    BY <1>3, <1>5
  <2>2. QED
    BY <1>1, <1>4, <1>5, <2>1, NothingListed, NewList DEF StandsKept
<1>6. CASE ~writers
  <2>1. todo' = [todo EXCEPT ![t] = Tail(s)]
    BY <1>3, <1>6
  <2>2. QED
    BY <1>1, <1>2, <1>4, <1>6, <2>1, NewList DEF StandsKept, s
<1>7. QED
  BY <1>5, <1>6

\* What the comparison of a table with the index finds.
Stale(t, table) == { r \in table \ selected[t] : disk[r] # << >> }

Task(t, table) == IndexMetadataTask(selected[t] \cap table)

LEMMA CompareDocsStep ==
  ASSUME ListsTyped, ListInv, selected \in [Threads -> SUBSET Rows], NEW t \in Threads, NEW w \in Workers,
         NEW table \in {Metadata, Workspaces}, CompareDocs(t, w, table)
  PROVE  /\ ListsTyped' /\ ListInv' /\ StandsKept
         /\ t # w /\ \A u \in Threads \ {t, w} : todo'[u] = todo[u]
         /\ t \in Rebuilders /\ todo[t] # << >> /\ Tail(todo[t]) \in Seq(Call)
         /\ Head(todo[t]) = << "docs", table >> /\ Stands(t) = "out"
         /\ Stale(t, table) \in SUBSET Rows /\ Free(Tail(todo[t]))
         /\ \A call : Ahead(todo[t], call) <=>
                        call = << "docs", table >> \/ Ahead(Tail(todo[t]), call)
         /\ \A call : Ahead(todo'[t], call) <=>
                        Ahead(Loop("sweep", Stale(t, table)), call) \/ Ahead(Tail(todo[t]), call)
         /\ todo'[w] = todo[w] \o Task(t, table) /\ Task(t, table) \in Seq(Call) /\ todo[w] \in Seq(Call)
         /\ \A call : Ahead(todo'[w], call) <=> Ahead(todo[w], call) \/ Ahead(Task(t, table), call)
         /\ Free(Task(t, table)) /\ ~ToCompare(todo'[t]) /\ w \notin Rebuilders
<1>. DEFINE gone == Stale(t, table)
            task == Task(t, table)
            sweep == Loop("sweep", gone)
            s == todo[t]
<1>1. /\ s \in Seq(Call) /\ s # << >> /\ Listed(t, s) /\ Head(s) = << "docs", table >>
      /\ w \in Threads /\ todo[w] \in Seq(Call) /\ Listed(w, todo[w])
  BY DEF CompareDocs, AtCall, Idle, ListsTyped, ListInv, Threads
<1>2. t \in Rebuilders
  <2>1. Head(s)[1] \in RebuildOperations
    BY <1>1 DEF RebuildOperations
  <2>. HIDE DEF s
  <2>2. QED
    BY <1>1, <2>1, TailAheadOf DEF Listed
<1>3. t # w /\ w \notin Rebuilders
  BY <1>2, PoolAssumption
<1>4. gone \in SUBSET Rows /\ selected[t] \cap table \in SUBSET Rows
  BY DEF Rows, Stale
<1>5. todo' = [todo EXCEPT ![t] = sweep \o Tail(s), ![w] = todo[w] \o task]
  BY <1>3 DEF CompareDocs, Stale, Task
<1>. HIDE DEF gone
<1>6. Brought(t, sweep, "out")
  BY <1>2, <1>4, SweepBrought
<1>7. Brought(w, task, "out") /\ Free(task)
  BY <1>4, TaskBrought DEF Task
<1>8. Stands(t) = Place(s, 1, "out")
  BY DEF Stands
<1>. HIDE DEF s, task, sweep
<1>9. /\ sweep \o Tail(s) \in Seq(Call) /\ Listed(t, sweep \o Tail(s))
      /\ Place(sweep \o Tail(s), 1, "out") = Place(s, 1, "out") /\ Free(Tail(s))
      /\ ~ToCompare(sweep \o Tail(s))
  <2>1. Head(s)[1] = "docs" /\ Before("docs") = "out"
    BY <1>1 DEF Before
  <2>2. QED
    BY <1>1, <1>6, <2>1, BroughtThen
<1>10. /\ todo[w] \o task \in Seq(Call) /\ Listed(w, todo[w] \o task)
       /\ Place(todo[w] \o task, 1, "out") = Place(todo[w], 1, "out")
  BY <1>1, <1>3, <1>7, BroughtAfter
<1>11. /\ todo'[t] = sweep \o Tail(s) /\ todo'[w] = todo[w] \o task
       /\ \A u \in Threads \ {t, w} : todo'[u] = todo[u]
       /\ todo' \in [Threads -> Seq(Call)]
  BY <1>1, <1>3, <1>5, <1>9, <1>10 DEF ListsTyped
<1>12. ListsTyped' /\ ListInv' /\ StandsKept
  BY <1>8, <1>9, <1>10, <1>11 DEF ListsTyped, ListInv, StandsKept, Stands
<1>13. Stands(t) = "out"
  <2>1. Head(s)[1] = "docs" /\ Before("docs") = "out"
    BY <1>1 DEF Before
  <2>2. QED
    BY <1>1, <1>8, <2>1, TailListed
<1>14. Tail(s) \in Seq(Call) /\ sweep \in Seq(Call) /\ task \in Seq(Call)
  BY <1>1, <1>6, <1>7, TailElements DEF Brought
<1>15. /\ \A call : Ahead(s, call) <=> call = << "docs", table >> \/ Ahead(Tail(s), call)
       /\ \A call : Ahead(sweep \o Tail(s), call) <=> Ahead(sweep, call) \/ Ahead(Tail(s), call)
       /\ \A call : Ahead(todo[w] \o task, call) <=> Ahead(todo[w], call) \/ Ahead(task, call)
  BY <1>1, <1>14, TailAhead, BothAhead
<1>16. QED
  BY <1>1, <1>2, <1>3, <1>4, <1>7, <1>9, <1>11, <1>12, <1>13, <1>14, <1>15 DEF gone,
     task, sweep, s
--------------------------------------------------------------------------------
(***************************************************************************)
(* The steps that leave every thread where it stands, and the others.      *)
(***************************************************************************)
\* What follows the reading of a row that is indexed alone.
Alone(r, exists) ==
  IF exists THEN Index(r) ELSE IF r \in Workspaces THEN Unindex(r) ELSE << >>

LEMMA AloneBrought ==
  ASSUME NEW t, NEW r \in Rows, NEW exists \in BOOLEAN
  PROVE  Brought(t, Alone(r, exists), "out")
BY IndexBrought, UnindexBrought, NothingBrought DEF Alone

LEMMA ReadRowStep ==
  ASSUME NEW t \in Threads, NEW r \in Rows, ReadRow(t, r)
  PROVE  /\ AtCall(t, "read", r) /\ CallBrings(t, Alone(r, row[r] # 0))
         /\ Brought(t, Alone(r, row[r] # 0), Before("read"))
BY AloneBrought DEF ReadRow, Alone, Before

LEMMA ReadRowFailsStep ==
  ASSUME NEW t \in Threads, NEW r \in Rows, ReadRowFails(t, r)
  PROVE  /\ AtCall(t, "read", r) /\ CallBrings(t, << >>)
         /\ Brought(t, << >>, Before("read"))
BY NothingBrought DEF ReadRowFails

LEMMA ReadInGroupStep ==
  ASSUME NEW t \in Threads, NEW rows \in SUBSET Rows, NEW r \in rows, ReadInGroup(t, rows, r)
  PROVE  LET new == InGroup(r, row[r] # 0) \o Loop("group", rows \ {r})
         IN  AtCall(t, "group", rows) /\ CallBrings(t, new) /\ Brought(t, new, Before("group"))
<1>1. rows \ {r} \in SUBSET Rows /\ r \in Rows /\ (row[r] # 0) \in BOOLEAN
  OBVIOUS
<1>2. Brought(t, InGroup(r, row[r] # 0) \o Loop("group", rows \ {r}), "opened")
  BY <1>1, InGroupBrought
<1>3. QED
  BY <1>2 DEF ReadInGroup, InGroup, Before

LEMMA ReadInGroupFailsStep ==
  ASSUME NEW t \in Threads, NEW rows \in SUBSET Rows, NEW r \in rows,
         ReadInGroupFails(t, rows, r)
  PROVE  LET new == Loop("group", rows \ {r})
         IN  /\ AtCall(t, "group", rows) /\ CallBrings(t, new)
             /\ Brought(t, new, Before("group"))
<1>1. rows \ {r} \in SUBSET Rows
  OBVIOUS
<1>2. Brought(t, Loop("group", rows \ {r}), "opened")
  BY <1>1, GroupLoopBrought
<1>3. QED
  BY <1>2 DEF ReadInGroupFails, Before

LEMMA SweepStep ==
  ASSUME ListsTyped, ListInv, NEW t \in Threads, NEW gone \in SUBSET Rows, NEW r \in gone,
         Sweep(t, gone, r)
  PROVE  LET new == Unindex(r) \o Loop("sweep", gone \ {r})
         IN  /\ AtCall(t, "sweep", gone) /\ CallBrings(t, new)
             /\ Brought(t, new, Before("sweep")) /\ t \in Rebuilders
<1>1. gone \ {r} \in SUBSET Rows /\ r \in Rows
  OBVIOUS
<1>2. t \in Rebuilders
  <2>1. todo[t] \in Seq(Call) /\ todo[t] # << >> /\ Listed(t, todo[t])
        /\ Head(todo[t]) = << "sweep", gone >>
    BY DEF Sweep, AtCall, Idle, ListsTyped, ListInv
  <2>2. Head(todo[t])[1] \in RebuildOperations
    BY <2>1 DEF RebuildOperations
  <2>3. QED
    BY <2>1, <2>2, TailAheadOf DEF Listed
<1>3. Brought(t, Unindex(r) \o Loop("sweep", gone \ {r}), "out")
  BY <1>1, <1>2, UnindexAndSweepBrought
<1>4. QED
  BY <1>2, <1>3 DEF Sweep, Before

LEMMA BegunLists ==
  /\ \A t \in Threads, r \in Rows : Brought(t, IndexOne(r), "out")
  /\ \A t \in Threads, r \in Rows : Brought(t, Unindex(r), "out")
  /\ \A t \in Threads, r \in Rows : Brought(t, IndexGroup({r}), "out")
  /\ \A t \in Optimisers : Brought(t, Optimise, "out")
<1>1. ASSUME NEW t \in Threads, NEW r \in Rows
      PROVE  Brought(t, IndexOne(r), "out")
  <2>1. << "read", r >> \in Call
    BY DEF Call, Operations, Subjects
  <2>2. QED
    BY <2>1, OneBrought, RowCalls DEF Before, After, RebuildOperations
<1>2. \A t \in Threads, r \in Rows : Brought(t, IndexGroup({r}), "out")
  BY GroupBrought
<1>3. QED
  BY <1>1, <1>2, UnindexBrought, OptimiseBrought

\* The lists that threads begin with.
LEMMA BeginSteps ==
  ASSUME ListsTyped, ListInv, NEW t \in Threads, NEW new, Begin(t, new),
         \/ \E r \in Rows : new \in {IndexOne(r), Unindex(r), IndexGroup({r})}
         \/ t \in Optimisers /\ new = Optimise
         \/ t \in Rebuilders /\ new = Rebuild
  PROVE  /\ ListsTyped' /\ ListInv' /\ OthersKept(t) /\ StandsKept
         /\ todo[t] = << >> /\ todo'[t] = new /\ Stands(t) = "out" /\ new \in Seq(Call)
<1>1. CASE Brought(t, new, "out")
  BY <1>1, BroughtListed, BeginStep DEF Brought
<1>2. CASE t \in Rebuilders /\ new = Rebuild
  <2>1. new \in Seq(Call) /\ Listed(t, new) /\ Place(new, 1, "out") = "out"
    BY <1>2, RebuildListed
  <2>2. QED
    BY <2>1, BeginStep
<1>3. CASE \E r \in Rows : new \in {IndexOne(r), Unindex(r), IndexGroup({r})}
  <2>1. PICK r \in Rows : new \in {IndexOne(r), Unindex(r), IndexGroup({r})}
    BY <1>3
  <2>2. /\ Brought(t, IndexOne(r), "out") /\ Brought(t, Unindex(r), "out")
        /\ Brought(t, IndexGroup({r}), "out")
    BY BegunLists
  <2>3. QED
    BY <1>1, <2>1, <2>2
<1>4. CASE t \in Optimisers /\ new = Optimise
  BY <1>1, <1>4, BegunLists
<1>5. QED
  BY <1>2, <1>3, <1>4

\* The calls that do not move a thread.
Staying == {"read", "delete", "add", "group", "sweep", "enter", "optimize", "leave", "check",
            "create", "init", "select", "docs", "done"}

LEMMA StayingStep ==
  ASSUME ListsTyped, ListInv, NEW t \in Threads, NEW operation \in Staying, NEW subject,
         AtCall(t, operation, subject), CallMade(t)
  PROVE  StandsKept
BY CallMadeStep DEF StandsKept, Staying, Before, After

WithLocks(t) ==
  \E s \in Rows \cup {None} :
    Lock(t, s) \/ Unlock(t, s) \/ OpenWriter(t, s) \/ CloseWriter(t, s)

LEMMA ListsStep ==
  ASSUME ListsTyped, ListInv, selected \in [Threads -> SUBSET Rows], Next
  PROVE  /\ ListsTyped' /\ ListInv'
         /\ \/ StandsKept /\ UNCHANGED << mutex, count >>
            \/ \E t \in Threads : WithLocks(t)
<1>. USE DEF Staying
<1>. DEFINE Goal == /\ ListsTyped' /\ ListInv'
                    /\ \/ StandsKept /\ UNCHANGED << mutex, count >>
                       \/ \E t \in Threads : WithLocks(t)
<1>1. ASSUME NEW t \in Requests, NEW r \in Rows, Change(t, r) \/ Drop(t, r) \/ Reindex(t, r)
      PROVE  Goal
  <2>1. /\ Begin(t, IndexOne(r)) \/ Begin(t, Unindex(r)) \/ Begin(t, IndexGroup({r}))
        /\ UNCHANGED << mutex, count >> /\ t \in Threads
    BY <1>1 DEF Change, Drop, Reindex, locks, index, Threads
  <2>2. QED
    BY <2>1, BeginSteps
<1>2. ASSUME NEW t \in Optimisers, StartOptimise(t)
      PROVE  Goal
  BY <1>2, BeginSteps DEF StartOptimise, locks, index, Threads
<1>3. ASSUME NEW t \in Rebuilders, StartRebuild(t)
      PROVE  Goal
  BY <1>3, BeginSteps DEF StartRebuild, locks, index, Threads
<1>4. ASSUME NEW t \in Threads, NEW r \in Rows, ReadRow(t, r) \/ ReadRowFails(t, r)
      PROVE  Goal
  <2>1. CASE ReadRow(t, r)
    BY <2>1, ReadRowStep, CallBringsStep DEF ReadRow, locks, index
  <2>2. CASE ReadRowFails(t, r)
    BY <2>2, ReadRowFailsStep, CallBringsStep DEF ReadRowFails, locks, index
  <2>3. QED
    BY <1>4, <2>1, <2>2
<1>5. ASSUME NEW t \in Threads, NEW r \in Rows,
             DeleteDocuments(t, r) \/ AddDocument(t, r) \/ AddFails(t, r)
      PROVE  Goal
  <2>1. AtCall(t, "delete", r) \/ AtCall(t, "add", r)
    BY <1>5 DEF DeleteDocuments, AddDocument, AddFails
  <2>2. CallMade(t) /\ UNCHANGED << mutex, count >>
    BY <1>5 DEF DeleteDocuments, AddDocument, AddFails, locks, index
  <2>3. QED
    BY <2>1, <2>2, CallMadeStep, StayingStep
<1>6. ASSUME NEW t \in Threads, NEW s \in Rows \cup {None},
             Lock(t, s) \/ Unlock(t, s) \/ OpenWriter(t, s) \/ CloseWriter(t, s)
      PROVE  Goal
  <2>1. \/ AtCall(t, "lock", s) \/ AtCall(t, "unlock", s)
        \/ AtCall(t, "open", s) \/ AtCall(t, "close", s)
    BY <1>6 DEF Lock, Unlock, OpenWriter, CloseWriter
  <2>2. CallMade(t)
    BY <1>6 DEF Lock, Unlock, OpenWriter, CloseWriter
  <2>3. QED
    BY <1>6, <2>1, <2>2, CallMadeStep DEF WithLocks
<1>7. ASSUME NEW t \in Threads, NEW rows \in SUBSET Rows, NEW r \in rows,
             ReadInGroup(t, rows, r) \/ ReadInGroupFails(t, rows, r)
      PROVE  Goal
  <2>1. CASE ReadInGroup(t, rows, r)
    BY <2>1, ReadInGroupStep, CallBringsStep DEF ReadInGroup, locks, index
  <2>2. CASE ReadInGroupFails(t, rows, r)
    BY <2>2, ReadInGroupFailsStep, CallBringsStep DEF ReadInGroupFails, locks, index
  <2>3. QED
    BY <1>7, <2>1, <2>2
<1>8. ASSUME NEW t \in Threads, NEW rows \in SUBSET Rows, NEW r \in rows, Sweep(t, rows, r)
      PROVE  Goal
  BY <1>8, SweepStep, CallBringsStep DEF Sweep, locks, index
<1>9. ASSUME NEW t \in Threads,
             EnterMonitor(t) \/ Merge(t) \/ LeaveMonitor(t) \/ EnterInit(t) \/ LeaveInit(t)
      PROVE  Goal
  <2>1. \/ AtCall(t, "enter", None) \/ AtCall(t, "optimize", None) \/ AtCall(t, "leave", None)
        \/ AtCall(t, "init", None) \/ AtCall(t, "done", None)
    BY <1>9 DEF EnterMonitor, Merge, LeaveMonitor, EnterInit, LeaveInit
  <2>2. CallMade(t) /\ UNCHANGED << mutex, count >>
    BY <1>9 DEF EnterMonitor, Merge, LeaveMonitor, EnterInit, LeaveInit, locks, index
  <2>3. QED
    BY <2>1, <2>2, CallMadeStep, StayingStep
<1>10. ASSUME NEW t \in Threads, CheckClosed(t)
       PROVE  Goal
  BY <1>10, CheckClosedStep DEF CheckClosed, locks, index
<1>11. ASSUME NEW t \in Threads, CreateIndex(t)
       PROVE  Goal
  BY <1>11, CreateIndexStep DEF CreateIndex, locks
<1>12. ASSUME NEW t \in Threads, NEW table \in {Metadata, Workspaces}, SelectRows(t, table)
       PROVE  Goal
  BY <1>12, CallMadeStep, StayingStep DEF SelectRows, locks, index
<1>13. ASSUME NEW t \in Threads, NEW table \in {Metadata, Workspaces}, NEW w \in Workers,
              CompareDocs(t, w, table)
       PROVE  Goal
  BY <1>13, CompareDocsStep DEF CompareDocs, locks, index
<1>14. QED
  BY <1>1, <1>2, <1>3, <1>4, <1>5, <1>6, <1>7, <1>8, <1>9, <1>10, <1>11, <1>12, <1>13
     DEF Next, CallOf
--------------------------------------------------------------------------------
(***************************************************************************)
(* MUTEX and the writers.                                                  *)
(***************************************************************************)
Places == {"out", "locked", "opened"}

LEMMA OnlyHolder ==
  ASSUME LockInv, NEW t \in Threads, Stands(t) # "out"
  PROVE  mutex = t /\ \A u \in Threads \ {t} : Stands(u) = "out"
BY DEF LockInv

LEMMA LockStep ==
  ASSUME ListsTyped, ListInv, LockInv, CountInv, NEW t \in Threads, WithLocks(t)
  PROVE  LockInv' /\ CountInv'
<1>. DEFINE Opened == \E u \in Threads : Stands(u) = "opened"
<1>1. PICK s \in Rows \cup {None} :
        Lock(t, s) \/ Unlock(t, s) \/ OpenWriter(t, s) \/ CloseWriter(t, s)
  BY DEF WithLocks
<1>2. ASSUME Lock(t, s)
      PROVE  LockInv' /\ CountInv'
  <2>1. /\ Stands(t) = "out" /\ Stands(t)' = "locked"
        /\ \A u \in Threads \ {t} : Stands(u)' = Stands(u)
    <3>1. AtCall(t, "lock", s) /\ CallMade(t)
      BY <1>2 DEF Lock
    <3>2. Before("lock") = "out" /\ After("lock") = "locked"
      BY DEF Before, After
    <3>3. QED
      BY <3>1, <3>2, CallMadeStep
  <2>2. mutex = None /\ mutex' = t /\ UNCHANGED << count, writers, buffer, disk >>
    BY <1>2 DEF Lock, index
  <2>3. \A u \in Threads : u # None
    BY NoneAssumption
  <2>4. LockInv'
    BY <2>1, <2>2, <2>3 DEF LockInv
  <2>5. Opened' <=> Opened
    BY <2>1
  <2>6. QED
    BY <2>2, <2>4, <2>5 DEF CountInv
<1>3. ASSUME Unlock(t, s)
      PROVE  LockInv' /\ CountInv'
  <2>1. /\ Stands(t) = "locked" /\ Stands(t)' = "out"
        /\ \A u \in Threads \ {t} : Stands(u)' = Stands(u)
    BY <1>3, CallMadeStep DEF Unlock, Before, After
  <2>2. mutex' = None /\ UNCHANGED << count, writers, buffer, disk >>
    BY <1>3 DEF Unlock, index
  <2>3. \A u \in Threads : u # None
    BY NoneAssumption
  <2>4. \A u \in Threads \ {t} : Stands(u) = "out"
    BY <2>1, OnlyHolder
  <2>5. LockInv'
    BY <2>1, <2>2, <2>3, <2>4 DEF LockInv
  <2>6. Opened' <=> Opened
    BY <2>1
  <2>7. QED
    BY <2>2, <2>5, <2>6 DEF CountInv
<1>4. ASSUME OpenWriter(t, s)
      PROVE  LockInv' /\ CountInv'
  <2>1. /\ Stands(t) = "locked" /\ Stands(t)' = "opened"
        /\ \A u \in Threads \ {t} : Stands(u)' = Stands(u)
    BY <1>4, CallMadeStep DEF OpenWriter, Before, After
  <2>2. mutex' = mutex /\ count' = count + 1 /\ UNCHANGED << writers, buffer, disk >>
    BY <1>4 DEF OpenWriter, locks
  <2>3. \A u \in Threads \ {t} : Stands(u) = "out"
    BY <2>1, OnlyHolder
  <2>4. LockInv'
    BY <2>1, <2>2 DEF LockInv
  <2>5. count = 0 /\ ~writers
    BY <2>1, <2>3 DEF CountInv
  <2>6. QED
    BY <2>1, <2>2, <2>4, <2>5 DEF CountInv
<1>5. ASSUME CloseWriter(t, s)
      PROVE  LockInv' /\ CountInv'
  <2>1. /\ Stands(t) = "opened" /\ Stands(t)' = "locked"
        /\ \A u \in Threads \ {t} : Stands(u)' = Stands(u)
    BY <1>5, CallMadeStep DEF CloseWriter, Before, After
  <2>2. count = 1
    BY <2>1 DEF CountInv
  <2>3. mutex' = mutex /\ count' = 0 /\ ~writers' /\ buffer' = buffer /\ disk' = buffer
    <3>1. count > 0 /\ count - 1 = 0 /\ ~(count > 1)
      BY <2>2
    <3>2. /\ mutex' = mutex /\ count' = count - 1 /\ buffer' = buffer /\ disk' = buffer
          /\ writers' = (writers /\ count > 1)
      BY <1>5, <3>1, Zenon DEF CloseWriter, locks
    <3>3. ~writers'
      BY <3>1, <3>2, Zenon
    <3>4. QED
      BY <3>1, <3>2, <3>3
  <2>4. \A u \in Threads \ {t} : Stands(u) = "out"
    BY <2>1, OnlyHolder
  <2>5. LockInv'
    BY <2>1, <2>3 DEF LockInv
  <2>6. QED
    BY <2>1, <2>3, <2>4, <2>5 DEF CountInv
<1>6. QED
  BY <1>1, <1>2, <1>3, <1>4, <1>5

LEMMA StayLocked ==
  ASSUME LockInv, StandsKept, UNCHANGED mutex
  PROVE  LockInv'
BY DEF LockInv, StandsKept

LEMMA StayCounted ==
  ASSUME CountInv, StandsKept, UNCHANGED count, writers' => writers \/ count = 1,
         count = 0 => buffer' = disk'
  PROVE  CountInv'
<1>. DEFINE Opened == \E u \in Threads : Stands(u) = "opened"
<1>1. Opened' <=> Opened
  BY DEF StandsKept
<1>2. QED
  BY <1>1 DEF CountInv

LEMMA CountStep ==
  ASSUME ListsTyped, ListInv, LockInv, CountInv, selected \in [Threads -> SUBSET Rows], Next
  PROVE  LockInv' /\ CountInv'
<1>1. ASSUME NEW t \in Threads, WithLocks(t)
      PROVE  LockInv' /\ CountInv'
  BY <1>1, LockStep
<1>2. ASSUME StandsKept, UNCHANGED << mutex, count >>
      PROVE  LockInv' /\ CountInv'
  <2>1. ASSUME NEW t \in Threads, NEW operation, NEW subject, AtCall(t, operation, subject),
               operation \in {"delete", "add", "optimize"}
        PROVE  count = 1
    <3>1. todo[t] # << >> /\ todo[t] \in Seq(Call) /\ Head(todo[t]) = << operation, subject >>
      BY <2>1 DEF AtCall, Idle, ListsTyped
    <3>2. todo[t][1] = << operation, subject >> /\ 1 \in 1 .. Len(todo[t])
      BY <3>1, TailElements
    <3>3. Stands(t) = "opened"
      BY <2>1, <3>2 DEF Stands, Place, Before
    <3>4. QED
      BY <3>3 DEF CountInv
  <2>2. (writers' => writers \/ count = 1) /\ (count = 0 => buffer' = disk')
    <3>1. ASSUME NEW t \in Threads, NEW r \in Rows, DeleteDocuments(t, r) \/ AddDocument(t, r)
          PROVE  count = 1
      BY <2>1, <3>1 DEF DeleteDocuments, AddDocument
    <3>2. ASSUME NEW t \in Threads, Merge(t)
          PROVE  count = 1
      BY <2>1, <3>2 DEF Merge
    <3>3. ASSUME NEW t \in Threads, CreateIndex(t)
          PROVE  writers' = writers /\ (buffer = disk => buffer' = disk')
      <4>1. CASE writers
        BY <3>3, <4>1 DEF CreateIndex
      <4>2. CASE ~writers
        <5>1. PICK emptied \in SUBSET Rows :
                /\ buffer' = [r \in Rows |-> IF r \in emptied THEN << >> ELSE buffer[r]]
                /\ disk' = [r \in Rows |-> IF r \in emptied THEN << >> ELSE disk[r]]
          BY <3>3, <4>2, Zenon DEF CreateIndex
        <5>2. writers' = writers
          BY <3>3 DEF CreateIndex
        <5>3. QED
          BY <5>1, <5>2
      <4>3. QED
        BY <4>1, <4>2
    <3>4. \/ \E t \in Threads, r \in Rows : DeleteDocuments(t, r) \/ AddDocument(t, r)
          \/ \E t \in Threads : Merge(t) \/ CreateIndex(t) \/ WithLocks(t)
          \/ UNCHANGED << writers, buffer, disk >>
      <4>1. ASSUME NEW t \in Threads, CallOf(t)
            PROVE  \/ \E r \in Rows : DeleteDocuments(t, r) \/ AddDocument(t, r)
                   \/ Merge(t) \/ CreateIndex(t) \/ WithLocks(t)
                   \/ UNCHANGED << writers, buffer, disk >>
        BY <4>1 DEF CallOf, WithLocks, ReadRow, ReadRowFails, AddFails, ReadInGroup,
           ReadInGroupFails, Sweep, EnterMonitor, LeaveMonitor, EnterInit, LeaveInit,
           CheckClosed, SelectRows, CompareDocs, index
      <4>2. \/ \E t \in Threads : CallOf(t)
            \/ UNCHANGED << writers, buffer, disk >>
        BY DEF Next, Change, Drop, Reindex, StartOptimise, StartRebuild, index
      <4>3. QED
        BY <4>1, <4>2
    <3>5. ASSUME NEW t \in Threads, WithLocks(t)
          PROVE  (writers' => writers \/ count = 1) /\ (count = 0 => buffer' = disk')
      BY <3>5, LockStep, <1>2 DEF CountInv
    <3>6. QED
      BY <3>1, <3>2, <3>3, <3>4, <3>5 DEF CountInv
  <2>3. QED
    BY <1>2, <2>2, StayLocked, StayCounted
<1>3. QED
  BY <1>1, <1>2, ListsStep
--------------------------------------------------------------------------------
(***************************************************************************)
(* Which calls are in the lists.                                           *)
(***************************************************************************)
LEMMA FreeAhead ==
  ASSUME NEW s, Free(s), NEW subject
  PROVE  /\ ~Ahead(s, << "add", subject >>) /\ ~Ahead(s, << "delete", subject >>)
         /\ ~Ahead(s, << "sweep", subject >>)
         /\ subject \in Rows => ~Ahead(s, << "lock", subject >>)
BY DEF Free, Ahead

LEMMA NothingAhead ==
  ASSUME NEW call
  PROVE  ~Ahead(<< >>, call)
BY DEF Ahead

LEMMA OneAhead ==
  ASSUME NEW first, NEW call
  PROVE  Ahead(<< first >>, call) <=> call = first
<1>. DEFINE s == << first >>
<1>1. Len(s) = 1 /\ s[1] = first
  OBVIOUS
<1>. HIDE DEF s
<1>2. Ahead(s, call) <=> call = first
  BY <1>1 DEF Ahead
<1>3. QED
  BY <1>2 DEF s

LEMMA IndexAhead ==
  ASSUME NEW r \in Rows, NEW call
  PROVE  Ahead(Index(r), call) <=>
           call \in { << "lock", r >>, << "open", r >>, << "delete", r >>, << "close", r >>,
                      << "add", r >>, << "unlock", r >> }
<1>. DEFINE s == << << "lock", r >>, << "open", r >>, << "delete", r >>, << "close", r >>,
                    << "open", r >>, << "add", r >>, << "close", r >>, << "unlock", r >> >>
<1>1. /\ Len(s) = 8 /\ s[1] = << "lock", r >> /\ s[2] = << "open", r >>
      /\ s[3] = << "delete", r >> /\ s[4] = << "close", r >> /\ s[5] = << "open", r >>
      /\ s[6] = << "add", r >> /\ s[7] = << "close", r >> /\ s[8] = << "unlock", r >>
  OBVIOUS
<1>2. Index(r) = s
  BY RowCalls
<1>. HIDE DEF s
<1>3. 1 .. Len(s) = {1, 2, 3, 4, 5, 6, 7, 8}
  BY <1>1
<1>4. Ahead(s, call) <=> \E i \in {1, 2, 3, 4, 5, 6, 7, 8} : s[i] = call
  BY <1>3 DEF Ahead
<1>5. QED
  BY <1>1, <1>2, <1>4

LEMMA UnindexAhead ==
  ASSUME NEW r \in Rows, NEW call
  PROVE  Ahead(Unindex(r), call) <=>
           call \in { << "lock", r >>, << "open", r >>, << "delete", r >>, << "close", r >>,
                      << "unlock", r >> }
<1>. DEFINE s == << << "lock", r >>, << "open", r >>, << "delete", r >>, << "close", r >>,
                    << "unlock", r >> >>
<1>1. /\ Len(s) = 5 /\ s[1] = << "lock", r >> /\ s[2] = << "open", r >>
      /\ s[3] = << "delete", r >> /\ s[4] = << "close", r >> /\ s[5] = << "unlock", r >>
  OBVIOUS
<1>2. Unindex(r) = s
  BY RowCalls
<1>. HIDE DEF s
<1>3. 1 .. Len(s) = {1, 2, 3, 4, 5}
  BY <1>1
<1>4. Ahead(s, call) <=> \E i \in {1, 2, 3, 4, 5} : s[i] = call
  BY <1>3 DEF Ahead
<1>5. QED
  BY <1>1, <1>2, <1>4

LEMMA GroupAhead ==
  ASSUME NEW rows, NEW call
  PROVE  Ahead(IndexGroup(rows), call) <=>
           call \in { << "lock", None >>, << "open", None >>, << "group", rows >>,
                      << "close", None >>, << "unlock", None >> }
<1>. DEFINE s == << << "lock", None >>, << "open", None >>, << "group", rows >>,
                    << "close", None >>, << "unlock", None >> >>
<1>1. /\ Len(s) = 5 /\ s[1] = << "lock", None >> /\ s[2] = << "open", None >>
      /\ s[3] = << "group", rows >> /\ s[4] = << "close", None >> /\ s[5] = << "unlock", None >>
  OBVIOUS
<1>2. IndexGroup(rows) = s
  BY DEF IndexGroup
<1>. HIDE DEF s
<1>3. 1 .. Len(s) = {1, 2, 3, 4, 5}
  BY <1>1
<1>4. Ahead(s, call) <=> \E i \in {1, 2, 3, 4, 5} : s[i] = call
  BY <1>3 DEF Ahead
<1>5. QED
  BY <1>1, <1>2, <1>4

LEMMA OptimiseAhead ==
  ASSUME NEW call, Ahead(Optimise, call)
  PROVE  call[2] = None /\ call[1] \in {"enter", "lock", "open", "optimize", "close", "unlock", "leave"}
<1>. DEFINE s == << << "enter", None >>, << "lock", None >>, << "open", None >>,
                    << "optimize", None >>, << "close", None >>, << "unlock", None >>,
                    << "leave", None >> >>
<1>1. /\ Len(s) = 7 /\ s[1] = << "enter", None >> /\ s[2] = << "lock", None >>
      /\ s[3] = << "open", None >> /\ s[4] = << "optimize", None >> /\ s[5] = << "close", None >>
      /\ s[6] = << "unlock", None >> /\ s[7] = << "leave", None >>
  OBVIOUS
<1>2. Optimise = s
  BY OptimiseCalls
<1>. HIDE DEF s
<1>3. 1 .. Len(s) = {1, 2, 3, 4, 5, 6, 7}
  BY <1>1
<1>4. Ahead(s, call) <=> \E i \in {1, 2, 3, 4, 5, 6, 7} : s[i] = call
  BY <1>3 DEF Ahead
<1>5. QED
  BY <1>1, <1>2, <1>4

LEMMA SelectionAhead ==
  ASSUME NEW call
  PROVE  Ahead(Tail(Tail(Rebuild)), call) <=>
           call \in { << "init", None >>, << "select", Metadata >>, << "docs", Metadata >>,
                      << "select", Workspaces >>, << "docs", Workspaces >>,
                      << "done", None >> }
<1>. DEFINE s == << << "init", None >>, << "select", Metadata >>, << "docs", Metadata >>,
                    << "select", Workspaces >>, << "docs", Workspaces >>, << "done", None >> >>
<1>1. /\ Len(s) = 6 /\ s[1] = << "init", None >>
      /\ s[2] = << "select", Metadata >> /\ s[3] = << "docs", Metadata >>
      /\ s[4] = << "select", Workspaces >> /\ s[5] = << "docs", Workspaces >>
      /\ s[6] = << "done", None >>
  OBVIOUS
<1>2. Tail(Tail(Rebuild)) = s
  BY RebuildTails
<1>. HIDE DEF s
<1>3. 1 .. Len(s) = {1, 2, 3, 4, 5, 6}
  BY <1>1
<1>4. Ahead(s, call) <=> \E i \in {1, 2, 3, 4, 5, 6} : s[i] = call
  BY <1>3 DEF Ahead
<1>5. QED
  BY <1>1, <1>2, <1>4

LEMMA RebuildCalls ==
  /\ \A call : Ahead(Tail(Rebuild), call) <=>
                 call = << "create", None >> \/ Ahead(Tail(Tail(Rebuild)), call)
  /\ \A call : Ahead(Rebuild, call) <=>
                 call = << "check", None >> \/ Ahead(Tail(Rebuild), call)
  /\ AheadOf(Tail(Rebuild), {"create"}) /\ AheadOf(Rebuild, {"create"})
<1>. DEFINE s == Tail(Rebuild)
<1>1. /\ Rebuild \in Seq(Call) /\ Rebuild # << >> /\ Head(Rebuild) = << "check", None >>
      /\ s \in Seq(Call) /\ s # << >> /\ Head(s) = << "create", None >>
  BY RebuildAhead
<1>. HIDE DEF s
<1>2. \A call : Ahead(s, call) <=> call = << "create", None >> \/ Ahead(Tail(s), call)
  BY <1>1, TailAhead
<1>3. AheadOf(s, {"create"})
  <2>1. Head(s)[1] \in {"create"}
    BY <1>1
  <2>2. QED
    BY <1>1, <2>1, TailAheadOf
<1>4. \A call : Ahead(Rebuild, call) <=> call = << "check", None >> \/ Ahead(Tail(Rebuild), call)
  BY <1>1, TailAhead
<1>5. AheadOf(Rebuild, {"create"})
  BY <1>1, <1>3, TailAheadOf DEF s
<1>6. QED
  BY <1>2, <1>3, <1>4, <1>5 DEF s

LEMMA LoopAhead ==
  ASSUME NEW operation, NEW rows, NEW call
  PROVE  Ahead(Loop(operation, rows), call) <=> rows # {} /\ call = << operation, rows >>
BY NothingAhead, OneAhead DEF Loop

LEMMA InGroupAhead ==
  ASSUME NEW r \in Rows, NEW exists \in BOOLEAN, NEW rows \in SUBSET Rows, NEW call
  PROVE  Ahead(InGroup(r, exists) \o Loop("group", rows), call) <=>
           \/ exists /\ call \in { << "delete", r >>, << "add", r >> }
           \/ r \in Workspaces /\ call = << "delete", r >>
           \/ rows # {} /\ call = << "group", rows >>
<1>. DEFINE first == InGroup(r, exists)
            rest == Loop("group", rows)
<1>1. first \in Seq(Call) /\ rest \in Seq(Call)
  BY InGroupBrought, LoopCalls
<1>2. Ahead(first, call) <=> \/ exists /\ call \in { << "delete", r >>, << "add", r >> }
                             \/ r \in Workspaces /\ call = << "delete", r >>
  <2>1. CASE exists
    <3>. DEFINE s == << << "delete", r >>, << "add", r >> >>
    <3>1. Len(s) = 2 /\ s[1] = << "delete", r >> /\ s[2] = << "add", r >>
      OBVIOUS
    <3>2. first = s
      BY <2>1, RowCalls DEF InGroup
    <3>. HIDE DEF s, first
    <3>3. 1 .. Len(s) = {1, 2}
      BY <3>1
    <3>4. Ahead(s, call) <=> \E i \in {1, 2} : s[i] = call
      BY <3>3 DEF Ahead
    <3>5. QED
      BY <2>1, <3>1, <3>2, <3>4
  <2>2. CASE ~exists /\ r \in Workspaces
    <3>1. first = << << "delete", r >> >>
      BY <2>2, RowCalls DEF InGroup
    <3>. HIDE DEF first
    <3>2. QED
      BY <2>2, <3>1, OneAhead
  <2>3. CASE ~exists /\ r \notin Workspaces
    <3>1. first = << >>
      BY <2>3, RowCalls DEF InGroup
    <3>. HIDE DEF first
    <3>2. QED
      BY <2>3, <3>1, NothingAhead
  <2>4. QED
    BY <2>1, <2>2, <2>3
<1>3. Ahead(rest, call) <=> rows # {} /\ call = << "group", rows >>
  BY LoopAhead
<1>. HIDE DEF first, rest
<1>4. Ahead(first \o rest, call) <=> Ahead(first, call) \/ Ahead(rest, call)
  BY <1>1, BothAhead
<1>5. QED
  BY <1>2, <1>3, <1>4 DEF first, rest

LEMMA SweepAhead ==
  ASSUME NEW r \in Rows, NEW rows \in SUBSET Rows, NEW call
  PROVE  Ahead(Unindex(r) \o Loop("sweep", rows), call) <=>
           \/ call \in { << "lock", r >>, << "open", r >>, << "delete", r >>, << "close", r >>,
                         << "unlock", r >> }
           \/ rows # {} /\ call = << "sweep", rows >>
<1>1. Unindex(r) \in Seq(Call) /\ Loop("sweep", rows) \in Seq(Call)
  BY UnindexBrought, LoopCalls DEF Brought
<1>2. QED
  BY <1>1, BothAhead, UnindexAhead, LoopAhead
--------------------------------------------------------------------------------
(***************************************************************************)
(* Who adds a document has read a row, and has deleted the old document.   *)
(***************************************************************************)
SeenTyped == seen \in [Threads -> 0 .. MaxChanges]

AddsAfter(t, r) ==
  Ahead(todo[t], << "add", r >>) =>
    /\ seen[t] # 0
    /\ Ahead(todo[t], << "delete", r >>) \/ (mutex = t /\ buffer[r] = << >>)

\* A thread that stands still while nobody else adds a document of the row.
LEMMA AddsStill ==
  ASSUME AddInv, NEW u \in Threads, NEW r \in Rows, seen'[u] = seen[u],
         todo'[u] = todo[u],
         mutex = u => mutex' = u /\ (buffer'[r] = buffer[r] \/ buffer'[r] = << >>)
  PROVE  AddsAfter(u, r)'
BY DEF AddInv, AddsAfter

\* A step of thread t that makes one call and leaves the others to their lists.
Made(t, operation, subject) ==
  /\ AtCall(t, operation, subject) /\ CallMade(t)
  /\ seen' = seen \/ (operation = "add" /\ seen' = [seen EXCEPT ![t] = 0])
  /\ operation = "lock" => mutex = None /\ mutex' = t
  /\ operation \notin {"lock", "unlock"} => mutex' = mutex
  /\ \A r \in Rows : \/ buffer'[r] = buffer[r] \/ buffer'[r] = << >>
                     \/ operation = "add" /\ subject = r
  /\ operation = "delete" => buffer'[subject] = << >>

LEMMA AddMade ==
  ASSUME ListsTyped, ListInv, LockInv, AddInv, SeenTyped,
         NEW t \in Threads, NEW operation, NEW subject, Made(t, operation, subject)
  PROVE  AddInv'
<1>. DEFINE made == << operation, subject >>
<1>. USE DEF Made
<1>1. /\ OthersKept(t) /\ Stands(t) = Before(operation)
      /\ \A call : Ahead(todo[t], call) <=> call = made \/ Ahead(todo'[t], call)
      /\ \A i \in 1 .. Len(todo'[t]) : MayPrecede(made, todo'[t][i])
  BY CallMadeStep
<1>2. operation \in {"unlock", "delete", "add"} => mutex = t
  BY <1>1 DEF Before, LockInv
<1>3. t # None
  BY NoneAssumption
<1>4. ASSUME NEW u \in Threads \ {t}, NEW r \in Rows
      PROVE  AddsAfter(u, r)'
  <2>1. seen'[u] = seen[u] /\ todo'[u] = todo[u]
    BY <1>1 DEF OthersKept, SeenTyped
  <2>2. u # None
    BY NoneAssumption
  <2>3. mutex = u => mutex' = u /\ (buffer'[r] = buffer[r] \/ buffer'[r] = << >>)
    BY <1>2, <2>2
  <2>4. QED
    BY <2>1, <2>3, AddsStill
<1>5. ASSUME NEW r \in Rows, Ahead(todo'[t], << "add", r >>)
      PROVE  /\ seen'[t] # 0
             /\ Ahead(todo'[t], << "delete", r >>) \/ (mutex' = t /\ buffer'[r] = << >>)
  <2>1. MayPrecede(made, << "add", r >>)
    BY <1>1, <1>5 DEF Ahead
  <2>2. operation \in {"lock", "open", "delete", "close"} /\ subject = r
    BY <2>1 DEF MayPrecede
  <2>3. Ahead(todo[t], << "add", r >>)
    BY <1>1, <1>5
  <2>4. seen[t] # 0 /\ (Ahead(todo[t], << "delete", r >>) \/ (mutex = t /\ buffer[r] = << >>))
    BY <2>3 DEF AddInv
  <2>5. seen' = seen
    BY <2>2
  <2>6. CASE operation = "delete"
    BY <1>2, <2>2, <2>4, <2>5, <2>6
  <2>7. CASE operation # "delete" /\ Ahead(todo[t], << "delete", r >>)
    <3>1. << "delete", r >> # made
      BY <2>7
    <3>2. QED
      BY <1>1, <2>4, <2>5, <2>7, <3>1
  <2>8. CASE operation # "delete" /\ mutex = t /\ buffer[r] = << >>
    BY <1>3, <2>2, <2>4, <2>5, <2>8
  <2>9. QED
    BY <2>4, <2>6, <2>7, <2>8
<1>6. QED
  BY <1>4, <1>5 DEF AddInv, AddsAfter

LEMMA AddBrings ==
  ASSUME ListsTyped, ListInv, AddInv, SeenTyped, NEW t \in Threads,
         NEW operation \in {"read", "group", "sweep", "docs"}, NEW subject,
         AtCall(t, operation, subject),
         NEW new, Brought(t, new, Before(operation)), CallBrings(t, new),
         UNCHANGED << mutex, buffer >>, \A u \in Threads \ {t} : seen'[u] = seen[u],
         \A r \in Rows :
           Ahead(new, << "add", r >>) => seen'[t] # 0 /\ Ahead(new, << "delete", r >>)
  PROVE  AddInv'
<1>1. /\ OthersKept(t) /\ Free(Tail(todo[t]))
      /\ \A call : Ahead(todo'[t], call) <=> Ahead(new, call) \/ Ahead(Tail(todo[t]), call)
  BY CallBringsStep
<1>2. \A u \in Threads \ {t}, r \in Rows : AddsAfter(u, r)'
  BY <1>1, AddsStill DEF OthersKept
<1>3. \A r \in Rows : AddsAfter(t, r)'
  BY <1>1, FreeAhead DEF AddsAfter
<1>4. QED
  BY <1>2, <1>3 DEF AddInv, AddsAfter

LEMMA AddNothing ==
  ASSUME AddInv, NEW t \in Threads, OthersKept(t), UNCHANGED << seen, mutex >>,
         \A r \in Rows : ~Ahead(todo'[t], << "add", r >>),
         \A r \in Rows : buffer'[r] = buffer[r] \/ buffer'[r] = << >>
  PROVE  AddInv'
<1>1. \A u \in Threads \ {t}, r \in Rows : AddsAfter(u, r)'
  BY AddsStill DEF OthersKept
<1>2. QED
  BY <1>1 DEF AddInv, AddsAfter

LEMMA NoAddInLists ==
  ASSUME NEW r \in Rows
  PROVE  /\ \A q \in Rows : /\ ~Ahead(IndexOne(q), << "add", r >>)
                            /\ ~Ahead(Unindex(q), << "add", r >>)
         /\ \A rows : ~Ahead(IndexGroup(rows), << "add", r >>)
         /\ ~Ahead(Optimise, << "add", r >>) /\ ~Ahead(Rebuild, << "add", r >>)
         /\ ~Ahead(Tail(Rebuild), << "add", r >>) /\ ~Ahead(Tail(Tail(Rebuild)), << "add", r >>)
         /\ ~Ahead(<< >>, << "add", r >>)
<1>1. ASSUME NEW q \in Rows
      PROVE  ~Ahead(IndexOne(q), << "add", r >>) /\ ~Ahead(Unindex(q), << "add", r >>)
  BY RowCalls, OneAhead, UnindexAhead
<1>2. \A rows : ~Ahead(IndexGroup(rows), << "add", r >>)
  BY GroupAhead
<1>3. ~Ahead(Optimise, << "add", r >>)
  BY OptimiseAhead
<1>4. ~Ahead(Rebuild, << "add", r >>) /\ ~Ahead(Tail(Rebuild), << "add", r >>)
      /\ ~Ahead(Tail(Tail(Rebuild)), << "add", r >>)
  BY RebuildCalls, SelectionAhead
<1>5. QED
  BY <1>1, <1>2, <1>3, <1>4, NothingAhead

LEMMA AddStep ==
  ASSUME TypeOK, ListInv, LockInv, AddInv, Next
  PROVE  AddInv'
<1>. ListsTyped /\ SeenTyped /\ selected \in [Threads -> SUBSET Rows]
  BY ListsAreTyped DEF TypeOK, SeenTyped
<1>1. ASSUME NEW t \in Requests, NEW r \in Rows, Change(t, r) \/ Drop(t, r) \/ Reindex(t, r)
      PROVE  AddInv'
  <2>1. /\ Begin(t, IndexOne(r)) \/ Begin(t, Unindex(r)) \/ Begin(t, IndexGroup({r}))
        /\ UNCHANGED << seen, mutex, buffer >> /\ t \in Threads
    BY <1>1 DEF Change, Drop, Reindex, locks, index, Threads
  <2>2. OthersKept(t) /\ todo'[t] \in {IndexOne(r), Unindex(r), IndexGroup({r})}
    BY <2>1, BeginSteps
  <2>3. QED
    BY <2>1, <2>2, AddNothing, NoAddInLists
<1>2. ASSUME NEW t \in Optimisers, StartOptimise(t)
      PROVE  AddInv'
  <2>1. Begin(t, Optimise) /\ UNCHANGED << seen, mutex, buffer >> /\ t \in Threads
    BY <1>2 DEF StartOptimise, locks, index, Threads
  <2>2. OthersKept(t) /\ todo'[t] = Optimise
    BY <2>1, BeginSteps
  <2>3. QED
    BY <2>1, <2>2, AddNothing, NoAddInLists
<1>3. ASSUME NEW t \in Rebuilders, StartRebuild(t)
      PROVE  AddInv'
  <2>1. Begin(t, Rebuild) /\ UNCHANGED << seen, mutex, buffer >> /\ t \in Threads
    BY <1>3 DEF StartRebuild, locks, index, Threads
  <2>2. OthersKept(t) /\ todo'[t] = Rebuild
    BY <2>1, BeginSteps
  <2>3. QED
    BY <2>1, <2>2, AddNothing, NoAddInLists
<1>4. ASSUME NEW t \in Threads, NEW r \in Rows, ReadRow(t, r)
      PROVE  AddInv'
  <2>. DEFINE new == Alone(r, row[r] # 0)
  <2>1. AtCall(t, "read", r) /\ CallBrings(t, new) /\ Brought(t, new, Before("read"))
    BY <1>4, ReadRowStep
  <2>2. /\ UNCHANGED << mutex, buffer >> /\ seen' = [seen EXCEPT ![t] = row[r]]
    BY <1>4 DEF ReadRow, locks, index
  <2>3. \A q \in Rows : Ahead(new, << "add", q >>) => row[r] # 0 /\ Ahead(new, << "delete", q >>)
    BY IndexAhead, NoAddInLists DEF Alone
  <2>4. seen'[t] = row[r] /\ \A u \in Threads \ {t} : seen'[u] = seen[u]
    BY <2>2 DEF SeenTyped
  <2>. HIDE DEF new
  <2>5. QED
    BY <2>1, <2>2, <2>3, <2>4, AddBrings
<1>5. ASSUME NEW t \in Threads, NEW rows \in SUBSET Rows, NEW r \in rows,
             ReadInGroup(t, rows, r)
      PROVE  AddInv'
  <2>. DEFINE new == InGroup(r, row[r] # 0) \o Loop("group", rows \ {r})
  <2>1. AtCall(t, "group", rows) /\ CallBrings(t, new) /\ Brought(t, new, Before("group"))
    BY <1>5, ReadInGroupStep
  <2>2. /\ UNCHANGED << mutex, buffer >> /\ seen' = [seen EXCEPT ![t] = row[r]]
    BY <1>5 DEF ReadInGroup, locks, index
  <2>3. \A q \in Rows : Ahead(new, << "add", q >>) => row[r] # 0 /\ Ahead(new, << "delete", q >>)
    <3>1. r \in Rows /\ (row[r] # 0) \in BOOLEAN /\ rows \ {r} \in SUBSET Rows
      OBVIOUS
    <3>2. \A call : Ahead(new, call) =>
                     \/ row[r] # 0 /\ call \in { << "delete", r >>, << "add", r >> }
                     \/ call[1] \in {"delete", "group"}
      <4>1. ASSUME NEW call, Ahead(new, call)
            PROVE  \/ row[r] # 0 /\ call \in { << "delete", r >>, << "add", r >> }
                   \/ call[1] \in {"delete", "group"}
        <5>1. \/ row[r] # 0 /\ call \in { << "delete", r >>, << "add", r >> }
              \/ r \in Workspaces /\ call = << "delete", r >>
              \/ rows \ {r} # {} /\ call = << "group", rows \ {r} >>
          BY <3>1, <4>1, InGroupAhead
        <5>2. QED
          BY <5>1
      <4>2. QED
        BY <4>1
    <3>3. row[r] # 0 => Ahead(new, << "delete", r >>)
      BY <3>1, InGroupAhead
    <3>. HIDE DEF new
    <3>4. QED
      BY <3>2, <3>3
  <2>4. seen'[t] = row[r] /\ \A u \in Threads \ {t} : seen'[u] = seen[u]
    BY <2>2 DEF SeenTyped
  <2>. HIDE DEF new
  <2>5. QED
    BY <2>1, <2>2, <2>3, <2>4, AddBrings
<1>6. ASSUME NEW t \in Threads, NEW gone \in SUBSET Rows, NEW r \in gone, Sweep(t, gone, r)
      PROVE  AddInv'
  <2>. DEFINE new == Unindex(r) \o Loop("sweep", gone \ {r})
  <2>1. AtCall(t, "sweep", gone) /\ CallBrings(t, new) /\ Brought(t, new, Before("sweep"))
    BY <1>6, SweepStep
  <2>2. UNCHANGED << seen, mutex, buffer >>
    BY <1>6 DEF Sweep, locks, index
  <2>3. \A q \in Rows : ~Ahead(new, << "add", q >>)
    BY SweepAhead
  <2>. HIDE DEF new
  <2>4. QED
    BY <2>1, <2>2, <2>3, AddBrings
<1>7. ASSUME NEW t \in Threads, NEW r \in Rows, DeleteDocuments(t, r)
      PROVE  AddInv'
  <2>1. buffer' = [buffer EXCEPT ![r] = << >>] /\ UNCHANGED << seen, mutex >>
    BY <1>7 DEF DeleteDocuments, locks
  <2>2. /\ \A q \in Rows : buffer'[q] = buffer[q] \/ buffer'[q] = << >>
        /\ buffer'[r] = << >>
    BY <2>1 DEF TypeOK
  <2>3. AtCall(t, "delete", r) /\ CallMade(t)
    BY <1>7 DEF DeleteDocuments
  <2>4. Made(t, "delete", r)
    BY <2>1, <2>2, <2>3 DEF Made
  <2>5. QED
    BY <2>4, AddMade
<1>8. ASSUME NEW t \in Threads, NEW r \in Rows, AddDocument(t, r) \/ AddFails(t, r)
      PROVE  AddInv'
  <2>1. /\ seen' = [seen EXCEPT ![t] = 0] /\ UNCHANGED mutex
        /\ buffer' = buffer \/ buffer' = [buffer EXCEPT ![r] = Append(@, seen[t])]
    BY <1>8 DEF AddDocument, AddFails, locks, index
  <2>2. \A q \in Rows : buffer'[q] = buffer[q] \/ q = r
    BY <2>1 DEF TypeOK
  <2>3. AtCall(t, "add", r) /\ CallMade(t)
    BY <1>8 DEF AddDocument, AddFails
  <2>4. Made(t, "add", r)
    BY <2>1, <2>2, <2>3 DEF Made
  <2>5. QED
    BY <2>4, AddMade
<1>9. ASSUME NEW t \in Threads, NEW s \in Rows \cup {None},
             Lock(t, s) \/ Unlock(t, s) \/ OpenWriter(t, s) \/ CloseWriter(t, s)
      PROVE  AddInv'
  <2>1. UNCHANGED << seen, buffer >> /\ CallMade(t)
    BY <1>9 DEF Lock, Unlock, OpenWriter, CloseWriter, index
  <2>2. \/ AtCall(t, "lock", s) /\ mutex = None /\ mutex' = t
        \/ AtCall(t, "unlock", s)
        \/ (AtCall(t, "open", s) \/ AtCall(t, "close", s)) /\ mutex' = mutex
    BY <1>9 DEF Lock, Unlock, OpenWriter, CloseWriter, locks
  <2>3. Made(t, "lock", s) \/ Made(t, "unlock", s) \/ Made(t, "open", s) \/ Made(t, "close", s)
    BY <2>1, <2>2 DEF Made
  <2>4. QED
    BY <2>3, AddMade
<1>10. ASSUME NEW t \in Threads,
              EnterMonitor(t) \/ Merge(t) \/ LeaveMonitor(t) \/ EnterInit(t) \/ LeaveInit(t)
       PROVE  AddInv'
  <2>1. UNCHANGED << seen, mutex, buffer >> /\ CallMade(t)
    BY <1>10 DEF EnterMonitor, Merge, LeaveMonitor, EnterInit, LeaveInit, locks, index
  <2>2. PICK operation \in {"enter", "optimize", "leave", "init", "done"} :
          AtCall(t, operation, None)
    BY <1>10 DEF EnterMonitor, Merge, LeaveMonitor, EnterInit, LeaveInit
  <2>3. Made(t, operation, None)
    BY <2>1, <2>2 DEF Made
  <2>4. QED
    BY <2>3, AddMade
<1>11. ASSUME NEW t \in Threads, CheckClosed(t)
       PROVE  AddInv'
  <2>1. OthersKept(t) /\ todo'[t] \in {<< >>, Tail(Rebuild)}
    BY <1>11, CheckClosedStep
  <2>2. UNCHANGED << seen, mutex, buffer >>
    BY <1>11 DEF CheckClosed, locks, index
  <2>3. QED
    BY <2>1, <2>2, AddNothing, NoAddInLists
<1>12. ASSUME NEW t \in Threads, CreateIndex(t)
       PROVE  AddInv'
  <2>1. OthersKept(t) /\ todo'[t] \in {<< >>, Tail(Tail(Rebuild))}
    BY <1>12, CreateIndexStep
  <2>2. /\ UNCHANGED << seen, mutex >>
        /\ \A r \in Rows : buffer'[r] = buffer[r] \/ buffer'[r] = << >>
    BY <1>12 DEF CreateIndex, locks
  <2>3. QED
    BY <2>1, <2>2, AddNothing, NoAddInLists
<1>13. ASSUME NEW t \in Threads, NEW table \in {Metadata, Workspaces}, SelectRows(t, table)
       PROVE  AddInv'
  <2>1. UNCHANGED << seen, mutex, buffer >> /\ CallMade(t) /\ AtCall(t, "select", table)
    BY <1>13 DEF SelectRows, locks, index
  <2>2. Made(t, "select", table)
    BY <2>1 DEF Made
  <2>3. QED
    BY <2>2, AddMade
<1>14. ASSUME NEW t \in Threads, NEW table \in {Metadata, Workspaces}, NEW w \in Workers,
              CompareDocs(t, w, table)
       PROVE  AddInv'
  <2>1. \A u \in Threads \ {t, w} : todo'[u] = todo[u]
    BY <1>14, CompareDocsStep
  <2>2. /\ Free(Tail(todo[t])) /\ Free(Task(t, table)) /\ Task(t, table) \in Seq(Call)
        /\ todo[w] \in Seq(Call) /\ todo'[w] = todo[w] \o Task(t, table)
    BY <1>14, CompareDocsStep
  <2>3. UNCHANGED << seen, mutex, buffer >>
    BY <1>14 DEF CompareDocs, locks, index
  <2>4. ASSUME NEW r \in Rows
        PROVE  ~Ahead(todo'[t], << "add", r >>)
    <3>1. \/ ~Ahead(todo'[t], << "add", r >>)
          \/ Ahead(Loop("sweep", Stale(t, table)), << "add", r >>)
          \/ Ahead(Tail(todo[t]), << "add", r >>)
      BY <1>14, CompareDocsStep
    <3>2. ~Ahead(Loop("sweep", Stale(t, table)), << "add", r >>)
      BY LoopAhead
    <3>3. QED
      BY <2>2, <3>1, <3>2, FreeAhead
  <2>5. ASSUME NEW call, call[1] \in {"add", "delete"}
        PROVE  Ahead(todo'[w], call) <=> Ahead(todo[w], call)
    <3>1. Ahead(todo'[w], call) <=> Ahead(todo[w], call) \/ Ahead(Task(t, table), call)
      BY <2>2, BothAhead
    <3>2. ~Ahead(Task(t, table), call)
      BY <2>2, <2>5 DEF Free, Ahead
    <3>3. QED
      BY <3>1, <3>2
  <2>6. \A r \in Rows : /\ Ahead(todo'[w], << "add", r >>) <=> Ahead(todo[w], << "add", r >>)
                        /\ Ahead(todo'[w], << "delete", r >>) <=> Ahead(todo[w], << "delete", r >>)
    BY <2>5
  <2>7. QED
    BY <2>1, <2>3, <2>4, <2>6 DEF AddInv
<1>15. ASSUME NEW t \in Threads, NEW r \in Rows, ReadRowFails(t, r)
       PROVE  AddInv'
  <2>1. UNCHANGED << seen, mutex, buffer >>
    BY <1>15 DEF ReadRowFails, locks, index
  <2>2. QED
    BY <1>15, <2>1, ReadRowFailsStep, AddBrings, NothingAhead
<1>16. ASSUME NEW t \in Threads, NEW rows \in SUBSET Rows, NEW r \in rows,
              ReadInGroupFails(t, rows, r)
       PROVE  AddInv'
  <2>. DEFINE new == Loop("group", rows \ {r})
  <2>1. AtCall(t, "group", rows) /\ CallBrings(t, new) /\ Brought(t, new, Before("group"))
    BY <1>16, ReadInGroupFailsStep
  <2>2. UNCHANGED << seen, mutex, buffer >>
    BY <1>16 DEF ReadInGroupFails, locks, index
  <2>3. \A q \in Rows : ~Ahead(new, << "add", q >>)
    BY LoopAhead
  <2>. HIDE DEF new
  <2>4. QED
    BY <2>1, <2>2, <2>3, AddBrings
<1>17. QED
  BY <1>1, <1>2, <1>3, <1>4, <1>5, <1>6, <1>7, <1>8, <1>9, <1>10, <1>11, <1>12, <1>13,
     <1>14, <1>15, <1>16
     DEF Next, CallOf
--------------------------------------------------------------------------------
(***************************************************************************)
(* Types, and the documents of a row.                                      *)
(***************************************************************************)
LEMMA AtAdd ==
  ASSUME ListsTyped, ListInv, AddInv, NEW t \in Threads, NEW r \in Rows, AtCall(t, "add", r)
  PROVE  seen[t] # 0 /\ buffer[r] = << >>
<1>. DEFINE s == todo[t]
<1>1. s \in Seq(Call) /\ s # << >> /\ Head(s) = << "add", r >> /\ Ordered(s)
  BY DEF AtCall, Idle, ListsTyped, ListInv, Listed
<1>2. seen[t] # 0 /\ (Ahead(s, << "delete", r >>) \/ buffer[r] = << >>)
  <2>1. Ahead(todo[t], << "add", r >>)
    BY <1>1, TailAhead
  <2>2. QED
    BY <2>1 DEF AddInv
<1>. HIDE DEF s
<1>3. ~Ahead(s, << "delete", r >>)
  <2>1. ASSUME Ahead(Tail(s), << "delete", r >>)
        PROVE  FALSE
    <3>1. MayPrecede(<< "add", r >>, << "delete", r >>)
      BY <1>1, <2>1, TailOrdered DEF Ahead
    <3>2. QED
      BY <3>1 DEF MayPrecede
  <2>2. << "add", r >> # << "delete", r >>
    OBVIOUS
  <2>3. QED
    BY <1>1, <2>1, <2>2, TailAhead
<1>4. QED
  BY <1>2, <1>3

LEMMA AtEnter ==
  ASSUME ListsTyped, ListInv, NEW t \in Threads, AtCall(t, "enter", None)
  PROVE  t \in Optimisers
<1>1. todo[t] \in Seq(Call) /\ todo[t] # << >> /\ Listed(t, todo[t])
      /\ Head(todo[t]) = << "enter", None >>
  BY DEF AtCall, Idle, ListsTyped, ListInv
<1>2. Head(todo[t])[1] \in {"enter"}
  BY <1>1
<1>3. AheadOf(todo[t], {"enter"})
  BY <1>1, <1>2, TailAheadOf
<1>4. QED
  BY <1>1, <1>3 DEF Listed

LEMMA TypeStep ==
  ASSUME TypeOK, ListInv, AddInv, Next
  PROVE  TypeOK'
<1>. USE DEF TypeOK
<1>0. ListsTyped /\ selected \in [Threads -> SUBSET Rows]
  BY ListsAreTyped
<1>a. todo' \in [Threads -> Seq(Operations \X Subjects)]
  BY <1>0, ListsStep DEF ListsTyped, Call
<1>b. Metadata \subseteq Rows /\ Workspaces \subseteq Rows
  BY DEF Rows
<1>1. ASSUME NEW t \in Requests, NEW r \in Rows, Change(t, r)
      PROVE  TypeOK'
  <2>1. changes + 1 \in 0 .. MaxChanges
    BY <1>1, BoundAssumption DEF Change
  <2>2. row' \in [Rows -> 0 .. MaxChanges] /\ changes' \in 0 .. MaxChanges
    BY <1>1, <2>1 DEF Change
  <2>3. QED
    BY <1>1, <1>a, <2>2 DEF Change, locks, index
<1>2. ASSUME NEW t \in Requests, NEW r \in Rows, Drop(t, r)
      PROVE  TypeOK'
  <2>1. row' \in [Rows -> 0 .. MaxChanges] /\ dropped' \subseteq Metadata
    BY <1>2, BoundAssumption DEF Drop
  <2>2. QED
    BY <1>2, <1>a, <2>1 DEF Drop, locks, index
<1>3. ASSUME NEW t \in Threads,
             (\E r \in Rows : Reindex(t, r)) \/ StartOptimise(t) \/ StartRebuild(t)
      PROVE  TypeOK'
  <2>1. maintenance' \in 0 .. MaxOperations
    <3>1. maintenance' = maintenance + 1 /\ changes + maintenance < MaxOperations
      BY <1>3 DEF Reindex, StartOptimise, StartRebuild
    <3>2. changes \in Nat /\ maintenance \in Nat /\ MaxOperations \in Nat
      BY BoundAssumption
    <3>3. QED
      BY <3>1, <3>2
  <2>2. QED
    BY <1>3, <1>a, <2>1 DEF Reindex, StartOptimise, StartRebuild, database, locks,
       index, auxiliary
<1>3a. ASSUME NEW t \in Threads, NEW rows \in SUBSET Rows, NEW r \in Rows,
              ReadRowFails(t, r) \/ ReadInGroupFails(t, rows, r)
       PROVE  TypeOK'
  <2>1. failed' \subseteq Rows
    BY <1>3a DEF ReadRowFails, ReadInGroupFails
  <2>2. UNCHANGED << database, seen, selected, locks, index, maintenance, overtaken >>
    BY <1>3a DEF ReadRowFails, ReadInGroupFails
  <2>3. QED
    BY <1>a, <2>1, <2>2 DEF database, locks, index
<1>4. ASSUME NEW t \in Threads, NEW rows \in SUBSET Rows, NEW r \in Rows,
             ReadRow(t, r) \/ ReadInGroup(t, rows, r) \/ Sweep(t, rows, r)
      PROVE  TypeOK'
  <2>1. seen' \in [Threads -> 0 .. MaxChanges]
    BY <1>4 DEF ReadRow, ReadInGroup, Sweep
  <2>2. UNCHANGED << database, selected, locks, index, maintenance, auxiliary >>
    BY <1>4 DEF ReadRow, ReadInGroup, Sweep
  <2>3. QED
    BY <1>a, <2>1, <2>2 DEF database, locks, index, auxiliary
<1>5. ASSUME NEW t \in Threads, NEW r \in Rows, DeleteDocuments(t, r)
      PROVE  TypeOK'
  <2>1. writers' \in BOOLEAN /\ buffer' \in [Rows -> Seq(1 .. MaxChanges)]
    BY <1>5 DEF DeleteDocuments
  <2>2. QED
    BY <1>5, <1>a, <2>1 DEF DeleteDocuments, database, locks, auxiliary
<1>6. ASSUME NEW t \in Threads, NEW r \in Rows, AddDocument(t, r)
      PROVE  TypeOK'
  <2>1. seen[t] \in 1 .. MaxChanges
    BY <1>0, <1>6, AtAdd, BoundAssumption DEF AddDocument
  <2>2. Append(buffer[r], seen[t]) \in Seq(1 .. MaxChanges)
    BY <2>1
  <2>3. writers' \in BOOLEAN /\ buffer' \in [Rows -> Seq(1 .. MaxChanges)]
    BY <1>6, <2>2 DEF AddDocument
  <2>4. seen' \in [Threads -> 0 .. MaxChanges] /\ failed' \subseteq Rows
    BY <1>6, BoundAssumption DEF AddDocument
  <2>5. QED
    BY <1>6, <1>a, <2>3, <2>4 DEF AddDocument, database, locks
<1>7. ASSUME NEW t \in Threads, NEW r \in Rows, AddFails(t, r)
      PROVE  TypeOK'
  <2>1. seen' \in [Threads -> 0 .. MaxChanges] /\ failed' \subseteq Rows
    BY <1>7, BoundAssumption DEF AddFails
  <2>2. QED
    BY <1>7, <1>a, <2>1 DEF AddFails, database, locks, index
<1>8. ASSUME NEW t \in Threads, NEW s \in Rows \cup {None}, Lock(t, s) \/ Unlock(t, s)
      PROVE  TypeOK'
  BY <1>8, <1>a DEF Lock, Unlock, database, index, auxiliary
<1>9. ASSUME NEW t \in Threads, NEW s \in Rows \cup {None}, OpenWriter(t, s)
      PROVE  TypeOK'
  BY <1>9, <1>a DEF OpenWriter, database, locks, auxiliary
<1>10. ASSUME NEW t \in Threads, NEW s \in Rows \cup {None}, CloseWriter(t, s)
       PROVE  TypeOK'
  <2>1. count' \in Nat
    BY <1>10 DEF CloseWriter
  <2>2. writers' \in BOOLEAN
    BY <1>10, Zenon DEF CloseWriter
  <2>3. disk' \in [Rows -> Seq(1 .. MaxChanges)]
    BY <1>10 DEF CloseWriter
  <2>4. UNCHANGED << database, seen, selected, locks, buffer, maintenance, auxiliary >>
    BY <1>10 DEF CloseWriter
  <2>5. QED
    BY <1>a, <2>1, <2>2, <2>3, <2>4 DEF database, locks, auxiliary
<1>11. ASSUME NEW t \in Threads, EnterMonitor(t) \/ LeaveMonitor(t)
       PROVE  TypeOK'
  <2>1. monitor' \in Optimisers \cup {None}
    BY <1>0, <1>11, AtEnter DEF EnterMonitor, LeaveMonitor
  <2>2. QED
    BY <1>11, <1>a, <2>1 DEF EnterMonitor, LeaveMonitor, database, index, auxiliary
<1>12. ASSUME NEW t \in Threads, Merge(t) \/ CheckClosed(t)
       PROVE  TypeOK'
  BY <1>12, <1>a DEF Merge, CheckClosed, database, locks, index, auxiliary
<1>13. ASSUME NEW t \in Threads, CreateIndex(t)
       PROVE  TypeOK'
  <2>1. buffer' \in [Rows -> Seq(1 .. MaxChanges)] /\ disk' \in [Rows -> Seq(1 .. MaxChanges)]
    <3>1. << >> \in Seq(1 .. MaxChanges)
      OBVIOUS
    <3>2. CASE writers
      BY <1>13, <3>2 DEF CreateIndex
    <3>3. CASE ~writers
      <4>1. PICK emptied \in SUBSET Rows :
              /\ buffer' = [r \in Rows |-> IF r \in emptied THEN << >> ELSE buffer[r]]
              /\ disk' = [r \in Rows |-> IF r \in emptied THEN << >> ELSE disk[r]]
        BY <1>13, <3>3 DEF CreateIndex
      <4>2. QED
        BY <3>1, <4>1
    <3>4. QED
      BY <3>2, <3>3
  <2>2. QED
    BY <1>13, <1>a, <2>1 DEF CreateIndex, database, locks, auxiliary
<1>14. ASSUME NEW t \in Threads, NEW table \in {Metadata, Workspaces}, SelectRows(t, table)
       PROVE  TypeOK'
  <2>1. selected' \in [Threads -> SUBSET Rows]
    BY <1>14, <1>b DEF SelectRows
  <2>2. QED
    BY <1>14, <1>a, <2>1 DEF SelectRows, database, locks, index, auxiliary
<1>14a. ASSUME NEW t \in Threads, EnterInit(t) \/ LeaveInit(t)
        PROVE  TypeOK'
  <2>1. selected' \in [Threads -> SUBSET Rows] /\ initialiser' \in Threads \cup {None}
    BY <1>14a DEF EnterInit, LeaveInit, locks
  <2>2. QED
    BY <1>14a, <1>a, <2>1 DEF EnterInit, LeaveInit, database, index, auxiliary
<1>15. ASSUME NEW t \in Threads, NEW table \in {Metadata, Workspaces}, NEW w \in Workers,
              CompareDocs(t, w, table)
       PROVE  TypeOK'
  BY <1>15, <1>a DEF CompareDocs, database, locks, index, auxiliary
<1>. HIDE DEF TypeOK
<1>16. ASSUME NEW t \in Threads, CallOf(t)
       PROVE  TypeOK'
  BY <1>3a, <1>4, <1>5, <1>6, <1>7, <1>8, <1>9, <1>10, <1>11, <1>12, <1>13, <1>14, <1>14a,
     <1>15, <1>16
     DEF CallOf
<1>17. Requests \subseteq Threads /\ Optimisers \subseteq Threads /\ Rebuilders \subseteq Threads
  BY DEF Threads
<1>18. QED
  BY <1>1, <1>2, <1>3, <1>16, <1>17 DEF Next

LEMMA DocumentsStep ==
  ASSUME TypeOK, ListInv, AddInv, AtMostOneDocument, Next
  PROVE  AtMostOneDocument'
<1>. USE DEF AtMostOneDocument
<1>0. ListsTyped /\ buffer \in [Rows -> Seq(1 .. MaxChanges)]
  BY ListsAreTyped DEF TypeOK
<1>1. ASSUME NEW t \in Threads, NEW r \in Rows, AddDocument(t, r)
      PROVE  AtMostOneDocument'
  <2>1. buffer[r] = << >>
    BY <1>0, <1>1, AtAdd DEF AddDocument
  <2>2. buffer' = [buffer EXCEPT ![r] = << seen[t] >>] /\ disk' = disk
    BY <1>1, <2>1 DEF AddDocument
  <2>3. Len(<< seen[t] >>) = 1
    OBVIOUS
  <2>4. QED
    BY <1>0, <2>2, <2>3
<1>2. ASSUME NEW t \in Threads, NEW r \in Rows, DeleteDocuments(t, r)
      PROVE  AtMostOneDocument'
  <2>1. buffer' = [buffer EXCEPT ![r] = << >>] /\ disk' = disk /\ Len(<< >>) = 0
    BY <1>2 DEF DeleteDocuments
  <2>2. QED
    BY <1>0, <2>1
<1>3. ASSUME NEW t \in Threads, NEW s \in Rows \cup {None}, CloseWriter(t, s)
      PROVE  AtMostOneDocument'
  BY <1>3 DEF CloseWriter
<1>4. ASSUME NEW t \in Threads, CreateIndex(t)
      PROVE  AtMostOneDocument'
  <2>1. \A r \in Rows : /\ buffer'[r] = buffer[r] \/ buffer'[r] = << >>
                        /\ disk'[r] = disk[r] \/ disk'[r] = << >>
    BY <1>4 DEF CreateIndex
  <2>2. Len(<< >>) = 0
    OBVIOUS
  <2>3. QED
    BY <2>1, <2>2
<1>5. CASE UNCHANGED << buffer, disk >>
  BY <1>5
<1>6. \/ UNCHANGED << buffer, disk >>
      \/ \E t \in Threads : \/ \E r \in Rows : AddDocument(t, r) \/ DeleteDocuments(t, r)
                            \/ \E s \in Rows \cup {None} : CloseWriter(t, s)
                            \/ CreateIndex(t)
  <2>1. ASSUME NEW t \in Threads, CallOf(t)
        PROVE  \/ UNCHANGED << buffer, disk >>
               \/ \E r \in Rows : AddDocument(t, r) \/ DeleteDocuments(t, r)
               \/ \E s \in Rows \cup {None} : CloseWriter(t, s)
               \/ CreateIndex(t)
    BY <2>1 DEF CallOf, ReadRow, ReadRowFails, AddFails, ReadInGroup, ReadInGroupFails, Sweep,
       Lock, Unlock, OpenWriter, EnterMonitor, LeaveMonitor, EnterInit, LeaveInit, Merge,
       CheckClosed, SelectRows, CompareDocs, index
  <2>2. (\E t \in Threads : CallOf(t)) \/ UNCHANGED << buffer, disk >>
    BY DEF Next, Change, Drop, Reindex, StartOptimise, StartRebuild, index
  <2>3. QED
    BY <2>1, <2>2
<1>. HIDE DEF AtMostOneDocument
<1>7. QED
  BY <1>1, <1>2, <1>3, <1>4, <1>5, <1>6

--------------------------------------------------------------------------------
\* The part of the invariant that does not speak of the rows as they are.
WriterInv == TypeOK /\ ListInv /\ LockInv /\ CountInv /\ AddInv /\ AtMostOneDocument

LEMMA InitWriter ==
  ASSUME Init
  PROVE  WriterInv
<1>. USE DEF Init
<1>1. TypeOK
  <2>1. << >> \in Seq(Operations \X Subjects) /\ << >> \in Seq(1 .. MaxChanges)
    OBVIOUS
  <2>2. 0 \in 0 .. MaxChanges /\ 0 \in 0 .. MaxOperations /\ 0 \in Nat
    BY BoundAssumption
  <2>3. buffer \in [Rows -> Seq(1 .. MaxChanges)] /\ disk \in [Rows -> Seq(1 .. MaxChanges)]
        /\ todo \in [Threads -> Seq(Operations \X Subjects)]
    BY <2>1
  <2>4. row \in [Rows -> 0 .. MaxChanges] /\ seen \in [Threads -> 0 .. MaxChanges]
    BY <2>2
  <2>5. QED
    BY <2>2, <2>3, <2>4 DEF TypeOK
<1>2. ListInv
  BY NothingListed DEF ListInv
<1>3. \A t \in Threads : Stands(t) = "out"
  BY NothingListed DEF Stands
<1>4. LockInv
  BY <1>3, NoneAssumption DEF LockInv
<1>5. CountInv
  BY <1>3 DEF CountInv
<1>6. AddInv
  BY NothingAhead DEF AddInv
<1>7. AtMostOneDocument
  <2>1. Len(<< >>) = 0
    OBVIOUS
  <2>2. QED
    BY <2>1 DEF AtMostOneDocument
<1>8. QED
  BY <1>1, <1>2, <1>4, <1>5, <1>6, <1>7 DEF WriterInv

LEMMA StutterWriter ==
  ASSUME WriterInv, UNCHANGED vars
  PROVE  WriterInv'
BY DEF WriterInv, TypeOK, ListInv, LockInv, CountInv, AddInv, AtMostOneDocument,
   Stands, vars,
       database, locks, index, auxiliary

LEMMA WriterStep ==
  ASSUME WriterInv, Next
  PROVE  WriterInv'
<1>1. ListsTyped /\ selected \in [Threads -> SUBSET Rows]
  BY ListsAreTyped DEF WriterInv, TypeOK
<1>2. QED
  BY <1>1, ListsStep, CountStep, AddStep, TypeStep, DocumentsStep DEF WriterInv

LEMMA WriterInvariant == Spec => []WriterInv
BY InitWriter, WriterStep, StutterWriter, PTL DEF Spec

\* The state of every thread, of the writers and of the index is as declared.
THEOREM TypeCorrect == Spec => []TypeOK
BY WriterInvariant, PTL DEF WriterInv

(***************************************************************************)
(* A search finds a record once: deletion and addition of a document are   *)
(* one piece for the holder of MUTEX, whatever other threads do.           *)
(***************************************************************************)
THEOREM FoundOnce == Spec => []AtMostOneDocument
BY WriterInvariant, PTL DEF WriterInv

LEMMA NobodyOpened ==
  ASSUME LockInv, CountInv, Quiet
  PROVE  ClosedWhenQuiet
<1>1. \A t \in Threads : Stands(t) = "out"
  BY NothingListed DEF Quiet, Idle, Stands
<1>2. count = 0
  BY <1>1 DEF CountInv
<1>3. QED
  BY <1>2 DEF CountInv, ClosedWhenQuiet

(***************************************************************************)
(* References and MUTEX are given back on every path: when no thread is at *)
(* work the writers are closed and nothing is left in their buffers.       *)
(***************************************************************************)
THEOREM ClosedAtEnd == Spec => []ClosedWhenQuiet
<1>1. WriterInv => ClosedWhenQuiet
  BY NobodyOpened DEF WriterInv, ClosedWhenQuiet
<1>2. QED
  BY <1>1, WriterInvariant, PTL
--------------------------------------------------------------------------------
(***************************************************************************)
(* What stays as it is in a step, for the rows and for the rebuilding.     *)
(***************************************************************************)
LEMMA AheadOfCall ==
  ASSUME NEW s, NEW operations
  PROVE  AheadOf(s, operations) <=> \E call : call[1] \in operations /\ Ahead(s, call)
BY DEF AheadOf, Ahead

LEMMA AtIsAheadAfter ==
  ASSUME ListsTyped', NEW t \in Threads, NEW operation, NEW subject,
         AtCall(t, operation, subject)'
  PROVE  Ahead(todo'[t], << operation, subject >>)
<1>1. todo'[t] \in Seq(Call) /\ todo'[t] # << >> /\ Head(todo'[t]) = << operation, subject >>
  BY DEF AtCall, Idle, ListsTyped
<1>2. QED
  BY <1>1, TailAhead

LEMMA MadeFacts ==
  ASSUME ListsTyped, ListInv, NEW t \in Threads, NEW operation, NEW subject,
         AtCall(t, operation, subject), CallMade(t)
  PROVE  /\ ListsTyped' /\ OthersKept(t) /\ Stands(t) = Before(operation)
         /\ \A call : Ahead(todo[t], call) <=>
                        call = << operation, subject >> \/ Ahead(todo'[t], call)
         /\ \A call : Ahead(todo'[t], call) => MayPrecede(<< operation, subject >>, call)
         /\ \A r \in Rows : ~AtCall(t, "lock", r)'
<1>1. /\ ListsTyped' /\ OthersKept(t) /\ Stands(t) = Before(operation)
      /\ \A call : Ahead(todo[t], call) <=>
                     call = << operation, subject >> \/ Ahead(todo'[t], call)
      /\ \A i \in 1 .. Len(todo'[t]) : MayPrecede(<< operation, subject >>, todo'[t][i])
  BY CallMadeStep
<1>2. \A call : Ahead(todo'[t], call) => MayPrecede(<< operation, subject >>, call)
  BY <1>1 DEF Ahead
<1>3. ASSUME NEW r \in Rows, AtCall(t, "lock", r)'
      PROVE  FALSE
  <2>1. MayPrecede(<< operation, subject >>, << "lock", r >>)
    BY <1>1, <1>2, <1>3, AtIsAheadAfter
  <2>2. QED
    BY <2>1 DEF MayPrecede
<1>4. QED
  BY <1>1, <1>2, <1>3

LEMMA HolderStands ==
  ASSUME LockInv, NEW t \in Threads, NEW operation, Stands(t) = Before(operation)
  PROVE  /\ Before(operation) = "out" => mutex # t
         /\ Before(operation) # "out" => mutex = t
BY DEF LockInv

\* A thread with the same list, and a row as it was.
LEMMA StillRight ==
  ASSUME NEW u \in Threads, NEW r \in Rows, todo'[u] = todo[u], seen'[u] = seen[u],
         row'[r] = row[r]
  PROVE  /\ AtCall(u, "lock", r)' <=> AtCall(u, "lock", r)
         /\ Right(u, r)' <=> Right(u, r)
         /\ Touches(u, r)' <=> Touches(u, r)
         /\ Waits(u, r)' <=> Waits(u, r)
BY DEF AtCall, Idle, Right, Touches, Waits

LEMMA WillKept ==
  ASSUME NEW u \in Threads, NEW r \in Rows, WillRead(u, r) \/ WillHandOut(u, r),
         row'[r] = row[r], r \in selected[u] => r \in selected'[u],
         \A call : call[1] \in {"read", "group", "docs", "select"} /\ Ahead(todo[u], call)
                     => Ahead(todo'[u], call),
         Ahead(todo'[u], << "create", None >>) => Ahead(todo[u], << "create", None >>)
  PROVE  WillIndex(r)'
<1>1. \A x : /\ Ahead(todo[u], << "read", x >>) => Ahead(todo'[u], << "read", x >>)
             /\ Ahead(todo[u], << "group", x >>) => Ahead(todo'[u], << "group", x >>)
             /\ Ahead(todo[u], << "docs", x >>) => Ahead(todo'[u], << "docs", x >>)
             /\ Ahead(todo[u], << "select", x >>) => Ahead(todo'[u], << "select", x >>)
  OBVIOUS
<1>2. Indexable(r)' <=> Indexable(r)
  BY DEF Indexable
<1>3. CASE WillRead(u, r)
  <2>1. WillRead(u, r)'
    BY <1>1, <1>2, <1>3 DEF WillRead
  <2>2. QED
    BY <2>1 DEF WillIndex
<1>4. CASE WillHandOut(u, r)
  <2>1. WillHandOut(u, r)'
    BY <1>1, <1>2, <1>4 DEF WillHandOut, Selecting
  <2>2. QED
    BY <2>1 DEF WillIndex
<1>5. QED
  BY <1>3, <1>4

LEMMA OthersWill ==
  ASSUME NEW t \in Threads, OthersKept(t), NEW u \in Threads \ {t}, NEW r \in Rows,
         WillRead(u, r) \/ WillHandOut(u, r) \/ Waits(u, r),
         row'[r] = row[r], r \in selected[u] => r \in selected'[u]
  PROVE  WillIndex(r)'
<1>1. todo'[u] = todo[u]
  BY DEF OthersKept
<1>2. CASE Waits(u, r)
  <2>1. Waits(u, r)'
    BY <1>1, <1>2 DEF Waits, AtCall, Idle
  <2>2. QED
    BY <2>1 DEF WillIndex
<1>3. CASE WillRead(u, r) \/ WillHandOut(u, r)
  BY <1>1, <1>3, WillKept
<1>4. QED
  BY <1>2, <1>3

\* The other threads keep what they know of the rows.
LEMMA OthersRows ==
  ASSUME WaitingInv, HolderInv, NEW t \in Threads, OthersKept(t), UNCHANGED << row, overtaken >>,
         \A u \in Threads \ {t} : seen'[u] = seen[u] /\ (mutex' = u => mutex = u),
         \/ \A r \in Rows : /\ WillIndex(r) => WillIndex(r)' \/ r \in failed'
                            /\ r \in failed => r \in failed'
         \/ mutex' \in {t, None}
  PROVE  \A u \in Threads \ {t}, r \in Rows : WaitsRight(u, r)' /\ HoldsRight(u, r)'
<1>1. ASSUME NEW u \in Threads \ {t}, NEW r \in Rows
      PROVE  WaitsRight(u, r)' /\ HoldsRight(u, r)'
  <2>1. /\ AtCall(u, "lock", r)' <=> AtCall(u, "lock", r)
        /\ Right(u, r)' <=> Right(u, r)
        /\ Touches(u, r)' <=> Touches(u, r)
    BY StillRight DEF OthersKept
  <2>2. WaitsRight(u, r) /\ HoldsRight(u, r) /\ u # None
    BY NoneAssumption DEF WaitingInv, HolderInv
  <2>3. WaitsRight(u, r)'
    BY <2>1, <2>2 DEF WaitsRight
  <2>4. CASE mutex' \in {t, None}
    <3>1. mutex' # u
      BY <2>2, <2>4
    <3>2. QED
      BY <2>3, <3>1 DEF HoldsRight
  <2>5. CASE mutex' \notin {t, None}
    <3>1. /\ WillIndex(r) => WillIndex(r)' \/ r \in failed'
          /\ r \in failed => r \in failed'
      BY <2>5
    <3>2. mutex' = u => mutex = u
      OBVIOUS
    <3>3. HoldsRight(u, r)'
      BY <2>1, <2>2, <3>1, <3>2 DEF HoldsRight
    <3>4. QED
      BY <2>3, <3>3
  <2>6. QED
    BY <2>4, <2>5
<1>2. QED
  BY <1>1

LEMMA RebuildingThreads ==
  ASSUME ListInv, NEW t \in Threads, NEW operation \in {"select", "docs", "sweep"}, NEW subject,
         Ahead(todo[t], << operation, subject >>)
  PROVE  t \in Rebuilders /\ todo[t] # << >> /\ AheadOf(todo[t], {"select", "docs", "sweep"})
<1>1. AheadOf(todo[t], RebuildOperations) /\ AheadOf(todo[t], {"select", "docs", "sweep"})
  BY AheadOfCall DEF RebuildOperations
<1>2. todo[t] # << >>
  BY NothingAhead
<1>3. QED
  BY <1>1, <1>2 DEF ListInv, Listed

LEMMA OverlooksRow ==
  ASSUME ListsTyped, NEW u \in Threads, NEW r
  PROVE  /\ \A table \in {Metadata, Workspaces} :
              AtCall(u, "docs", table) /\ r \in table \ selected[u] => Overlooks(u, r)
         /\ \A gone : Ahead(todo[u], << "sweep", gone >>) /\ r \in gone => Overlooks(u, r)
<1>1. DOMAIN todo[u] = 1 .. Len(todo[u])
  BY DEF ListsTyped
<1>2. QED
  BY <1>1 DEF Overlooks, Ahead

LEMMA RebuildKept ==
  ASSUME ListsTyped, RebuildInv, NEW t \in Threads, OthersKept(t),
         \A u \in Threads \ {t} : selected'[u] = selected[u],
         \A u \in Threads, r \in Rows : Overlooks(u, r) /\ Gone(r) => Gone(r)',
         \A table \in {Metadata, Workspaces} : TableFound(t, table)',
         \A gone \in SUBSET Rows :
           Ahead(todo'[t], << "sweep", gone >>) =>
             \E all \in SUBSET Rows : gone \subseteq all /\ Ahead(todo[t], << "sweep", all >>)
  PROVE  RebuildInv'
<1>1. \A u \in Threads \ {t} : todo'[u] = todo[u]
  BY DEF OthersKept
<1>2. ASSUME NEW u \in Threads \ {t}, NEW table \in {Metadata, Workspaces}
      PROVE  TableFound(u, table)'
  <2>1. SUFFICES ASSUME AtCall(u, "docs", table)', NEW r \in table \ selected'[u]
                 PROVE  Gone(r)'
    BY DEF TableFound
  <2>2. AtCall(u, "docs", table) /\ r \in table \ selected[u]
    BY <1>1, <2>1 DEF AtCall, Idle
  <2>3. Gone(r) /\ r \in Rows
    BY <2>2 DEF RebuildInv, TableFound, Rows
  <2>4. Overlooks(u, r)
    BY <2>2, OverlooksRow
  <2>5. QED
    BY <2>3, <2>4
<1>3. ASSUME NEW u \in Threads, NEW gone \in SUBSET Rows
      PROVE  SweepRight(u, gone)'
  <2>1. SUFFICES ASSUME Ahead(todo'[u], << "sweep", gone >>), NEW r \in gone
                 PROVE  Gone(r)'
    BY DEF SweepRight
  <2>2. PICK all \in SUBSET Rows : gone \subseteq all /\ Ahead(todo[u], << "sweep", all >>)
    BY <1>1, <2>1
  <2>3. Gone(r) /\ r \in Rows /\ r \in all
    BY <2>1, <2>2 DEF RebuildInv, SweepRight
  <2>4. Overlooks(u, r)
    BY <2>2, <2>3, OverlooksRow
  <2>5. QED
    BY <2>3, <2>4
<1>4. QED
  BY <1>2, <1>3 DEF RebuildInv
--------------------------------------------------------------------------------
(***************************************************************************)
(* The steps, and the rows.                                                *)
(***************************************************************************)
RowInv == WaitingInv /\ HolderInv /\ BufferInv /\ RebuildInv

Knowledge == << row, selected, overtaken >>

LEMMA WillIsOf ==
  ASSUME NEW r, WillIndex(r)
  PROVE  \E t \in Threads : WillRead(t, r) \/ WillHandOut(t, r) \/ Waits(t, r)
BY DEF WillIndex

\* A call that is not a reading does not take anything from what is read again.
LEMMA MadeWill ==
  ASSUME ListsTyped, ListInv, NEW t \in Threads, NEW operation, NEW subject,
         operation \notin {"read", "group", "docs", "select", "create"},
         AtCall(t, operation, subject), CallMade(t), UNCHANGED Knowledge,
         NEW r \in Rows, WillIndex(r)
  PROVE  WillIndex(r)' \/ (operation = "lock" /\ Waits(t, r))
<1>1. /\ OthersKept(t)
      /\ \A call : Ahead(todo[t], call) <=>
                     call = << operation, subject >> \/ Ahead(todo'[t], call)
  BY MadeFacts
<1>2. PICK u \in Threads : WillRead(u, r) \/ WillHandOut(u, r) \/ Waits(u, r)
  BY WillIsOf
<1>3. row'[r] = row[r] /\ selected' = selected
  BY DEF Knowledge
<1>4. CASE u # t
  BY <1>1, <1>2, <1>3, <1>4, OthersWill
<1>5. CASE u = t /\ Waits(u, r)
  BY <1>5 DEF Waits, AtCall
<1>6. CASE u = t /\ (WillRead(u, r) \/ WillHandOut(u, r))
  <2>1. \A call : call[1] \in {"read", "group", "docs", "select"} /\ Ahead(todo[u], call)
                    => Ahead(todo'[u], call)
    BY <1>1, <1>6
  <2>2. Ahead(todo'[u], << "create", None >>) => Ahead(todo[u], << "create", None >>)
    BY <1>1, <1>6
  <2>3. QED
    BY <1>3, <1>6, <2>1, <2>2, WillKept
<1>7. QED
  BY <1>2, <1>4, <1>5, <1>6

LEMMA MadeRebuild ==
  ASSUME ListsTyped, ListInv, RebuildInv, NEW t \in Threads, NEW operation, NEW subject,
         operation # "select", AtCall(t, operation, subject), CallMade(t),
         UNCHANGED << row, overtaken >>,
         \A u \in Threads \ {t} : selected'[u] = selected[u]
  PROVE  RebuildInv'
<1>1. /\ OthersKept(t) /\ ~ToCompare(todo'[t])
      /\ \A call : Ahead(todo[t], call) <=>
                     call = << operation, subject >> \/ Ahead(todo'[t], call)
  BY CallMadeStep
<1>2. \A r : Gone(r)' <=> Gone(r)
  BY DEF Gone
<1>3. \A table : TableFound(t, table)'
  BY <1>1 DEF TableFound, AtCall, Idle, ToCompare
<1>4. \A gone : Ahead(todo'[t], << "sweep", gone >>) => Ahead(todo[t], << "sweep", gone >>)
  BY <1>1
<1>5. QED
  BY <1>1, <1>2, <1>3, <1>4, RebuildKept

\* Only the holder of MUTEX has rows in work.
LEMMA HeldByHolder ==
  ASSUME LockInv, NEW t \in Threads, mutex = t, NEW r
  PROVE  Held(r) <=> Touches(t, r)
BY DEF Held

\* A call that changes neither rows nor documents, nor MUTEX.
LEMMA RestRows ==
  ASSUME ListsTyped, ListInv, LockInv, RowInv, NEW t \in Threads,
         NEW operation \in {"open", "close", "enter", "optimize", "leave", "init", "done"},
         NEW subject, AtCall(t, operation, subject), CallMade(t),
         UNCHANGED << row, overtaken, seen, mutex, buffer, failed >>,
         \A u \in Threads \ {t} : selected'[u] = selected[u],
         \A r \in Rows : WillIndex(r) => WillIndex(r)'
  PROVE  RowInv'
<1>1. /\ OthersKept(t)
      /\ \A call : Ahead(todo[t], call) <=>
                     call = << operation, subject >> \/ Ahead(todo'[t], call)
      /\ \A r \in Rows : ~AtCall(t, "lock", r)'
  BY MadeFacts
<1>2. operation # "select"
  OBVIOUS
<1>3. \A r \in Rows : WillIndex(r) => WillIndex(r)'
  OBVIOUS
<1>4. \A r : /\ Ahead(todo'[t], << "add", r >>) <=> Ahead(todo[t], << "add", r >>)
             /\ Ahead(todo'[t], << "delete", r >>) <=> Ahead(todo[t], << "delete", r >>)
  BY <1>1
<1>5. \A r \in Rows : /\ Right(t, r)' <=> Right(t, r)
                      /\ Touches(t, r)' <=> Touches(t, r)
  BY <1>4 DEF Right, Touches
<1>6. \A u \in Threads \ {t}, r \in Rows : Touches(u, r)' <=> Touches(u, r)
  BY <1>1 DEF Touches, OthersKept
<1>7. \A u \in Threads \ {t}, r \in Rows : WaitsRight(u, r)' /\ HoldsRight(u, r)'
  BY <1>1, <1>3, OthersRows DEF RowInv
<1>8. \A r \in Rows : WaitsRight(t, r)'
  BY <1>1 DEF WaitsRight
<1>9. \A r \in Rows : HoldsRight(t, r)'
  BY <1>3, <1>5 DEF HoldsRight, HolderInv, RowInv
<1>10. BufferInv'
  <2>1. \A r \in Rows : Held(r)' <=> Held(r)
    BY <1>5, <1>6 DEF Held
  <2>2. \A r \in Rows : Document(r)' = Document(r)
    BY DEF Document
  <2>3. QED
    BY <1>3, <2>1, <2>2 DEF BufferInv, InIndex, RowInv
<1>11. RebuildInv'
  BY <1>2, MadeRebuild DEF RowInv
<1>12. QED
  BY <1>7, <1>8, <1>9, <1>10, <1>11 DEF RowInv, WaitingInv, HolderInv

\* The writers are opened and closed, and the optimiser comes and goes.
LEMMA RestStep ==
  ASSUME ListsTyped, ListInv, LockInv, RowInv, NEW t \in Threads,
         NEW operation \in {"open", "close", "enter", "optimize", "leave", "init"}, NEW subject,
         AtCall(t, operation, subject), CallMade(t),
         UNCHANGED Knowledge, UNCHANGED << seen, mutex, buffer, failed >>
  PROVE  RowInv'
<1>1. \A r \in Rows : WillIndex(r) => WillIndex(r)'
  <2>1. operation \notin {"read", "group", "docs", "select", "create", "lock"}
    OBVIOUS
  <2>2. QED
    BY <2>1, MadeWill
<1>2. UNCHANGED << row, overtaken, selected >>
  BY DEF Knowledge
<1>3. QED
  BY <1>1, <1>2, RestRows

\* What a rebuilding has selected is needed no longer at its end.
LEMMA LeaveInitStep ==
  ASSUME TypeOK, ListInv, LockInv, RowInv, NEW t \in Threads, LeaveInit(t)
  PROVE  RowInv'
<1>0. ListsTyped
  BY ListsAreTyped
<1>1. /\ AtCall(t, "done", None) /\ CallMade(t)
      /\ UNCHANGED << row, overtaken, seen, mutex, buffer, failed >>
      /\ \A u \in Threads \ {t} : selected'[u] = selected[u]
  BY DEF LeaveInit, database, index, auxiliary, TypeOK
<1>2. /\ OthersKept(t)
      /\ \A call : Ahead(todo[t], call) <=> call = << "done", None >> \/ Ahead(todo'[t], call)
      /\ \A call : Ahead(todo'[t], call) => MayPrecede(<< "done", None >>, call)
  BY <1>0, <1>1, MadeFacts
<1>3. ASSUME NEW r \in Rows, WillIndex(r)
      PROVE  WillIndex(r)'
  <2>1. PICK u \in Threads : WillRead(u, r) \/ WillHandOut(u, r) \/ Waits(u, r)
    BY <1>3, WillIsOf
  <2>2. CASE u # t
    BY <1>1, <1>2, <2>1, <2>2, OthersWill
  <2>3. CASE u = t
    <3>1. ~Waits(u, r)
      BY <1>1, <2>3 DEF Waits, AtCall
    <3>2. ~WillHandOut(u, r)
      <4>1. \A table : ~Ahead(todo[t], << "docs", table >>) /\ ~Ahead(todo[t], << "select", table >>)
        BY <1>2 DEF MayPrecede
      <4>2. QED
        BY <2>3, <4>1 DEF WillHandOut
    <3>3. WillRead(u, r)'
      <4>1. WillRead(t, r)
        BY <2>1, <2>3, <3>1, <3>2
      <4>2. Indexable(r)' <=> Indexable(r)
        BY <1>1 DEF Indexable
      <4>3. /\ Ahead(todo'[t], << "read", r >>) <=> Ahead(todo[t], << "read", r >>)
            /\ \A rows : Ahead(todo'[t], << "group", rows >>) <=>
                           Ahead(todo[t], << "group", rows >>)
        BY <1>2
      <4>4. QED
        BY <2>3, <4>1, <4>2, <4>3 DEF WillRead
    <3>4. QED
      BY <3>3 DEF WillIndex
  <2>4. QED
    BY <2>2, <2>3
<1>4. QED
  BY <1>0, <1>1, <1>3, RestRows

LEMMA UnlockStep ==
  ASSUME ListsTyped, ListInv, LockInv, RowInv, NEW t \in Threads, NEW s, Unlock(t, s)
  PROVE  RowInv'
<1>1. AtCall(t, "unlock", s) /\ CallMade(t) /\ UNCHANGED Knowledge /\ mutex' = None
      /\ UNCHANGED << seen, buffer, failed, row, overtaken >>
  BY DEF Unlock, Knowledge, database, index, auxiliary
<1>2. /\ OthersKept(t) /\ Stands(t) = Before("unlock")
      /\ \A call : Ahead(todo[t], call) <=>
                     call = << "unlock", s >> \/ Ahead(todo'[t], call)
      /\ \A call : Ahead(todo'[t], call) => MayPrecede(<< "unlock", s >>, call)
      /\ \A r \in Rows : ~AtCall(t, "lock", r)'
  BY <1>1, MadeFacts
<1>3. mutex = t
  BY <1>2, HolderStands DEF Before
<1>4. \A r \in Rows : WillIndex(r) => WillIndex(r)'
  BY <1>1, MadeWill
<1>5. \A r \in Rows : ~Touches(t, r)
  BY <1>2 DEF MayPrecede, Touches
<1>6. \A r \in Rows : ~Held(r)
  BY <1>3, <1>5, HeldByHolder
<1>7. \A u \in Threads \ {t}, r \in Rows : WaitsRight(u, r)' /\ HoldsRight(u, r)'
  <2>1. \A u \in Threads \ {t} : seen'[u] = seen[u] /\ (mutex' = u => mutex = u)
    BY <1>1, NoneAssumption
  <2>2. QED
    BY <1>1, <1>2, <1>4, <2>1, OthersRows DEF RowInv
<1>8. \A r \in Rows : WaitsRight(t, r)' /\ HoldsRight(t, r)'
  BY <1>1, <1>2, NoneAssumption DEF WaitsRight, HoldsRight
<1>9. BufferInv'
  BY <1>1, <1>4, <1>6 DEF BufferInv, InIndex, RowInv, Document
<1>10. RebuildInv'
  BY <1>1, MadeRebuild DEF RowInv, Knowledge
<1>11. QED
  BY <1>7, <1>8, <1>9, <1>10 DEF RowInv, WaitingInv, HolderInv

\* Who gets MUTEX for a row knows the row as it is.
LEMMA GetLockStep ==
  ASSUME ListsTyped, ListInv, LockInv, RowInv, NEW t \in Threads, NEW s, Lock(t, s)
  PROVE  RowInv'
<1>1. AtCall(t, "lock", s) /\ CallMade(t) /\ UNCHANGED Knowledge /\ mutex = None /\ mutex' = t
      /\ UNCHANGED << seen, buffer, failed, row, overtaken >>
  BY DEF Lock, Knowledge, database, index, auxiliary
<1>2. /\ OthersKept(t)
      /\ \A call : Ahead(todo[t], call) <=> call = << "lock", s >> \/ Ahead(todo'[t], call)
      /\ \A call : Ahead(todo'[t], call) => MayPrecede(<< "lock", s >>, call)
      /\ \A r \in Rows : ~AtCall(t, "lock", r)'
  BY <1>1, MadeFacts
<1>3. \A r \in Rows : /\ Ahead(todo'[t], << "add", r >>) <=> Ahead(todo[t], << "add", r >>)
                      /\ Ahead(todo'[t], << "delete", r >>) <=> Ahead(todo[t], << "delete", r >>)
  BY <1>2
<1>4. \A r \in Rows : Touches(t, r)' => r = s
  BY <1>2 DEF MayPrecede, Touches
<1>5. \A r \in Rows : Right(t, r)' <=> Right(t, r)
  BY <1>1, <1>3 DEF Right
<1>6. \A u \in Threads \ {t}, r \in Rows : WaitsRight(u, r)' /\ HoldsRight(u, r)'
  BY <1>1, <1>2, OthersRows DEF RowInv
<1>7. ASSUME NEW r \in Rows
      PROVE  WaitsRight(t, r)' /\ HoldsRight(t, r)'
  <2>1. WaitsRight(t, r)
    BY DEF RowInv, WaitingInv
  <2>2. Touches(t, r)' => Right(t, r) \/ r \in overtaken
    BY <1>1, <1>4, <2>1 DEF WaitsRight
  <2>3. QED
    BY <1>1, <1>2, <1>5, <2>2 DEF WaitsRight, HoldsRight
<1>8. ASSUME NEW r \in Rows
      PROVE  InIndex(r)'
  <2>1. ~Held(r)
    BY <1>1, NoneAssumption DEF Held
  <2>2. Document(r)' = Document(r)
    BY <1>1 DEF Document
  <2>3. WillIndex(r) => WillIndex(r)' \/ Waits(t, r)
    BY <1>1, MadeWill
  <2>4. Waits(t, r) => Held(r)'
    BY <1>1, <1>3 DEF Waits, Held, Touches
  <2>5. InIndex(r)
    BY DEF RowInv, BufferInv
  <2>6. QED
    BY <1>1, <2>1, <2>2, <2>3, <2>4, <2>5 DEF InIndex
<1>9. RebuildInv'
  BY <1>1, MadeRebuild DEF RowInv, Knowledge
<1>10. QED
  BY <1>6, <1>7, <1>8, <1>9 DEF RowInv, WaitingInv, HolderInv, BufferInv

\* Who has deleted the document of a row adds the row as it is, or there is none.
LEMMA DeleteStep ==
  ASSUME TypeOK, ListInv, LockInv, RowInv, NEW t \in Threads, NEW r \in Rows,
         DeleteDocuments(t, r)
  PROVE  RowInv'
<1>0. ListsTyped
  BY ListsAreTyped
<1>1. AtCall(t, "delete", r) /\ CallMade(t) /\ UNCHANGED Knowledge
      /\ UNCHANGED << seen, mutex, failed, row, overtaken >>
  BY DEF DeleteDocuments, Knowledge, database, locks, auxiliary
<1>2. /\ OthersKept(t) /\ Stands(t) = Before("delete")
      /\ \A call : Ahead(todo[t], call) <=> call = << "delete", r >> \/ Ahead(todo'[t], call)
      /\ \A call : Ahead(todo'[t], call) => MayPrecede(<< "delete", r >>, call)
      /\ \A q \in Rows : ~AtCall(t, "lock", q)'
  BY <1>0, <1>1, MadeFacts
<1>3. mutex = t
  BY <1>2, HolderStands DEF Before
<1>4. \A q \in Rows : WillIndex(q) => WillIndex(q)'
  BY <1>0, <1>1, MadeWill
<1>5. \A q \in Rows : /\ Ahead(todo'[t], << "add", q >>) => q = r
                      /\ ~Ahead(todo'[t], << "delete", q >>)
  BY <1>2 DEF MayPrecede
<1>6. \A q \in Rows : Ahead(todo'[t], << "add", q >>) <=> Ahead(todo[t], << "add", q >>)
  BY <1>2
<1>7. \A q \in Rows : Touches(t, q) => q = r
  BY <1>2, <1>5 DEF Touches
<1>8. Touches(t, r)
  BY <1>2 DEF Touches
<1>9. Right(t, r) \/ WillIndex(r) \/ r \in overtaken \cup failed
  BY <1>3, <1>8 DEF RowInv, HolderInv, HoldsRight
<1>10. Right(t, r)' <=> Right(t, r)
  BY <1>1, <1>6 DEF Right
<1>11. \A u \in Threads \ {t}, q \in Rows : WaitsRight(u, q)' /\ HoldsRight(u, q)'
  BY <1>1, <1>2, <1>4, OthersRows DEF RowInv
<1>12. \A q \in Rows : WaitsRight(t, q)' /\ HoldsRight(t, q)'
  <2>1. \A q \in Rows : Touches(t, q)' => q = r
    BY <1>5 DEF Touches
  <2>2. QED
    BY <1>1, <1>2, <1>4, <1>9, <1>10, <2>1 DEF WaitsRight, HoldsRight
<1>13. buffer' = [buffer EXCEPT ![r] = << >>]
  BY DEF DeleteDocuments
<1>14. InIndex(r)'
  <2>1. buffer'[r] = << >>
    BY <1>13 DEF TypeOK
  <2>2. Ahead(todo'[t], << "add", r >>) => Held(r)'
    BY <1>1, <1>3 DEF Held, Touches
  <2>3. ~Ahead(todo'[t], << "add", r >>) /\ Right(t, r)' => Document(r)' = << >>
    BY DEF Right, Document
  <2>4. QED
    BY <1>1, <1>4, <1>9, <1>10, <2>1, <2>2, <2>3 DEF InIndex
<1>15. ASSUME NEW q \in Rows \ {r}
       PROVE  InIndex(q)'
  <2>1. ~Held(q)
    BY <1>3, <1>7, HeldByHolder
  <2>2. buffer'[q] = buffer[q] /\ Document(q)' = Document(q)
    BY <1>1, <1>13 DEF TypeOK, Document
  <2>3. InIndex(q)
    BY DEF RowInv, BufferInv
  <2>4. QED
    BY <1>1, <1>4, <2>1, <2>2, <2>3 DEF InIndex
<1>16. RebuildInv'
  BY <1>0, <1>1, MadeRebuild DEF RowInv, Knowledge
<1>17. QED
  BY <1>11, <1>12, <1>14, <1>15, <1>16 DEF RowInv, WaitingInv, HolderInv, BufferInv

LEMMA AddedStep ==
  ASSUME TypeOK, ListInv, LockInv, AddInv, RowInv, NEW t \in Threads, NEW r \in Rows,
         AddDocument(t, r) \/ AddFails(t, r)
  PROVE  RowInv'
<1>0. ListsTyped
  BY ListsAreTyped
<1>1. AtCall(t, "add", r) /\ CallMade(t) /\ UNCHANGED Knowledge
      /\ UNCHANGED << mutex, row, overtaken >> /\ seen' = [seen EXCEPT ![t] = 0]
  BY DEF AddDocument, AddFails, Knowledge, database, locks
<1>2. /\ OthersKept(t) /\ Stands(t) = Before("add")
      /\ \A call : Ahead(todo[t], call) <=> call = << "add", r >> \/ Ahead(todo'[t], call)
      /\ \A call : Ahead(todo'[t], call) => MayPrecede(<< "add", r >>, call)
      /\ \A q \in Rows : ~AtCall(t, "lock", q)'
  BY <1>0, <1>1, MadeFacts
<1>3. mutex = t
  BY <1>2, HolderStands DEF Before
<1>4. \A q \in Rows : WillIndex(q) => WillIndex(q)'
  BY <1>0, <1>1, MadeWill
<1>5. \A q \in Rows : ~Touches(t, q)'
  BY <1>2 DEF MayPrecede, Touches
<1>6. \A q \in Rows : Touches(t, q) => q = r
  BY <1>2, <1>5 DEF Touches
<1>7. Touches(t, r) /\ Ahead(todo[t], << "add", r >>)
  BY <1>2 DEF Touches
<1>8. row[r] = seen[t] \/ WillIndex(r) \/ r \in overtaken \cup failed
  BY <1>3, <1>7 DEF RowInv, HolderInv, HoldsRight, Right
<1>9. \A u \in Threads \ {t}, q \in Rows : WaitsRight(u, q)' /\ HoldsRight(u, q)'
  <2>1. \A u \in Threads \ {t} : seen'[u] = seen[u] /\ (mutex' = u => mutex = u)
    BY <1>1 DEF TypeOK
  <2>2. mutex' \in {t, None}
    BY <1>1, <1>3
  <2>3. UNCHANGED << row, overtaken >> /\ OthersKept(t)
    BY <1>1, <1>2
  <2>4. QED
    BY <2>1, <2>2, <2>3, OthersRows DEF RowInv
<1>10. \A q \in Rows : WaitsRight(t, q)' /\ HoldsRight(t, q)'
  BY <1>2, <1>5 DEF WaitsRight, HoldsRight
<1>11. \A q \in Rows : Document(q)' = Document(q)
  BY <1>1 DEF Document
<1>12. CASE AddDocument(t, r)
  <2>1. buffer[r] = << >> /\ seen[t] # 0
    BY <1>0, <1>1, AtAdd
  <2>2. /\ buffer' = [buffer EXCEPT ![r] = << seen[t] >>]
        /\ failed' = IF seen[t] = row[r] THEN failed \ {r} ELSE failed
    BY <1>12, <2>1 DEF AddDocument
  <2>3. buffer'[r] = << seen[t] >> /\ \A q \in Rows \ {r} : buffer'[q] = buffer[q]
    BY <2>2 DEF TypeOK
  <2>4. row[r] = seen[t] => Document(r) = << seen[t] >>
    BY <2>1 DEF Document
  <2>5. InIndex(r)'
    <3>1. CASE seen[t] = row[r]
      BY <1>11, <2>3, <2>4, <3>1 DEF InIndex
    <3>2. CASE seen[t] # row[r]
      <4>1. failed' = failed /\ overtaken' = overtaken
        BY <1>1, <2>2, <3>2
      <4>2. QED
        BY <1>4, <1>8, <3>2, <4>1 DEF InIndex
    <3>3. QED
      BY <3>1, <3>2
  <2>6. ASSUME NEW q \in Rows \ {r}
        PROVE  InIndex(q)'
    <3>1. ~Held(q)
      BY <1>3, <1>6, HeldByHolder
    <3>2. InIndex(q)
      BY DEF RowInv, BufferInv
    <3>3. QED
      BY <1>1, <1>4, <1>11, <2>2, <2>3, <3>1, <3>2 DEF InIndex
  <2>7. QED
    BY <1>0, <1>1, <1>9, <1>10, <2>5, <2>6, MadeRebuild
       DEF RowInv, WaitingInv, HolderInv, BufferInv, Knowledge
<1>13. CASE AddFails(t, r)
  <2>1. buffer' = buffer /\ failed' = failed \cup {r}
    BY <1>13 DEF AddFails, index
  <2>2. ASSUME NEW q \in Rows
        PROVE  InIndex(q)'
    <3>1. q # r => ~Held(q)
      BY <1>3, <1>6, HeldByHolder
    <3>2. InIndex(q)
      BY DEF RowInv, BufferInv
    <3>3. QED
      BY <1>1, <1>4, <1>11, <2>1, <3>1, <3>2 DEF InIndex
  <2>3. QED
    BY <1>0, <1>1, <1>9, <1>10, <2>2, MadeRebuild
       DEF RowInv, WaitingInv, HolderInv, BufferInv, Knowledge
<1>14. QED
  BY <1>12, <1>13

\* A reading or a sweeping, and what follows from it.
LEMMA BringsFacts ==
  ASSUME ListsTyped, ListInv, NEW t \in Threads,
         NEW operation \in {"read", "group", "sweep", "docs"}, NEW subject,
         AtCall(t, operation, subject),
         NEW new, Brought(t, new, Before(operation)), CallBrings(t, new)
  PROVE  /\ ListsTyped' /\ OthersKept(t) /\ Stands(t) = Before(operation)
         /\ \A call : Ahead(todo[t], call) <=>
                        call = << operation, subject >> \/ Ahead(Tail(todo[t]), call)
         /\ \A call : Ahead(todo'[t], call) <=>
                        Ahead(new, call) \/ Ahead(Tail(todo[t]), call)
         /\ \A x : /\ ~Ahead(Tail(todo[t]), << "add", x >>)
                   /\ ~Ahead(Tail(todo[t]), << "delete", x >>)
                   /\ ~Ahead(Tail(todo[t]), << "sweep", x >>)
                   /\ x \in Rows => ~Ahead(Tail(todo[t]), << "lock", x >>)
         /\ ~Ahead(new, << "create", None >>) /\ ~ToCompare(todo'[t])
<1>1. Free(Tail(todo[t])) /\ ~ToCompare(todo'[t])
  BY CallBringsStep
<1>2. ~Ahead(new, << "create", None >>)
  BY AheadOfCall DEF Brought
<1>3. /\ ListsTyped' /\ OthersKept(t) /\ Stands(t) = Before(operation)
      /\ \A call : Ahead(todo[t], call) <=>
                     call = << operation, subject >> \/ Ahead(Tail(todo[t]), call)
      /\ \A call : Ahead(todo'[t], call) <=>
                     Ahead(new, call) \/ Ahead(Tail(todo[t]), call)
  BY CallBringsStep
<1>4. QED
  BY <1>1, <1>2, <1>3, FreeAhead

LEMMA BringsWill ==
  ASSUME ListsTyped, ListInv, NEW t \in Threads,
         NEW operation \in {"read", "group", "sweep"}, NEW subject,
         AtCall(t, operation, subject),
         NEW new, Brought(t, new, Before(operation)), CallBrings(t, new), UNCHANGED Knowledge,
         NEW r \in Rows, WillIndex(r)
  PROVE  \/ WillIndex(r)'
         \/ operation = "read" /\ subject = r /\ Indexable(r)
         \/ operation = "group" /\ r \in subject /\ Indexable(r)
<1>1. /\ OthersKept(t) /\ ~Ahead(new, << "create", None >>)
      /\ \A call : Ahead(todo[t], call) <=>
                     call = << operation, subject >> \/ Ahead(Tail(todo[t]), call)
      /\ \A call : Ahead(todo'[t], call) <=>
                     Ahead(new, call) \/ Ahead(Tail(todo[t]), call)
  BY BringsFacts
<1>2. PICK u \in Threads : WillRead(u, r) \/ WillHandOut(u, r) \/ Waits(u, r)
  BY WillIsOf
<1>3. row'[r] = row[r] /\ selected' = selected /\ (Indexable(r)' <=> Indexable(r))
  BY DEF Knowledge, Indexable
<1>4. CASE u # t
  BY <1>1, <1>2, <1>3, <1>4, OthersWill
<1>5. CASE u = t /\ Waits(u, r)
  BY <1>5 DEF Waits, AtCall
<1>6. CASE u = t /\ WillRead(u, r)
  <2>1. CASE Ahead(Tail(todo[t]), << "read", r >>)
    BY <1>1, <1>3, <1>6, <2>1 DEF WillIndex, WillRead
  <2>2. CASE \E rows \in SUBSET Rows : r \in rows /\ Ahead(Tail(todo[t]), << "group", rows >>)
    BY <1>1, <1>3, <1>6, <2>2 DEF WillIndex, WillRead
  <2>3. QED
    BY <1>1, <1>6, <2>1, <2>2 DEF WillRead
<1>7. CASE u = t /\ WillHandOut(u, r)
  <2>1. \A table : /\ Ahead(todo[t], << "docs", table >>) => Ahead(todo'[t], << "docs", table >>)
                   /\ Ahead(todo[t], << "select", table >>) => Ahead(todo'[t], << "select", table >>)
    BY <1>1
  <2>2. Ahead(todo'[t], << "create", None >>) => Ahead(todo[t], << "create", None >>)
    BY <1>1
  <2>3. WillHandOut(t, r)'
    BY <1>3, <1>7, <2>1, <2>2 DEF WillHandOut, Selecting
  <2>4. QED
    BY <2>3 DEF WillIndex
<1>8. QED
  BY <1>2, <1>4, <1>5, <1>6, <1>7

LEMMA BringsRebuild ==
  ASSUME ListsTyped, ListInv, RebuildInv, NEW t \in Threads,
         NEW operation \in {"read", "group", "sweep"}, NEW subject,
         AtCall(t, operation, subject),
         NEW new, Brought(t, new, Before(operation)), CallBrings(t, new), UNCHANGED Knowledge,
         \A gone : Ahead(new, << "sweep", gone >>) =>
                     operation = "sweep" /\ gone \subseteq subject /\ subject \in SUBSET Rows
  PROVE  RebuildInv'
<1>1. /\ OthersKept(t) /\ ~ToCompare(todo'[t])
      /\ \A call : Ahead(todo[t], call) <=>
                     call = << operation, subject >> \/ Ahead(Tail(todo[t]), call)
      /\ \A call : Ahead(todo'[t], call) <=>
                     Ahead(new, call) \/ Ahead(Tail(todo[t]), call)
  BY BringsFacts
<1>2. selected' = selected /\ \A r : Gone(r)' <=> Gone(r)
  BY DEF Knowledge, Gone
<1>3. \A table : TableFound(t, table)'
  BY <1>1 DEF TableFound, AtCall, Idle, ToCompare
<1>4. ASSUME NEW gone \in SUBSET Rows, Ahead(todo'[t], << "sweep", gone >>)
      PROVE  \E all \in SUBSET Rows : gone \subseteq all /\ Ahead(todo[t], << "sweep", all >>)
  <2>1. CASE Ahead(Tail(todo[t]), << "sweep", gone >>)
    BY <1>1, <2>1
  <2>2. CASE Ahead(new, << "sweep", gone >>)
    <3>1. operation = "sweep" /\ gone \subseteq subject /\ subject \in SUBSET Rows
      BY <2>2
    <3>2. Ahead(todo[t], << "sweep", subject >>)
      BY <1>1, <3>1
    <3>3. QED
      BY <3>1, <3>2
  <2>3. QED
    BY <1>1, <1>4, <2>1, <2>2
<1>5. QED
  BY <1>1, <1>2, <1>3, <1>4, RebuildKept

LEMMA AloneAhead ==
  ASSUME NEW r \in Rows, NEW exists \in BOOLEAN, NEW call
  PROVE  Ahead(Alone(r, exists), call) <=>
           \/ exists /\ call = << "add", r >>
           \/ /\ exists \/ r \in Workspaces
              /\ call \in { << "lock", r >>, << "open", r >>, << "delete", r >>, << "close", r >>,
                            << "unlock", r >> }
BY IndexAhead, UnindexAhead, NothingAhead DEF Alone

LEMMA ReadRowRows ==
  ASSUME TypeOK, ListInv, LockInv, RowInv, NEW t \in Threads, NEW r \in Rows, ReadRow(t, r)
  PROVE  RowInv'
<1>0. ListsTyped
  BY ListsAreTyped
<1>. DEFINE new == Alone(r, row[r] # 0)
<1>1. AtCall(t, "read", r) /\ CallBrings(t, new) /\ Brought(t, new, Before("read"))
  BY ReadRowStep
<1>2. /\ UNCHANGED Knowledge /\ UNCHANGED << mutex, row, overtaken, failed, buffer >>
      /\ seen' = [seen EXCEPT ![t] = row[r]]
  BY DEF ReadRow, Knowledge, database, locks, index, auxiliary
<1>3. \A call : Ahead(new, call) <=>
        \/ row[r] # 0 /\ call = << "add", r >>
        \/ /\ row[r] # 0 \/ r \in Workspaces
           /\ call \in { << "lock", r >>, << "open", r >>, << "delete", r >>, << "close", r >>,
                         << "unlock", r >> }
  BY AloneAhead
<1>4. Indexable(r) => Head(new) = << "lock", r >> /\ new # << >>
  BY RowCalls DEF Alone, Indexable
<1>. HIDE DEF new
<1>5. /\ ListsTyped' /\ OthersKept(t) /\ Stands(t) = Before("read")
      /\ \A call : Ahead(todo[t], call) <=>
                     call = << "read", r >> \/ Ahead(Tail(todo[t]), call)
      /\ \A call : Ahead(todo'[t], call) <=>
                     Ahead(new, call) \/ Ahead(Tail(todo[t]), call)
      /\ \A x : /\ ~Ahead(Tail(todo[t]), << "add", x >>)
                /\ ~Ahead(Tail(todo[t]), << "delete", x >>)
                /\ ~Ahead(Tail(todo[t]), << "sweep", x >>)
                /\ x \in Rows => ~Ahead(Tail(todo[t]), << "lock", x >>)
  BY <1>0, <1>1, BringsFacts
<1>6. mutex # t
  BY <1>5, HolderStands DEF Before
<1>7. Indexable(r) => Waits(t, r)'
  <2>1. SUFFICES ASSUME Indexable(r)
                 PROVE  Waits(t, r)'
    OBVIOUS
  <2>2. Head(new) = << "lock", r >> /\ new # << >> /\ Ahead(new, << "delete", r >>)
    BY <1>3, <1>4, <2>1 DEF Indexable
  <2>3. todo'[t] = new \o Tail(todo[t]) /\ new \in Seq(Call) /\ Tail(todo[t]) \in Seq(Call)
    BY <1>0, <1>1, CallBringsStep DEF Brought
  <2>4. todo'[t] # << >> /\ Head(todo'[t]) = << "lock", r >>
    BY <2>2, <2>3
  <2>5. QED
    BY <1>5, <2>2, <2>4 DEF Waits, AtCall, Idle
<1>8. \A q \in Rows : WillIndex(q) => WillIndex(q)'
  <2>1. Indexable(r) => WillIndex(r)'
    BY <1>7 DEF WillIndex
  <2>2. QED
    BY <1>0, <1>1, <1>2, <2>1, BringsWill
<1>9. \A u \in Threads \ {t}, q \in Rows : WaitsRight(u, q)' /\ HoldsRight(u, q)'
  <2>1. \A u \in Threads \ {t} : seen'[u] = seen[u]
    BY <1>2 DEF TypeOK
  <2>2. QED
    BY <1>2, <1>5, <1>8, <2>1, OthersRows DEF RowInv
<1>10. ASSUME NEW q \in Rows
       PROVE  WaitsRight(t, q)' /\ HoldsRight(t, q)'
  <2>1. SUFFICES ASSUME AtCall(t, "lock", q)'
                 PROVE  Right(t, q)'
    BY <1>2, <1>6 DEF WaitsRight, HoldsRight
  <2>2. Ahead(new, << "lock", q >>)
    BY <1>5, <2>1, AtIsAheadAfter
  <2>3. q = r
    BY <1>3, <2>2
  <2>4. Ahead(todo'[t], << "add", r >>) <=> row[r] # 0
    <3>1. Ahead(new, << "add", r >>) <=> row[r] # 0
      BY <1>3
    <3>2. QED
      BY <1>5, <3>1
  <2>5. seen'[t] = row[r]
    BY <1>2 DEF TypeOK
  <2>6. QED
    BY <1>2, <2>3, <2>4, <2>5 DEF Right
<1>11. ASSUME NEW q \in Rows
       PROVE  InIndex(q)'
  <2>1. Held(q) => Held(q)'
    BY <1>2, <1>5, <1>6 DEF Held, Touches, OthersKept
  <2>2. InIndex(q) /\ Document(q)' = Document(q)
    BY <1>2 DEF RowInv, BufferInv, Document
  <2>3. QED
    BY <1>2, <1>8, <2>1, <2>2 DEF InIndex
<1>12. RebuildInv'
  <2>1. \A gone : ~Ahead(new, << "sweep", gone >>)
    BY <1>3
  <2>2. QED
    BY <1>0, <1>1, <1>2, <2>1, BringsRebuild DEF RowInv
<1>13. QED
  BY <1>9, <1>10, <1>11, <1>12 DEF RowInv, WaitingInv, HolderInv, BufferInv

\* A row that is read in a group is handled before the next one, all with MUTEX.
LEMMA ReadInGroupRows ==
  ASSUME TypeOK, ListInv, LockInv, RowInv, NEW t \in Threads, NEW rows \in SUBSET Rows,
         NEW r \in rows, ReadInGroup(t, rows, r)
  PROVE  RowInv'
<1>0. ListsTyped /\ r \in Rows /\ rows \ {r} \in SUBSET Rows /\ (row[r] # 0) \in BOOLEAN
  BY ListsAreTyped
<1>. DEFINE new == InGroup(r, row[r] # 0) \o Loop("group", rows \ {r})
<1>1. AtCall(t, "group", rows) /\ CallBrings(t, new) /\ Brought(t, new, Before("group"))
  BY ReadInGroupStep
<1>2. /\ UNCHANGED Knowledge /\ UNCHANGED << mutex, row, overtaken, failed, buffer >>
      /\ seen' = [seen EXCEPT ![t] = row[r]]
  BY DEF ReadInGroup, Knowledge, database, locks, index, auxiliary
<1>3. \A call : Ahead(new, call) <=>
        \/ row[r] # 0 /\ call \in { << "delete", r >>, << "add", r >> }
        \/ r \in Workspaces /\ call = << "delete", r >>
        \/ rows \ {r} # {} /\ call = << "group", rows \ {r} >>
  BY <1>0, InGroupAhead
<1>. HIDE DEF new
<1>5. /\ ListsTyped' /\ OthersKept(t) /\ Stands(t) = Before("group")
      /\ \A call : Ahead(todo[t], call) <=>
                     call = << "group", rows >> \/ Ahead(Tail(todo[t]), call)
      /\ \A call : Ahead(todo'[t], call) <=>
                     Ahead(new, call) \/ Ahead(Tail(todo[t]), call)
      /\ \A x : /\ ~Ahead(Tail(todo[t]), << "add", x >>)
                /\ ~Ahead(Tail(todo[t]), << "delete", x >>)
                /\ ~Ahead(Tail(todo[t]), << "sweep", x >>)
                /\ x \in Rows => ~Ahead(Tail(todo[t]), << "lock", x >>)
  BY <1>0, <1>1, BringsFacts
<1>6. mutex = t
  BY <1>5, HolderStands DEF Before
<1>7. \A q \in Rows : ~Held(q)
  <2>1. \A q : ~Touches(t, q)
    BY <1>5 DEF Touches
  <2>2. QED
    BY <1>6, <2>1, HeldByHolder
<1>8. \A q \in Rows : Touches(t, q)' <=> q = r /\ Indexable(r)
  <2>1. \A q \in Rows : /\ Ahead(new, << "add", q >>) <=> row[r] # 0 /\ q = r
                        /\ Ahead(new, << "delete", q >>) <=> Indexable(r) /\ q = r
    BY <1>3 DEF Indexable
  <2>2. QED
    BY <1>5, <2>1 DEF Touches, Indexable
<1>9. \A q \in Rows : WillIndex(q) => WillIndex(q)' \/ (q = r /\ Indexable(r))
  <2>1. ASSUME NEW q \in rows \ {r}, Indexable(q)
        PROVE  WillIndex(q)'
    <3>1. Ahead(todo'[t], << "group", rows \ {r} >>) /\ q \in rows \ {r}
      BY <1>3, <1>5
    <3>2. Indexable(q)'
      BY <1>2, <2>1 DEF Indexable
    <3>3. WillRead(t, q)'
      BY <1>0, <3>1, <3>2 DEF WillRead
    <3>4. QED
      BY <3>3 DEF WillIndex
  <2>2. QED
    BY <1>0, <1>1, <1>2, <2>1, BringsWill
<1>10. Right(t, r)'
  <2>1. Ahead(todo'[t], << "add", r >>) <=> row[r] # 0
    <3>1. Ahead(new, << "add", r >>) <=> row[r] # 0
      BY <1>3
    <3>2. QED
      BY <1>5, <3>1
  <2>2. seen'[t] = row[r]
    BY <1>2 DEF TypeOK
  <2>3. QED
    BY <1>2, <2>1, <2>2 DEF Right
<1>11. \A u \in Threads \ {t}, q \in Rows : WaitsRight(u, q)' /\ HoldsRight(u, q)'
  <2>1. \A u \in Threads \ {t} : seen'[u] = seen[u]
    BY <1>2 DEF TypeOK
  <2>2. QED
    BY <1>2, <1>5, <1>6, <2>1, OthersRows DEF RowInv
<1>12. ASSUME NEW q \in Rows
       PROVE  WaitsRight(t, q)' /\ HoldsRight(t, q)'
  <2>1. ~AtCall(t, "lock", q)'
    <3>1. ~Ahead(new, << "lock", q >>)
      BY <1>3
    <3>2. ~Ahead(todo'[t], << "lock", q >>)
      BY <1>5, <3>1
    <3>3. QED
      BY <1>5, <3>2, AtIsAheadAfter
  <2>2. QED
    BY <1>8, <1>10, <2>1 DEF WaitsRight, HoldsRight
<1>13. ASSUME NEW q \in Rows
       PROVE  InIndex(q)'
  <2>1. q = r /\ Indexable(r) => Held(q)'
    BY <1>2, <1>6, <1>8 DEF Held
  <2>2. InIndex(q) /\ Document(q)' = Document(q)
    BY <1>2 DEF RowInv, BufferInv, Document
  <2>3. QED
    BY <1>2, <1>7, <1>9, <2>1, <2>2 DEF InIndex
<1>14. RebuildInv'
  <2>1. \A gone : ~Ahead(new, << "sweep", gone >>)
    BY <1>3
  <2>2. QED
    BY <1>0, <1>1, <1>2, <2>1, BringsRebuild DEF RowInv
<1>15. QED
  BY <1>11, <1>12, <1>13, <1>14 DEF RowInv, WaitingInv, HolderInv, BufferInv

\* A row that cannot be read is not indexed, and counts as failed.
LEMMA FailedReading ==
  ASSUME TypeOK, ListInv, LockInv, RowInv, NEW t \in Threads, NEW r \in Rows,
         NEW operation \in {"read", "group"}, NEW subject, AtCall(t, operation, subject),
         NEW new, Brought(t, new, Before(operation)), CallBrings(t, new),
         UNCHANGED Knowledge, UNCHANGED << mutex, buffer, seen >>, failed' = failed \cup {r},
         \A call : Ahead(new, call) => call[1] = "group",
         \A q \in Rows : WillIndex(q) => WillIndex(q)' \/ q = r
  PROVE  RowInv'
<1>0. ListsTyped /\ UNCHANGED << row, overtaken >>
  BY ListsAreTyped DEF Knowledge
<1>1. /\ OthersKept(t) /\ Stands(t) = Before(operation)
      /\ \A call : Ahead(todo'[t], call) <=>
                     Ahead(new, call) \/ Ahead(Tail(todo[t]), call)
      /\ \A x : /\ ~Ahead(Tail(todo[t]), << "add", x >>)
                /\ ~Ahead(Tail(todo[t]), << "delete", x >>)
                /\ ~Ahead(Tail(todo[t]), << "sweep", x >>)
                /\ x \in Rows => ~Ahead(Tail(todo[t]), << "lock", x >>)
      /\ ListsTyped'
  BY <1>0, BringsFacts
<1>2. \A x : ~Ahead(todo[t], << "add", x >>) /\ ~Ahead(todo[t], << "delete", x >>)
  <2>1. \A call : Ahead(todo[t], call) <=>
                     call = << operation, subject >> \/ Ahead(Tail(todo[t]), call)
    BY <1>0, BringsFacts
  <2>2. \A x : << "add", x >> # << operation, subject >> /\ << "delete", x >> # << operation, subject >>
    OBVIOUS
  <2>3. QED
    BY <1>1, <2>1, <2>2
<1>3. \A x : /\ ~Ahead(todo'[t], << "add", x >>) /\ ~Ahead(todo'[t], << "delete", x >>)
             /\ x \in Rows => ~Ahead(todo'[t], << "lock", x >>)
  <2>1. \A x : /\ ~Ahead(new, << "add", x >>) /\ ~Ahead(new, << "delete", x >>)
               /\ ~Ahead(new, << "lock", x >>)
    <3>1. ASSUME NEW x, NEW name, Ahead(new, << name, x >>)
          PROVE  name = "group"
      <4>1. << name, x >>[1] = "group"
        BY <3>1
      <4>2. QED
        BY <4>1
    <3>2. QED
      BY <3>1
  <2>2. QED
    BY <1>1, <2>1
<1>4. ASSUME NEW q \in Rows
      PROVE  ~AtCall(t, "lock", q)' /\ ~Touches(t, q)'
  <2>1. ~Ahead(todo'[t], << "lock", q >>)
    BY <1>3
  <2>2. ~AtCall(t, "lock", q)'
    BY <1>1, <2>1, AtIsAheadAfter
  <2>3. QED
    BY <1>3, <2>2 DEF Touches
<1>5. \A q \in Rows : /\ WillIndex(q) => WillIndex(q)' \/ q \in failed'
                      /\ q \in failed => q \in failed'
  OBVIOUS
<1>6. \A u \in Threads \ {t}, q \in Rows : WaitsRight(u, q)' /\ HoldsRight(u, q)'
  BY <1>0, <1>1, <1>5, OthersRows DEF RowInv
<1>7. \A q \in Rows : WaitsRight(t, q)' /\ HoldsRight(t, q)'
  BY <1>4 DEF WaitsRight, HoldsRight
<1>8. ASSUME NEW q \in Rows
      PROVE  InIndex(q)'
  <2>1. Held(q) => Held(q)'
    <3>1. \A u \in Threads : Touches(u, q) => u = t \/ Touches(u, q)'
      BY <1>1 DEF Touches, OthersKept
    <3>2. ~Touches(t, q)
      BY <1>2 DEF Touches
    <3>3. QED
      BY <3>1, <3>2 DEF Held
  <2>2. InIndex(q) /\ Document(q)' = Document(q)
    BY <1>0 DEF RowInv, BufferInv, Document
  <2>3. QED
    BY <1>0, <1>5, <2>1, <2>2 DEF InIndex
<1>9. RebuildInv'
  <2>1. \A gone : ~Ahead(new, << "sweep", gone >>)
    OBVIOUS
  <2>2. QED
    BY <1>0, <2>1, BringsRebuild DEF RowInv
<1>10. QED
  BY <1>6, <1>7, <1>8, <1>9 DEF RowInv, WaitingInv, HolderInv, BufferInv

LEMMA ReadRowFailsRows ==
  ASSUME TypeOK, ListInv, LockInv, RowInv, NEW t \in Threads, NEW r \in Rows,
         ReadRowFails(t, r)
  PROVE  RowInv'
<1>1. ListsTyped
  BY ListsAreTyped
<1>2. AtCall(t, "read", r) /\ CallBrings(t, << >>) /\ Brought(t, << >>, Before("read"))
  BY <1>1, ReadRowFailsStep
<1>3. /\ UNCHANGED Knowledge /\ UNCHANGED << mutex, buffer, seen >>
      /\ failed' = failed \cup {r}
  BY DEF ReadRowFails, Knowledge, database, locks, index
<1>4. \A q \in Rows : WillIndex(q) => WillIndex(q)' \/ q = r
  BY <1>1, <1>2, <1>3, BringsWill
<1>5. QED
  BY <1>2, <1>3, <1>4, NothingAhead, FailedReading

LEMMA ReadInGroupFailsRows ==
  ASSUME TypeOK, ListInv, LockInv, RowInv, NEW t \in Threads, NEW rows \in SUBSET Rows,
         NEW r \in rows, ReadInGroupFails(t, rows, r)
  PROVE  RowInv'
<1>. DEFINE new == Loop("group", rows \ {r})
<1>1. ListsTyped /\ r \in Rows /\ rows \ {r} \in SUBSET Rows
  BY ListsAreTyped
<1>2. AtCall(t, "group", rows) /\ CallBrings(t, new) /\ Brought(t, new, Before("group"))
  BY <1>1, ReadInGroupFailsStep
<1>3. /\ UNCHANGED Knowledge /\ UNCHANGED << mutex, buffer, seen >>
      /\ failed' = failed \cup {r}
  BY DEF ReadInGroupFails, Knowledge, database, locks, index
<1>4. \A call : Ahead(new, call) <=> rows \ {r} # {} /\ call = << "group", rows \ {r} >>
  BY LoopAhead
<1>. HIDE DEF new
<1>5. ASSUME NEW q \in rows \ {r}, Indexable(q)
      PROVE  WillIndex(q)'
  <2>1. \A call : Ahead(todo'[t], call) <=> Ahead(new, call) \/ Ahead(Tail(todo[t]), call)
    BY <1>1, <1>2, BringsFacts
  <2>2. Ahead(todo'[t], << "group", rows \ {r} >>)
    BY <1>4, <1>5, <2>1
  <2>3. Indexable(q)'
    BY <1>3, <1>5 DEF Indexable, Knowledge
  <2>4. WillRead(t, q)'
    BY <1>1, <1>5, <2>2, <2>3 DEF WillRead
  <2>5. QED
    BY <2>4 DEF WillIndex
<1>6. \A q \in Rows : WillIndex(q) => WillIndex(q)' \/ q = r
  BY <1>1, <1>2, <1>3, <1>5, BringsWill
<1>7. \A call : Ahead(new, call) => call[1] = "group"
  BY <1>4
<1>8. QED
  BY <1>1, <1>2, <1>3, <1>6, <1>7, FailedReading

\* A document that is swept has no row, unless the row was changed meanwhile.
LEMMA SweepRows ==
  ASSUME TypeOK, ListInv, LockInv, RowInv, NEW t \in Threads, NEW gone \in SUBSET Rows,
         NEW r \in gone, Sweep(t, gone, r)
  PROVE  RowInv'
<1>0. ListsTyped /\ r \in Rows /\ gone \ {r} \in SUBSET Rows
  BY ListsAreTyped
<1>. DEFINE new == Unindex(r) \o Loop("sweep", gone \ {r})
<1>1. AtCall(t, "sweep", gone) /\ CallBrings(t, new) /\ Brought(t, new, Before("sweep"))
  BY <1>0, SweepStep
<1>2. UNCHANGED Knowledge /\ UNCHANGED << mutex, row, overtaken, failed, buffer, seen >>
  BY DEF Sweep, Knowledge, database, locks, index, auxiliary
<1>3. \A call : Ahead(new, call) <=>
        \/ call \in { << "lock", r >>, << "open", r >>, << "delete", r >>, << "close", r >>,
                      << "unlock", r >> }
        \/ gone \ {r} # {} /\ call = << "sweep", gone \ {r} >>
  BY <1>0, SweepAhead
<1>. HIDE DEF new
<1>5. /\ ListsTyped' /\ OthersKept(t) /\ Stands(t) = Before("sweep")
      /\ \A call : Ahead(todo[t], call) <=>
                     call = << "sweep", gone >> \/ Ahead(Tail(todo[t]), call)
      /\ \A call : Ahead(todo'[t], call) <=>
                     Ahead(new, call) \/ Ahead(Tail(todo[t]), call)
      /\ \A x : /\ ~Ahead(Tail(todo[t]), << "add", x >>)
                /\ ~Ahead(Tail(todo[t]), << "delete", x >>)
                /\ ~Ahead(Tail(todo[t]), << "sweep", x >>)
                /\ x \in Rows => ~Ahead(Tail(todo[t]), << "lock", x >>)
  BY <1>0, <1>1, BringsFacts
<1>6. mutex # t
  BY <1>5, HolderStands DEF Before
<1>7. \A q \in Rows : WillIndex(q) => WillIndex(q)'
  BY <1>0, <1>1, <1>2, BringsWill
<1>8. row[r] = 0 \/ r \in overtaken
  BY <1>5 DEF RowInv, RebuildInv, SweepRight, Gone
<1>9. \A u \in Threads \ {t}, q \in Rows : WaitsRight(u, q)' /\ HoldsRight(u, q)'
  BY <1>2, <1>5, <1>7, OthersRows DEF RowInv
<1>10. ASSUME NEW q \in Rows
       PROVE  WaitsRight(t, q)' /\ HoldsRight(t, q)'
  <2>1. SUFFICES ASSUME AtCall(t, "lock", q)'
                 PROVE  Right(t, q)' \/ q \in overtaken
    BY <1>2, <1>6 DEF WaitsRight, HoldsRight
  <2>2. Ahead(new, << "lock", q >>)
    BY <1>5, <2>1, AtIsAheadAfter
  <2>3. q = r
    BY <1>3, <2>2
  <2>4. ~Ahead(todo'[t], << "add", r >>)
    <3>1. ~Ahead(new, << "add", r >>)
      BY <1>3
    <3>2. QED
      BY <1>5, <3>1
  <2>5. QED
    BY <1>2, <1>8, <2>3, <2>4 DEF Right
<1>11. ASSUME NEW q \in Rows
       PROVE  InIndex(q)'
  <2>1. Held(q) => Held(q)'
    BY <1>2, <1>5, <1>6 DEF Held, Touches, OthersKept
  <2>2. InIndex(q) /\ Document(q)' = Document(q)
    BY <1>2 DEF RowInv, BufferInv, Document
  <2>3. QED
    BY <1>2, <1>7, <2>1, <2>2 DEF InIndex
<1>12. RebuildInv'
  <2>1. \A g : Ahead(new, << "sweep", g >>) => g \subseteq gone
    BY <1>3
  <2>2. QED
    BY <1>0, <1>1, <1>2, <2>1, BringsRebuild DEF RowInv
<1>13. QED
  BY <1>9, <1>10, <1>11, <1>12 DEF RowInv, WaitingInv, HolderInv, BufferInv
--------------------------------------------------------------------------------
(***************************************************************************)
(* What threads begin with, and the rows.                                  *)
(***************************************************************************)
LEMMA IdleWill ==
  ASSUME NEW t \in Threads, OthersKept(t), todo[t] = << >>, NEW r \in Rows, WillIndex(r),
         row'[r] = row[r], selected' = selected
  PROVE  WillIndex(r)'
<1>1. PICK u \in Threads : WillRead(u, r) \/ WillHandOut(u, r) \/ Waits(u, r)
  BY WillIsOf
<1>2. u # t
  BY <1>1, NothingAhead DEF WillRead, WillHandOut, Waits
<1>3. QED
  BY <1>1, <1>2, OthersWill

\* A row that stays as it is, and one that is changed and will be indexed.
Kept(r) == row'[r] = row[r] /\ (r \in overtaken' <=> r \in overtaken)

Changed(r) == WillIndex(r)' /\ (Watched(r) => r \in overtaken')

LEMMA BeginRows ==
  ASSUME TypeOK, ListInv, LockInv, RowInv, NEW t \in Threads, NEW new,
         ListsTyped', OthersKept(t), todo[t] = << >>, todo'[t] = new, Stands(t) = "out",
         UNCHANGED << seen, selected, mutex, buffer, failed >>,
         \A r \in Rows : Kept(r) \/ Changed(r),
         \A r \in Rows : WaitsRight(t, r)',
         ~ToCompare(new), \A gone : ~Ahead(new, << "sweep", gone >>)
  PROVE  RowInv'
<1>0. ListsTyped
  BY ListsAreTyped
<1>1. mutex # t
  BY DEF LockInv
<1>2. \A r \in Rows : WillIndex(r) /\ Kept(r) => WillIndex(r)'
  BY IdleWill DEF Kept
<1>3. ASSUME NEW u \in Threads \ {t}, NEW r \in Rows
      PROVE  WaitsRight(u, r)' /\ HoldsRight(u, r)'
  <2>1. todo'[u] = todo[u]
    BY DEF OthersKept
  <2>2. WaitsRight(u, r) /\ HoldsRight(u, r)
    BY DEF RowInv, WaitingInv, HolderInv
  <2>3. CASE Kept(r)
    <3>1. /\ AtCall(u, "lock", r)' <=> AtCall(u, "lock", r)
          /\ Right(u, r)' <=> Right(u, r)
          /\ Touches(u, r)' <=> Touches(u, r)
      BY <2>1, <2>3, StillRight DEF Kept
    <3>2. QED
      BY <1>2, <2>2, <2>3, <3>1 DEF Kept, WaitsRight, HoldsRight
  <2>4. CASE Changed(r)
    <3>1. AtCall(u, "lock", r)' => r \in overtaken'
      BY <2>1, <2>4 DEF Changed, Watched, AtCall, Idle
    <3>2. QED
      BY <2>4, <3>1 DEF Changed, WaitsRight, HoldsRight
  <2>5. QED
    BY <2>3, <2>4
<1>4. \A r \in Rows : WaitsRight(t, r)' /\ HoldsRight(t, r)'
  BY <1>1 DEF HoldsRight
<1>5. ASSUME NEW r \in Rows
      PROVE  InIndex(r)'
  <2>1. Held(r) => Held(r)'
    BY <1>1 DEF Held, Touches, OthersKept
  <2>2. InIndex(r)
    BY DEF RowInv, BufferInv
  <2>3. Kept(r) => Document(r)' = Document(r)
    BY DEF Kept, Document
  <2>4. QED
    BY <1>2, <2>1, <2>2, <2>3 DEF InIndex, Kept, Changed
<1>6. RebuildInv'
  <2>1. ASSUME NEW u \in Threads, NEW r \in Rows, Overlooks(u, r), Gone(r)
        PROVE  Gone(r)'
    <3>1. Watched(r)
      BY <2>1 DEF Watched
    <3>2. QED
      BY <2>1, <3>1 DEF Gone, Kept, Changed
  <2>2. \A table : TableFound(t, table)'
    BY DEF TableFound, AtCall, Idle, ToCompare
  <2>3. QED
    BY <1>0, <2>1, <2>2, RebuildKept DEF RowInv
<1>7. QED
  BY <1>3, <1>4, <1>5, <1>6 DEF RowInv, WaitingInv, HolderInv, BufferInv

\* What begins without a comparison does not compare.
LEMMA NotToCompare ==
  ASSUME NEW s \in Seq(Call), \A x : ~Ahead(s, << "docs", x >>)
  PROVE  ~ToCompare(s)
<1>1. SUFFICES ASSUME s # << >>, Head(s)[1] = "docs"
               PROVE  FALSE
  BY DEF ToCompare
<1>2. Head(s) \in Call /\ Ahead(s, Head(s))
  BY <1>1, TailAhead
<1>3. Head(s) = << "docs", Head(s)[2] >>
  BY <1>1, <1>2 DEF Call
<1>4. QED
  BY <1>2, <1>3

LEMMA ChangeRows ==
  ASSUME TypeOK, ListInv, LockInv, RowInv, NEW t \in Requests, NEW r \in Rows, Change(t, r)
  PROVE  RowInv'
<1>0. ListsTyped /\ t \in Threads
  BY ListsAreTyped DEF Threads
<1>1. /\ Begin(t, IndexOne(r)) /\ UNCHANGED << seen, selected, mutex, buffer, failed >>
      /\ row' = [row EXCEPT ![r] = changes + 1]
      /\ overtaken' = IF Watched(r) THEN overtaken \cup {r} ELSE overtaken
  BY DEF Change, locks, index
<1>2. /\ ListsTyped' /\ OthersKept(t) /\ todo[t] = << >> /\ todo'[t] = IndexOne(r)
      /\ Stands(t) = "out" /\ IndexOne(r) \in Seq(Call)
  BY <1>0, <1>1, BeginSteps
<1>3. \A call : Ahead(IndexOne(r), call) <=> call = << "read", r >>
  BY RowCalls, OneAhead
<1>4. row'[r] = changes + 1 /\ changes \in Nat /\ \A q \in Rows \ {r} : row'[q] = row[q]
  BY <1>1, BoundAssumption DEF TypeOK
<1>5. WillIndex(r)'
  <2>1. Indexable(r)'
    BY <1>4 DEF Indexable
  <2>2. WillRead(t, r)'
    BY <1>2, <1>3, <2>1 DEF WillRead
  <2>3. QED
    BY <1>0, <2>2 DEF WillIndex
<1>6. \A q \in Rows : Kept(q) \/ Changed(q)
  BY <1>1, <1>4, <1>5 DEF Kept, Changed
<1>7. ASSUME NEW q \in Rows
      PROVE  WaitsRight(t, q)'
  <2>1. ~Ahead(todo'[t], << "lock", q >>)
    BY <1>2, <1>3
  <2>2. QED
    BY <1>0, <1>2, <2>1, AtIsAheadAfter DEF WaitsRight
<1>8. \A x : ~Ahead(IndexOne(r), << "docs", x >>) /\ ~Ahead(IndexOne(r), << "sweep", x >>)
  BY <1>3
<1>9. ~ToCompare(IndexOne(r))
  BY <1>2, <1>8, NotToCompare
<1>10. QED
  BY <1>0, <1>1, <1>2, <1>6, <1>7, <1>8, <1>9, BeginRows

LEMMA DropRows ==
  ASSUME TypeOK, ListInv, LockInv, RowInv, NEW t \in Requests, NEW r \in Rows, Drop(t, r)
  PROVE  RowInv'
<1>0. ListsTyped /\ t \in Threads
  BY ListsAreTyped DEF Threads
<1>1. /\ Begin(t, Unindex(r)) /\ UNCHANGED << seen, selected, mutex, buffer, failed >>
      /\ row' = [row EXCEPT ![r] = 0]
      /\ overtaken' = IF Watched(r) THEN overtaken \cup {r} ELSE overtaken
  BY DEF Drop, locks, index
<1>2. /\ ListsTyped' /\ OthersKept(t) /\ todo[t] = << >> /\ todo'[t] = Unindex(r)
      /\ Stands(t) = "out" /\ Unindex(r) \in Seq(Call)
  BY <1>0, <1>1, BeginSteps
<1>3. \A call : Ahead(Unindex(r), call) <=>
        call \in { << "lock", r >>, << "open", r >>, << "delete", r >>, << "close", r >>,
                   << "unlock", r >> }
  BY UnindexAhead
<1>4. row'[r] = 0 /\ \A q \in Rows \ {r} : row'[q] = row[q]
  BY <1>1 DEF TypeOK
<1>5. Waits(t, r)'
  <2>1. Unindex(r) # << >> /\ Head(Unindex(r)) = << "lock", r >>
    BY RowCalls
  <2>2. Ahead(Unindex(r), << "delete", r >>)
    BY <1>3
  <2>3. QED
    BY <1>2, <2>1, <2>2 DEF Waits, AtCall, Idle
<1>6. \A q \in Rows : Kept(q) \/ Changed(q)
  <2>1. WillIndex(r)'
    BY <1>0, <1>5 DEF WillIndex
  <2>2. QED
    BY <1>1, <1>4, <2>1 DEF Kept, Changed
<1>7. ASSUME NEW q \in Rows
      PROVE  WaitsRight(t, q)'
  <2>1. SUFFICES ASSUME AtCall(t, "lock", q)'
                 PROVE  Right(t, q)'
    BY DEF WaitsRight
  <2>2. Ahead(Unindex(r), << "lock", q >>)
    BY <1>0, <1>2, <2>1, AtIsAheadAfter
  <2>3. q = r /\ ~Ahead(Unindex(r), << "add", r >>)
    BY <1>3, <2>2
  <2>4. QED
    BY <1>2, <1>4, <2>3 DEF Right
<1>8. \A x : ~Ahead(Unindex(r), << "docs", x >>) /\ ~Ahead(Unindex(r), << "sweep", x >>)
  BY <1>3
<1>9. ~ToCompare(Unindex(r))
  BY <1>2, <1>8, NotToCompare
<1>10. QED
  BY <1>0, <1>1, <1>2, <1>6, <1>7, <1>8, <1>9, BeginRows

LEMMA StartRows ==
  ASSUME TypeOK, ListInv, LockInv, RowInv, NEW t \in Threads, NEW new, Begin(t, new),
         \/ \E r \in Rows : new = IndexGroup({r})
         \/ t \in Optimisers /\ new = Optimise
         \/ t \in Rebuilders /\ new = Rebuild,
         UNCHANGED << row, seen, selected, mutex, buffer, overtaken, failed >>
  PROVE  RowInv'
<1>0. ListsTyped
  BY ListsAreTyped
<1>1. /\ ListsTyped' /\ OthersKept(t) /\ todo[t] = << >> /\ todo'[t] = new
      /\ Stands(t) = "out" /\ new \in Seq(Call)
  <2>1. CASE \E r \in Rows : new = IndexGroup({r})
    <3>1. \E r \in Rows : new \in {IndexOne(r), Unindex(r), IndexGroup({r})}
      BY <2>1
    <3>2. QED
      BY <1>0, <3>1, BeginSteps
  <2>2. CASE \/ t \in Optimisers /\ new = Optimise
             \/ t \in Rebuilders /\ new = Rebuild
    BY <1>0, <2>2, BeginSteps
  <2>3. QED
    BY <2>1, <2>2
<1>2. \A r \in Rows : Kept(r) \/ Changed(r)
  BY DEF Kept
<1>3. \A q \in Rows : ~Ahead(new, << "lock", q >>)
  <2>1. \A r, q \in Rows : ~Ahead(IndexGroup({r}), << "lock", q >>)
    BY GroupAhead, NoneAssumption
  <2>2. \A q \in Rows : ~Ahead(Optimise, << "lock", q >>)
    BY OptimiseAhead, NoneAssumption
  <2>3. \A q \in Rows : ~Ahead(Rebuild, << "lock", q >>)
    BY RebuildCalls, SelectionAhead
  <2>4. QED
    BY <2>1, <2>2, <2>3
<1>4. \A q \in Rows : WaitsRight(t, q)'
  BY <1>1, <1>3, AtIsAheadAfter DEF WaitsRight
<1>5. CASE new = Rebuild
  <2>1. ~ToCompare(Rebuild)
    BY RebuildAhead DEF ToCompare
  <2>2. \A gone : ~Ahead(Rebuild, << "sweep", gone >>)
    BY RebuildCalls, SelectionAhead
  <2>3. QED
    BY <1>1, <1>2, <1>4, <1>5, <2>1, <2>2, BeginRows
<1>6. CASE new # Rebuild
  <2>1. \A x : ~Ahead(new, << "docs", x >>) /\ ~Ahead(new, << "sweep", x >>)
    <3>1. \A x : ~Ahead(Optimise, << "docs", x >>) /\ ~Ahead(Optimise, << "sweep", x >>)
      BY OptimiseAhead
    <3>2. \A r \in Rows : \A x : /\ ~Ahead(IndexGroup({r}), << "docs", x >>)
                                  /\ ~Ahead(IndexGroup({r}), << "sweep", x >>)
      BY GroupAhead
    <3>3. QED
      BY <1>6, <3>1, <3>2
  <2>2. ~ToCompare(new)
    BY <1>1, <2>1, NotToCompare
  <2>3. QED
    BY <1>1, <1>2, <1>4, <2>1, <2>2, BeginRows
<1>7. QED
  BY <1>5, <1>6
--------------------------------------------------------------------------------
(***************************************************************************)
(* The rebuilding, and the rows.                                           *)
(***************************************************************************)
LEMMA RebuildOnly ==
  ASSUME NEW s \in {Rebuild, Tail(Rebuild)}, NEW call, Ahead(s, call)
  PROVE  call[1] \in {"check", "create", "init", "select", "docs", "done"}
<1>1. Ahead(Tail(Tail(Rebuild)), call) => call[1] \in {"init", "select", "docs", "done"}
  BY SelectionAhead
<1>2. Ahead(Tail(Rebuild), call) => call[1] \in {"create", "init", "select", "docs", "done"}
  BY <1>1, RebuildCalls
<1>3. Ahead(Rebuild, call) => call[1] \in {"check", "create", "init", "select", "docs", "done"}
  BY <1>2, RebuildCalls
<1>4. QED
  BY <1>2, <1>3

\* Before the empty index is made nothing is handed out.
LEMMA NotSelecting ==
  ASSUME NEW t \in Threads, todo[t] \in {Rebuild, Tail(Rebuild)}, NEW r
  PROVE  ~Selecting(t) /\ ~WillRead(t, r) /\ ~WillHandOut(t, r) /\ ~Waits(t, r) /\ ~Touches(t, r)
<1>1. Ahead(todo[t], << "create", None >>)
  BY RebuildCalls
<1>2. \A call : Ahead(todo[t], call) =>
                  call[1] \in {"check", "create", "init", "select", "docs", "done"}
  BY RebuildOnly
<1>3. \A x : /\ ~Ahead(todo[t], << "read", x >>) /\ ~Ahead(todo[t], << "group", x >>)
             /\ ~Ahead(todo[t], << "delete", x >>) /\ ~Ahead(todo[t], << "add", x >>)
  BY <1>2
<1>4. QED
  BY <1>1, <1>3 DEF Selecting, WillRead, WillHandOut, Waits, Touches

LEMMA CheckClosedRows ==
  ASSUME TypeOK, ListInv, LockInv, RowInv, NEW t \in Threads, CheckClosed(t)
  PROVE  RowInv'
<1>0. ListsTyped
  BY ListsAreTyped
<1>1. /\ ListsTyped' /\ OthersKept(t) /\ todo[t] = Rebuild
      /\ todo'[t] \in {<< >>, Tail(Rebuild)} /\ Stands(t) = "out"
  BY <1>0, CheckClosedStep
<1>2. UNCHANGED Knowledge /\ UNCHANGED << row, selected, overtaken, seen, mutex, buffer, failed >>
  BY DEF CheckClosed, Knowledge, database, locks, index, auxiliary
<1>3. mutex # t
  BY <1>1 DEF LockInv
<1>4. ASSUME NEW r \in Rows, WillIndex(r)
      PROVE  WillIndex(r)'
  <2>1. PICK u \in Threads : WillRead(u, r) \/ WillHandOut(u, r) \/ Waits(u, r)
    BY <1>4, WillIsOf
  <2>2. u # t
    BY <1>1, <2>1, NotSelecting
  <2>3. QED
    BY <1>1, <1>2, <2>1, <2>2, OthersWill
<1>5. \A u \in Threads \ {t}, r \in Rows : WaitsRight(u, r)' /\ HoldsRight(u, r)'
  BY <1>1, <1>2, <1>4, OthersRows DEF RowInv
<1>6. ASSUME NEW r \in Rows
      PROVE  WaitsRight(t, r)' /\ HoldsRight(t, r)'
  <2>1. ~Ahead(<< >>, << "lock", r >>) /\ ~Ahead(Tail(Rebuild), << "lock", r >>)
    BY NothingAhead, RebuildCalls, SelectionAhead
  <2>2. QED
    BY <1>1, <1>2, <1>3, <2>1, AtIsAheadAfter DEF WaitsRight, HoldsRight
<1>7. ASSUME NEW r \in Rows
      PROVE  InIndex(r)'
  <2>1. Held(r) => Held(r)'
    BY <1>1, <1>2, <1>3 DEF Held, Touches, OthersKept
  <2>2. InIndex(r) /\ Document(r)' = Document(r)
    BY <1>2 DEF RowInv, BufferInv, Document
  <2>3. QED
    BY <1>2, <1>4, <2>1, <2>2 DEF InIndex
<1>8. RebuildInv'
  <2>1. \A r : Gone(r)' <=> Gone(r)
    BY <1>2 DEF Gone
  <2>2. ~ToCompare(<< >>) /\ ~ToCompare(Tail(Rebuild))
    BY RebuildAhead DEF ToCompare
  <2>3. ~ToCompare(todo'[t])
    BY <1>1, <2>2
  <2>4. \A table : TableFound(t, table)'
    BY <2>3 DEF TableFound, AtCall, Idle, ToCompare
  <2>5. \A gone : ~Ahead(todo'[t], << "sweep", gone >>)
    <3>1. \A gone : /\ ~Ahead(<< >>, << "sweep", gone >>)
                    /\ ~Ahead(Tail(Rebuild), << "sweep", gone >>)
      BY NothingAhead, RebuildCalls, SelectionAhead
    <3>2. QED
      BY <1>1, <3>1
  <2>6. QED
    BY <1>0, <1>1, <1>2, <2>1, <2>4, <2>5, RebuildKept DEF RowInv
<1>9. QED
  BY <1>5, <1>6, <1>7, <1>8 DEF RowInv, WaitingInv, HolderInv, BufferInv

\* An empty index is right while every row is still to be selected.
LEMMA CreateIndexRows ==
  ASSUME TypeOK, ListInv, LockInv, RowInv, NEW t \in Threads, CreateIndex(t)
  PROVE  RowInv'
<1>0. ListsTyped
  BY ListsAreTyped
<1>1. /\ ListsTyped' /\ OthersKept(t) /\ todo[t] = Tail(Rebuild)
      /\ todo'[t] = IF writers THEN << >> ELSE Tail(Tail(Rebuild))
      /\ Stands(t) = "out"
  BY <1>0, CreateIndexStep
<1>2. /\ UNCHANGED << row, overtaken, selected, seen, mutex, failed >>
      /\ writers => buffer' = buffer
      /\ \A r \in Rows : buffer'[r] = buffer[r] \/ buffer'[r] = << >>
  BY DEF CreateIndex, database, locks, auxiliary
<1>3. mutex # t
  BY <1>1 DEF LockInv
<1>4. ASSUME NEW r \in Rows, WillIndex(r)
      PROVE  WillIndex(r)'
  <2>1. PICK u \in Threads : WillRead(u, r) \/ WillHandOut(u, r) \/ Waits(u, r)
    BY <1>4, WillIsOf
  <2>2. u # t
    BY <1>1, <2>1, NotSelecting
  <2>3. QED
    BY <1>1, <1>2, <2>1, <2>2, OthersWill
<1>5. \A u \in Threads \ {t}, r \in Rows : WaitsRight(u, r)' /\ HoldsRight(u, r)'
  BY <1>1, <1>2, <1>4, OthersRows DEF RowInv
<1>6. ASSUME NEW r \in Rows
      PROVE  WaitsRight(t, r)' /\ HoldsRight(t, r)'
  <2>1. ~Ahead(<< >>, << "lock", r >>) /\ ~Ahead(Tail(Tail(Rebuild)), << "lock", r >>)
    BY NothingAhead, SelectionAhead
  <2>2. ~Ahead(todo'[t], << "lock", r >>)
    BY <1>1, <2>1
  <2>3. QED
    BY <1>1, <1>2, <1>3, <2>2, AtIsAheadAfter DEF WaitsRight, HoldsRight
<1>7. ASSUME NEW r \in Rows
      PROVE  InIndex(r)'
  <2>1. Held(r) => Held(r)'
    BY <1>1, <1>2, <1>3 DEF Held, Touches, OthersKept
  <2>2. InIndex(r) /\ Document(r)' = Document(r)
    BY <1>2 DEF RowInv, BufferInv, Document
  <2>3. CASE buffer'[r] = buffer[r]
    BY <1>2, <1>4, <2>1, <2>2, <2>3 DEF InIndex
  <2>4. CASE buffer'[r] = << >> /\ row[r] = 0
    BY <1>2, <2>4 DEF InIndex, Document
  <2>5. CASE ~writers /\ row[r] # 0
    <3>1. todo'[t] = Tail(Tail(Rebuild))
      BY <1>1, <2>5
    <3>2. /\ Ahead(todo'[t], << "select", Metadata >>) /\ Ahead(todo'[t], << "select", Workspaces >>)
          /\ ~Ahead(todo'[t], << "create", None >>)
      BY <3>1, SelectionAhead
    <3>3. WillHandOut(t, r)'
      <4>1. PICK table \in {Metadata, Workspaces} : r \in table
        BY DEF Rows
      <4>2. QED
        BY <1>2, <2>5, <3>2, <4>1 DEF WillHandOut, Selecting
    <3>4. QED
      BY <3>3 DEF InIndex, WillIndex
  <2>6. QED
    BY <1>2, <2>3, <2>4, <2>5
<1>8. RebuildInv'
  <2>1. \A r : Gone(r)' <=> Gone(r)
    BY <1>2 DEF Gone
  <2>2. ~ToCompare(<< >>) /\ ~ToCompare(Tail(Tail(Rebuild)))
    BY RebuildAhead DEF ToCompare
  <2>3. ~ToCompare(todo'[t])
    BY <1>1, <2>2
  <2>4. \A table : TableFound(t, table)'
    BY <2>3 DEF TableFound, AtCall, Idle, ToCompare
  <2>5. \A gone : ~Ahead(todo'[t], << "sweep", gone >>)
    <3>1. \A gone : /\ ~Ahead(<< >>, << "sweep", gone >>)
                    /\ ~Ahead(Tail(Tail(Rebuild)), << "sweep", gone >>)
      BY NothingAhead, SelectionAhead
    <3>2. QED
      BY <1>1, <3>1
  <2>6. QED
    BY <1>0, <1>1, <1>2, <2>1, <2>4, <2>5, RebuildKept DEF RowInv
<1>9. QED
  BY <1>5, <1>6, <1>7, <1>8 DEF RowInv, WaitingInv, HolderInv, BufferInv

LEMMA SelectedRows ==
  ASSUME TypeOK, ListInv, LockInv, RowInv, NEW t \in Threads,
         NEW table \in {Metadata, Workspaces}, SelectRows(t, table)
  PROVE  RowInv'
<1>0. ListsTyped /\ selected \in [Threads -> SUBSET Rows]
  BY ListsAreTyped DEF TypeOK
<1>1. /\ AtCall(t, "select", table) /\ CallMade(t)
      /\ UNCHANGED << row, overtaken, seen, mutex, buffer, failed >>
      /\ selected'[t] = selected[t] \cup { r \in table : row[r] # 0 }
      /\ \A u \in Threads \ {t} : selected'[u] = selected[u]
  BY <1>0 DEF SelectRows, database, locks, index, auxiliary
<1>2. /\ ListsTyped' /\ OthersKept(t) /\ Stands(t) = Before("select")
      /\ \A call : Ahead(todo[t], call) <=> call = << "select", table >> \/ Ahead(todo'[t], call)
      /\ \A call : Ahead(todo'[t], call) => MayPrecede(<< "select", table >>, call)
      /\ \A r \in Rows : ~AtCall(t, "lock", r)'
  BY <1>0, <1>1, MadeFacts
<1>3. mutex # t
  BY <1>2, HolderStands DEF Before
<1>4. /\ todo'[t] # << >> /\ Head(todo'[t]) = << "docs", table >>
      /\ Ahead(todo'[t], << "docs", table >>)
  <2>1. todo'[t] # << >> /\ Head(todo'[t]) = << "docs", table >>
    BY <1>0, <1>1, CallMadeStep
  <2>2. todo'[t] \in Seq(Call)
    BY <1>2 DEF ListsTyped
  <2>3. QED
    BY <2>1, <2>2, TailAhead
<1>5. Selecting(t)' <=> Selecting(t)
  BY <1>2 DEF Selecting
<1>6. Selecting(t)
  <2>1. SUFFICES ASSUME Ahead(todo[t], << "create", None >>)
                 PROVE  FALSE
    BY DEF Selecting
  <2>2. AheadOf(todo[t], {"create"})
    BY <2>1, AheadIsAheadOf
  <2>3. todo[t] \in {Rebuild, Tail(Rebuild)}
    BY <2>2 DEF ListInv, Listed
  <2>4. Head(Rebuild) = << "check", None >> /\ Head(Tail(Rebuild)) = << "create", None >>
    BY RebuildAhead
  <2>5. Head(todo[t])[1] \in {"check", "create"}
    <3>1. CASE todo[t] = Rebuild
      <4>1. Head(todo[t]) = << "check", None >>
        BY <2>4, <3>1
      <4>2. QED
        BY <4>1
    <3>2. CASE todo[t] = Tail(Rebuild)
      <4>1. Head(todo[t]) = << "create", None >>
        BY <2>4, <3>2
      <4>2. QED
        BY <4>1
    <3>3. QED
      BY <2>3, <3>1, <3>2
  <2>6. QED
    BY <1>1, <2>5 DEF AtCall
<1>7. ASSUME NEW r \in Rows, WillIndex(r)
      PROVE  WillIndex(r)'
  <2>1. PICK u \in Threads : WillRead(u, r) \/ WillHandOut(u, r) \/ Waits(u, r)
    BY <1>7, WillIsOf
  <2>2. r \in selected[u] => r \in selected'[u]
    BY <1>1
  <2>3. CASE u # t
    BY <1>1, <1>2, <2>1, <2>2, <2>3, OthersWill
  <2>4. CASE u = t /\ r \in table /\ row[r] # 0
    <3>1. r \in selected'[t] /\ Indexable(r)'
      BY <1>1, <2>4 DEF Indexable
    <3>2. WillHandOut(t, r)'
      BY <1>4, <1>5, <1>6, <2>4, <3>1 DEF WillHandOut
    <3>3. QED
      BY <3>2 DEF WillIndex
  <2>5. CASE u = t /\ ~(r \in table /\ row[r] # 0)
    <3>1. ~Waits(t, r)
      BY <1>1 DEF Waits, AtCall
    <3>2. CASE WillRead(t, r)
      <4>1. /\ Ahead(todo[t], << "read", r >>) => Ahead(todo'[t], << "read", r >>)
            /\ \A x : Ahead(todo[t], << "group", x >>) => Ahead(todo'[t], << "group", x >>)
        BY <1>2
      <4>2. WillRead(t, r)'
        BY <1>1, <3>2, <4>1 DEF WillRead, Indexable
      <4>3. QED
        BY <4>2 DEF WillIndex
    <3>3. CASE WillHandOut(t, r)
      <4>1. PICK other \in {Metadata, Workspaces} :
              /\ r \in other
              /\ \/ Ahead(todo[t], << "docs", other >>) /\ r \in selected[t] /\ Indexable(r)
                 \/ Ahead(todo[t], << "select", other >>) /\ row[r] # 0
        BY <3>3 DEF WillHandOut
      <4>2. << "select", other >> # << "select", table >> \/ ~(row[r] # 0)
        BY <2>5, <4>1
      <4>3. /\ r \in other
            /\ \/ Ahead(todo'[t], << "docs", other >>) /\ r \in selected'[t] /\ Indexable(r)'
               \/ Ahead(todo'[t], << "select", other >>) /\ row'[r] # 0
        BY <1>1, <1>2, <2>2, <4>1, <4>2 DEF Indexable
      <4>4. WillHandOut(t, r)'
        BY <1>5, <1>6, <4>3 DEF WillHandOut
      <4>5. QED
        BY <4>4 DEF WillIndex
    <3>4. QED
      BY <2>1, <2>5, <3>1, <3>2, <3>3
  <2>6. QED
    BY <2>3, <2>4, <2>5
<1>8. \A u \in Threads \ {t}, r \in Rows : WaitsRight(u, r)' /\ HoldsRight(u, r)'
  BY <1>1, <1>2, <1>7, OthersRows DEF RowInv
<1>9. \A r \in Rows : WaitsRight(t, r)' /\ HoldsRight(t, r)'
  BY <1>1, <1>2, <1>3 DEF WaitsRight, HoldsRight
<1>10. ASSUME NEW r \in Rows
       PROVE  InIndex(r)'
  <2>1. Held(r) => Held(r)'
    BY <1>1, <1>2, <1>3 DEF Held, Touches, OthersKept
  <2>2. InIndex(r) /\ Document(r)' = Document(r)
    BY <1>1 DEF RowInv, BufferInv, Document
  <2>3. QED
    BY <1>1, <1>7, <2>1, <2>2 DEF InIndex
<1>11. RebuildInv'
  <2>1. \A r : Gone(r)' <=> Gone(r)
    BY <1>1 DEF Gone
  <2>2. ASSUME NEW other \in {Metadata, Workspaces}
        PROVE  TableFound(t, other)'
    <3>1. SUFFICES ASSUME AtCall(t, "docs", other)', NEW r \in other \ selected'[t]
                   PROVE  Gone(r)'
      BY DEF TableFound
    <3>2. other = table
      BY <1>4, <3>1 DEF AtCall
    <3>3. QED
      BY <1>1, <3>1, <3>2 DEF Gone
  <2>3. \A gone : ~Ahead(todo'[t], << "sweep", gone >>)
    BY <1>2 DEF MayPrecede
  <2>4. QED
    BY <1>0, <1>1, <1>2, <2>1, <2>2, <2>3, RebuildKept DEF RowInv
<1>12. QED
  BY <1>8, <1>9, <1>10, <1>11 DEF RowInv, WaitingInv, HolderInv, BufferInv

LEMMA TaskReads ==
  ASSUME NEW rows \in SUBSET Rows, NEW r \in rows
  PROVE  \/ Ahead(IndexMetadataTask(rows), << "read", r >>)
         \/ Ahead(IndexMetadataTask(rows), << "group", rows >>)
<1>1. rows # {} /\ r \in Rows
  OBVIOUS
<1>2. CASE \E q \in rows : rows = {q}
  <2>1. rows = {r}
    BY <1>2
  <2>2. (CHOOSE q \in rows : TRUE) = r
    BY <2>1
  <2>3. IndexMetadataTask(rows) = << << "read", r >> >>
    BY <1>1, <1>2, <2>2, RowCalls DEF IndexMetadataTask
  <2>4. QED
    BY <2>3, OneAhead
<1>3. CASE ~\E q \in rows : rows = {q}
  <2>1. IndexMetadataTask(rows) = IndexGroup(rows)
    BY <1>1, <1>3 DEF IndexMetadataTask
  <2>2. QED
    BY <2>1, GroupAhead
<1>4. QED
  BY <1>2, <1>3

LEMMA TaskOnly ==
  ASSUME NEW rows \in SUBSET Rows, NEW call, Ahead(IndexMetadataTask(rows), call)
  PROVE  call[1] \in {"read", "lock", "open", "group", "close", "unlock"}
<1>1. CASE rows = {}
  BY <1>1, NothingAhead DEF IndexMetadataTask
<1>2. CASE rows # {} /\ \E q \in rows : rows = {q}
  <2>1. PICK q \in Rows : IndexMetadataTask(rows) = IndexOne(q)
    BY <1>2 DEF IndexMetadataTask
  <2>2. call = << "read", q >>
    BY <2>1, RowCalls, OneAhead
  <2>3. QED
    BY <2>2
<1>3. CASE rows # {} /\ ~\E q \in rows : rows = {q}
  <2>1. IndexMetadataTask(rows) = IndexGroup(rows)
    BY <1>3 DEF IndexMetadataTask
  <2>2. QED
    BY <2>1, GroupAhead
<1>4. QED
  BY <1>1, <1>2, <1>3

\* What is found goes to a worker, and what is only in the index is swept.
LEMMA CompareRows ==
  ASSUME TypeOK, ListInv, LockInv, RowInv, NEW t \in Threads, NEW w \in Workers,
         NEW table \in {Metadata, Workspaces}, CompareDocs(t, w, table)
  PROVE  RowInv'
<1>0. ListsTyped /\ selected \in [Threads -> SUBSET Rows] /\ w \in Threads
  BY ListsAreTyped DEF TypeOK, Threads
<1>1. /\ ListsTyped' /\ t # w /\ Stands(t) = "out" /\ Stale(t, table) \in SUBSET Rows
      /\ todo[t] # << >> /\ Head(todo[t]) = << "docs", table >> /\ t \in Rebuilders
  BY <1>0, CompareDocsStep
<1>2. \A u \in Threads \ {t, w} : todo'[u] = todo[u]
  BY <1>0, CompareDocsStep
<1>. DEFINE gone == Stale(t, table)
            task == Task(t, table)
            rest == Tail(todo[t])
<1>3. Free(rest) /\ Free(task)
  BY <1>0, CompareDocsStep
<1>4. /\ todo[w] \in Seq(Call) /\ todo[t] \in Seq(Call) /\ rest \in Seq(Call)
      /\ task \in Seq(Call) /\ Loop("sweep", gone) \in Seq(Call)
  <2>1. todo[w] \in Seq(Call) /\ todo[t] \in Seq(Call)
    BY <1>0 DEF ListsTyped
  <2>2. rest \in Seq(Call)
    BY <1>1, <2>1, TailElements
  <2>3. selected[t] \cap table \in SUBSET Rows
    BY <1>0
  <2>4. Brought(w, task, "out")
    BY <1>0, <2>3, TaskBrought DEF Task
  <2>5. task \in Seq(Call)
    BY <2>4 DEF Brought
  <2>6. Loop("sweep", gone) \in Seq(Call)
    BY <1>1, LoopCalls
  <2>7. QED
    BY <2>1, <2>2, <2>5, <2>6
<1>5. /\ todo'[t] = Loop("sweep", gone) \o rest
       /\ todo'[w] = todo[w] \o task
  BY <1>0, <1>1 DEF CompareDocs, Stale, Task, ListsTyped
<1>. HIDE DEF gone, task, rest
<1>6. \A call : Ahead(todo[t], call) <=> call = << "docs", table >> \/ Ahead(rest, call)
  BY <1>1, <1>4, TailAhead DEF rest
<1>7. \A call : Ahead(todo'[t], call) <=> Ahead(Loop("sweep", gone), call) \/ Ahead(rest, call)
  BY <1>5, <1>4, BothAhead
<1>8. \A call : Ahead(todo'[w], call) <=> Ahead(todo[w], call) \/ Ahead(task, call)
  BY <1>5, <1>4, BothAhead
<1>9. UNCHANGED Knowledge
      /\ UNCHANGED << row, overtaken, selected, seen, mutex, buffer, failed >>
  BY DEF CompareDocs, Knowledge, database, locks, index, auxiliary
<1>10. \A call : Ahead(task, call) => call[1] \in {"read", "lock", "open", "group", "close", "unlock"}
  <2>1. selected[t] \cap table \in SUBSET Rows
    BY <1>0
  <2>2. QED
    BY <2>1, TaskOnly DEF Task, task
<1>11. ASSUME NEW r \in selected[t] \cap table
       PROVE  \/ Ahead(todo'[w], << "read", r >>)
              \/ \E rows \in SUBSET Rows : r \in rows /\ Ahead(todo'[w], << "group", rows >>)
  <2>1. selected[t] \cap table \in SUBSET Rows
    BY <1>0
  <2>2. Ahead(task, << "read", r >>) \/ Ahead(task, << "group", selected[t] \cap table >>)
    BY <2>1, TaskReads DEF Task, task
  <2>3. QED
    BY <1>8, <2>1, <2>2
<1>12. gone \subseteq table \ selected[t]
  BY DEF Stale, gone
<1>13. t \notin Workers /\ w \notin Rebuilders
  BY <1>1, PoolAssumption
<1>14. \A call : Ahead(Loop("sweep", gone), call) => call = << "sweep", gone >>
  BY LoopAhead
<1>15. mutex # t
  BY <1>1 DEF LockInv
<1>16. \A u \in Threads, r \in Rows : Touches(u, r)' <=> Touches(u, r)
  <2>1. ASSUME NEW call, call[1] \in {"add", "delete"}
        PROVE  /\ Ahead(todo'[w], call) <=> Ahead(todo[w], call)
               /\ Ahead(todo'[t], call) <=> Ahead(todo[t], call)
    <3>1. ~Ahead(task, call)
      BY <1>10, <2>1
    <3>2. ~Ahead(Loop("sweep", gone), call) /\ call # << "docs", table >>
      BY <1>14, <2>1
    <3>3. QED
      BY <1>6, <1>7, <1>8, <3>1, <3>2
  <2>2. \A r : << "add", r >>[1] \in {"add", "delete"} /\ << "delete", r >>[1] \in {"add", "delete"}
    OBVIOUS
  <2>3. QED
    BY <1>2, <2>1, <2>2 DEF Touches
<1>17. \A r : Ahead(todo'[w], << "add", r >>) <=> Ahead(todo[w], << "add", r >>)
  BY <1>8, <1>3, FreeAhead
<1>18. Selecting(w)' <=> Selecting(w)
  <2>1. ~Ahead(task, << "create", None >>)
    BY <1>10
  <2>2. QED
    BY <1>8, <2>1 DEF Selecting
<1>19. Selecting(t)' <=> Selecting(t)
  <2>1. ~Ahead(Loop("sweep", gone), << "create", None >>)
    BY <1>14
  <2>2. << "docs", table >> # << "create", None >>
    OBVIOUS
  <2>3. QED
    BY <1>6, <1>7, <2>1, <2>2 DEF Selecting
<1>20. ASSUME NEW r \in Rows
       PROVE  AtCall(w, "lock", r)' <=> AtCall(w, "lock", r)
  <2>1. CASE todo[w] = << >>
    <3>1. ~Ahead(task, << "lock", r >>) /\ ~Ahead(todo[w], << "lock", r >>)
      BY <1>3, <2>1, FreeAhead, NothingAhead
    <3>2. ~AtCall(w, "lock", r)'
      BY <1>0, <1>1, <1>8, <3>1, AtIsAheadAfter
    <3>3. ~AtCall(w, "lock", r)
      BY <2>1 DEF AtCall, Idle
    <3>4. QED
      BY <3>2, <3>3
  <2>2. CASE todo[w] # << >>
    <3>1. todo'[w] # << >> /\ Head(todo'[w]) = Head(todo[w])
      BY <1>5, <1>4, <2>2
    <3>2. QED
      BY <2>2, <3>1 DEF AtCall, Idle
  <2>3. QED
    BY <2>1, <2>2
<1>21. ASSUME NEW r \in Rows, WillIndex(r)
       PROVE  WillIndex(r)'
  <2>1. PICK u \in Threads : WillRead(u, r) \/ WillHandOut(u, r) \/ Waits(u, r)
    BY <1>21, WillIsOf
  <2>2. CASE u \notin {t, w}
    <3>1. todo'[u] = todo[u]
      BY <1>2, <2>2
    <3>2. CASE Waits(u, r)
      <4>1. Waits(u, r)'
        BY <3>1, <3>2 DEF Waits, AtCall, Idle
      <4>2. QED
        BY <4>1 DEF WillIndex
    <3>3. CASE WillRead(u, r) \/ WillHandOut(u, r)
      BY <1>9, <3>1, <3>3, WillKept
    <3>4. QED
      BY <2>1, <3>2, <3>3
  <2>3. CASE u = w /\ Waits(w, r)
    <3>1. Waits(w, r)'
      BY <1>8, <1>20, <2>3 DEF Waits
    <3>2. QED
      BY <1>0, <3>1 DEF WillIndex
  <2>4. CASE u = w /\ (WillRead(w, r) \/ WillHandOut(w, r))
    <3>1. \A call : Ahead(todo[w], call) => Ahead(todo'[w], call)
      BY <1>8
    <3>2. Ahead(todo'[w], << "create", None >>) => Ahead(todo[w], << "create", None >>)
      BY <1>18 DEF Selecting
    <3>3. QED
      BY <1>0, <1>9, <2>4, <3>1, <3>2, WillKept
  <2>5. CASE u = t
    <3>1. ~Waits(t, r)
      BY <1>1 DEF Waits, AtCall
    <3>2. CASE WillRead(t, r)
      <4>1. \A x : /\ Ahead(todo[t], << "read", x >>) => Ahead(todo'[t], << "read", x >>)
                   /\ Ahead(todo[t], << "group", x >>) => Ahead(todo'[t], << "group", x >>)
        BY <1>6, <1>7
      <4>2. WillRead(t, r)'
        BY <1>9, <3>2, <4>1 DEF WillRead, Indexable
      <4>3. QED
        BY <4>2 DEF WillIndex
    <3>3. CASE WillHandOut(t, r)
      <4>1. PICK other \in {Metadata, Workspaces} :
              /\ r \in other
              /\ \/ Ahead(todo[t], << "docs", other >>) /\ r \in selected[t] /\ Indexable(r)
                 \/ Ahead(todo[t], << "select", other >>) /\ row[r] # 0
        BY <3>3 DEF WillHandOut
      <4>2. Indexable(r)' <=> Indexable(r)
        BY <1>9 DEF Indexable
      <4>3. CASE other = table /\ r \in selected[t] /\ Indexable(r)
        <5>1. WillRead(w, r)'
          BY <1>11, <4>1, <4>2, <4>3 DEF WillRead
        <5>2. QED
          BY <1>0, <5>1 DEF WillIndex
      <4>4. CASE ~(other = table /\ r \in selected[t] /\ Indexable(r))
        <5>1. \/ << "docs", other >> # << "docs", table >>
              \/ ~(r \in selected[t] /\ Indexable(r))
          BY <4>4
        <5>2. << "select", other >> # << "docs", table >>
          OBVIOUS
        <5>3. \/ Ahead(todo'[t], << "docs", other >>) /\ r \in selected'[t] /\ Indexable(r)'
              \/ Ahead(todo'[t], << "select", other >>) /\ row'[r] # 0
          BY <1>6, <1>7, <1>9, <4>1, <4>2, <5>1, <5>2
        <5>4. WillHandOut(t, r)'
          BY <1>19, <3>3, <4>1, <5>3 DEF WillHandOut
        <5>5. QED
          BY <5>4 DEF WillIndex
      <4>5. QED
        BY <4>3, <4>4
    <3>4. QED
      BY <2>1, <2>5, <3>1, <3>2, <3>3
  <2>6. QED
    BY <2>1, <2>2, <2>3, <2>4, <2>5
<1>22. ASSUME NEW u \in Threads, NEW r \in Rows
       PROVE  WaitsRight(u, r)' /\ HoldsRight(u, r)'
  <2>1. WaitsRight(u, r) /\ HoldsRight(u, r)
    BY DEF RowInv, WaitingInv, HolderInv
  <2>2. CASE u = t
    <3>1. ~Ahead(todo'[t], << "lock", r >>)
      BY <1>7, <1>3, <1>14, FreeAhead
    <3>2. QED
      BY <1>1, <1>9, <1>15, <2>2, <3>1, AtIsAheadAfter DEF WaitsRight, HoldsRight
  <2>3. CASE u # t
    <3>1. AtCall(u, "lock", r)' <=> AtCall(u, "lock", r)
      <4>1. CASE u = w
        BY <1>20, <4>1
      <4>2. CASE u # w
        BY <1>2, <2>3, <4>2 DEF AtCall, Idle
      <4>3. QED
        BY <4>1, <4>2
    <3>2. Right(u, r)' <=> Right(u, r)
      BY <1>2, <1>9, <1>17, <2>3 DEF Right
    <3>3. QED
      BY <1>9, <1>16, <1>21, <2>1, <3>1, <3>2 DEF WaitsRight, HoldsRight
  <2>4. QED
    BY <2>2, <2>3
<1>23. ASSUME NEW r \in Rows
       PROVE  InIndex(r)'
  <2>1. Held(r) => Held(r)'
    BY <1>9, <1>16 DEF Held
  <2>2. InIndex(r) /\ Document(r)' = Document(r)
    BY <1>9 DEF RowInv, BufferInv, Document
  <2>3. QED
    BY <1>9, <1>21, <2>1, <2>2 DEF InIndex
<1>24. \A x : ~Ahead(todo'[w], << "docs", x >>) /\ ~Ahead(todo'[w], << "sweep", x >>)
  <2>1. \A x : ~Ahead(todo[w], << "docs", x >>) /\ ~Ahead(todo[w], << "sweep", x >>)
    BY <1>0, <1>13, RebuildingThreads
  <2>2. \A x : ~Ahead(task, << "docs", x >>) /\ ~Ahead(task, << "sweep", x >>)
    BY <1>10
  <2>3. QED
    BY <1>8, <2>1, <2>2
<1>25. \A r : Gone(r)' <=> Gone(r)
  BY <1>9 DEF Gone
<1>26. ASSUME NEW u \in Threads, NEW other \in {Metadata, Workspaces}
       PROVE  TableFound(u, other)'
  <2>1. CASE u = t
    <3>1. ~ToCompare(todo'[t])
      BY <1>0, CompareDocsStep
    <3>2. QED
      BY <2>1, <3>1 DEF TableFound, AtCall, Idle, ToCompare
  <2>2. CASE u = w
    <3>1. ~AtCall(w, "docs", other)'
      BY <1>0, <1>1, <1>24, AtIsAheadAfter
    <3>2. QED
      BY <2>2, <3>1 DEF TableFound
  <2>3. CASE u \notin {t, w}
    <3>1. TableFound(u, other) /\ todo'[u] = todo[u]
      BY <1>2, <2>3 DEF RowInv, RebuildInv
    <3>2. QED
      BY <1>9, <1>25, <3>1 DEF TableFound, AtCall, Idle
  <2>4. QED
    BY <2>1, <2>2, <2>3
<1>27. ASSUME NEW u \in Threads, NEW some \in SUBSET Rows
       PROVE  SweepRight(u, some)'
  <2>1. SUFFICES ASSUME Ahead(todo'[u], << "sweep", some >>), NEW r \in some
                 PROVE  Gone(r)
    BY <1>25 DEF SweepRight
  <2>2. u # w
    BY <1>24, <2>1
  <2>3. CASE u # t
    BY <1>2, <2>1, <2>2, <2>3 DEF RowInv, RebuildInv, SweepRight
  <2>4. CASE u = t
    <3>1. ~Ahead(rest, << "sweep", some >>)
      BY <1>3, FreeAhead
    <3>2. << "sweep", some >> = << "sweep", gone >>
      BY <1>7, <1>14, <2>1, <2>4, <3>1
    <3>3. r \in table \ selected[t]
      BY <1>12, <2>1, <3>2
    <3>4. AtCall(t, "docs", table)
      BY <1>1 DEF AtCall, Idle
    <3>5. QED
      BY <3>3, <3>4 DEF RowInv, RebuildInv, TableFound
  <2>5. QED
    BY <2>3, <2>4
<1>28. RebuildInv'
  BY <1>26, <1>27 DEF RebuildInv
<1>29. QED
  BY <1>22, <1>23, <1>28 DEF RowInv, WaitingInv, HolderInv, BufferInv
--------------------------------------------------------------------------------
LEMMA InitRows ==
  ASSUME Init
  PROVE  RowInv
<1>. USE DEF Init
<1>1. \A t \in Threads : todo[t] = << >>
  OBVIOUS
<1>2. \A t \in Threads : \A call : ~Ahead(todo[t], call)
  BY <1>1, NothingAhead
<1>3. WaitingInv
  BY <1>1 DEF WaitingInv, WaitsRight, AtCall, Idle
<1>4. HolderInv
  BY <1>2 DEF HolderInv, HoldsRight, Touches
<1>5. BufferInv
  BY DEF BufferInv, InIndex, Document
<1>6. RebuildInv
  BY <1>1, <1>2 DEF RebuildInv, TableFound, SweepRight, AtCall, Idle
<1>7. QED
  BY <1>3, <1>4, <1>5, <1>6 DEF RowInv

LEMMA StutterRows ==
  ASSUME RowInv, UNCHANGED vars
  PROVE  RowInv'
<1>1. UNCHANGED << row, todo, seen, selected, mutex, buffer, overtaken, failed >>
  BY DEF vars, database, locks, index, auxiliary
<1>2. \A t \in Threads, r \in Rows :
        /\ AtCall(t, "lock", r)' <=> AtCall(t, "lock", r)
        /\ Right(t, r)' <=> Right(t, r)
        /\ Touches(t, r)' <=> Touches(t, r)
  BY <1>1 DEF AtCall, Idle, Right, Touches
<1>3. \A r \in Rows : /\ WillIndex(r)' <=> WillIndex(r)
                      /\ Document(r)' = Document(r)
  BY <1>1 DEF WillIndex, WillRead, WillHandOut, Waits, Selecting, Indexable, AtCall,
     Idle, Document
<1>4. \A r \in Rows : Held(r)' <=> Held(r)
  BY <1>1, <1>2 DEF Held
<1>5. WaitingInv' /\ HolderInv' /\ BufferInv'
  BY <1>1, <1>2, <1>3, <1>4
     DEF RowInv, WaitingInv, WaitsRight, HolderInv, HoldsRight, BufferInv, InIndex
<1>6. RebuildInv'
  BY <1>1 DEF RowInv, RebuildInv, TableFound, Gone, AtCall, Idle, SweepRight
<1>7. QED
  BY <1>5, <1>6 DEF RowInv

LEMMA RowStep ==
  ASSUME WriterInv, RowInv, Next
  PROVE  RowInv'
<1>0. TypeOK /\ ListInv /\ LockInv /\ AddInv /\ ListsTyped
  BY ListsAreTyped DEF WriterInv
<1>1. ASSUME NEW t \in Requests, NEW r \in Rows, Change(t, r) \/ Drop(t, r)
      PROVE  RowInv'
  BY <1>0, <1>1, ChangeRows, DropRows
<1>2. ASSUME NEW t \in Requests, NEW r \in Rows, Reindex(t, r)
      PROVE  RowInv'
  <2>1. /\ Begin(t, IndexGroup({r})) /\ t \in Threads
        /\ UNCHANGED << row, seen, selected, mutex, buffer, overtaken, failed >>
    BY <1>2 DEF Reindex, Threads, database, locks, index, auxiliary
  <2>2. QED
    BY <1>0, <2>1, StartRows
<1>3. ASSUME NEW t \in Optimisers, StartOptimise(t)
      PROVE  RowInv'
  <2>1. /\ Begin(t, Optimise) /\ t \in Threads
        /\ UNCHANGED << row, seen, selected, mutex, buffer, overtaken, failed >>
    BY <1>3 DEF StartOptimise, Threads, database, locks, index, auxiliary
  <2>2. QED
    BY <1>0, <2>1, StartRows
<1>4. ASSUME NEW t \in Rebuilders, StartRebuild(t)
      PROVE  RowInv'
  <2>1. /\ Begin(t, Rebuild) /\ t \in Threads
        /\ UNCHANGED << row, seen, selected, mutex, buffer, overtaken, failed >>
    BY <1>4 DEF StartRebuild, Threads, database, locks, index, auxiliary
  <2>2. QED
    BY <1>0, <2>1, StartRows
<1>5. ASSUME NEW t \in Threads, NEW r \in Rows,
             \/ ReadRow(t, r) \/ ReadRowFails(t, r) \/ DeleteDocuments(t, r)
             \/ AddDocument(t, r) \/ AddFails(t, r)
      PROVE  RowInv'
  BY <1>0, <1>5, ReadRowRows, ReadRowFailsRows, DeleteStep, AddedStep
<1>6. ASSUME NEW t \in Threads, NEW s \in Rows \cup {None}, Lock(t, s) \/ Unlock(t, s)
      PROVE  RowInv'
  BY <1>0, <1>6, GetLockStep, UnlockStep
<1>7. ASSUME NEW t \in Threads, NEW s \in Rows \cup {None}, OpenWriter(t, s) \/ CloseWriter(t, s)
      PROVE  RowInv'
  <2>1. /\ CallMade(t)
        /\ AtCall(t, "open", s) \/ AtCall(t, "close", s)
        /\ UNCHANGED Knowledge /\ UNCHANGED << seen, mutex, buffer, failed >>
    BY <1>7 DEF OpenWriter, CloseWriter, Knowledge, database, locks, auxiliary
  <2>2. QED
    BY <1>0, <2>1, RestStep
<1>8. ASSUME NEW t \in Threads, EnterMonitor(t) \/ Merge(t) \/ LeaveMonitor(t)
      PROVE  RowInv'
  <2>1. /\ CallMade(t)
        /\ AtCall(t, "enter", None) \/ AtCall(t, "optimize", None) \/ AtCall(t, "leave", None)
        /\ UNCHANGED Knowledge /\ UNCHANGED << seen, mutex, buffer, failed >>
    BY <1>8 DEF EnterMonitor, Merge, LeaveMonitor, Knowledge, database, locks, index,
       auxiliary
  <2>2. QED
    BY <1>0, <2>1, RestStep
<1>9. ASSUME NEW t \in Threads, NEW rows \in SUBSET Rows, NEW r \in rows,
             ReadInGroup(t, rows, r) \/ ReadInGroupFails(t, rows, r) \/ Sweep(t, rows, r)
      PROVE  RowInv'
  BY <1>0, <1>9, ReadInGroupRows, ReadInGroupFailsRows, SweepRows
<1>10. ASSUME NEW t \in Threads, CheckClosed(t) \/ CreateIndex(t)
       PROVE  RowInv'
  BY <1>0, <1>10, CheckClosedRows, CreateIndexRows
<1>11. ASSUME NEW t \in Threads, NEW table \in {Metadata, Workspaces}, SelectRows(t, table)
       PROVE  RowInv'
  BY <1>0, <1>11, SelectedRows
<1>12. ASSUME NEW t \in Threads, NEW table \in {Metadata, Workspaces}, NEW w \in Workers,
              CompareDocs(t, w, table)
       PROVE  RowInv'
  BY <1>0, <1>12, CompareRows
<1>13. ASSUME NEW t \in Threads, EnterInit(t)
       PROVE  RowInv'
  <2>1. /\ CallMade(t) /\ AtCall(t, "init", None)
        /\ UNCHANGED Knowledge /\ UNCHANGED << seen, mutex, buffer, failed >>
    BY <1>13 DEF EnterInit, Knowledge, database, locks, index, auxiliary
  <2>2. QED
    BY <1>0, <2>1, RestStep
<1>14. ASSUME NEW t \in Threads, LeaveInit(t)
       PROVE  RowInv'
  BY <1>0, <1>14, LeaveInitStep
<1>15. QED
  BY <1>1, <1>2, <1>3, <1>4, <1>5, <1>6, <1>7, <1>8, <1>9, <1>10, <1>11, <1>12, <1>13,
     <1>14 DEF Next, CallOf

LEMMA RowInvariant == Spec => [](WriterInv /\ RowInv)
<1>1. Init => WriterInv /\ RowInv
  BY InitWriter, InitRows
<1>2. WriterInv /\ RowInv /\ [Next]_vars => (WriterInv /\ RowInv)'
  BY WriterStep, StutterWriter, RowStep, StutterRows
<1>3. QED
  BY <1>1, <1>2, PTL DEF Spec

(***************************************************************************)
(* When no thread is at work the index holds exactly the rows as they are, *)
(* except the rows that were changed under the eyes of another thread and  *)
(* those whose reading or document has failed since: after requests,       *)
(* groups and rebuildings of any number, in any order and overlapping.     *)
(***************************************************************************)
THEOREM IndexFollows == Spec => []IndexFollowsRows
<1>1. ASSUME WriterInv, RowInv
      PROVE  IndexFollowsRows
  <2>1. SUFFICES ASSUME Quiet, NEW r \in Rows \ (overtaken \cup failed)
                 PROVE  disk[r] = Document(r)
    BY DEF IndexFollowsRows, Document
  <2>2. \A t \in Threads : \A call : ~Ahead(todo[t], call)
    BY <2>1, NothingAhead DEF Quiet, Idle
  <2>3. ~Held(r)
    BY <2>2 DEF Held, Touches
  <2>4. ~WillIndex(r)
    BY <2>1, <2>2 DEF WillIndex, WillRead, WillHandOut, Waits
  <2>5. buffer[r] = Document(r)
    <3>1. InIndex(r)
      BY <1>1, <2>1 DEF RowInv, BufferInv
    <3>2. QED
      BY <2>1, <2>3, <2>4, <3>1 DEF InIndex
  <2>6. buffer = disk
    <3>1. LockInv /\ CountInv
      BY <1>1 DEF WriterInv
    <3>2. ClosedWhenQuiet
      BY <2>1, <3>1, NobodyOpened
    <3>3. QED
      BY <2>1, <3>2 DEF ClosedWhenQuiet
  <2>7. QED
    BY <2>5, <2>6
<1>2. QED
  BY <1>1, RowInvariant, PTL
================================================================================
