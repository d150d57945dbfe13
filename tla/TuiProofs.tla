------------------------------ MODULE TuiProofs ------------------------------
(***************************************************************************)
(* Proofs about the terminal client, for every set of transactions,        *)
(* categories, windows and databases, every page size and every bound.     *)
(***************************************************************************)
EXTENDS Tui, FiniteSetTheorems, SequenceTheorems, WellFoundedInduction, TLAPS

-----------------------------------------------------------------------------
(* The inductive invariant *)

\* The type of App.
AppType ==
  [screen : Screens, show_help : BOOLEAN, auto_poll : BOOLEAN, should_quit : BOOLEAN,
   filter : Filters, selected : 0 .. Limit, cluster : 0 .. MaxRows,
   detail_scroll : 0 .. MaxScroll, hash : Hashes \cup {None}]

\* The requests under way are a bag.
BagOK == sent \in [DOMAIN sent -> Nat \ {0}]

\* They are as many as the spinner says.
CountOK == IsFiniteSet(UnderWay(sent)) /\ InflightExact

\* There is a database, however often it has changed.
DbOK == changes \in Nat /\ changes + 1 \in DOMAIN Databases

\* The most rows that an answer of a kind can have.
MaxShown(k) == IF k = "list" THEN Limit ELSE MaxRows

\* What a loaded value holds: hashes, no more than fit, and the total.
ValueOK(k, l) ==
  l.st = "Loaded" =>
    /\ l.val.rows \in Seq(Hashes)
    /\ Len(l.val.rows) <= MaxShown(k)
    /\ l.val.total \in 0 .. MaxRows

ShownOK == \A k \in Kinds : ValueOK(k, shown[k])

\* What holds of the application and its requests ...
ClientOK ==
  /\ app \in AppType
  /\ DOMAIN shown = Kinds
  /\ \A k \in Kinds : shown[k].st \in {"Idle", "Loading", "Loaded", "Failed"}
  /\ inflight \in 0 .. MaxInflight
  /\ DOMAIN sent \subseteq Requests
  /\ BagOK
  /\ CountOK
  /\ ShownOK
  /\ LoadingIsBacked
  /\ CursorOnRow

\* ... and of the process around them.
ProcessOK ==
  /\ proc \in {"start", "run", "restore", "ended"}
  /\ modes \subseteq {"raw", "alt"}
  /\ TerminalRestored

TInv == ClientOK /\ ProcessOK /\ DbOK

-----------------------------------------------------------------------------
(* Pages *)

\* A set of natural numbers that is not empty has a least element.
LEMMA LeastOfNats ==
  ASSUME NEW T, T \subseteq Nat, T # {}
  PROVE  \E x \in T : \A y \in T : x <= y
<1> DEFINE R == OpToRel(<, Nat)
<1>1. IsWellFoundedOn(R, Nat)
  BY NatLessThanWellFounded
<1>2. \A x, y \in Nat : x < y => <<x, y>> \in R
  BY DEF OpToRel
<1> HIDE DEF R
<1>3. PICK x \in T : \A y \in T : ~(<<y, x>> \in R)
  BY <1>1, WFMin
<1>4. ASSUME NEW y \in T  PROVE x <= y
  <2>1. x \in Nat /\ y \in Nat
    OBVIOUS
  <2>2. ~(y < x)
    BY <1>2, <1>3, <2>1
  <2> QED  BY <2>1, <2>2
<1> QED  BY <1>4

\* There are N positions up to N.
LEMMA Positions ==
  ASSUME NEW N \in Nat
  PROVE  IsFiniteSet(1 .. N) /\ Cardinality(1 .. N) = N
BY FS_Interval

\* Every rank up to the size of a set of positions is taken: the n-th position
\* is the first one up to which there are n.
LEMMA NthIsThere ==
  ASSUME NEW N \in Nat, NEW S, S \subseteq 1 .. N, NEW n \in Nat, 1 <= n, n <= Cardinality(S)
  PROVE  Nth(S, n) \in S
<1> DEFINE Upto(i) == {j \in S : j <= i}
<1>1. IsFiniteSet(S) /\ \A j \in S : j \in 1 .. N
  <2>1. IsFiniteSet(1 .. N)
    BY FS_Interval
  <2> QED  BY <2>1, FS_Subset
<1>2. ASSUME NEW i  PROVE IsFiniteSet(Upto(i)) /\ Cardinality(Upto(i)) \in Nat
  <2>1. Upto(i) \in SUBSET S
    OBVIOUS
  <2> QED  BY <1>1, <2>1, FS_Subset, FS_CardinalityType
<1> DEFINE G == {i \in 0 .. N : Cardinality(Upto(i)) >= n}
<1>3. G \subseteq Nat /\ N \in G
  <2>1. \A j \in S : j <= N
    BY <1>1
  <2>2. Upto(N) = S
    BY <2>1
  <2> QED  BY <2>2
<1>4. PICK i \in G : \A k \in G : i <= k
  <2> HIDE DEF G
  <2> QED  BY <1>3, LeastOfNats
<1>5. i \in 0 .. N /\ Cardinality(Upto(i)) >= n
  BY <1>4
<1>6. i # 0
  <2>1. \A j \in S : ~(j <= 0)
    BY <1>1
  <2>2. Upto(0) = {}
    BY <2>1
  <2> QED  BY <1>5, <2>2, FS_EmptySet
<1>7. Cardinality(Upto(i - 1)) < n
  <2>1. i - 1 \in 0 .. N /\ ~(i <= i - 1)
    BY <1>5, <1>6
  <2>2. i - 1 \notin G
    BY <1>4, <2>1
  <2>3. ~(Cardinality(Upto(i - 1)) >= n)
    BY <2>1, <2>2
  <2>4. Cardinality(Upto(i - 1)) \in Nat
    BY <1>2
  <2> QED  BY <2>3, <2>4
<1>8. i \in S
  <2> SUFFICES ASSUME i \notin S  PROVE FALSE
    OBVIOUS
  <2>1. ASSUME NEW j \in S  PROVE j <= i <=> j <= i - 1
    BY <1>1, <1>5
  <2>2. Upto(i) = Upto(i - 1)
    BY <2>1
  <2> QED  BY <1>2, <1>5, <1>7, <2>2
<1>9. Cardinality({j \in S : j < i}) = n - 1
  <2>1. ASSUME NEW j \in S  PROVE (j < i <=> j <= i - 1) /\ (j <= i <=> j <= i - 1 \/ j = i)
    BY <1>1, <1>5
  <2>2. {j \in S : j < i} = Upto(i - 1)
    BY <2>1
  <2>3. Upto(i) = Upto(i - 1) \cup {i}
    BY <1>8, <2>1
  <2>4. i \notin Upto(i - 1)
    BY <1>5
  <2>5. IsFiniteSet(Upto(i - 1)) /\ Cardinality(Upto(i - 1)) \in Nat /\ Cardinality(Upto(i)) \in Nat
    BY <1>2
  <2> HIDE DEF Upto
  <2>6. Cardinality(Upto(i)) = Cardinality(Upto(i - 1)) + 1
    BY <2>3, <2>4, <2>5, FS_AddElement
  <2>7. Cardinality(Upto(i - 1)) = n - 1
    BY <1>5, <1>7, <2>5, <2>6
  <2> QED  BY <2>2, <2>7
<1> QED  BY <1>8, <1>9 DEF Nth

\* The rows of the database.
LEMMA DbRows ==
  ASSUME DbOK
  PROVE  /\ Len(db) \in 0 .. MaxRows
         /\ DOMAIN db = 1 .. Len(db)
         /\ \A i \in DOMAIN db : db[i].hash \in Hashes
<1> DEFINE Row == [hash : Hashes, category : STRING, window : STRING]
<1>1. Databases \in Seq(Seq(Row)) /\ MaxRows \in Nat
  BY TuiAssumption
<1>2. db \in Seq(Row) /\ Len(db) <= MaxRows
  BY <1>1, TuiAssumption, ElementOfSeq DEF DbOK, db
<1> HIDE DEF Row
<1>3. Len(db) \in Nat /\ DOMAIN db = 1 .. Len(db) /\ \A i \in 1 .. Len(db) : db[i] \in Row
  BY <1>2, LenProperties, ElementOfSeq
<1> QED  BY <1>1, <1>2, <1>3 DEF Row

\* A page is a list of hashes, no longer than asked for.
LEMMA PageType ==
  ASSUME DbOK, NEW S, S \subseteq DOMAIN db, NEW skip \in Nat, NEW max \in Nat
  PROVE  /\ Cardinality(S) \in 0 .. MaxRows
         /\ Page(S, skip, max) \in Seq(Hashes)
         /\ Len(Page(S, skip, max)) <= max
<1>1. Len(db) \in Nat /\ Len(db) <= MaxRows /\ S \subseteq 1 .. Len(db) /\ MaxRows \in Nat
  BY DbRows, TuiAssumption
<1>2. Cardinality(S) \in Nat /\ Cardinality(S) <= Len(db)
  <2>1. IsFiniteSet(1 .. Len(db)) /\ Cardinality(1 .. Len(db)) = Len(db)
    BY <1>1, Positions
  <2> QED  BY <1>1, <2>1, FS_Subset, FS_CardinalityType
<1> DEFINE left == Cardinality(S) - skip
           n == IF left < 0 THEN 0 ELSE Lower(left, max)
<1>3. n \in Nat /\ n <= max /\ (n > 0 => n <= left)
  BY <1>2 DEF Lower
<1>4. ASSUME NEW i \in 1 .. n  PROVE db[Nth(S, skip + i)].hash \in Hashes
  <2>1. skip + i \in Nat /\ 1 <= skip + i /\ skip + i <= Cardinality(S)
    <3>1. i \in Nat /\ 1 <= i /\ i <= left
      BY <1>2, <1>3
    <3> QED  BY <1>2, <3>1
  <2>2. Nth(S, skip + i) \in S
    BY <1>1, <2>1, NthIsThere
  <2> QED  BY <2>2, DbRows
<1>5. Page(S, skip, max) = [i \in 1 .. n |-> db[Nth(S, skip + i)].hash]
  BY DEF Page
<1> HIDE DEF n
<1>6. Page(S, skip, max) \in Seq(Hashes) /\ Len(Page(S, skip, max)) = n
  BY <1>3, <1>4, <1>5, IsASeq
<1> QED  BY <1>1, <1>2, <1>3, <1>6

\* Every request is answered with a value that its part of the screen can hold.
LEMMA AnswerOK ==
  ASSUME DbOK, NEW r \in Requests
  PROVE  /\ r.kind \in Kinds
         /\ Answer(r).st \in {"Loaded", "Failed"}
         /\ ValueOK(r.kind, Answer(r))
<1> USE DEF Loaded, Failed, ValueOK, MaxShown
<1>0. Limit \in Nat /\ MaxRows \in Nat /\ 0 \in 0 .. MaxRows
  BY TuiAssumption
<1> DEFINE Blank(q) == Loaded([query |-> q, rows |-> <<>>, total |-> 0])
<1>b. ASSUME NEW q, NEW k \in Kinds  PROVE ValueOK(k, Blank(q)) /\ Blank(q).st = "Loaded"
  <2>1. <<>> \in Seq(Hashes) /\ Len(<<>>) = 0
    BY EmptySeq
  <2>2. Blank(q).st = "Loaded" /\ Blank(q).val.rows = <<>> /\ Blank(q).val.total = 0
    OBVIOUS
  <2>3. 0 <= MaxShown(k)
    BY <1>0
  <2> HIDE DEF Blank
  <2> QED  BY <1>0, <2>1, <2>2, <2>3
<1> HIDE DEF Blank
<1>1. CASE \E f \in Filters : r = Ask("list", f)
  <2>1. PICK f \in Filters : r = Ask("list", f)
    BY <1>1
  <2>2. f.offset \in Nat
    BY <1>0, <2>1 DEF Filters, Offsets
  <2>3. Matching(f) \subseteq DOMAIN db
    BY DEF Matching
  <2>4. r.kind = "list" /\ r.query = f
    BY <2>1 DEF Ask
  <2>5. Answer(r) = Loaded(ListPage(f))
    BY <2>4 DEF Answer
  <2>6. /\ Cardinality(Matching(f)) \in 0 .. MaxRows
        /\ Page(Matching(f), f.offset, Limit) \in Seq(Hashes)
        /\ Len(Page(Matching(f), f.offset, Limit)) <= Limit
    BY <1>0, <2>2, <2>3, PageType
  <2> QED  BY <2>4, <2>5, <2>6 DEF ListPage, Kinds
<1>2. CASE \E h \in Hashes : r = Ask("detail", h)
  <2>1. r.kind = "detail"
    BY <1>2 DEF Ask
  <2>2. Answer(r) = Blank(r.query) \/ Answer(r) = Failed
    BY <2>1 DEF Answer, Blank
  <2> QED  BY <1>b, <2>1, <2>2 DEF Kinds
<1>3. CASE \E k \in {"latest", "analysis"} : r = Ask(k, None)
  <2>1. r.kind \in {"latest", "analysis"}
    BY <1>3 DEF Ask
  <2>2. Answer(r) = Blank(None)
    BY <2>1 DEF Answer, Blank
  <2> QED  BY <1>b, <2>1, <2>2 DEF Kinds
<1>4. CASE r = Ask("clusters", None)
  <2>1. r.kind = "clusters"
    BY <1>4 DEF Ask
  <2>2. Answer(r) = Loaded([query |-> None, rows |-> Page(Unclassified, 0, MaxRows), total |-> 0])
    BY <2>1 DEF Answer
  <2>3. Unclassified \subseteq DOMAIN db
    BY DEF Unclassified
  <2>4. Page(Unclassified, 0, MaxRows) \in Seq(Hashes) /\ Len(Page(Unclassified, 0, MaxRows)) <= MaxRows
    BY <1>0, <2>3, PageType
  <2> QED  BY <1>0, <2>1, <2>2, <2>4 DEF Kinds
<1> QED  BY <1>1, <1>2, <1>3, <1>4 DEF Requests

-----------------------------------------------------------------------------
(* Requests under way *)

\* Asking adds to the bag and removes nothing.
LEMMA BagGrows ==
  ASSUME BagOK, NEW S
  PROVE  LET b == sent (+) SetToBag(S)
         IN  b \in [DOMAIN b -> Nat \ {0}] /\ DOMAIN b = DOMAIN sent \cup S
BY DEF BagOK, SetToBag, (+)

\* An answer takes its own request away and no other.
LEMMA BagShrinks ==
  ASSUME BagOK, NEW r
  PROVE  LET b == sent (-) SetToBag({r})
         IN  /\ b \in [DOMAIN b -> Nat \ {0}]
             /\ DOMAIN b \subseteq DOMAIN sent
             /\ \A x \in DOMAIN sent : x # r => x \in DOMAIN b
BY DEF BagOK, SetToBag, (-)

\* What is marked as loading is asked for, and what is asked is a request.
LEMMA MarkedIsNeeded ==
  ASSUME NEW a \in AppType
  PROVE  /\ \A k \in Marks(a.screen, a.hash) : \E r \in Needs(a.screen, a.filter, a.hash) : r.kind = k
         /\ Needs(a.screen, a.filter, a.hash) \subseteq Requests
         /\ Raise(a.screen, a.hash) \in Nat
<1>1. a.screen \in Screens /\ a.filter \in Filters /\ a.hash \in Hashes \cup {None}
  BY DEF AppType
<1>2. a.screen \in {"Overview", "FailedTx", "Detail", "Clusters"}
  BY <1>1 DEF Screens, SCREEN_ORDER
<1>3. Raise(a.screen, a.hash) \in Nat
  BY DEF Raise
<1>4. CASE a.screen = "Overview"
  BY <1>3, <1>4 DEF Marks, Needs, Requests, Ask
<1>5. CASE a.screen = "FailedTx"
  BY <1>1, <1>3, <1>5 DEF Marks, Needs, Requests, Ask
<1>6. CASE a.screen = "Detail"
  BY <1>1, <1>3, <1>6 DEF Marks, Needs, Requests, Ask
<1>7. CASE a.screen = "Clusters"
  BY <1>3, <1>7 DEF Marks, Needs, Requests, Ask
<1> QED  BY <1>2, <1>4, <1>5, <1>6, <1>7

\* The number that the next request of a form is told apart by.
NextOf(b, r) == IF r \in DOMAIN b THEN b[r] + 1 ELSE 1

\* The requests under way, one by one.
LEMMA UnderWayIs ==
  ASSUME NEW b, NEW p
  PROVE  p \in UnderWay(b) <=> \E r \in DOMAIN b : \E i \in 1 .. b[r] : p = <<r, i>>
BY DEF UnderWay

\* Asking adds one of each form and keeps the others.
LEMMA AskedAreNew ==
  ASSUME NEW b, b \in [DOMAIN b -> Nat \ {0}], NEW S
  PROVE  /\ UnderWay(b (+) SetToBag(S)) = UnderWay(b) \cup {<<r, NextOf(b, r)>> : r \in S}
         /\ \A r : <<r, NextOf(b, r)>> \notin UnderWay(b)
<1> DEFINE c == b (+) SetToBag(S)
<1>1. /\ DOMAIN c = DOMAIN b \cup S
      /\ \A r \in S : c[r] = NextOf(b, r)
      /\ \A r \in DOMAIN b : r \notin S => c[r] = b[r]
  BY DEF SetToBag, (+), NextOf
<1>2. \A r \in DOMAIN b : b[r] \in Nat \ {0}
  OBVIOUS
<1> HIDE DEF c
<1>3. ASSUME NEW r  PROVE <<r, NextOf(b, r)>> \notin UnderWay(b)
  <2> SUFFICES ASSUME <<r, NextOf(b, r)>> \in UnderWay(b)  PROVE FALSE
    OBVIOUS
  <2>1. PICK x \in DOMAIN b : \E i \in 1 .. b[x] : <<r, NextOf(b, r)>> = <<x, i>>
    BY UnderWayIs
  <2>2. x = r /\ NextOf(b, r) \in 1 .. b[r] /\ b[r] \in Nat
    BY <1>2, <2>1
  <2> QED  BY <2>1, <2>2 DEF NextOf
<1>4. ASSUME NEW p \in UnderWay(c)  PROVE p \in UnderWay(b) \cup {<<r, NextOf(b, r)>> : r \in S}
  <2>1. PICK r \in DOMAIN c : \E i \in 1 .. c[r] : p = <<r, i>>
    BY UnderWayIs
  <2>2. PICK i \in 1 .. c[r] : p = <<r, i>>
    BY <2>1
  <2>3. CASE r \notin S
    <3>1. r \in DOMAIN b /\ c[r] = b[r]
      BY <1>1, <2>1, <2>3
    <3> QED  BY <2>2, <3>1, UnderWayIs
  <2>4. CASE r \in S /\ i = NextOf(b, r)
    BY <2>2, <2>4
  <2>5. CASE r \in S /\ i # NextOf(b, r)
    <3>1. i \in 1 .. NextOf(b, r)
      BY <1>1, <2>5
    <3>2. r \in DOMAIN b /\ i \in 1 .. b[r]
      BY <1>2, <2>5, <3>1 DEF NextOf
    <3> QED  BY <2>2, <3>2, UnderWayIs
  <2> QED  BY <2>3, <2>4, <2>5
<1>5. ASSUME NEW p \in UnderWay(b)  PROVE p \in UnderWay(c)
  <2>1. PICK r \in DOMAIN b : \E i \in 1 .. b[r] : p = <<r, i>>
    BY UnderWayIs
  <2>2. PICK i \in 1 .. b[r] : p = <<r, i>>
    BY <2>1
  <2>3. r \in DOMAIN c /\ i \in 1 .. c[r]
    <3>1. b[r] \in Nat /\ NextOf(b, r) = b[r] + 1
      BY <1>2 DEF NextOf
    <3>2. c[r] = b[r] \/ c[r] = b[r] + 1
      BY <1>1, <3>1
    <3> QED  BY <1>1, <3>1, <3>2
  <2> QED  BY <2>2, <2>3, UnderWayIs
<1>6. ASSUME NEW r \in S  PROVE <<r, NextOf(b, r)>> \in UnderWay(c)
  <2>1. r \in DOMAIN c /\ c[r] = NextOf(b, r)
    BY <1>1
  <2>2. NextOf(b, r) \in Nat \ {0}
    BY <1>2 DEF NextOf
  <2>3. NextOf(b, r) \in 1 .. c[r]
    BY <2>1, <2>2
  <2> QED  BY <2>1, <2>3, UnderWayIs
<1>7. UnderWay(c) = UnderWay(b) \cup {<<r, NextOf(b, r)>> : r \in S}
  BY <1>4, <1>5, <1>6
<1> QED  BY <1>3, <1>7 DEF c

\* An answer takes one of its form away.
LEMMA AnsweredIsGone ==
  ASSUME NEW b, b \in [DOMAIN b -> Nat \ {0}], NEW r \in DOMAIN b
  PROVE  /\ UnderWay(b (-) SetToBag({r})) = UnderWay(b) \ {<<r, b[r]>>}
         /\ <<r, b[r]>> \in UnderWay(b)
<1> DEFINE c == b (-) SetToBag({r})
<1>1. /\ \A x \in DOMAIN c : x \in DOMAIN b /\ c[x] = IF x = r THEN b[r] - 1 ELSE b[x]
      /\ \A x \in DOMAIN b : x # r \/ b[r] > 1 => x \in DOMAIN c
  BY DEF SetToBag, (-)
<1>2. \A x \in DOMAIN b : b[x] \in Nat \ {0}
  OBVIOUS
<1> HIDE DEF c
<1>3. <<r, b[r]>> \in UnderWay(b)
  <2>1. b[r] \in 1 .. b[r]
    BY <1>2
  <2> QED  BY <2>1, UnderWayIs
<1>4. ASSUME NEW p \in UnderWay(c)  PROVE p \in UnderWay(b) \ {<<r, b[r]>>}
  <2>1. PICK x \in DOMAIN c : \E i \in 1 .. c[x] : p = <<x, i>>
    BY UnderWayIs
  <2>2. PICK i \in 1 .. c[x] : p = <<x, i>>
    BY <2>1
  <2>3. x \in DOMAIN b /\ i \in 1 .. b[x] /\ (x = r => i # b[r])
    BY <1>1, <1>2
  <2>4. p # <<r, b[r]>>
    BY <2>2, <2>3
  <2> QED  BY <2>2, <2>3, <2>4, UnderWayIs
<1>5. ASSUME NEW p \in UnderWay(b), p # <<r, b[r]>>  PROVE p \in UnderWay(c)
  <2>1. PICK x \in DOMAIN b : \E i \in 1 .. b[x] : p = <<x, i>>
    BY UnderWayIs
  <2>2. PICK i \in 1 .. b[x] : p = <<x, i>>
    BY <2>1
  <2>3. x = r => i < b[r] /\ b[r] > 1
    BY <1>2, <1>5, <2>2
  <2>4. x \in DOMAIN c /\ i \in 1 .. c[x]
    BY <1>1, <1>2, <2>3
  <2> QED  BY <2>2, <2>4, UnderWayIs
<1> QED  BY <1>3, <1>4, <1>5 DEF c

\* inflight is raised by as many as are asked for.
LEMMA RaisedByNeeds ==
  ASSUME NEW a \in AppType
  PROVE  LET N == Needs(a.screen, a.filter, a.hash)
             n == Raise(a.screen, a.hash)
         IN  \/ N = {} /\ n = 0
             \/ n = 1 /\ \E x : N = {x}
             \/ n = 2 /\ \E x, y : x # y /\ N = {x, y}
<1>1. a.screen \in {"Overview", "FailedTx", "Detail", "Clusters"}
  BY DEF AppType, Screens, SCREEN_ORDER
<1>2. CASE a.screen = "Overview"
  <2>1. Ask("latest", None) # Ask("analysis", None)
    BY DEF Ask
  <2> QED  BY <1>2, <2>1 DEF Needs, Raise
<1>3. CASE a.screen = "FailedTx"
  BY <1>3 DEF Needs, Raise
<1>4. CASE a.screen = "Detail"
  BY <1>4 DEF Needs, Raise
<1>5. CASE a.screen = "Clusters"
  BY <1>5 DEF Needs, Raise
<1> QED  BY <1>1, <1>2, <1>3, <1>4, <1>5

\* As many more are under way.
LEMMA CountGrows ==
  ASSUME BagOK, CountOK, inflight \in Nat, NEW a \in AppType,
         NEW b, b = sent (+) SetToBag(Needs(a.screen, a.filter, a.hash))
  PROVE  IsFiniteSet(UnderWay(b)) /\ Cardinality(UnderWay(b)) = inflight + Raise(a.screen, a.hash)
<1> DEFINE N == Needs(a.screen, a.filter, a.hash)
           n == Raise(a.screen, a.hash)
           U == UnderWay(sent)
           New(r) == <<r, NextOf(sent, r)>>
<1>1. IsFiniteSet(U) /\ Cardinality(U) = inflight
  BY DEF CountOK, InflightExact
<1>2. UnderWay(b) = U \cup {New(r) : r \in N} /\ \A r : New(r) \notin U
  BY AskedAreNew DEF BagOK
<1>3. \/ N = {} /\ n = 0
      \/ n = 1 /\ \E x : N = {x}
      \/ n = 2 /\ \E x, y : x # y /\ N = {x, y}
  BY RaisedByNeeds
<1>4. \A x, y : New(x) = New(y) => x = y
  OBVIOUS
<1> HIDE DEF N, n, U, New
<1>5. CASE N = {} /\ n = 0
  <2>1. UnderWay(b) = U
    BY <1>2, <1>5
  <2> QED  BY <1>1, <1>5, <2>1 DEF n
<1>6. CASE n = 1 /\ \E x : N = {x}
  <2>1. PICK x : N = {x}
    BY <1>6
  <2>2. UnderWay(b) = U \cup {New(x)} /\ New(x) \notin U
    BY <1>2, <2>1
  <2>3. IsFiniteSet(U \cup {New(x)}) /\ Cardinality(U \cup {New(x)}) = Cardinality(U) + 1
    BY <1>1, <2>2, FS_AddElement
  <2> QED  BY <1>1, <1>6, <2>2, <2>3 DEF n
<1>7. CASE n = 2 /\ \E x, y : x # y /\ N = {x, y}
  <2>1. PICK x, y : x # y /\ N = {x, y}
    BY <1>7
  <2> DEFINE V == U \cup {New(x)}
  <2>2. UnderWay(b) = V \cup {New(y)} /\ New(x) \notin U /\ New(y) \notin V
    BY <1>2, <1>4, <2>1
  <2>3. IsFiniteSet(V) /\ Cardinality(V) = Cardinality(U) + 1
    BY <1>1, <2>2, FS_AddElement
  <2> HIDE DEF V
  <2>4. IsFiniteSet(V \cup {New(y)}) /\ Cardinality(V \cup {New(y)}) = Cardinality(V) + 1
    BY <2>2, <2>3, FS_AddElement
  <2>5. Cardinality(V \cup {New(y)}) = inflight + 2
    BY <1>1, <2>3, <2>4
  <2> QED  BY <1>7, <2>2, <2>4, <2>5 DEF n
<1> QED  BY <1>3, <1>5, <1>6, <1>7

\* One less is, after an answer.
LEMMA CountShrinks ==
  ASSUME BagOK, CountOK, inflight \in Nat, NEW r \in DOMAIN sent,
         NEW b, b = sent (-) SetToBag({r})
  PROVE  IsFiniteSet(UnderWay(b)) /\ inflight # 0 /\ Cardinality(UnderWay(b)) = inflight - 1
<1> DEFINE U == UnderWay(sent)
           old == <<r, sent[r]>>
<1>1. IsFiniteSet(U) /\ Cardinality(U) = inflight
  BY DEF CountOK, InflightExact
<1>2. UnderWay(b) = U \ {old} /\ old \in U
  BY AnsweredIsGone DEF BagOK
<1> HIDE DEF U, old
<1>3. IsFiniteSet(U \ {old}) /\ Cardinality(U \ {old}) = Cardinality(U) - 1
  BY <1>1, <1>2, FS_RemoveElement
<1>4. Cardinality(U) # 0
  BY <1>1, <1>2, FS_EmptySet
<1> QED  BY <1>1, <1>2, <1>3, <1>4

-----------------------------------------------------------------------------
(* The steps of the application *)

\* The number of rows shown fits the cursor's type.
LEMMA RowsType ==
  ASSUME ClientOK, NEW k \in Kinds
  PROVE  Rows(shown[k]) \in 0 .. MaxShown(k)
<1>1. ValueOK(k, shown[k]) /\ MaxShown(k) \in Nat
  BY TuiAssumption DEF ClientOK, ShownOK, MaxShown
<1>2. CASE shown[k].st = "Loaded"
  <2>1. Len(shown[k].val.rows) \in Nat /\ Len(shown[k].val.rows) <= MaxShown(k)
    BY <1>1, <1>2, LenProperties DEF ValueOK
  <2> QED  BY <1>1, <1>2, <2>1 DEF Rows
<1>3. CASE shown[k].st # "Loaded"
  BY <1>1, <1>3 DEF Rows
<1> QED  BY <1>2, <1>3

\* Keys that touch neither the cursors nor the requests.
LEMMA StillStep ==
  ASSUME ClientOK, app' \in AppType, app'.selected = app.selected, app'.cluster = app.cluster, UNCHANGED net
  PROVE  ClientOK'
<1>1. UNCHANGED <<shown, inflight, sent>>
  BY DEF net
<1>2. CursorOnRow'
  BY <1>1 DEF ClientOK, CursorOnRow, Rows
<1>3. BagOK' /\ CountOK' /\ ShownOK' /\ LoadingIsBacked'
  BY <1>1 DEF ClientOK, BagOK, CountOK, InflightExact, UnderWay, ShownOK, ValueOK, LoadingIsBacked
<1> QED  BY <1>1, <1>2, <1>3 DEF ClientOK

\* spawn_fetch_active: loaded values stay, the others become loading together
\* with the request that will settle them.
LEMMA FetchStep ==
  ASSUME ClientOK, NEW a \in AppType, a.selected = app.selected, a.cluster = app.cluster, MoveAndFetch(a)
  PROVE  ClientOK'
<1> DEFINE M == Marks(a.screen, a.hash)
           N == Needs(a.screen, a.filter, a.hash)
           n == Raise(a.screen, a.hash)
<1>1. /\ app' = a
      /\ inflight + n <= MaxInflight
      /\ shown' = [k \in Kinds |-> IF k \in M THEN begin(shown[k]) ELSE shown[k]]
      /\ inflight' = inflight + n
      /\ sent' = sent (+) SetToBag(N)
  BY DEF MoveAndFetch, Fetch
<1>2. (\A k \in M : \E r \in N : r.kind = k) /\ N \subseteq Requests /\ n \in Nat
  BY MarkedIsNeeded
<1>c. CountOK'
  <2>1. BagOK /\ CountOK /\ inflight \in Nat
    BY TuiAssumption DEF ClientOK
  <2>2. IsFiniteSet(UnderWay(sent')) /\ Cardinality(UnderWay(sent')) = inflight + n
    BY <1>1, <2>1, CountGrows
  <2> QED  BY <1>1, <2>2 DEF CountOK, InflightExact, UnderWay
<1> HIDE DEF M, N, n
<1>3. sent' \in [DOMAIN sent' -> Nat \ {0}] /\ DOMAIN sent' = DOMAIN sent \cup N
  BY <1>1, BagGrows DEF ClientOK
<1>4. inflight' \in 0 .. MaxInflight
  BY <1>1, <1>2, TuiAssumption DEF ClientOK
<1>5. ASSUME NEW k \in Kinds
      PROVE  shown'[k] = shown[k] \/ (k \in M /\ shown'[k] = Loading /\ shown[k].st # "Loaded")
  BY <1>1 DEF begin
<1>6. ASSUME NEW k \in Kinds
      PROVE  /\ shown'[k].st \in {"Idle", "Loading", "Loaded", "Failed"}
             /\ ValueOK(k, shown'[k])
             /\ Rows(shown'[k]) = Rows(shown[k])
             /\ shown'[k].st = "Loading" => shown[k].st = "Loading" \/ k \in M
  <2>1. CASE shown'[k] = shown[k]
    BY <2>1 DEF ClientOK, ShownOK
  <2>2. CASE k \in M /\ shown'[k] = Loading /\ shown[k].st # "Loaded"
    BY <2>2 DEF Loading, ValueOK, Rows
  <2> QED  BY <1>5, <2>1, <2>2
<1>7. ShownOK'
  BY <1>6 DEF ShownOK, ValueOK, MaxShown
<1>8. LoadingIsBacked'
  BY <1>2, <1>3, <1>6 DEF ClientOK, LoadingIsBacked
<1>9. CursorOnRow'
  <2>1. Rows(shown'["list"]) = Rows(shown["list"]) /\ Rows(shown'["clusters"]) = Rows(shown["clusters"])
    BY <1>6 DEF Kinds
  <2> QED  BY <1>1, <2>1 DEF ClientOK, CursorOnRow, Rows
<1>10. DOMAIN shown' = Kinds
  BY <1>1
<1> QED  BY <1>1, <1>2, <1>3, <1>c, <1>4, <1>6, <1>7, <1>8, <1>9, <1>10 DEF ClientOK, BagOK

\* A cursor that moves stays on the rows.
LEMMA MovedOnRow ==
  ASSUME NEW n \in Nat, NEW cur \in 0 .. n, (cur = 0) = (n = 0), NEW dir \in {-1, 1}
  PROVE  /\ Moved(cur, dir, n) \in 0 .. n
         /\ (Moved(cur, dir, n) = 0) = (n = 0)
<1>1. CASE n = 0
  BY <1>1 DEF Moved
<1>2. CASE n # 0
  <2>1. Moved(cur, dir, n) \in 1 .. n
    BY <1>2 DEF Moved, Clamp
  <2> QED  BY <1>2, <2>1
<1> QED  BY <1>1, <1>2

\* An arriving list puts the cursor on one of its rows.
LEMMA ClampedOnRow ==
  ASSUME NEW n \in Nat, NEW cur \in Nat
  PROVE  /\ Clamped(cur, n) \in 0 .. n
         /\ (Clamped(cur, n) = 0) = (n = 0)
<1>1. CASE n = 0
  BY <1>1 DEF Clamped
<1>2. CASE n # 0
  <2>1. Clamped(cur, n) \in 1 .. n
    BY <1>2 DEF Clamped, Lower
  <2> QED  BY <1>2, <2>1
<1> QED  BY <1>1, <1>2

\* The cursors and the rows they are on, as numbers.
LEMMA Cursors ==
  ASSUME ClientOK
  PROVE  /\ Rows(shown["list"]) \in 0 .. Limit
         /\ app.selected \in 0 .. Rows(shown["list"])
         /\ (app.selected = 0) = (Rows(shown["list"]) = 0)
         /\ Rows(shown["clusters"]) \in 0 .. MaxRows
         /\ app.cluster \in 0 .. Rows(shown["clusters"])
         /\ (app.cluster = 0) = (Rows(shown["clusters"]) = 0)
         /\ app.detail_scroll \in 0 .. MaxScroll
<1>1. Rows(shown["list"]) \in 0 .. Limit /\ Rows(shown["clusters"]) \in 0 .. MaxRows
  <2>1. "list" \in Kinds /\ "clusters" \in Kinds /\ MaxShown("list") = Limit /\ MaxShown("clusters") = MaxRows
    BY DEF Kinds, MaxShown
  <2> QED  BY <2>1, RowsType
<1>2. app.selected \in Nat /\ app.cluster \in Nat /\ app.detail_scroll \in 0 .. MaxScroll
  BY TuiAssumption DEF ClientOK, AppType
<1>3. CursorOnRow
  BY DEF ClientOK
<1>4. app.selected <= Rows(shown["list"]) /\ app.cluster <= Rows(shown["clusters"])
  BY <1>3 DEF CursorOnRow
<1>5. app.selected \in 0 .. Rows(shown["list"]) /\ app.cluster \in 0 .. Rows(shown["clusters"])
  BY <1>1, <1>2, <1>4, TuiAssumption
<1> QED  BY <1>1, <1>2, <1>3, <1>5 DEF CursorOnRow

\* on_up, on_down: the cursor of the screen moves, or the text scrolls.
LEMMA MoveStep ==
  ASSUME ClientOK, NEW dir \in {-1, 1}, on_move(dir)
  PROVE  ClientOK'
<1> DEFINE n == Rows(shown["list"])
           m == Rows(shown["clusters"])
<1>1. UNCHANGED <<shown, inflight, sent>> /\ app \in AppType
  BY DEF on_move, net, ClientOK
<1>2. /\ n \in 0 .. Limit /\ app.selected \in 0 .. n /\ (app.selected = 0) = (n = 0)
      /\ m \in 0 .. MaxRows /\ app.cluster \in 0 .. m /\ (app.cluster = 0) = (m = 0)
      /\ app.detail_scroll \in 0 .. MaxScroll
  BY Cursors
<1>3. n' = n /\ m' = m
  BY <1>1 DEF Rows
<1> HIDE DEF n, m
<1>4. BagOK' /\ CountOK' /\ ShownOK' /\ LoadingIsBacked'
  BY <1>1 DEF ClientOK, BagOK, CountOK, InflightExact, UnderWay, ShownOK, ValueOK, LoadingIsBacked
<1>5. Limit \in Nat /\ MaxRows \in Nat /\ MaxScroll \in Nat
  BY TuiAssumption
<1>6. CASE app.screen = "FailedTx"
  <2>1. app' = [app EXCEPT !.selected = Moved(@, dir, n)]
    BY <1>6 DEF on_move, n
  <2>2. Moved(app.selected, dir, n) \in 0 .. n /\ (Moved(app.selected, dir, n) = 0) = (n = 0)
    <3>1. n \in Nat /\ app.selected \in 0 .. n /\ (app.selected = 0) = (n = 0)
      BY <1>2, <1>5
    <3> QED  BY <3>1, MovedOnRow
  <2>3. app' \in AppType /\ app'.selected = Moved(app.selected, dir, n) /\ app'.cluster = app.cluster
    <3>1. Moved(app.selected, dir, n) \in 0 .. Limit
      BY <1>2, <1>5, <2>2
    <3> QED  BY <1>1, <2>1, <3>1 DEF AppType
  <2>4. app'.selected <= n /\ (app'.selected = 0) = (n = 0)
    BY <1>2, <1>5, <2>2, <2>3
  <2>5. app'.cluster <= m /\ (app'.cluster = 0) = (m = 0)
    BY <1>2, <1>5, <2>3
  <2>6. CursorOnRow'
    BY <1>3, <2>4, <2>5 DEF CursorOnRow, n, m
  <2> QED  BY <1>1, <1>4, <2>3, <2>6 DEF ClientOK
<1>7. CASE app.screen = "Clusters"
  <2>1. app' = [app EXCEPT !.cluster = Moved(@, dir, m)]
    BY <1>7 DEF on_move, m
  <2>2. Moved(app.cluster, dir, m) \in 0 .. m /\ (Moved(app.cluster, dir, m) = 0) = (m = 0)
    <3>1. m \in Nat /\ app.cluster \in 0 .. m /\ (app.cluster = 0) = (m = 0)
      BY <1>2, <1>5
    <3> QED  BY <3>1, MovedOnRow
  <2>3. app' \in AppType /\ app'.cluster = Moved(app.cluster, dir, m) /\ app'.selected = app.selected
    <3>1. Moved(app.cluster, dir, m) \in 0 .. MaxRows
      BY <1>2, <1>5, <2>2
    <3> QED  BY <1>1, <2>1, <3>1 DEF AppType
  <2>4. app'.cluster <= m /\ (app'.cluster = 0) = (m = 0)
    BY <1>2, <1>5, <2>2, <2>3
  <2>5. app'.selected <= n /\ (app'.selected = 0) = (n = 0)
    BY <1>2, <1>5, <2>3
  <2>6. CursorOnRow'
    BY <1>3, <2>4, <2>5 DEF CursorOnRow, n, m
  <2> QED  BY <1>1, <1>4, <2>3, <2>6 DEF ClientOK
<1>8. CASE app.screen = "Detail"
  <2>1. app' = [app EXCEPT !.detail_scroll = Scrolled(@, dir)]
    BY <1>8 DEF on_move
  <2>2. Scrolled(app.detail_scroll, dir) \in 0 .. MaxScroll
    BY <1>2, <1>5 DEF Scrolled, Lower
  <2>3. app' \in AppType /\ app'.selected = app.selected /\ app'.cluster = app.cluster
    BY <1>1, <2>1, <2>2 DEF AppType
  <2> QED  BY <1>1, <2>3, StillStep DEF net
<1>9. CASE app.screen \notin {"FailedTx", "Clusters", "Detail"}
  <2>1. app' = app
    BY <1>9 DEF on_move
  <2> QED  BY <1>1, <2>1, StillStep DEF net
<1> QED  BY <1>6, <1>7, <1>8, <1>9

\* Page offsets are multiples of the page size.
LEMMA OffsetSteps ==
  ASSUME NEW o \in Offsets
  PROVE  /\ o \in 0 .. MaxRows
         /\ 0 \in Offsets
         /\ o + Limit <= MaxRows => o + Limit \in Offsets
         /\ o > Limit => o - Limit \in Offsets
<1>1. Limit \in Nat \ {0} /\ MaxRows \in Nat
  BY TuiAssumption
<1>2. PICK n \in 0 .. MaxRows : o = n * Limit
  BY DEF Offsets
<1>3. o \in 0 .. MaxRows
  BY DEF Offsets
<1>4. 0 = 0 * Limit /\ (n + 1) * Limit = o + Limit /\ (n - 1) * Limit = o - Limit /\ o >= n
  BY <1>1, <1>2
<1>5. 0 \in Offsets
  BY <1>1, <1>4 DEF Offsets
<1>6. ASSUME o + Limit <= MaxRows  PROVE o + Limit \in Offsets
  <2>1. n + 1 \in 0 .. MaxRows /\ o + Limit \in 0 .. MaxRows
    BY <1>1, <1>2, <1>3, <1>4, <1>6
  <2> QED  BY <1>4, <2>1 DEF Offsets
<1>7. ASSUME o > Limit  PROVE o - Limit \in Offsets
  <2>1. n # 0
    BY <1>1, <1>2, <1>7
  <2>2. n - 1 \in 0 .. MaxRows /\ o - Limit \in 0 .. MaxRows
    BY <1>1, <1>2, <1>3, <1>7, <2>1
  <2> QED  BY <1>4, <2>2 DEF Offsets
<1> QED  BY <1>3, <1>5, <1>6, <1>7

\* goto_screen: nothing, or another screen and what it needs.
LEMMA GotoStep ==
  ASSUME ClientOK, NEW s \in Screens, goto_screen(s)
  PROVE  ClientOK'
<1>1. app \in AppType
  BY DEF ClientOK
<1>2. CASE app.screen = s
  <2>1. app' = app /\ UNCHANGED net
    BY <1>2 DEF goto_screen, Nothing
  <2> QED  BY <1>1, <2>1, StillStep
<1>3. CASE app.screen # s
  <2> DEFINE a == [app EXCEPT !.screen = s]
  <2>1. MoveAndFetch(a)
    BY <1>3 DEF goto_screen
  <2>2. a \in AppType /\ a.selected = app.selected /\ a.cluster = app.cluster
    BY <1>1 DEF AppType
  <2> HIDE DEF a
  <2> QED  BY <2>1, <2>2, FetchStep
<1> QED  BY <1>2, <1>3

\* The filter keys: nothing, or another filter and its list.
LEMMA RefilterStep ==
  ASSUME ClientOK, NEW f \in Filters, Refilter(f)
  PROVE  ClientOK'
<1>1. app \in AppType
  BY DEF ClientOK
<1>2. CASE app.screen # "FailedTx"
  <2>1. app' = app /\ UNCHANGED net
    BY <1>2 DEF Refilter, Nothing
  <2> QED  BY <1>1, <2>1, StillStep
<1>3. CASE app.screen = "FailedTx"
  <2> DEFINE a == [app EXCEPT !.filter = f]
  <2>1. MoveAndFetch(a)
    BY <1>3 DEF Refilter
  <2>2. a \in AppType /\ a.selected = app.selected /\ a.cluster = app.cluster
    BY <1>1 DEF AppType
  <2> HIDE DEF a
  <2> QED  BY <2>1, <2>2, FetchStep
<1> QED  BY <1>2, <1>3

\* The next category and the next window are of the filter's lists.
LEMMA NextFilter ==
  ASSUME NEW f \in Filters
  PROVE  /\ [f EXCEPT !.category = NextCategory(@), !.offset = 0] \in Filters
         /\ [f EXCEPT !.window = NextWindow(@), !.offset = 0] \in Filters
<1>1. /\ Categories \in Seq(STRING) /\ Windows \in Seq(STRING)
      /\ Categories # <<>> /\ Windows # <<>>
  BY TuiAssumption
<1>2. /\ Len(Categories) \in Nat \ {0} /\ DOMAIN Categories = 1 .. Len(Categories)
      /\ Len(Windows) \in Nat \ {0} /\ DOMAIN Windows = 1 .. Len(Windows)
  BY <1>1, LenProperties, EmptySeq
<1>3. /\ f.category \in CategoryFilters
      /\ f.window \in {Windows[i] : i \in DOMAIN Windows}
      /\ f.offset \in Offsets
  BY DEF Filters
<1>4. 0 \in Offsets
  BY <1>3, OffsetSteps
<1>5. NextCategory(f.category) \in CategoryFilters
  <2>1. CASE f.category = All
    <3>1. 1 \in DOMAIN Categories
      BY <1>2
    <3> QED  BY <2>1, <3>1 DEF NextCategory, CategoryFilters
  <2>2. CASE f.category # All
    <3> DEFINE p == Position(Categories, f.category)
    <3>1. p \in DOMAIN Categories
      BY <1>3, <2>2 DEF CategoryFilters, Position
    <3>2. p < Len(Categories) => p + 1 \in DOMAIN Categories
      BY <1>2, <3>1
    <3>3. NextCategory(f.category) = IF p < Len(Categories) THEN Categories[p + 1] ELSE All
      BY <2>2 DEF NextCategory
    <3> HIDE DEF p
    <3> QED  BY <3>2, <3>3 DEF CategoryFilters
  <2> QED  BY <2>1, <2>2
<1>6. NextWindow(f.window) \in {Windows[i] : i \in DOMAIN Windows}
  <2> DEFINE p == Position(Windows, f.window)
  <2>1. p \in DOMAIN Windows
    BY <1>3 DEF Position
  <2>2. p \in Nat
    BY <1>2, <2>1
  <2> HIDE DEF p
  <2>3. (p % Len(Windows)) + 1 \in 1 .. Len(Windows)
    BY <1>2, <2>2
  <2> QED  BY <1>2, <2>3 DEF NextWindow, p
<1> QED  BY <1>3, <1>4, <1>5, <1>6 DEF Filters

\* Every key keeps ClientOK.
LEMMA ApplyStep ==
  ASSUME ClientOK, NEW a, apply(a)
  PROVE  ClientOK'
<1>1. app \in AppType /\ app.screen \in Screens /\ app.filter \in Filters
  BY DEF ClientOK, AppType
<1>2. CASE Nothing
  BY <1>1, <1>2, StillStep DEF Nothing
<1>3. CASE Quit
  <2>1. app' = [app EXCEPT !.should_quit = TRUE] /\ UNCHANGED net
    BY <1>3 DEF Quit
  <2>2. app' \in AppType /\ app'.selected = app.selected /\ app'.cluster = app.cluster
    BY <1>1, <2>1 DEF AppType
  <2> QED  BY <2>1, <2>2, StillStep
<1>4. CASE ToggleHelp
  <2>1. app' = [app EXCEPT !.show_help = ~@] /\ UNCHANGED net
    BY <1>4 DEF ToggleHelp
  <2>2. app' \in AppType /\ app'.selected = app.selected /\ app'.cluster = app.cluster
    BY <1>1, <2>1 DEF AppType
  <2> QED  BY <2>1, <2>2, StillStep
<1>5. CASE ToggleAutoPoll
  <2>1. app' = [app EXCEPT !.auto_poll = ~@] /\ UNCHANGED net
    BY <1>5 DEF ToggleAutoPoll
  <2>2. app' \in AppType /\ app'.selected = app.selected /\ app'.cluster = app.cluster
    BY <1>1, <2>1 DEF AppType
  <2> QED  BY <2>1, <2>2, StillStep
<1>6. CASE spawn_fetch_active
  BY <1>1, <1>6, FetchStep DEF spawn_fetch_active
<1>7. CASE \E dir \in {-1, 1} : cycle_screen(dir)
  <2>1. PICK dir \in {-1, 1} : cycle_screen(dir)
    BY <1>7
  <2> DEFINE p == Position(SCREEN_ORDER, app.screen)
             i == ((p - 1 + dir) % Len(SCREEN_ORDER)) + 1
  <2>2. p \in DOMAIN SCREEN_ORDER /\ Len(SCREEN_ORDER) = 4 /\ DOMAIN SCREEN_ORDER = 1 .. 4
    <3>1. Len(SCREEN_ORDER) = 4 /\ DOMAIN SCREEN_ORDER = 1 .. 4
      BY DEF SCREEN_ORDER
    <3>2. \E j \in DOMAIN SCREEN_ORDER : SCREEN_ORDER[j] = app.screen
      BY <1>1 DEF Screens
    <3> QED  BY <3>1, <3>2 DEF Position
  <2> HIDE DEF p
  <2>3. i \in DOMAIN SCREEN_ORDER
    BY <2>2
  <2>4. goto_screen(SCREEN_ORDER[i])
    BY <2>1 DEF cycle_screen, p
  <2>5. SCREEN_ORDER[i] \in Screens
    BY <2>3 DEF Screens
  <2> QED  BY <2>4, <2>5, GotoStep
<1>8. CASE a \in Screens /\ goto_screen(a)
  BY <1>8, GotoStep
<1>9. CASE \E dir \in {-1, 1} : on_move(dir)
  BY <1>9, MoveStep
<1>10. CASE on_enter
  <2>1. CASE ~(app.screen = "FailedTx" /\ app.selected \in 1 .. Rows(shown["list"]))
    BY <1>2, <1>10, <2>1 DEF on_enter
  <2>2. CASE app.screen = "FailedTx" /\ app.selected \in 1 .. Rows(shown["list"])
    <3> DEFINE h == shown["list"].val.rows[app.selected]
               x == [app EXCEPT !.hash = h, !.detail_scroll = 0, !.screen = "Detail"]
    <3>1. MoveAndFetch(x)
      BY <1>10, <2>2 DEF on_enter
    <3>2. h \in Hashes
      <4>1. shown["list"].st = "Loaded"
        BY <2>2 DEF Rows
      <4>2. shown["list"].val.rows \in Seq(Hashes) /\ app.selected \in 1 .. Len(shown["list"].val.rows)
        BY <2>2, <4>1 DEF ClientOK, ShownOK, ValueOK, Rows, Kinds
      <4> QED  BY <4>2, ElementOfSeq
    <3> HIDE DEF h
    <3>3. "Detail" \in Screens /\ 0 \in 0 .. MaxScroll
      <4>1. 3 \in DOMAIN SCREEN_ORDER /\ SCREEN_ORDER[3] = "Detail"
        BY DEF SCREEN_ORDER
      <4> QED  BY <4>1, TuiAssumption DEF Screens
    <3>4. x \in AppType /\ x.selected = app.selected /\ x.cluster = app.cluster
      BY <1>1, <3>2, <3>3 DEF AppType
    <3> HIDE DEF x
    <3> QED  BY <3>1, <3>4, FetchStep
  <2> QED  BY <2>1, <2>2
<1>11. CASE on_back
  <2>1. "FailedTx" \in Screens
    <3>1. 2 \in DOMAIN SCREEN_ORDER /\ SCREEN_ORDER[2] = "FailedTx"
      BY DEF SCREEN_ORDER
    <3> QED  BY <3>1 DEF Screens
  <2> QED  BY <1>2, <1>11, <2>1, GotoStep DEF on_back
<1>12. CASE cycle_category \/ cycle_window
  BY <1>1, <1>12, NextFilter, RefilterStep DEF cycle_category, cycle_window
<1>13. CASE next_page
  <2>1. CASE ~HasNext
    BY <1>2, <1>13, <2>1 DEF next_page
  <2>2. CASE HasNext
    <3> DEFINE o == app.filter.offset
    <3>1. o \in Offsets
      BY <1>1 DEF Filters
    <3>2. o + Limit < shown["list"].val.total /\ shown["list"].val.total \in 0 .. MaxRows
      BY <2>2 DEF HasNext, ClientOK, ShownOK, ValueOK, Kinds
    <3>3. o + Limit \in Offsets
      <4>1. o \in Nat /\ Limit \in Nat /\ MaxRows \in Nat
        BY <3>1, OffsetSteps, TuiAssumption
      <4>2. o + Limit <= MaxRows
        BY <3>2, <4>1
      <4> QED  BY <3>1, <4>2, OffsetSteps
    <3>4. [app.filter EXCEPT !.offset = @ + Limit] \in Filters
      BY <1>1, <3>3 DEF Filters
    <3> QED  BY <1>13, <2>2, <3>4, RefilterStep DEF next_page
  <2> QED  BY <2>1, <2>2
<1>14. CASE prev_page
  <2>1. CASE ~(app.filter.offset > 0)
    BY <1>2, <1>14, <2>1 DEF prev_page
  <2>2. CASE app.filter.offset > 0
    <3> DEFINE o == app.filter.offset
               q == IF o > Limit THEN o - Limit ELSE 0
    <3>1. o \in Offsets
      BY <1>1 DEF Filters
    <3>2. q \in Offsets
      BY <3>1, OffsetSteps
    <3>3. [app.filter EXCEPT !.offset = q] \in Filters
      BY <1>1, <3>2 DEF Filters
    <3>4. Refilter([app.filter EXCEPT !.offset = q])
      BY <1>14, <2>2 DEF prev_page
    <3> QED  BY <3>3, <3>4, RefilterStep
  <2> QED  BY <2>1, <2>2
<1> QED  BY <1>2, <1>3, <1>4, <1>5, <1>6, <1>7, <1>8, <1>9, <1>10, <1>11, <1>12, <1>13, <1>14 DEF apply

\* ingest: the value of the answer's kind is settled, its request alone is
\* taken away, and the cursor of its table is put on one of the new rows.
LEMMA IngestStep ==
  ASSUME ClientOK, NEW r, r.kind \in Kinds, NEW l, l.st \in {"Loaded", "Failed"},
         ValueOK(r.kind, l), ingest(r, l)
  PROVE  ClientOK'
<1>1. /\ shown' = [shown EXCEPT ![r.kind] = l]
      /\ app' = [app EXCEPT !.selected = IF r.kind = "list" THEN Reselect(@, l) ELSE @,
                            !.cluster = IF r.kind = "clusters" THEN Reselect(@, l) ELSE @]
      /\ inflight' = IF inflight = 0 THEN 0 ELSE inflight - 1
      /\ sent' = sent (-) SetToBag({r})
  BY DEF ingest
<1>2. /\ app \in AppType /\ DOMAIN shown = Kinds /\ BagOK /\ DOMAIN sent \subseteq Requests
      /\ inflight \in 0 .. MaxInflight /\ LoadingIsBacked /\ ShownOK
      /\ \A k \in Kinds : shown[k].st \in {"Idle", "Loading", "Loaded", "Failed"}
  BY DEF ClientOK
<1>3. Limit \in Nat /\ MaxRows \in Nat /\ MaxInflight \in Nat
  BY TuiAssumption
<1>4. /\ sent' \in [DOMAIN sent' -> Nat \ {0}]
      /\ DOMAIN sent' \subseteq DOMAIN sent
      /\ \A x \in DOMAIN sent : x # r => x \in DOMAIN sent'
  BY <1>1, <1>2, BagShrinks
<1>c. CountOK'
  <2>1. BagOK /\ CountOK /\ inflight \in Nat /\ r \in DOMAIN sent
    BY <1>2, <1>3 DEF ClientOK, ingest, BagIn, BagToSet
  <2>2. IsFiniteSet(UnderWay(sent')) /\ inflight # 0 /\ Cardinality(UnderWay(sent')) = inflight - 1
    BY <1>1, <2>1, CountShrinks
  <2> QED  BY <1>1, <2>2 DEF CountOK, InflightExact, UnderWay
<1>5. inflight' \in 0 .. MaxInflight
  BY <1>1, <1>2, <1>3
<1>6. DOMAIN shown' = Kinds /\ shown'[r.kind] = l /\ \A k \in Kinds : k # r.kind => shown'[k] = shown[k]
  BY <1>1, <1>2
<1>7. /\ \A k \in Kinds : shown'[k].st \in {"Idle", "Loading", "Loaded", "Failed"}
      /\ \A k \in Kinds : ValueOK(k, shown'[k])
  <2>1. ASSUME NEW k \in Kinds
        PROVE  shown'[k].st \in {"Idle", "Loading", "Loaded", "Failed"} /\ ValueOK(k, shown'[k])
    <3>1. CASE k = r.kind
      BY <1>6, <3>1
    <3>2. CASE k # r.kind
      BY <1>2, <1>6, <3>2 DEF ShownOK
    <3> QED  BY <3>1, <3>2
  <2> QED  BY <2>1
<1>8. ShownOK'
  BY <1>7 DEF ShownOK, ValueOK, MaxShown
<1>9. LoadingIsBacked'
  <2>1. ASSUME NEW k \in Kinds, shown'[k].st = "Loading"
        PROVE  \E x \in DOMAIN sent' : x.kind = k
    <3>1. k # r.kind
      BY <1>6, <2>1
    <3>2. PICK x \in DOMAIN sent : x.kind = k
      BY <1>2, <1>6, <2>1, <3>1 DEF LoadingIsBacked
    <3> QED  BY <1>4, <3>1, <3>2
  <2> QED  BY <2>1 DEF LoadingIsBacked
<1>10. Rows(l) \in 0 .. MaxShown(r.kind) /\ MaxShown(r.kind) \in Nat
  <2>1. MaxShown(r.kind) \in Nat
    BY <1>3 DEF MaxShown
  <2>2. CASE l.st = "Loaded"
    <3>1. Len(l.val.rows) \in Nat /\ Len(l.val.rows) <= MaxShown(r.kind)
      BY <2>2, LenProperties DEF ValueOK
    <3> QED  BY <2>1, <2>2, <3>1 DEF Rows
  <2>3. CASE l.st # "Loaded"
    BY <2>1, <2>3 DEF Rows
  <2> QED  BY <2>1, <2>2, <2>3
<1> DEFINE c == Reselect(IF r.kind = "list" THEN app.selected ELSE app.cluster, l)
<1>11. c \in 0 .. Rows(l) /\ (c = 0) = (Rows(l) = 0) /\ Rows(l) \in Nat
  <2>1. Rows(l) \in Nat
    BY <1>10
  <2>2. (IF r.kind = "list" THEN app.selected ELSE app.cluster) \in Nat
    BY <1>2, <1>3 DEF AppType
  <2> QED  BY <2>1, <2>2, ClampedOnRow DEF Reselect
<1>12. /\ Rows(shown["list"]) \in 0 .. Limit
       /\ app.selected \in 0 .. Rows(shown["list"])
       /\ (app.selected = 0) = (Rows(shown["list"]) = 0)
       /\ Rows(shown["clusters"]) \in 0 .. MaxRows
       /\ app.cluster \in 0 .. Rows(shown["clusters"])
       /\ (app.cluster = 0) = (Rows(shown["clusters"]) = 0)
  BY Cursors
<1>13. app' = [app EXCEPT !.selected = IF r.kind = "list" THEN c ELSE @,
                          !.cluster = IF r.kind = "clusters" THEN c ELSE @]
  BY <1>1
<1> HIDE DEF c
<1>14. /\ r.kind = "list" => c \in 0 .. Limit
       /\ r.kind # "list" => c \in 0 .. MaxRows
  BY <1>3, <1>10, <1>11 DEF MaxShown
<1>15. /\ app' \in AppType
       /\ app'.selected = IF r.kind = "list" THEN c ELSE app.selected
       /\ app'.cluster = IF r.kind = "clusters" THEN c ELSE app.cluster
  BY <1>2, <1>13, <1>14 DEF AppType
<1>16. app'.selected <= Rows(shown'["list"]) /\ (app'.selected = 0) = (Rows(shown'["list"]) = 0)
  <2>1. CASE r.kind = "list"
    BY <1>6, <1>11, <1>15, <2>1
  <2>2. CASE r.kind # "list"
    <3>1. shown'["list"] = shown["list"] /\ app'.selected = app.selected
      BY <1>6, <1>15, <2>2 DEF Kinds
    <3> QED  BY <1>3, <1>12, <3>1
  <2> QED  BY <2>1, <2>2
<1>17. app'.cluster <= Rows(shown'["clusters"]) /\ (app'.cluster = 0) = (Rows(shown'["clusters"]) = 0)
  <2>1. CASE r.kind = "clusters"
    BY <1>6, <1>11, <1>15, <2>1
  <2>2. CASE r.kind # "clusters"
    <3>1. shown'["clusters"] = shown["clusters"] /\ app'.cluster = app.cluster
      BY <1>6, <1>15, <2>2 DEF Kinds
    <3> QED  BY <1>3, <1>12, <3>1
  <2> QED  BY <2>1, <2>2
<1>18. CursorOnRow'
  BY <1>16, <1>17 DEF CursorOnRow, Rows
<1> QED  BY <1>2, <1>4, <1>c, <1>5, <1>6, <1>7, <1>8, <1>9, <1>15, <1>18 DEF ClientOK, BagOK

\* App::new, with nothing shown and nothing asked.
LEMMA FreshClient ==
  /\ NewApp \in AppType
  /\ NewApp.selected = 0 /\ NewApp.cluster = 0
  /\ DOMAIN NothingShown = Kinds
  /\ \A k \in Kinds : NothingShown[k].st = "Idle" /\ ValueOK(k, NothingShown[k]) /\ Rows(NothingShown[k]) = 0
  /\ DOMAIN EmptyBag = {}
  /\ EmptyBag \in [DOMAIN EmptyBag -> Nat \ {0}]
  /\ IsFiniteSet(UnderWay(EmptyBag)) /\ Cardinality(UnderWay(EmptyBag)) = 0
<1>1. Limit \in Nat /\ MaxRows \in Nat /\ MaxScroll \in Nat
  BY TuiAssumption
<1>2. [category |-> All, window |-> Windows[1], offset |-> 0] \in Filters
  <2>1. 1 \in DOMAIN Windows
    BY TuiAssumption, LenProperties, EmptySeq
  <2>2. 0 = 0 * Limit /\ 0 \in 0 .. MaxRows
    BY <1>1
  <2>3. 0 \in Offsets
    BY <2>2 DEF Offsets
  <2> QED  BY <2>1, <2>3 DEF Filters, CategoryFilters
<1>3. "Overview" \in Screens
  <2>1. 1 \in DOMAIN SCREEN_ORDER /\ SCREEN_ORDER[1] = "Overview"
    BY DEF SCREEN_ORDER
  <2> QED  BY <2>1 DEF Screens
<1>4. NewApp \in AppType /\ NewApp.selected = 0 /\ NewApp.cluster = 0
  BY <1>1, <1>2, <1>3 DEF NewApp, AppType
<1>5. \A k \in Kinds : NothingShown[k].st = "Idle" /\ ValueOK(k, NothingShown[k]) /\ Rows(NothingShown[k]) = 0
  BY DEF NothingShown, Idle, ValueOK, Rows
<1>6. DOMAIN NothingShown = Kinds
  BY DEF NothingShown
<1>7. DOMAIN EmptyBag = {} /\ EmptyBag \in [DOMAIN EmptyBag -> Nat \ {0}]
  BY DEF EmptyBag, SetToBag
<1>8. UnderWay(EmptyBag) = {}
  BY <1>7 DEF UnderWay
<1> QED  BY <1>4, <1>5, <1>6, <1>7, <1>8, FS_EmptySet

\* run returns: a client with nothing under way.
LEMMA DroppedStep ==
  ASSUME Dropped
  PROVE  ClientOK'
<1>1. app' = NewApp /\ shown' = NothingShown /\ inflight' = 0 /\ sent' = EmptyBag
  BY DEF Dropped
<1>2. BagOK' /\ CountOK'
  BY <1>1, FreshClient DEF BagOK, CountOK, InflightExact, UnderWay
<1>3. \A k \in Kinds : shown'[k].st = "Idle" /\ ValueOK(k, shown'[k]) /\ Rows(shown'[k]) = 0
  BY <1>1, FreshClient
<1>4. ShownOK' /\ LoadingIsBacked'
  BY <1>3 DEF ShownOK, ValueOK, MaxShown, LoadingIsBacked
<1>5. CursorOnRow'
  <2>1. "list" \in Kinds /\ "clusters" \in Kinds
    BY DEF Kinds
  <2>2. app'.selected = 0 /\ app'.cluster = 0
    BY <1>1, FreshClient
  <2>3. Rows(shown'["list"]) = 0 /\ Rows(shown'["clusters"]) = 0
    BY <1>3, <2>1
  <2> QED  BY <2>2, <2>3 DEF CursorOnRow, Rows
<1>6. 0 \in 0 .. MaxInflight
  BY TuiAssumption
<1> QED  BY <1>1, <1>2, <1>3, <1>4, <1>5, <1>6, FreshClient DEF ClientOK

-----------------------------------------------------------------------------
(* The process *)

\* The invariant holds before the terminal is set up.
LEMMA InitInv == Init => TInv
<1> SUFFICES ASSUME Init  PROVE TInv
  OBVIOUS
<1>1. app = NewApp /\ shown = NothingShown /\ inflight = 0 /\ sent = EmptyBag
  BY DEF Init
<1>2. ClientOK
  <2>1. BagOK /\ CountOK
    BY <1>1, FreshClient DEF BagOK, CountOK, InflightExact
  <2>2. \A k \in Kinds : shown[k].st = "Idle" /\ ValueOK(k, shown[k]) /\ Rows(shown[k]) = 0
    BY <1>1, FreshClient
  <2>3. ShownOK /\ LoadingIsBacked
    BY <2>2 DEF ShownOK, LoadingIsBacked
  <2>4. CursorOnRow
    <3>1. "list" \in Kinds /\ "clusters" \in Kinds
      BY DEF Kinds
    <3>2. app.selected = 0 /\ app.cluster = 0
      BY <1>1, FreshClient
    <3>3. Rows(shown["list"]) = 0 /\ Rows(shown["clusters"]) = 0
      BY <2>2, <3>1
    <3> QED  BY <3>2, <3>3 DEF CursorOnRow
  <2>5. 0 \in 0 .. MaxInflight
    BY TuiAssumption
  <2> QED  BY <1>1, <2>1, <2>2, <2>3, <2>4, <2>5, FreshClient DEF ClientOK
<1>3. ProcessOK
  BY DEF Init, ProcessOK, TerminalRestored
<1>4. DbOK
  <2>1. 1 \in DOMAIN Databases
    BY TuiAssumption, LenProperties, EmptySeq
  <2> QED  BY <2>1 DEF Init, DbOK
<1> QED  BY <1>2, <1>3, <1>4 DEF TInv

\* Every step keeps it.
LEMMA StepInv == TInv /\ [Next]_vars => TInv'
<1> SUFFICES ASSUME TInv, [Next]_vars  PROVE TInv'
  OBVIOUS
<1>0. ClientOK /\ ProcessOK /\ DbOK /\ app \in AppType
  BY DEF TInv, ClientOK
<1>a. ASSUME UNCHANGED changes  PROVE DbOK'
  BY <1>0, <1>a DEF DbOK
<1>b. ASSUME UNCHANGED <<proc, modes, broken>>  PROVE ProcessOK'
  BY <1>0, <1>b DEF ProcessOK, TerminalRestored
<1>c. ASSUME UNCHANGED <<app, net>>  PROVE ClientOK'
  BY <1>0, <1>c, StillStep
<1>d. ASSUME MoveAndFetch(app)  PROVE ClientOK'
  BY <1>0, <1>d, FetchStep
<1>1. CASE Setup
  <2>1. MoveAndFetch(app) /\ UNCHANGED changes /\ proc' = "run" /\ modes' = {"raw", "alt"}
    BY <1>1 DEF Setup, spawn_fetch_active, env
  <2>2. ProcessOK'
    BY <2>1 DEF ProcessOK, TerminalRestored
  <2> QED  BY <1>a, <1>d, <2>1, <2>2 DEF TInv
<1>2. CASE SetupFails
  <2>1. UNCHANGED <<app, net>> /\ UNCHANGED changes
    BY <1>2 DEF SetupFails
  <2>2. ProcessOK'
    BY <1>2 DEF SetupFails, ProcessOK, TerminalRestored
  <2> QED  BY <1>a, <1>c, <2>1, <2>2 DEF TInv
<1>3. CASE \E k \in Keys : PressKey(k)
  <2>1. PICK k \in Keys : PressKey(k)
    BY <1>3
  <2>2. apply(map_key(k, app.show_help)) /\ UNCHANGED <<proc, modes, broken>> /\ UNCHANGED changes
    BY <2>1 DEF PressKey
  <2>3. ClientOK'
    BY <1>0, <2>2, ApplyStep
  <2> QED  BY <1>a, <1>b, <2>2, <2>3 DEF TInv
<1>4. CASE InputEnds
  <2>1. Quit /\ UNCHANGED <<proc, modes, broken>> /\ UNCHANGED changes
    BY <1>4 DEF InputEnds, env
  <2>2. apply("Quit")
    BY <2>1 DEF apply
  <2>3. ClientOK'
    BY <1>0, <2>2, ApplyStep
  <2> QED  BY <1>a, <1>b, <2>1, <2>3 DEF TInv
<1>5. CASE Tick
  <2>1. MoveAndFetch(app) /\ UNCHANGED <<proc, modes, broken>> /\ UNCHANGED changes
    BY <1>5 DEF Tick, spawn_fetch_active, env
  <2> QED  BY <1>a, <1>b, <1>d, <2>1 DEF TInv
<1>6. CASE \E r \in Requests : Respond(r) \/ RequestFails(r)
  <2>1. PICK r \in Requests : Respond(r) \/ RequestFails(r)
    BY <1>6
  <2>2. r.kind \in Kinds /\ Answer(r).st \in {"Loaded", "Failed"} /\ ValueOK(r.kind, Answer(r))
    BY <1>0, AnswerOK
  <2>3. CASE Respond(r)
    <3>1. ingest(r, Answer(r)) /\ UNCHANGED <<proc, modes, broken>> /\ UNCHANGED changes
      BY <2>3 DEF Respond, ingest
    <3>2. ClientOK'
      BY <1>0, <2>2, <3>1, IngestStep
    <3> QED  BY <1>a, <1>b, <3>1, <3>2 DEF TInv
  <2>4. CASE RequestFails(r)
    <3>1. ingest(r, Failed) /\ UNCHANGED <<proc, modes, broken>> /\ UNCHANGED changes
      BY <2>4 DEF RequestFails, ingest
    <3>2. Failed.st = "Failed" /\ ValueOK(r.kind, Failed)
      BY DEF Failed, ValueOK
    <3>3. ClientOK'
      BY <1>0, <2>2, <3>1, <3>2, IngestStep
    <3> QED  BY <1>a, <1>b, <3>1, <3>3 DEF TInv
  <2> QED  BY <2>1, <2>3, <2>4
<1>7. CASE LoopEnds \/ DrawFails
  <2>1. Dropped /\ UNCHANGED <<modes, broken>> /\ UNCHANGED changes /\ proc' = "restore"
    BY <1>7 DEF LoopEnds, DrawFails, env
  <2>2. ProcessOK'
    BY <1>0, <2>1 DEF ProcessOK, TerminalRestored
  <2> QED  BY <1>a, <2>1, <2>2, DroppedStep DEF TInv
<1>8. CASE Restore
  <2>1. UNCHANGED <<app, net>> /\ UNCHANGED changes /\ proc' = "ended" /\ modes' = Restored(modes)
    BY <1>8 DEF Restore, env
  <2>2. ProcessOK'
    BY <1>0, <2>1 DEF ProcessOK, TerminalRestored, Restored
  <2> QED  BY <1>a, <1>c, <2>1, <2>2 DEF TInv
<1>9. CASE RestoreFails
  <2>1. UNCHANGED <<app, net>> /\ UNCHANGED changes
    BY <1>9 DEF RestoreFails
  <2>2. ProcessOK'
    BY <1>0, <1>9 DEF RestoreFails, ProcessOK, TerminalRestored
  <2> QED  BY <1>a, <1>c, <2>1, <2>2 DEF TInv
<1>10. CASE Panics
  <2>1. Dropped /\ UNCHANGED changes /\ proc' = "ended" /\ modes' = Restored(modes)
    BY <1>10 DEF Panics
  <2>2. ProcessOK'
    BY <1>0, <2>1 DEF ProcessOK, TerminalRestored, Restored
  <2> QED  BY <1>a, <2>1, <2>2, DroppedStep DEF TInv
<1>11. CASE DatabaseChanges
  <2>1. UNCHANGED <<proc, modes, broken>> /\ UNCHANGED <<app, net>>
    BY <1>11 DEF DatabaseChanges
  <2>2. DbOK'
    <3>1. changes \in Nat /\ changes + 1 < Len(Databases) /\ changes' = changes + 1
      BY <1>0, <1>11 DEF DatabaseChanges, DbOK
    <3>2. Len(Databases) \in Nat /\ DOMAIN Databases = 1 .. Len(Databases)
      BY TuiAssumption, LenProperties
    <3> QED  BY <3>1, <3>2 DEF DbOK
  <2> QED  BY <1>b, <1>c, <2>1, <2>2 DEF TInv
<1>12. CASE UNCHANGED vars
  <2>1. UNCHANGED <<proc, modes, broken>> /\ UNCHANGED <<app, net>> /\ UNCHANGED changes
    BY <1>12 DEF vars, env
  <2> QED  BY <1>a, <1>b, <1>c, <2>1 DEF TInv
<1> QED
  BY <1>1, <1>2, <1>3, <1>4, <1>5, <1>6, <1>7, <1>8, <1>9, <1>10, <1>11, <1>12 DEF Next

-----------------------------------------------------------------------------
(* Theorems *)

\* TInv holds in every state of the client.
THEOREM Invariance == Spec => []TInv
BY InitInv, StepInv, PTL DEF Spec

\* The client's state has its type in every run: the offset is that of a page,
\* the cursors fit a page and the scroll position stays a u16.
THEOREM TypeCorrect == Spec => []TypeOK
<1>1. TInv => TypeOK
  BY DEF TInv, ClientOK, ProcessOK, TypeOK, AppType
<1> QED  BY <1>1, Invariance, PTL

\* spawn_fetch_active raises inflight by the requests it starts and ingest
\* lowers it once for each: it never saturates at 0, and the spinner stops
\* when nothing is under way.
THEOREM InflightIsExact == Spec => []InflightExact
<1>1. TInv => InflightExact
  BY DEF TInv, ClientOK, CountOK
<1> QED  BY <1>1, Invariance, PTL

\* A value that begin marked as loading has a request under way that settles
\* it, however the answers of earlier requests overtake one another.
THEOREM LoadingIsSettled == Spec => []LoadingIsBacked
<1>1. TInv => LoadingIsBacked
  BY DEF TInv, ClientOK
<1> QED  BY <1>1, Invariance, PTL

\* Whichever list arrives last, for whichever filter it was asked, the cursor
\* is on one of its rows: on_enter opens what the user sees under the cursor.
THEOREM CursorIsOnRow == Spec => []CursorOnRow
<1>1. TInv => CursorOnRow
  BY DEF TInv, ClientOK
<1> QED  BY <1>1, Invariance, PTL

\* main leaves the terminal as it found it on every way out on which no
\* terminal call failed: quit, the end of the input, a drawing error, a panic.
THEOREM TerminalIsRestored == Spec => []TerminalRestored
<1>1. TInv => TerminalRestored
  BY DEF TInv, ProcessOK
<1> QED  BY <1>1, Invariance, PTL
=============================================================================
