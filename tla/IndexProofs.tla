----------------------------- MODULE IndexProofs -----------------------------
(***************************************************************************)
(* Proofs about Index.  The binary search's loop invariant (Bracket) says  *)
(* where the key can still be; from it follow the order of the entries,    *)
(* the bounds of the reads, and, with the number of rounds the bracket     *)
(* still allows (RoundsLeft), that only a duplicate key is aborted.        *)
(***************************************************************************)
EXTENDS Index, SequenceTheorems, TLAPS

Entries == [key : Keys, data : Objects]

Busy == op \in {"add", "get", "del"}

\* Entries before min have smaller keys, those after max have larger ones.
Below(k, lo) == \A i \in DOMAIN list : i <= lo => list[i].key < k
Above(k, hi) == \A i \in DOMAIN list : i > hi + 1 => k < list[i].key

Bracket ==
  Busy =>
    /\ 0 <= min /\ max < Len(list) /\ min <= max + 1
    /\ Below(entry.key, min)
    /\ Above(entry.key, max)

\* Each counted round of an add of a fresh key has shortened the bracket.
RoundsLeft ==
  op = "add" /\ ~HasKey(entry.key) => count + (max - min + 1) <= Len(list)

AddHasObject == op = "add" => entry.data \in Objects

IInv ==
  TypeOK /\ Sorted /\ AllocFits /\ Bracket /\ RoundsLeft /\ AddHasObject
  /\ CyclicOnlyForDuplicates

-----------------------------------------------------------------------------
(* Sequences and arithmetic *)

\* A function on 1 .. n is a sequence of length n.
LEMMA FunctionIsSeq ==
  ASSUME NEW S, NEW n \in Nat, NEW f \in [1 .. n -> S]
  PROVE  f \in Seq(S) /\ Len(f) = n /\ DOMAIN f = 1 .. n
<1>1. f \in Seq(S)  BY SeqDef
<1>2. DOMAIN f = 1 .. n  OBVIOUS
<1>3. Len(f) \in Nat /\ DOMAIN f = 1 .. Len(f)  BY <1>1, LenProperties
<1>4. Len(f) = n  BY <1>2, <1>3
<1> QED  BY <1>1, <1>2, <1>4

\* The midpoint of a bracket that is not empty is inside it, and that of an
\* empty one is its lower end: C's division truncates.
LEMMA Midpoint ==
  ASSUME min \in Int, max \in Int, min <= max + 1
  PROVE  /\ min <= max => Point \in min .. max
         /\ min > max => Point = min
         /\ Point \in Int
<1>1. CASE min <= max
  <2>1. PICK d \in Nat : d = max - min  BY <1>1
  <2>2. Half(d) = d \div 2 /\ d \div 2 \in 0 .. d  BY DEF Half
  <2> QED  BY <1>1, <2>1, <2>2 DEF Point
<1>2. CASE min > max
  <2>1. max - min = -1  BY <1>2
  <2>2. Half(-1) = 0  BY DEF Half
  <2> QED  BY <1>2, <2>1, <2>2 DEF Point
<1> QED  BY <1>1, <1>2

\* What list_ins leaves: the entry at n, the later ones one further on, and a
\* capacity that fits.
LEMMA Inserted ==
  ASSUME TypeOK, AllocFits, NEW n \in 0 .. Len(list), NEW e \in Entries, ListIns(n, e)
  PROVE  /\ list' \in Seq(Entries)
         /\ Len(list') = Len(list) + 1
         /\ DOMAIN list' = 1 .. Len(list) + 1
         /\ \A i \in 1 .. Len(list) + 1 :
              list'[i] = IF i <= n THEN list[i] ELSE IF i = n + 1 THEN e ELSE list[i - 1]
         /\ AllocFits' /\ alloc' \in Nat
<1>0. list \in Seq(Entries) /\ alloc \in Nat  BY DEF TypeOK, Entries
<1>1. Len(list) \in Nat /\ DOMAIN list = 1 .. Len(list)
      /\ \A i \in 1 .. Len(list) : list[i] \in Entries
  BY <1>0, LenProperties, ElementOfSeq
<1>2. \A i \in 1 .. Len(list) + 1 :
        (IF i <= n THEN list[i] ELSE IF i = n + 1 THEN e ELSE list[i - 1]) \in Entries
  <2> SUFFICES ASSUME NEW i \in 1 .. Len(list) + 1
               PROVE  (IF i <= n THEN list[i] ELSE IF i = n + 1 THEN e ELSE list[i - 1])
                        \in Entries
    OBVIOUS
  <2>1. CASE i <= n  BY <1>1, <2>1
  <2>2. CASE i = n + 1  BY <1>1, <2>2
  <2>3. CASE i > n + 1
    <3>1. i - 1 \in 1 .. Len(list)  BY <1>1, <2>3
    <3> QED  BY <1>1, <2>3, <3>1
  <2> QED  BY <1>1, <2>1, <2>2, <2>3
<1>3. list' = [i \in 1 .. Len(list) + 1 |->
                 IF i <= n THEN list[i] ELSE IF i = n + 1 THEN e ELSE list[i - 1]]
      /\ alloc' = Grown
  BY DEF ListIns
<1>4. list' \in [1 .. Len(list) + 1 -> Entries]  BY <1>2, <1>3
<1>5. list' \in Seq(Entries) /\ Len(list') = Len(list) + 1
      /\ DOMAIN list' = 1 .. Len(list) + 1
  <2>1. Len(list) + 1 \in Nat  BY <1>1
  <2> QED  BY <1>4, <2>1, FunctionIsSeq
<1>6. AllocFits' /\ alloc' \in Nat
  BY <1>0, <1>1, <1>3, <1>5, LimitIsPositive DEF AllocFits, Grown
<1>7. \A i \in 1 .. Len(list) + 1 :
        list'[i] = IF i <= n THEN list[i] ELSE IF i = n + 1 THEN e ELSE list[i - 1]
  BY <1>3
<1> QED  BY <1>5, <1>6, <1>7

\* What list_del leaves: the entries without the one at n, and a capacity that
\* fits.
LEMMA Deleted ==
  ASSUME TypeOK, AllocFits, NEW n \in 0 .. Len(list) - 1, ListDel(n)
  PROVE  /\ list' \in Seq(Entries)
         /\ Len(list') = Len(list) - 1
         /\ DOMAIN list' = 1 .. Len(list) - 1
         /\ \A i \in 1 .. Len(list) - 1 :
              list'[i] = IF i <= n THEN list[i] ELSE list[i + 1]
         /\ AllocFits' /\ alloc' \in Nat
<1>0. list \in Seq(Entries) /\ alloc \in Nat  BY DEF TypeOK, Entries
<1>1. Len(list) \in Nat /\ DOMAIN list = 1 .. Len(list)
      /\ \A i \in 1 .. Len(list) : list[i] \in Entries
  BY <1>0, LenProperties, ElementOfSeq
<1>2. \A i \in 1 .. Len(list) - 1 :
        (IF i <= n THEN list[i] ELSE list[i + 1]) \in Entries
  <2> SUFFICES ASSUME NEW i \in 1 .. Len(list) - 1
               PROVE  (IF i <= n THEN list[i] ELSE list[i + 1]) \in Entries
    OBVIOUS
  <2>1. i \in 1 .. Len(list) /\ i + 1 \in 1 .. Len(list)  BY <1>1
  <2> QED  BY <1>1, <2>1
<1>3. list' = [i \in 1 .. Len(list) - 1 |-> IF i <= n THEN list[i] ELSE list[i + 1]]
  BY DEF ListDel
<1>4. list' \in [1 .. Len(list) - 1 -> Entries]  BY <1>2, <1>3
<1>5. list' \in Seq(Entries) /\ Len(list') = Len(list) - 1
      /\ DOMAIN list' = 1 .. Len(list) - 1
  <2>1. Len(list) - 1 \in Nat  BY <1>1
  <2> QED  BY <1>4, <2>1, FunctionIsSeq
<1>6. AllocFits' /\ alloc' \in Nat
  BY <1>0, <1>1, <1>5, LimitIsPositive DEF AllocFits, ListDel
<1>7. \A i \in 1 .. Len(list) - 1 : list'[i] = IF i <= n THEN list[i] ELSE list[i + 1]
  BY <1>3
<1> QED  BY <1>5, <1>6, <1>7
-----------------------------------------------------------------------------
(* The inductive invariant *)

\* What TypeOK says of the entries, position by position.
LEMMA ListFacts ==
  ASSUME TypeOK
  PROVE  /\ list \in Seq(Entries) /\ Len(list) \in Nat /\ DOMAIN list = 1 .. Len(list)
         /\ \A i \in DOMAIN list : list[i] \in Entries /\ list[i].key \in Int
         /\ entry.key \in Keys /\ entry.key \in Int
         /\ min \in Int /\ max \in Int /\ count \in Nat
<1>1. list \in Seq(Entries) /\ entry \in [key : Keys, data : Objects \cup {NoObject}]
      /\ min \in Int /\ max \in Int /\ count \in Nat
  BY DEF TypeOK, Entries
<1>2. Len(list) \in Nat /\ DOMAIN list = 1 .. Len(list)
      /\ \A i \in 1 .. Len(list) : list[i] \in Entries
  BY <1>1, LenProperties, ElementOfSeq
<1>3. \A e \in Entries : e.key \in Int  BY KeysAreIntegers DEF Entries
<1>4. entry.key \in Keys /\ entry.key \in Int  BY <1>1, KeysAreIntegers
<1> QED  BY <1>1, <1>2, <1>3, <1>4

\* Where a search ends without finding its key, the key belongs at min: that
\* is the position index_add inserts at, by any of its three exits.
LEMMA BracketEmpty ==
  ASSUME IInv, Busy, max < 0 \/ min >= Len(list) \/ min > max
  PROVE  /\ min = max + 1 /\ min \in 0 .. Len(list)
         /\ InsertionPoint = min
<1>1. Len(list) \in Nat /\ min \in Int /\ max \in Int  BY ListFacts DEF IInv
<1>2. 0 <= min /\ max < Len(list) /\ min <= max + 1  BY DEF IInv, Bracket
<1>3. min = max + 1 /\ min \in 0 .. Len(list)  BY <1>1, <1>2
<1>4. Point = min  BY <1>1, <1>3, Midpoint
<1>5. InsertionPoint = min  BY <1>1, <1>3, <1>4 DEF InsertionPoint
<1> QED  BY <1>3, <1>5

\* A bracket that is not empty has its midpoint among the entries.
LEMMA PointAmongEntries ==
  ASSUME IInv, Busy, min <= max
  PROVE  /\ Point \in min .. max /\ Point \in Int
         /\ Point + 1 \in DOMAIN list
         /\ At(Point) \in Entries /\ At(Point).key \in Int
<1>1. Len(list) \in Nat /\ DOMAIN list = 1 .. Len(list) /\ min \in Int /\ max \in Int
      /\ \A i \in DOMAIN list : list[i] \in Entries /\ list[i].key \in Int
  BY ListFacts DEF IInv
<1>2. 0 <= min /\ max < Len(list)  BY DEF IInv, Bracket
<1>3. Point \in min .. max /\ Point \in Int  BY <1>1, Midpoint
<1>4. Point + 1 \in DOMAIN list  BY <1>1, <1>2, <1>3
<1> QED  BY <1>1, <1>3, <1>4 DEF At

\* The first state satisfies the invariant.
LEMMA InitIInv == Init => IInv
<1> SUFFICES ASSUME Init PROVE IInv  OBVIOUS
<1>1. list = <<>> /\ <<>> \in Seq([key : Keys, data : Objects]) /\ Len(<<>>) = 0
  BY EmptySeq DEF Init
<1>2. (CHOOSE k \in Keys : TRUE) \in Keys  BY KeysAreIntegers
<1>3. TypeOK
  <2>1. entry \in [key : Keys, data : Objects \cup {NoObject}]  BY <1>2 DEF Init
  <2> QED  BY <1>1, <2>1 DEF Init, TypeOK
<1>4. Sorted  BY <1>1 DEF Sorted
<1>5. AllocFits  BY <1>1, LimitIsPositive DEF AllocFits, Init
<1>6. op = "idle"  BY DEF Init
<1> QED
  BY <1>3, <1>4, <1>5, <1>6
  DEF IInv, Bracket, Busy, RoundsLeft, AddHasObject, CyclicOnlyForDuplicates

\* A call starts with the whole list in its bracket.
LEMMA StartIInv ==
  ASSUME IInv, NEW o \in {"add", "get", "del"}, NEW k \in Keys,
         NEW x \in Objects \cup {NoObject}, o = "add" => x \in Objects, Start(o, k, x)
  PROVE  IInv'
<1>1. Len(list) \in Nat /\ DOMAIN list = 1 .. Len(list)  BY ListFacts DEF IInv
<1>2. /\ list' = list /\ alloc' = alloc /\ done' = done /\ op' = o
      /\ entry' = [key |-> k, data |-> x] /\ min' = 0 /\ max' = Len(list) - 1
      /\ count' = 0
  BY DEF Start
<1>3. TypeOK'
  <2>1. TypeOK  BY DEF IInv
  <2>2. entry' \in [key : Keys, data : Objects \cup {NoObject}]  BY <1>2
  <2> QED  BY <1>1, <1>2, <2>1, <2>2 DEF TypeOK
<1>4. Sorted' /\ AllocFits'  BY <1>2 DEF IInv, Sorted, AllocFits
<1>5. Bracket'
  <2>1. Below(entry.key, min)'  BY <1>1, <1>2 DEF Below
  <2>2. Above(entry.key, max)'  BY <1>1, <1>2 DEF Above
  <2> QED  BY <1>1, <1>2, <2>1, <2>2 DEF Bracket
<1>6. RoundsLeft'  BY <1>1, <1>2 DEF RoundsLeft
<1>7. AddHasObject'  BY <1>2 DEF AddHasObject
<1>8. CyclicOnlyForDuplicates'  BY <1>2 DEF CyclicOnlyForDuplicates
<1> QED  BY <1>3, <1>4, <1>5, <1>6, <1>7, <1>8 DEF IInv

\* A step after which no call is under way only has to keep the list in order.
LEMMA IdleIInv ==
  ASSUME op' = "idle", TypeOK', Sorted', AllocFits'
  PROVE  IInv'
BY DEF IInv, Bracket, Busy, RoundsLeft, AddHasObject, CyclicOnlyForDuplicates

\* A step that returns and leaves the list alone.
LEMMA ReturnIInv ==
  ASSUME IInv, op \in {"get", "del"}, NEW x \in Objects \cup {NoObject}, Return(x),
         UNCHANGED <<list, alloc, entry, min, max, count>>
  PROVE  IInv'
<1>1. TypeOK'
  <2>1. TypeOK /\ entry.key \in Keys  BY ListFacts DEF IInv
  <2>2. done' \in [op : {"add", "get", "del"}, key : Keys, data : Objects \cup {NoObject}]
    BY <2>1 DEF Return, Finished
  <2> QED  BY <2>1, <2>2 DEF TypeOK, Return
<1>2. Sorted' /\ AllocFits'  BY DEF IInv, Sorted, AllocFits
<1> QED  BY <1>1, <1>2, IdleIInv DEF Return
\* An insertion keeps the order: the bracket says its place is the right one.
LEMMA InsertIInv ==
  ASSUME IInv, Insert
  PROVE  IInv'
<1>1. op = "add" /\ Busy /\ MustInsert /\ TypeOK /\ AllocFits /\ Sorted
      /\ entry.data \in Objects
  BY DEF Insert, CountRound, Busy, IInv, AddHasObject
<1>2. Len(list) \in Nat /\ DOMAIN list = 1 .. Len(list)
      /\ (\A i \in DOMAIN list : list[i] \in Entries /\ list[i].key \in Int)
      /\ entry.key \in Keys /\ entry.key \in Int /\ count \in Nat
  BY ListFacts DEF IInv
<1>3. min = max + 1 /\ min \in 0 .. Len(list) /\ InsertionPoint = min
  BY <1>1, BracketEmpty DEF MustInsert
<1>4. entry \in Entries
  BY <1>1, <1>2 DEF TypeOK, Entries
<1>5. ListIns(min, entry)  BY <1>3 DEF Insert
<1>6. /\ list' \in Seq(Entries)
      /\ Len(list') = Len(list) + 1
      /\ DOMAIN list' = 1 .. Len(list) + 1
      /\ \A i \in 1 .. Len(list) + 1 :
           list'[i] = IF i <= min THEN list[i] ELSE IF i = min + 1 THEN entry ELSE list[i - 1]
      /\ AllocFits' /\ alloc' \in Nat
  BY <1>1, <1>3, <1>4, <1>5, Inserted
<1>7. Below(entry.key, min) /\ Above(entry.key, max)  BY <1>1 DEF IInv, Bracket
<1>8. Sorted'
  <2> SUFFICES ASSUME NEW i \in 1 .. Len(list) + 1, NEW j \in 1 .. Len(list) + 1, i < j
               PROVE  list'[i].key < list'[j].key
    BY <1>6 DEF Sorted
  <2>1. CASE j <= min
    <3>1. list'[i] = list[i] /\ list'[j] = list[j]  BY <1>3, <1>6, <2>1
    <3>2. i \in DOMAIN list /\ j \in DOMAIN list  BY <1>2, <1>3, <2>1
    <3> QED  BY <1>1, <3>1, <3>2 DEF Sorted
  <2>2. CASE j = min + 1
    <3>1. list'[i] = list[i] /\ list'[j] = entry  BY <1>3, <1>6, <2>2
    <3>2. i \in DOMAIN list /\ i <= min  BY <1>2, <1>3, <2>2
    <3> QED  BY <1>7, <3>1, <3>2 DEF Below
  <2>3. CASE j > min + 1 /\ i <= min
    <3>1. list'[i] = list[i] /\ list'[j] = list[j - 1]  BY <1>3, <1>6, <2>3
    <3>2. i \in DOMAIN list /\ j - 1 \in DOMAIN list /\ i < j - 1  BY <1>2, <1>3, <2>3
    <3> QED  BY <1>1, <3>1, <3>2 DEF Sorted
  <2>4. CASE j > min + 1 /\ i = min + 1
    <3>1. list'[i] = entry /\ list'[j] = list[j - 1]  BY <1>3, <1>6, <2>4
    <3>2. j - 1 \in DOMAIN list /\ j - 1 > max + 1  BY <1>2, <1>3, <2>4
    <3> QED  BY <1>7, <3>1, <3>2 DEF Above
  <2>5. CASE j > min + 1 /\ i > min + 1
    <3>1. list'[i] = list[i - 1] /\ list'[j] = list[j - 1]  BY <1>3, <1>6, <2>5
    <3>2. i - 1 \in DOMAIN list /\ j - 1 \in DOMAIN list /\ i - 1 < j - 1
      BY <1>2, <1>3, <2>5
    <3> QED  BY <1>1, <3>1, <3>2 DEF Sorted
  <2> QED  BY <1>3, <2>1, <2>2, <2>3, <2>4, <2>5
<1>9. TypeOK'
  <2>1. done' \in [op : {"add", "get", "del"}, key : Keys, data : Objects \cup {NoObject}]
    BY <1>1, <1>2 DEF Insert, Return, Finished
  <2>2. count' \in Nat  BY <1>2 DEF Insert, CountRound
  <2>3. op' = "idle" /\ entry' = entry /\ min' = min /\ max' = max
    BY DEF Insert, Return
  <2> QED  BY <1>1, <1>6, <2>1, <2>2, <2>3 DEF TypeOK, Entries
<1> QED  BY <1>6, <1>8, <1>9, IdleIInv DEF Insert, Return

\* A removal keeps the order of the entries that stay.
LEMMA DelFoundIInv ==
  ASSUME IInv, DelFound
  PROVE  IInv'
<1>1. op = "del" /\ Busy /\ ~Missing /\ TypeOK /\ AllocFits /\ Sorted
  BY DEF DelFound, Hit, Busy, IInv
<1>2. Len(list) \in Nat /\ DOMAIN list = 1 .. Len(list)
      /\ (\A i \in DOMAIN list : list[i] \in Entries /\ list[i].key \in Int)
      /\ entry.key \in Keys /\ min \in Int /\ max \in Int
  BY ListFacts DEF IInv
<1>3. min <= max  BY <1>1, <1>2 DEF Missing
<1>4. Point \in Int /\ Point + 1 \in DOMAIN list  BY <1>1, <1>3, PointAmongEntries
<1>5. Point \in 0 .. Len(list) - 1  BY <1>2, <1>4
<1>6. ListDel(Point)  BY DEF DelFound
<1>7. /\ list' \in Seq(Entries)
      /\ Len(list') = Len(list) - 1
      /\ DOMAIN list' = 1 .. Len(list) - 1
      /\ \A i \in 1 .. Len(list) - 1 :
           list'[i] = IF i <= Point THEN list[i] ELSE list[i + 1]
      /\ AllocFits' /\ alloc' \in Nat
  BY <1>1, <1>5, <1>6, Deleted
<1>8. Sorted'
  <2> SUFFICES ASSUME NEW i \in 1 .. Len(list) - 1, NEW j \in 1 .. Len(list) - 1, i < j
               PROVE  list'[i].key < list'[j].key
    BY <1>7 DEF Sorted
  <2>1. i \in DOMAIN list /\ j \in DOMAIN list /\ i + 1 \in DOMAIN list /\ j + 1 \in DOMAIN list
    BY <1>2
  <2>2. list'[i] = IF i <= Point THEN list[i] ELSE list[i + 1]  BY <1>7
  <2>3. list'[j] = IF j <= Point THEN list[j] ELSE list[j + 1]  BY <1>7
  <2>4. CASE j <= Point
    <3>1. list'[i] = list[i] /\ list'[j] = list[j]  BY <1>4, <2>2, <2>3, <2>4
    <3> QED  BY <1>1, <2>1, <3>1 DEF Sorted
  <2>5. CASE ~(j <= Point) /\ i <= Point
    <3>1. list'[i] = list[i] /\ list'[j] = list[j + 1] /\ i < j + 1  BY <2>2, <2>3, <2>5
    <3> QED  BY <1>1, <2>1, <3>1 DEF Sorted
  <2>6. CASE ~(i <= Point) /\ ~(j <= Point)
    <3>1. list'[i] = list[i + 1] /\ list'[j] = list[j + 1] /\ i + 1 < j + 1
      BY <2>2, <2>3, <2>6
    <3> QED  BY <1>1, <2>1, <3>1 DEF Sorted
  <2> QED  BY <1>4, <2>4, <2>5, <2>6
<1>9. TypeOK'
  <2>1. done' \in [op : {"add", "get", "del"}, key : Keys, data : Objects \cup {NoObject}]
    BY <1>1, <1>2 DEF DelFound, Return, Finished
  <2>3. op' = "idle" /\ entry' = entry /\ min' = min /\ max' = max /\ count' = count
    BY DEF DelFound, Return
  <2> QED  BY <1>1, <1>7, <2>1, <2>3 DEF TypeOK, Entries
<1> QED  BY <1>7, <1>8, <1>9, IdleIInv DEF DelFound, Return

\* What every round that compares keys leaves alone, and where it looked.
LEMMA CompareFacts ==
  ASSUME IInv, Compare
  PROVE  /\ Busy /\ min <= max
         /\ count' \in Nat /\ (op = "add" => count' = count + 1)
<1>1. Len(list) \in Nat /\ min \in Int /\ max \in Int /\ count \in Nat
  BY ListFacts DEF IInv
<1>2. CASE CountRound /\ ~MustInsert
  BY <1>1, <1>2 DEF CountRound, MustInsert, Busy
<1>3. CASE Searching /\ ~Missing /\ UNCHANGED count
  BY <1>1, <1>3 DEF Searching, Missing, Busy
<1> QED  BY <1>2, <1>3 DEF Compare

\* Moving min past a smaller key keeps every smaller-or-equal position out.
LEMMA GoRightIInv ==
  ASSUME IInv, GoRight
  PROVE  IInv'
<1>1. Busy /\ min <= max /\ count' \in Nat /\ (op = "add" => count' = count + 1)
      /\ entry.key > At(Point).key /\ min' = Point + 1
      /\ list' = list /\ alloc' = alloc /\ op' = op /\ entry' = entry /\ max' = max
      /\ done' = done
  BY CompareFacts DEF GoRight
<1>2. Len(list) \in Nat /\ DOMAIN list = 1 .. Len(list)
      /\ (\A i \in DOMAIN list : list[i].key \in Int)
      /\ entry.key \in Int /\ min \in Int /\ max \in Int /\ count \in Nat
  BY ListFacts DEF IInv
<1>3. Point \in min .. max /\ Point + 1 \in DOMAIN list /\ Point \in Int
  BY <1>1, PointAmongEntries
<1>4. 0 <= min /\ max < Len(list) /\ Above(entry.key, max)  BY <1>1 DEF IInv, Bracket
<1>5. TypeOK'  BY <1>1, <1>3 DEF IInv, TypeOK
<1>6. Sorted' /\ AllocFits'  BY <1>1 DEF IInv, Sorted, AllocFits
<1>7. Below(entry.key, Point + 1)
  <2> SUFFICES ASSUME NEW i \in DOMAIN list, i <= Point + 1 PROVE list[i].key < entry.key
    BY DEF Below
  <2>1. CASE i = Point + 1  BY <1>1, <2>1 DEF At
  <2>2. CASE i < Point + 1
    <3>1. list[i].key < list[Point + 1].key  BY <1>3, <2>2 DEF IInv, Sorted
    <3> QED  BY <1>1, <1>2, <1>3, <3>1 DEF At
  <2> QED  BY <1>2, <1>3, <2>1, <2>2
<1>8. Bracket'
  <2>1. Below(entry.key, min)'  BY <1>1, <1>7 DEF Below
  <2>2. Above(entry.key, max)'  BY <1>1, <1>4 DEF Above
  <2>3. (0 <= min /\ max < Len(list) /\ min <= max + 1)'  BY <1>1, <1>2, <1>3, <1>4
  <2> QED  BY <2>1, <2>2, <2>3 DEF Bracket
<1>9. RoundsLeft'
  <2>1. op = "add" /\ ~HasKey(entry.key) => count + (max - min + 1) <= Len(list)
    BY DEF IInv, RoundsLeft
  <2>2. HasKey(entry.key)' <=> HasKey(entry.key)  BY <1>1 DEF HasKey
  <2> QED  BY <1>1, <1>2, <1>3, <2>1, <2>2 DEF RoundsLeft
<1>10. AddHasObject' /\ CyclicOnlyForDuplicates'
  BY <1>1 DEF IInv, AddHasObject, CyclicOnlyForDuplicates, Busy
<1> QED  BY <1>5, <1>6, <1>8, <1>9, <1>10 DEF IInv

\* Moving max below a larger key, likewise.
LEMMA GoLeftIInv ==
  ASSUME IInv, GoLeft
  PROVE  IInv'
<1>1. Busy /\ min <= max /\ count' \in Nat /\ (op = "add" => count' = count + 1)
      /\ entry.key < At(Point).key /\ max' = Point - 1
      /\ list' = list /\ alloc' = alloc /\ op' = op /\ entry' = entry /\ min' = min
      /\ done' = done
  BY CompareFacts DEF GoLeft
<1>2. Len(list) \in Nat /\ DOMAIN list = 1 .. Len(list)
      /\ (\A i \in DOMAIN list : list[i].key \in Int)
      /\ entry.key \in Int /\ min \in Int /\ max \in Int /\ count \in Nat
  BY ListFacts DEF IInv
<1>3. Point \in min .. max /\ Point + 1 \in DOMAIN list /\ Point \in Int
  BY <1>1, PointAmongEntries
<1>4. 0 <= min /\ max < Len(list) /\ Below(entry.key, min)  BY <1>1 DEF IInv, Bracket
<1>5. TypeOK'  BY <1>1, <1>3 DEF IInv, TypeOK
<1>6. Sorted' /\ AllocFits'  BY <1>1 DEF IInv, Sorted, AllocFits
<1>7. Above(entry.key, Point - 1)
  <2> SUFFICES ASSUME NEW i \in DOMAIN list, i > (Point - 1) + 1 PROVE entry.key < list[i].key
    BY DEF Above
  <2>1. CASE i = Point + 1  BY <1>1, <2>1 DEF At
  <2>2. CASE i > Point + 1
    <3>1. list[Point + 1].key < list[i].key  BY <1>3, <2>2 DEF IInv, Sorted
    <3> QED  BY <1>1, <1>2, <1>3, <3>1 DEF At
  <2> QED  BY <1>2, <1>3, <2>1, <2>2
<1>8. Bracket'
  <2>1. Below(entry.key, min)'  BY <1>1, <1>4 DEF Below
  <2>2. Above(entry.key, max)'  BY <1>1, <1>7 DEF Above
  <2>3. (0 <= min /\ max < Len(list) /\ min <= max + 1)'  BY <1>1, <1>2, <1>3, <1>4
  <2> QED  BY <2>1, <2>2, <2>3 DEF Bracket
<1>9. RoundsLeft'
  <2>1. op = "add" /\ ~HasKey(entry.key) => count + (max - min + 1) <= Len(list)
    BY DEF IInv, RoundsLeft
  <2>2. HasKey(entry.key)' <=> HasKey(entry.key)  BY <1>1 DEF HasKey
  <2> QED  BY <1>1, <1>2, <1>3, <2>1, <2>2 DEF RoundsLeft
<1>10. AddHasObject' /\ CyclicOnlyForDuplicates'
  BY <1>1 DEF IInv, AddHasObject, CyclicOnlyForDuplicates, Busy
<1> QED  BY <1>5, <1>6, <1>8, <1>9, <1>10 DEF IInv

\* A spinning add has met its own key, so the key is a duplicate.
LEMMA SpinIInv ==
  ASSUME IInv, Spin
  PROVE  IInv'
<1>1. op = "add" /\ Busy /\ min <= max /\ count' \in Nat /\ entry.key = At(Point).key
      /\ list' = list /\ alloc' = alloc /\ op' = op /\ entry' = entry /\ min' = min
      /\ max' = max /\ done' = done
  BY CompareFacts DEF Spin
<1>2. Point + 1 \in DOMAIN list  BY <1>1, PointAmongEntries
<1>3. HasKey(entry.key)'  BY <1>1, <1>2 DEF HasKey, At
<1>4. TypeOK'  BY <1>1 DEF IInv, TypeOK
<1>5. Sorted' /\ AllocFits'  BY <1>1 DEF IInv, Sorted, AllocFits
<1>6. Bracket'
  <2>1. Below(entry.key, min)' <=> Below(entry.key, min)  BY <1>1 DEF Below
  <2>2. Above(entry.key, max)' <=> Above(entry.key, max)  BY <1>1 DEF Above
  <2> QED  BY <1>1, <2>1, <2>2 DEF IInv, Bracket, Busy
<1>7. RoundsLeft'  BY <1>3 DEF RoundsLeft
<1>8. AddHasObject' /\ CyclicOnlyForDuplicates'
  BY <1>1 DEF IInv, AddHasObject, CyclicOnlyForDuplicates
<1> QED  BY <1>4, <1>5, <1>6, <1>7, <1>8 DEF IInv

\* The counter reaches five rounds per entry only while an add spins: a fresh
\* key's rounds never exceed the number of entries.
LEMMA CyclicIInv ==
  ASSUME IInv, Cyclic
  PROVE  IInv'
<1>1. op = "add" /\ Busy /\ count + 1 = 5 * Len(list) /\ op' = "aborted"
      /\ count' = count + 1 /\ list' = list /\ alloc' = alloc /\ entry' = entry
      /\ min' = min /\ max' = max /\ done' = done
  BY DEF Cyclic, Busy
<1>2. Len(list) \in Nat /\ min \in Int /\ max \in Int /\ count \in Nat
  BY ListFacts DEF IInv
<1>3. HasKey(entry.key)
  <2> SUFFICES ASSUME ~HasKey(entry.key) PROVE FALSE  OBVIOUS
  <2>1. count + (max - min + 1) <= Len(list)  BY <1>1 DEF IInv, RoundsLeft
  <2>2. min <= max + 1  BY <1>1 DEF IInv, Bracket
  <2> QED  BY <1>1, <1>2, <2>1, <2>2
<1>4. HasKey(entry.key)'  BY <1>1, <1>3 DEF HasKey
<1>5. TypeOK'  BY <1>1, <1>2 DEF IInv, TypeOK
<1>6. Sorted' /\ AllocFits'  BY <1>1 DEF IInv, Sorted, AllocFits
<1> QED
  BY <1>1, <1>4, <1>5, <1>6
  DEF IInv, Bracket, Busy, RoundsLeft, AddHasObject, CyclicOnlyForDuplicates

\* Every step keeps the invariant.
LEMMA NextIInv ==
  ASSUME IInv, [Next]_vars
  PROVE  IInv'
<1>1. CASE \E k \in Keys : \E x \in Objects : IndexAdd(k, x)
  BY <1>1, StartIInv DEF IndexAdd
<1>2. CASE \E k \in Keys : IndexGet(k) \/ IndexDel(k)
  BY <1>2, StartIInv DEF IndexGet, IndexDel
<1>3. CASE Cyclic  BY <1>3, CyclicIInv
<1>4. CASE Insert  BY <1>4, InsertIInv
<1>5. CASE NotFound  BY <1>5, ReturnIInv DEF NotFound, Searching
<1>6. CASE GetFound
  <2>1. op = "get" /\ Busy /\ ~Missing /\ Return(At(Point).data)
        /\ UNCHANGED <<list, alloc, entry, min, max, count>>
    BY <1>6 DEF GetFound, Hit, Busy
  <2>2. min \in Int /\ max \in Int  BY ListFacts DEF IInv
  <2>3. At(Point) \in Entries  BY <2>1, <2>2, PointAmongEntries DEF Missing
  <2>4. At(Point).data \in Objects  BY <2>3 DEF Entries
  <2> QED  BY <2>1, <2>4, ReturnIInv
<1>7. CASE DelFound  BY <1>7, DelFoundIInv
<1>8. CASE GoRight  BY <1>8, GoRightIInv
<1>9. CASE GoLeft  BY <1>9, GoLeftIInv
<1>10. CASE Spin  BY <1>10, SpinIInv
<1>11. CASE UNCHANGED vars
  BY <1>11
  DEF vars, IInv, TypeOK, Sorted, AllocFits, Bracket, Busy, Below, Above, RoundsLeft, HasKey,
      AddHasObject, CyclicOnlyForDuplicates
<1> QED
  BY <1>1, <1>2, <1>3, <1>4, <1>5, <1>6, <1>7, <1>8, <1>9, <1>10, <1>11 DEF Next, Round

\* The invariant holds in every state.
LEMMA Invariant == Spec => []IInv
BY InitIInv, NextIInv, PTL DEF Spec
-----------------------------------------------------------------------------
(* Theorems *)

\* The state keeps its types.
THEOREM TypeCorrect == Spec => []TypeOK
BY Invariant, PTL DEF IInv

\* checkList never finds two entries out of order.
THEOREM AlwaysSorted == Spec => []Sorted
BY Invariant, PTL DEF IInv

\* The array has room for the entries and at most one growth step to spare.
THEOREM AllocAlwaysFits == Spec => []AllocFits
BY Invariant, PTL DEF IInv

\* The "Cyclic error" abort happens only when the key was already there.
THEOREM OnlyDuplicatesAbort == Spec => []CyclicOnlyForDuplicates
BY Invariant, PTL DEF IInv

\* Every read of list->list[point] is inside the entries.
THEOREM ReadsStayInside == Spec => []ReadsInside
<1>1. IInv => ReadsInside
  <2> SUFFICES ASSUME IInv, (op = "add" /\ max >= 0 /\ min < Len(list))
                              \/ (Searching /\ ~Missing)
               PROVE  Point \in 0 .. Len(list) - 1
    BY DEF ReadsInside
  <2>1. Len(list) \in Nat /\ DOMAIN list = 1 .. Len(list) /\ min \in Int /\ max \in Int
    BY ListFacts DEF IInv
  <2>2. Busy  BY DEF Busy, Searching
  <2>3. 0 <= min /\ max < Len(list) /\ min <= max + 1  BY <2>2 DEF IInv, Bracket
  <2>4. CASE min <= max
    <3>1. Point + 1 \in DOMAIN list /\ Point \in Int  BY <2>2, <2>4, PointAmongEntries
    <3> QED  BY <2>1, <3>1
  <2>5. CASE min > max
    <3>1. Point = min  BY <2>1, <2>3, <2>5, Midpoint
    <3>2. min < Len(list)  BY <2>1, <2>5 DEF Missing
    <3> QED  BY <2>1, <2>3, <3>1, <3>2
  <2> QED  BY <2>1, <2>4, <2>5
<1> QED  BY <1>1, Invariant, PTL

\* Neither the entries nor the array are left, by any sequence of calls.
THEOREM StaysInBounds == Spec => []InBounds
<1>1. IInv => AllocFits  BY DEF IInv
<1>2. Spec => []AllocFits  BY <1>1, Invariant, PTL
<1>3. AllocFits /\ ReadsInside => InBounds  BY DEF InBounds
<1> QED  BY <1>2, <1>3, ReadsStayInside, PTL

-----------------------------------------------------------------------------
(* How long a call takes: the safety core of EveryCallEnds *)

\* The counter of an add under way has not reached its limit.
CountBelow == op = "add" => count = 0 \/ count < 5 * Len(list)

LEMMA CountStaysBelow == Spec => []CountBelow
<1>1. Init => CountBelow  BY DEF Init, CountBelow
<1>2. IInv /\ CountBelow /\ [Next]_vars => CountBelow'
  <2> SUFFICES ASSUME IInv, CountBelow, [Next]_vars, op' = "add"
               PROVE  count' = 0 \/ count' < 5 * Len(list')
    BY DEF CountBelow
  <2>0. Len(list) \in Nat /\ count \in Nat  BY ListFacts DEF IInv
  <2>1. CASE \E o, k, x : Start(o, k, x)  BY <2>1 DEF Start
  <2>2. CASE Compare /\ UNCHANGED <<list, op>>
    <3>1. CountRound  BY <2>2, CompareFacts DEF Compare, Searching
    <3>2. count' = count + 1 /\ count' # 5 * Len(list)  BY <3>1 DEF CountRound
    <3>3. op = "add" /\ list' = list  BY <2>2
    <3>4. Len(list) > 0
      <4>1. Busy /\ min <= max  BY <2>2, CompareFacts
      <4>2. 0 <= min /\ max < Len(list)  BY <4>1 DEF IInv, Bracket
      <4>3. min \in Int /\ max \in Int  BY ListFacts DEF IInv
      <4> QED  BY <2>0, <4>1, <4>2, <4>3
    <3>5. count < 5 * Len(list)  BY <2>0, <3>3, <3>4 DEF CountBelow
    <3> QED  BY <2>0, <3>2, <3>3, <3>5
  <2>3. CASE op' = "idle" \/ op' = "aborted"  BY <2>3
  <2>4. CASE UNCHANGED vars  BY <2>4 DEF vars, CountBelow
  <2>5. CASE Round
    <3>1. CASE Cyclic  BY <2>3, <3>1 DEF Cyclic
    <3>2. CASE Insert \/ NotFound \/ GetFound \/ DelFound
      BY <2>3, <3>2 DEF Insert, NotFound, GetFound, DelFound, Return
    <3>3. CASE GoRight \/ GoLeft \/ Spin  BY <2>2, <3>3 DEF GoRight, GoLeft, Spin
    <3> QED  BY <2>5, <3>1, <3>2, <3>3 DEF Round
  <2> QED  BY <2>1, <2>4, <2>5 DEF Next, IndexAdd, IndexGet, IndexDel
<1> QED  BY <1>1, <1>2, Invariant, PTL DEF Spec

\* The positions the key can still be at.
Width == max - min + 1

\* Both halves a round leaves are at most half as wide as the bracket.
LEMMA Halves ==
  ASSUME min \in Int, max \in Int, min <= max
  PROVE  /\ Width \in Nat \ {0}
         /\ 0 <= max - Point /\ 2 * (max - Point) <= Width
         /\ 0 <= Point - min /\ 2 * (Point - min) <= Width
<1>1. PICK d \in Nat : d = max - min  OBVIOUS
<1>2. PICK h \in Nat : h = d \div 2 /\ 2 * h <= d /\ d <= 2 * h + 1  OBVIOUS
<1>3. Point = min + h  BY <1>1, <1>2 DEF Point, Half
<1>4. Width = d + 1  BY <1>1 DEF Width
<1>5. max - Point = d - h /\ Point - min = h  BY <1>1, <1>2, <1>3
<1> QED  BY <1>1, <1>2, <1>4, <1>5

\* Every round that does not end a call at least halves the positions the key can
\* be at, so a call takes no more of them than the number of entries has binary
\* digits; only the add of a key that is there compares without an effect, and
\* its counter rises towards the abort.  That the rounds go on is fairness; with it this is
\* EveryCallEnds.
THEOREM CallsAreShort ==
  Spec => [][Busy /\ Busy' =>
               \/ 0 <= Width' /\ 2 * Width' <= Width /\ 0 < Width /\ Width <= Len(list)
               \/ /\ op = "add" /\ HasKey(entry.key)
                  /\ count' = count + 1 /\ count' < 5 * Len(list)]_vars
<1> DEFINE Shorter == 0 <= Width' /\ 2 * Width' <= Width /\ 0 < Width /\ Width <= Len(list)
           Counts == /\ op = "add" /\ HasKey(entry.key)
                     /\ count' = count + 1 /\ count' < 5 * Len(list)
<1>1. IInv /\ CountBelow' /\ [Next]_vars => [Busy /\ Busy' => Shorter \/ Counts]_vars
  <2> SUFFICES ASSUME IInv, CountBelow', Next, Busy, Busy'
               PROVE  Shorter \/ Counts
    OBVIOUS
  <2>1. Len(list) \in Nat /\ DOMAIN list = 1 .. Len(list)
        /\ min \in Int /\ max \in Int /\ count \in Nat
    BY ListFacts DEF IInv
  <2>2. 0 <= min /\ max < Len(list)  BY DEF IInv, Bracket
  <2>3. GoRight \/ GoLeft \/ Spin
    BY DEF Next, Round, IndexAdd, IndexGet, IndexDel, Start, Busy, Cyclic, Insert, NotFound,
           GetFound, DelFound, Return
  <2>4. Compare /\ min <= max  BY <2>3, CompareFacts DEF GoRight, GoLeft, Spin
  <2>5. /\ Width \in Nat \ {0}
        /\ 0 <= max - Point /\ 2 * (max - Point) <= Width
        /\ 0 <= Point - min /\ 2 * (Point - min) <= Width
    BY <2>1, <2>4, Halves
  <2>6. Point \in Int  BY <2>1, <2>4, Midpoint
  <2>7. Width <= Len(list)  BY <2>1, <2>2 DEF Width
  <2>8. CASE GoRight
    <3>1. min' = Point + 1 /\ max' = max  BY <2>8 DEF GoRight
    <3>2. Width' = max - Point  BY <2>1, <2>6, <3>1 DEF Width
    <3> QED  BY <2>5, <2>7, <3>2
  <2>9. CASE GoLeft
    <3>1. max' = Point - 1 /\ min' = min  BY <2>9 DEF GoLeft
    <3>2. Width' = Point - min  BY <2>1, <2>6, <3>1 DEF Width
    <3> QED  BY <2>5, <2>7, <3>2
  <2>10. CASE Spin
    <3>1. op = "add" /\ op' = "add" /\ list' = list /\ entry.key = At(Point).key
      BY <2>10 DEF Spin
    <3>2. count' = count + 1  BY <2>4, <3>1, CompareFacts
    <3>3. Point + 1 \in DOMAIN list  BY <2>4, PointAmongEntries
    <3>4. HasKey(entry.key)  BY <3>1, <3>3 DEF HasKey, At
    <3>5. count' = 0 \/ count' < 5 * Len(list)  BY <3>1 DEF CountBelow
    <3> QED  BY <2>1, <3>1, <3>2, <3>4, <3>5
  <2> QED  BY <2>3, <2>8, <2>9, <2>10
<1> QED  BY <1>1, Invariant, CountStaysBelow, PTL DEF Spec

-----------------------------------------------------------------------------
(* Refinement *)

\* A bracket that has become empty leaves no position for the key.
LEMMA EmptyBracketMisses ==
  ASSUME IInv, Busy, max < 0 \/ min >= Len(list) \/ min > max
  PROVE  \A i \in DOMAIN list : list[i].key # entry.key
<1>1. min = max + 1  BY BracketEmpty
<1>2. Below(entry.key, min) /\ Above(entry.key, max)  BY DEF IInv, Bracket
<1>3. DOMAIN list = 1 .. Len(list) /\ Len(list) \in Nat /\ min \in Int /\ max \in Int
      /\ entry.key \in Int /\ \A i \in DOMAIN list : list[i].key \in Int
  BY ListFacts DEF IInv
<1> SUFFICES ASSUME NEW i \in DOMAIN list PROVE list[i].key # entry.key  OBVIOUS
<1>4. CASE i <= min
  <2>1. list[i].key < entry.key  BY <1>2, <1>4 DEF Below
  <2> QED  BY <1>3, <2>1
<1>5. CASE i > max + 1
  <2>1. entry.key < list[i].key  BY <1>2, <1>5 DEF Above
  <2> QED  BY <1>3, <2>1
<1> QED  BY <1>1, <1>3, <1>4, <1>5

\* An insertion adds its entry and keeps all the others.
LEMMA InsertImplements ==
  ASSUME IInv, Insert
  PROVE  Abstract!Next
<1>1. op = "add" /\ Busy /\ MustInsert /\ TypeOK /\ AllocFits /\ entry.data \in Objects
      /\ done' = Finished("add", entry.key, entry.data)
  BY DEF Insert, CountRound, Busy, IInv, AddHasObject, Return
<1>2. Len(list) \in Nat /\ DOMAIN list = 1 .. Len(list) /\ entry.key \in Keys
  BY ListFacts DEF IInv
<1>3. min \in 0 .. Len(list) /\ ListIns(min, entry)
  BY <1>1, BracketEmpty DEF MustInsert, Insert
<1>4. entry \in Entries /\ entry = [key |-> entry.key, data |-> entry.data]
  BY <1>1 DEF TypeOK, Entries
<1>5. /\ DOMAIN list' = 1 .. Len(list) + 1
      /\ \A i \in 1 .. Len(list) + 1 :
           list'[i] = IF i <= min THEN list[i] ELSE IF i = min + 1 THEN entry ELSE list[i - 1]
  BY <1>1, <1>3, <1>4, Inserted
<1>6. Contents' \subseteq Contents \cup {entry}
  <2> SUFFICES ASSUME NEW i \in 1 .. Len(list) + 1
               PROVE  list'[i] = entry \/ \E j \in DOMAIN list : list'[i] = list[j]
    BY <1>5 DEF Contents
  <2>1. CASE i <= min  BY <1>2, <1>3, <1>5, <2>1
  <2>2. CASE i = min + 1  BY <1>3, <1>5, <2>2
  <2>3. CASE i > min + 1
    <3>1. list'[i] = list[i - 1] /\ i - 1 \in DOMAIN list  BY <1>2, <1>3, <1>5, <2>3
    <3> QED  BY <3>1
  <2> QED  BY <1>3, <2>1, <2>2, <2>3
<1>7. entry \in Contents'
  <2>1. min + 1 \in DOMAIN list' /\ list'[min + 1] = entry  BY <1>2, <1>3, <1>5
  <2> QED  BY <2>1 DEF Contents
<1>8. Contents \subseteq Contents'
  <2> SUFFICES ASSUME NEW i \in DOMAIN list
               PROVE  \E j \in DOMAIN list' : list'[j] = list[i]
    BY DEF Contents
  <2>1. CASE i <= min
    <3>1. i \in DOMAIN list' /\ list'[i] = list[i]  BY <1>2, <1>5, <2>1
    <3> QED  BY <3>1
  <2>2. CASE i > min
    <3>1. i + 1 \in DOMAIN list' /\ list'[i + 1] = list[(i + 1) - 1]
      BY <1>2, <1>3, <1>5, <2>2
    <3> QED  BY <1>2, <3>1
  <2> QED  BY <1>2, <1>3, <2>1, <2>2
<1>9. \A e \in Contents : e.key # entry.key
  BY <1>1, EmptyBracketMisses DEF MustInsert, Contents
<1>10. Contents' = Contents \cup {[key |-> entry.key, data |-> entry.data]}
  BY <1>4, <1>6, <1>7, <1>8
<1>11. Abstract!Add(entry.key, entry.data)
  BY <1>1, <1>9, <1>10 DEF Abstract!Add, Abstract!Present, Abstract!Finished, Finished
<1> QED  BY <1>1, <1>2, <1>11 DEF Abstract!Next

\* A removal takes away the one entry with the key.
LEMMA DelFoundImplements ==
  ASSUME IInv, DelFound
  PROVE  Abstract!Next
<1>1. op = "del" /\ Busy /\ ~Missing /\ At(Point).key = entry.key /\ TypeOK /\ AllocFits
      /\ Sorted /\ done' = Finished("del", entry.key, NoObject) /\ ListDel(Point)
  BY DEF DelFound, Hit, Busy, IInv, Return
<1>2. Len(list) \in Nat /\ DOMAIN list = 1 .. Len(list) /\ entry.key \in Keys
      /\ min \in Int /\ max \in Int /\ \A i \in DOMAIN list : list[i].key \in Int
  BY ListFacts DEF IInv
<1>3. Point \in Int /\ Point + 1 \in DOMAIN list
  BY <1>1, <1>2, PointAmongEntries DEF Missing
<1>4. /\ DOMAIN list' = 1 .. Len(list) - 1
      /\ \A i \in 1 .. Len(list) - 1 :
           list'[i] = IF i <= Point THEN list[i] ELSE list[i + 1]
  <2>1. Point \in 0 .. Len(list) - 1  BY <1>2, <1>3
  <2> QED  BY <1>1, <2>1, Deleted
<1>5. list[Point + 1].key = entry.key  BY <1>1 DEF At
<1>6. \A i \in DOMAIN list : i # Point + 1 => list[i].key # entry.key
  <2> SUFFICES ASSUME NEW i \in DOMAIN list, i # Point + 1 PROVE list[i].key # entry.key
    OBVIOUS
  <2>1. i < Point + 1 \/ Point + 1 < i  BY <1>2, <1>3
  <2>2. list[i].key < list[Point + 1].key \/ list[Point + 1].key < list[i].key
    BY <1>1, <1>3, <2>1 DEF Sorted
  <2> QED  BY <1>2, <1>3, <1>5, <2>2
<1>7. Contents' \subseteq {e \in Contents : e.key # entry.key}
  <2> SUFFICES ASSUME NEW i \in 1 .. Len(list) - 1
               PROVE  \E j \in DOMAIN list : list'[i] = list[j] /\ list[j].key # entry.key
    BY <1>4 DEF Contents
  <2>1. CASE i <= Point
    <3>1. i \in DOMAIN list /\ list'[i] = list[i] /\ i # Point + 1
      BY <1>2, <1>3, <1>4, <2>1
    <3> QED  BY <1>6, <3>1
  <2>2. CASE ~(i <= Point)
    <3>1. i + 1 \in DOMAIN list /\ list'[i] = list[i + 1] /\ i + 1 # Point + 1
      BY <1>2, <1>3, <1>4, <2>2
    <3> QED  BY <1>6, <3>1
  <2> QED  BY <2>1, <2>2
<1>8. {e \in Contents : e.key # entry.key} \subseteq Contents'
  <2> SUFFICES ASSUME NEW i \in DOMAIN list, list[i].key # entry.key
               PROVE  \E j \in DOMAIN list' : list'[j] = list[i]
    BY DEF Contents
  <2>1. i # Point + 1  BY <1>5
  <2>2. CASE i < Point + 1
    <3>1. i \in DOMAIN list' /\ list'[i] = list[i]  BY <1>2, <1>3, <1>4, <2>2
    <3> QED  BY <3>1
  <2>3. CASE i > Point + 1
    <3>1. i - 1 \in DOMAIN list' /\ list'[i - 1] = list[(i - 1) + 1]
      BY <1>2, <1>3, <1>4, <2>3
    <3>2. (i - 1) + 1 = i  BY <1>2
    <3> QED  BY <3>1, <3>2
  <2> QED  BY <1>2, <1>3, <2>1, <2>2, <2>3
<1>9. Contents' = {e \in Contents : e.key # entry.key}  BY <1>7, <1>8
<1>10. Abstract!Del(entry.key)
  BY <1>1, <1>9 DEF Abstract!Del, Abstract!Finished, Finished
<1> QED  BY <1>2, <1>10 DEF Abstract!Next

\* A search that gives up has missed nothing.
LEMMA NotFoundImplements ==
  ASSUME IInv, NotFound
  PROVE  Abstract!Next
<1>1. Searching /\ Busy /\ Missing /\ done' = Finished(op, entry.key, NoObject)
      /\ list' = list
  BY DEF NotFound, Searching, Busy, Return
<1>2. Len(list) \in Nat /\ DOMAIN list = 1 .. Len(list) /\ entry.key \in Keys
      /\ min \in Int /\ max \in Int
  BY ListFacts DEF IInv
<1>3. max < 0 \/ min >= Len(list) \/ min > max
  <2>1. CASE min <= max
    <3>1. Point + 1 \in DOMAIN list /\ Point \in Int  BY <1>1, <2>1, PointAmongEntries
    <3> QED  BY <1>1, <1>2, <2>1, <3>1 DEF Missing
  <2> QED  BY <1>2, <2>1
<1>4. \A e \in Contents : e.key # entry.key
  BY <1>1, <1>3, EmptyBracketMisses DEF Contents
<1>5. Contents' = Contents  BY <1>1 DEF Contents
<1>6. CASE op = "get"
  <2>1. Abstract!Get(entry.key)
    BY <1>1, <1>4, <1>5, <1>6
    DEF Abstract!Get, Abstract!Present, Abstract!Finished, Finished
  <2> QED  BY <1>2, <2>1 DEF Abstract!Next
<1>7. CASE op = "del"
  <2>1. Abstract!Del(entry.key)
    BY <1>1, <1>4, <1>5, <1>7 DEF Abstract!Del, Abstract!Finished, Finished
  <2> QED  BY <1>2, <2>1 DEF Abstract!Next
<1> QED  BY <1>1, <1>6, <1>7 DEF Searching

\* A search that finds returns an entry with the key.
LEMMA GetFoundImplements ==
  ASSUME IInv, GetFound
  PROVE  Abstract!Next
<1>1. op = "get" /\ Busy /\ ~Missing /\ At(Point).key = entry.key
      /\ done' = Finished("get", entry.key, At(Point).data) /\ list' = list
  BY DEF GetFound, Hit, Busy, Return
<1>2. entry.key \in Keys /\ min \in Int /\ max \in Int  BY ListFacts DEF IInv
<1>3. Point + 1 \in DOMAIN list
  BY <1>1, <1>2, PointAmongEntries DEF Missing
<1>4. At(Point) \in Contents  BY <1>3 DEF At, Contents
<1>5. Contents' = Contents  BY <1>1 DEF Contents
<1>6. Abstract!Get(entry.key)
  BY <1>1, <1>4, <1>5 DEF Abstract!Get, Abstract!Finished, Finished
<1> QED  BY <1>2, <1>6 DEF Abstract!Next

\* Round by round, the binary search and the shifting array are an atomic
\* directory: no lookup misses an entry, no update disturbs another one.
THEOREM IndexIsADirectory == Spec => ImplementsDirectory
<1>1. Init => Abstract!Init
  <2> SUFFICES ASSUME Init PROVE Abstract!Init  OBVIOUS
  <2>1. DOMAIN list = {}  BY EmptySeq, LenProperties DEF Init
  <2>2. Contents = {}  BY <2>1 DEF Contents
  <2> QED  BY <2>2 DEF Abstract!Init, Init, Nothing, Abstract!Nothing
<1>2. IInv /\ [Next]_vars => [Abstract!Next]_(Abstract!vars)
  <2> SUFFICES ASSUME IInv, [Next]_vars PROVE [Abstract!Next]_(Abstract!vars)  OBVIOUS
  <2>1. ASSUME UNCHANGED <<list, done>> PROVE UNCHANGED Abstract!vars
    BY <2>1 DEF Abstract!vars, Contents
  <2>2. CASE \E k \in Keys : (\E x \in Objects : IndexAdd(k, x)) \/ IndexGet(k) \/ IndexDel(k)
    <3>1. UNCHANGED <<list, done>>  BY <2>2 DEF IndexAdd, IndexGet, IndexDel, Start
    <3> QED  BY <2>1, <3>1
  <2>3. CASE Cyclic \/ GoRight \/ GoLeft \/ Spin
    <3>1. UNCHANGED <<list, done>>  BY <2>3 DEF Cyclic, GoRight, GoLeft, Spin
    <3> QED  BY <2>1, <3>1
  <2>4. CASE Insert  BY <2>4, InsertImplements
  <2>5. CASE DelFound  BY <2>5, DelFoundImplements
  <2>6. CASE NotFound  BY <2>6, NotFoundImplements
  <2>7. CASE GetFound  BY <2>7, GetFoundImplements
  <2>8. CASE UNCHANGED vars  BY <2>1, <2>8 DEF vars
  <2> QED  BY <2>2, <2>3, <2>4, <2>5, <2>6, <2>7, <2>8 DEF Next, Round
<1> QED  BY <1>1, <1>2, Invariant, PTL DEF Spec, ImplementsDirectory, Abstract!Spec
=============================================================================
