----------------------------- MODULE IpTableProofs -----------------------------
(***************************************************************************)
(* Proofs about IpTable, for any number of addresses and any file.         *)
(***************************************************************************)
EXTENDS IpTable, SequenceTheorems, WellFoundedInduction, TLAPS

\* The comments at IP_TABLE.h:157, 170 and 186: the two comparisons are mirror
\* images of each other, and never both hold.
THEOREM MirroredComparisons ==
    ASSUME NEW a \in IpRange, NEW b \in IpRange
    PROVE  /\ Greater(a, b) <=> Less(b, a)
           /\ ~(Less(a, b) /\ Greater(a, b))
BY IpTableAssumption DEF IpRange, Line, Addr, Greater, Less, Equal, Within

\* A non-empty set of positions has a first one.
LEMMA FirstPosition ==
    ASSUME NEW T, T \subseteq Nat, T # {}
    PROVE  \E i \in T : \A j \in T : i <= j
<1> DEFINE R == OpToRel(<, Nat)
<1>1. IsWellFoundedOn(R, Nat)
  BY NatLessThanWellFounded
<1>2. PICK i \in T : \A j \in T : <<j, i>> \notin R
  <2> HIDE DEF R
  <2> QED
    BY <1>1, WFMin
<1>3. \A j \in T : ~(j < i)
  BY <1>2 DEF OpToRel
<1> QED
  BY <1>3

\* Two initial intervals of the positions that are equal end at the same one.
LEMMA IntervalEnd ==
    ASSUME NEW m \in Nat, NEW n \in Nat, 1..m = 1..n
    PROVE  m = n
<1>1. CASE m < n
  <2>1. n \in 1..n /\ n \notin 1..m
    BY <1>1
  <2> QED
    BY <2>1
<1>2. CASE n < m
  <2>1. m \in 1..m /\ m \notin 1..n
    BY <1>2
  <2> QED
    BY <2>1
<1> QED
  BY <1>1, <1>2

\* Where an entry goes into a table: a sequence again, with the others around it.
LEMMA Insertion ==
    ASSUME NEW s \in Seq(IpRange), NEW e \in IpRange, NEW i \in 1..(Len(s) + 1)
    PROVE  LET r == InsertBefore(s, i, e)
           IN  /\ r \in Seq(IpRange)
               /\ Len(r) = Len(s) + 1
               /\ r[i] = e
               /\ \A j \in 1..(i - 1) : r[j] = s[j]
               /\ \A j \in i..Len(s) : r[j + 1] = s[j]
<1> DEFINE r == InsertBefore(s, i, e)
<1>1. Len(s) \in Nat /\ \A j \in 1..Len(s) : s[j] \in IpRange
  BY LenProperties, ElementOfSeq
<1>2. r \in [1..(Len(s) + 1) -> IpRange]
  BY <1>1 DEF InsertBefore
<1>3. r \in Seq(IpRange)
  BY <1>1, <1>2, SeqDef
<1>4. Len(r) = Len(s) + 1
  <2>1. Len(r) \in Nat /\ DOMAIN r = 1..Len(r)
    BY <1>3, LenProperties
  <2>2. 1..Len(r) = 1..(Len(s) + 1)
    BY <1>2, <2>1
  <2>3. Len(s) + 1 \in Nat /\ Len(r) \in Nat
    BY <1>1, <2>1
  <2> HIDE DEF r
  <2> QED
    BY <2>2, <2>3, IntervalEnd
<1>5. r[i] = e
  BY <1>1 DEF InsertBefore
<1>6. \A j \in 1..(i - 1) : r[j] = s[j]
  BY <1>1 DEF InsertBefore
<1>7. \A j \in i..Len(s) : r[j + 1] = s[j]
  BY <1>1 DEF InsertBefore
<1> QED
  BY <1>3, <1>4, <1>5, <1>6, <1>7

\* The two outcomes of an insertion.
LEMMA InsertionOutcomes ==
    ASSUME TypeOK, NEW l \in Line, InsertLine(l)
    PROVE  /\ l \in IpRange
           /\ \E i \in InsertGaps(table, l) :
                  \/ /\ i = 1 \/ Less(table[i - 1], l)
                     /\ table' = InsertBefore(table, i, l)
                  \/ /\ i > 1 /\ ~Less(table[i - 1], l)
                     /\ table' = table
<1>1. l \in IpRange
  BY DEF InsertLine, Skipped, IpRange
<1>2. PICK i \in InsertGaps(table, l) :
          table' = IF i = 1 \/ Less(table[i - 1], l)
                   THEN InsertBefore(table, i, l) ELSE table
  BY DEF InsertLine, Inserted
<1>3. i = 1 \/ i > 1
  BY LenProperties DEF InsertGaps, TypeOK
<1> QED
  BY <1>1, <1>2, <1>3

\* The loader only ever puts non-empty ranges with known names into the map.
THEOREM TypeCorrect == Spec => []TypeOK
<1>1. Init => TypeOK
  BY EmptySeq DEF Init, TypeOK
<1>2. TypeOK /\ [Next]_vars => TypeOK'
  <2> SUFFICES ASSUME TypeOK, [Next]_vars
               PROVE  TypeOK'
    OBVIOUS
  <2>1. CASE NoFile
    BY <2>1 DEF NoFile, TypeOK
  <2>2. ASSUME NEW l \in Line, SkipLine(l) PROVE TypeOK'
    BY <2>2 DEF SkipLine, NextLine, TypeOK
  <2>3. ASSUME NEW l \in Line, InsertLine(l) PROVE TypeOK'
    <3>1. l \in IpRange
      BY <2>3, InsertionOutcomes
    <3>2. PICK i \in InsertGaps(table, l) :
              table' = InsertBefore(table, i, l) \/ table' = table
      BY <2>3, InsertionOutcomes
    <3>3. i \in 1..(Len(table) + 1)
      BY DEF InsertGaps
    <3>4. InsertBefore(table, i, l) \in Seq(IpRange)
      BY <3>1, <3>3, Insertion DEF TypeOK
    <3>5. table' \in Seq(IpRange)
      BY <3>2, <3>4 DEF TypeOK
    <3> QED
      BY <2>3, <3>1, <3>5 DEF InsertLine, NextLine, TypeOK
  <2>4. ASSUME NEW l \in Line, AssertFails(l) PROVE TypeOK'
    BY <2>4 DEF AssertFails, NextLine, TypeOK
  <2>5. CASE EndOfFile
    BY <2>5 DEF EndOfFile, TypeOK
  <2>6. CASE UNCHANGED vars
    BY <2>6 DEF vars, TypeOK
  <2> QED
    BY <2>1, <2>2, <2>3, <2>4, <2>5, <2>6 DEF Next
<1> QED
  BY <1>1, <1>2, PTL DEF Spec

\* The steps other than a successful insertion leave the map alone.
LEMMA OtherSteps ==
    ASSUME [Next]_vars
    PROVE  \/ \E l \in Line : InsertLine(l)
           \/ UNCHANGED <<table, given>>
BY DEF Next, NoFile, SkipLine, AssertFails, EndOfFile, vars

\* An entry that fits between its neighbours in a sorted table fits between all.
LEMMA InsertionKeepsOrder ==
    ASSUME TypeOK, Ordered, NEW l \in IpRange, NEW i \in InsertGaps(table, l),
           i = 1 \/ Less(table[i - 1], l),
           table' = InsertBefore(table, i, l)
    PROVE  Ordered'
<1>1. /\ Len(table) \in Nat
      /\ \A j \in 1..Len(table) : table[j] \in IpRange
      /\ i \in 1..(Len(table) + 1)
      /\ \A j \in 1..Len(table) : table[j].from \in Nat /\ table[j].to \in Nat
  <2>1. Len(table) \in Nat /\ \A j \in 1..Len(table) : table[j] \in IpRange
    BY LenProperties, ElementOfSeq DEF TypeOK
  <2>2. \A r \in IpRange : r.from \in Nat /\ r.to \in Nat
    BY IpTableAssumption DEF IpRange, Line, Addr
  <2> QED
    BY <2>1, <2>2 DEF InsertGaps
<1>2. /\ Len(table') = Len(table) + 1
      /\ table'[i] = l
      /\ \A j \in 1..(i - 1) : table'[j] = table[j]
      /\ \A j \in i..Len(table) : table'[j + 1] = table[j]
  <2> DEFINE r == InsertBefore(table, i, l)
  <2>1. table \in Seq(IpRange)
    BY DEF TypeOK
  <2>2. /\ Len(r) = Len(table) + 1
        /\ r[i] = l
        /\ \A j \in 1..(i - 1) : r[j] = table[j]
        /\ \A j \in i..Len(table) : r[j + 1] = table[j]
    BY <1>1, <2>1, Insertion
  <2>3. table' = r
    OBVIOUS
  <2> HIDE DEF r
  <2> QED
    BY <2>2, <2>3
<1>3. \A j \in 1..(i - 1) : table[j].from < l.from /\ table[j].to < l.to
  <2> SUFFICES ASSUME NEW j \in 1..(i - 1)
               PROVE  table[j].from < l.from /\ table[j].to < l.to
    OBVIOUS
  <2>1. table[i - 1].from < l.from /\ table[i - 1].to < l.to
    BY <1>1, IpTableAssumption DEF Less, Equal, Within, IpRange, Line, Addr
  <2>2. /\ table[j].from <= table[i - 1].from
        /\ table[j].to <= table[i - 1].to
    <3>1. CASE j = i - 1
      BY <1>1, <3>1
    <3>2. CASE j < i - 1
      <4>1. j \in 1..Len(table) /\ i - 1 \in 1..Len(table)
        BY <1>1, <3>2
      <4> QED
        BY <1>1, <3>2, <4>1 DEF Ordered
    <3> QED
      BY <1>1, <3>1, <3>2
  <2>3. /\ l.from \in Nat /\ l.to \in Nat
        /\ j \in 1..Len(table) /\ i - 1 \in 1..Len(table)
    BY <1>1, IpTableAssumption DEF IpRange, Line, Addr
  <2> QED
    BY <1>1, <2>1, <2>2, <2>3
<1>4. \A j \in i..Len(table) : l.from < table[j].from /\ l.to < table[j].to
  <2> SUFFICES ASSUME NEW j \in i..Len(table)
               PROVE  l.from < table[j].from /\ l.to < table[j].to
    OBVIOUS
  <2>0. Less(l, table[i])
    BY <1>1 DEF InsertGaps
  <2>1. l.from < table[i].from /\ l.to < table[i].to
    BY <1>1, <2>0, IpTableAssumption DEF Less, Equal, Within, IpRange, Line, Addr
  <2>2. table[i].from <= table[j].from /\ table[i].to <= table[j].to
    <3>1. CASE j = i
      BY <1>1, <3>1
    <3>2. CASE i < j
      BY <1>1, <3>2 DEF Ordered
    <3> QED
      BY <1>1, <3>1, <3>2
  <2> QED
    BY <1>1, <2>1, <2>2, IpTableAssumption DEF IpRange, Line, Addr
<1>5. ASSUME NEW j \in 1..Len(table'), NEW k \in 1..Len(table'), j < k
      PROVE  table'[j].from < table'[k].from /\ table'[j].to < table'[k].to
  <2>1. CASE k < i
    BY <1>1, <1>2, <1>5, <2>1 DEF Ordered
  <2>2. CASE k = i
    BY <1>1, <1>2, <1>3, <1>5, <2>2
  <2>3. CASE k > i
    <3>1. k - 1 \in i..Len(table) /\ table'[k] = table[k - 1]
      BY <1>1, <1>2, <2>3
    <3>2. CASE j = i
      BY <1>1, <1>2, <1>4, <3>1, <3>2
    <3>3. CASE j < i
      BY <1>1, <1>2, <1>5, <3>1, <3>3 DEF Ordered
    <3>4. CASE j > i
      <4>1. j - 1 \in i..Len(table) /\ table'[j] = table[j - 1]
        BY <1>1, <1>2, <1>5, <3>4
      <4> QED
        BY <1>1, <1>5, <3>1, <4>1 DEF Ordered
    <3> QED
      BY <1>1, <3>2, <3>3, <3>4
  <2> QED
    BY <1>1, <1>2, <2>1, <2>2, <2>3
<1> QED
  BY <1>5 DEF Ordered

\* Whatever the file, the map stays sorted by both ends of its ranges, so that
\* its comparison is an order on what it contains.
THEOREM TableOrdered == Spec => []Ordered
<1>1. Init => Ordered
  <2> SUFFICES ASSUME Init PROVE Ordered
    OBVIOUS
  <2>1. Len(table) = 0
    BY EmptySeq DEF Init
  <2> QED
    BY <2>1 DEF Ordered
<1>2. TypeOK /\ Ordered /\ [Next]_vars => Ordered'
  <2> SUFFICES ASSUME TypeOK, Ordered, [Next]_vars
               PROVE  Ordered'
    OBVIOUS
  <2>1. ASSUME NEW l \in Line, InsertLine(l) PROVE Ordered'
    <3>1. l \in IpRange
      BY <2>1, InsertionOutcomes
    <3>2. PICK i \in InsertGaps(table, l) :
              \/ (i = 1 \/ Less(table[i - 1], l)) /\ table' = InsertBefore(table, i, l)
              \/ table' = table
      BY <2>1, InsertionOutcomes
    <3>3. CASE table' = table
      BY <3>3 DEF Ordered
    <3>4. CASE (i = 1 \/ Less(table[i - 1], l)) /\ table' = InsertBefore(table, i, l)
      BY <3>1, <3>4, InsertionKeepsOrder
    <3> QED
      BY <3>2, <3>3, <3>4
  <2>2. CASE UNCHANGED <<table, given>>
    BY <2>2 DEF Ordered
  <2> QED
    BY <2>1, <2>2, OtherSteps
<1> QED
  BY <1>1, <1>2, TypeCorrect, PTL DEF Spec

\* What the comparison with a single address says about an entry.
LEMMA PointComparisons ==
    ASSUME NEW ip \in Addr, NEW r \in IpRange
    PROVE  /\ r.from \in Nat /\ r.to \in Nat /\ ip \in Nat
           /\ r.from <= r.to
           /\ Within(Point(ip), r) <=> r.from <= ip /\ ip <= r.to
           /\ Less(r, Point(ip)) <=> r.to < ip
           /\ Less(Point(ip), r) <=> ip < r.from
BY IpTableAssumption DEF IpRange, Line, Addr, Less, Equal, Within, Point

\* A search for an address ends somewhere: before the first entry that does not
\* end below the address, or after all.
LEMMA SearchEnds ==
    ASSUME TypeOK, Ordered, NEW ip \in Addr
    PROVE  FindGaps(table, Point(ip)) # {}
<1> DEFINE T == {i \in 1..Len(table) : ~Less(table[i], Point(ip))}
<1>1. Len(table) \in Nat
  BY LenProperties DEF TypeOK
<1>2. CASE T = {}
  <2>1. Len(table) + 1 \in FindGaps(table, Point(ip))
    BY <1>1, <1>2 DEF FindGaps
  <2> QED
    BY <2>1
<1>3. CASE T # {}
  <2>1. T \subseteq Nat
    OBVIOUS
  <2>2. PICK i \in T : \A j \in T : i <= j
    <3> HIDE DEF T
    <3> QED
      BY <1>3, <2>1, FirstPosition
  <2>3. i > 1 => i - 1 \notin T
    BY <2>2
  <2>4. i \in FindGaps(table, Point(ip))
    BY <1>1, <2>2, <2>3 DEF FindGaps
  <2> QED
    BY <2>4
<1> QED
  BY <1>2, <1>3

\* The gap a search ends in is before the first range that holds the address, if
\* there is one, and before none otherwise.
LEMMA GapIsRight ==
    ASSUME TypeOK, Ordered, NEW ip \in Addr, NEW i \in FindGaps(table, Point(ip))
    PROVE  /\ Hit(table, Point(ip), i) => i \in Holding(ip)
           /\ Holding(ip) # {} => Hit(table, Point(ip), i)
<1>1. /\ Len(table) \in Nat
      /\ \A j \in 1..Len(table) : table[j] \in IpRange
      /\ i \in 1..(Len(table) + 1)
  BY LenProperties, ElementOfSeq DEF TypeOK, FindGaps
<1>2. i <= Len(table) => i \in 1..Len(table) /\ ~Less(table[i], Point(ip))
  BY <1>1 DEF FindGaps
<1>3. Hit(table, Point(ip), i) => i \in Holding(ip)
  <2> SUFFICES ASSUME Hit(table, Point(ip), i)
               PROVE  i \in Holding(ip)
    OBVIOUS
  <2>1. i \in 1..Len(table) /\ ~Less(Point(ip), table[i])
    BY <1>2 DEF Hit
  <2>2. ~(table[i].to < ip) /\ ~(ip < table[i].from)
    BY <1>1, <1>2, <2>1, PointComparisons
  <2>3. table[i].from <= ip /\ ip <= table[i].to
    BY <1>1, <2>1, <2>2, PointComparisons
  <2> QED
    BY <1>1, <2>1, <2>3, PointComparisons DEF Holding
<1>4. ASSUME NEW j \in Holding(ip) PROVE Hit(table, Point(ip), i)
  <2>1. j \in 1..Len(table) /\ table[j].from <= ip /\ ip <= table[j].to
    BY <1>1, PointComparisons DEF Holding
  <2>2. i <= j
    <3> SUFFICES ASSUME j < i PROVE FALSE
      BY <1>1, <2>1
    <3>1. i - 1 \in 1..Len(table) /\ Less(table[i - 1], Point(ip))
      BY <1>1, <2>1 DEF FindGaps
    <3>2. table[i - 1].to < ip
      BY <1>1, <3>1, PointComparisons
    <3>3. table[j].to <= table[i - 1].to
      <4>1. CASE j = i - 1
        BY <1>1, <2>1, <4>1, PointComparisons
      <4>2. CASE j < i - 1
        BY <1>1, <2>1, <3>1, <4>2, PointComparisons DEF Ordered
      <4> QED
        BY <1>1, <2>1, <4>1, <4>2
    <3> QED
      BY <1>1, <2>1, <3>1, <3>2, <3>3, PointComparisons
  <2>3. i \in 1..Len(table)
    BY <1>1, <2>1, <2>2
  <2>4. table[i].from <= ip
    <3>1. CASE i = j
      BY <2>1, <3>1
    <3>2. CASE i < j
      <4>1. table[i].from < table[j].from
        BY <2>1, <2>3, <3>2 DEF Ordered
      <4> QED
        BY <1>1, <2>1, <2>3, <4>1, PointComparisons
    <3> QED
      BY <1>1, <2>1, <2>2, <3>1, <3>2
  <2>5. ~Less(Point(ip), table[i])
    BY <1>1, <2>3, <2>4, PointComparisons
  <2> QED
    BY <1>1, <2>3, <2>5 DEF Hit
<1> QED
  BY <1>3, <1>4

\* Whatever the file and whatever tree the map is: a client's address is found in
\* the table exactly if a range of the table holds it, and in such a range.
THEOREM LookupIsExact == Spec => []LookupExact
<1>1. TypeOK /\ Ordered => LookupExact
  <2> SUFFICES ASSUME TypeOK, Ordered, NEW ip \in Addr
               PROVE  IF Holding(ip) = {} THEN getValue(ip) = {None}
                      ELSE /\ getValue(ip) # {}
                           /\ getValue(ip) \subseteq {table[j].value : j \in Holding(ip)}
    BY DEF LookupExact
  <2>1. FindGaps(table, Point(ip)) # {}
    BY SearchEnds
  <2>2. CASE Holding(ip) = {}
    <3>1. \A i \in FindGaps(table, Point(ip)) : ~Hit(table, Point(ip), i)
      BY <2>2, GapIsRight
    <3> QED
      BY <2>1, <2>2, <3>1 DEF getValue
  <2>3. CASE Holding(ip) # {}
    <3>1. \A i \in FindGaps(table, Point(ip)) :
              Hit(table, Point(ip), i) /\ i \in Holding(ip)
      BY <2>3, GapIsRight
    <3> QED
      BY <2>1, <2>3, <3>1 DEF getValue
  <2> QED
    BY <2>2, <2>3
<1> QED
  BY <1>1, TypeCorrect, TableOrdered, PTL

\* Of all ranges of the file that were offered to the map, each is in it or was
\* left out because of one it contains or that contains it.
THEOREM NothingElseLost == Spec => []LostOnlyToNested
<1>1. Init => LostOnlyToNested
  BY DEF Init, LostOnlyToNested
<1>2. TypeOK /\ LostOnlyToNested /\ [Next]_vars => LostOnlyToNested'
  <2> SUFFICES ASSUME TypeOK, LostOnlyToNested, [Next]_vars
               PROVE  LostOnlyToNested'
    OBVIOUS
  <2>1. ASSUME NEW l \in Line, InsertLine(l) PROVE LostOnlyToNested'
    <3>1. l \in IpRange /\ given' = given \cup {l}
      BY <2>1, InsertionOutcomes DEF InsertLine
    <3>2. PICK i \in InsertGaps(table, l) :
              \/ table' = InsertBefore(table, i, l)
              \/ i > 1 /\ ~Less(table[i - 1], l) /\ table' = table
      BY <2>1, InsertionOutcomes
    <3>3. /\ Len(table) \in Nat
          /\ \A j \in 1..Len(table) : table[j] \in IpRange
          /\ i \in 1..(Len(table) + 1)
      BY LenProperties, ElementOfSeq DEF TypeOK, InsertGaps
    <3>4. CASE table' = InsertBefore(table, i, l)
      <4> DEFINE r == InsertBefore(table, i, l)
      <4>1. table \in Seq(IpRange)
        BY DEF TypeOK
      <4>2. /\ Len(r) = Len(table) + 1
            /\ r[i] = l
            /\ \A j \in 1..(i - 1) : r[j] = table[j]
            /\ \A j \in i..Len(table) : r[j + 1] = table[j]
        BY <3>1, <3>3, <4>1, Insertion
      <4>3. table' = r
        BY <3>4
      <4> HIDE DEF r
      <4>4. ASSUME NEW m \in given
            PROVE  \E k \in 1..Len(r) : Equal(m, r[k])
        <5>1. PICK j \in 1..Len(table) : Equal(m, table[j])
          BY DEF LostOnlyToNested
        <5>2. CASE j < i
          <6>1. j \in 1..Len(r) /\ r[j] = table[j]
            BY <3>3, <4>2, <5>2
          <6> QED
            BY <5>1, <6>1
        <5>3. CASE j >= i
          <6>1. j + 1 \in 1..Len(r) /\ r[j + 1] = table[j]
            BY <3>3, <4>2, <5>3
          <6> QED
            BY <5>1, <6>1
        <5> QED
          BY <3>3, <5>2, <5>3
      <4>5. \E k \in 1..Len(r) : Equal(l, r[k])
        <5>1. i \in 1..Len(r) /\ Equal(l, r[i])
          BY <3>1, <3>3, <4>2, IpTableAssumption DEF Equal, Within, IpRange, Line, Addr
        <5> QED
          BY <5>1
      <4> QED
        BY <3>1, <4>3, <4>4, <4>5 DEF LostOnlyToNested
    <3>5. CASE i > 1 /\ ~Less(table[i - 1], l) /\ table' = table
      <4>1. i - 1 \in 1..Len(table)
        BY <3>3, <3>5
      <4>2. ~Less(l, table[i - 1])
        BY <3>5 DEF InsertGaps
      <4>3. Equal(l, table[i - 1])
        BY <3>1, <3>3, <3>5, <4>1, <4>2, IpTableAssumption
           DEF Less, Equal, Within, IpRange, Line, Addr
      <4> QED
        BY <3>1, <3>5, <4>1, <4>3 DEF LostOnlyToNested
    <3> QED
      BY <3>2, <3>4, <3>5
  <2>2. CASE UNCHANGED <<table, given>>
    BY <2>2 DEF LostOnlyToNested
  <2> QED
    BY <2>1, <2>2, OtherSteps
<1> QED
  BY <1>1, <1>2, TypeCorrect, PTL DEF Spec

\* The map holds nothing that was not offered to it.
OnlyGiven == \A j \in 1..Len(table) : table[j] \in given

\* The map holds nothing but what the file gives.
LEMMA TableFromFile == Spec => []OnlyGiven
<1>1. Init => OnlyGiven
  <2> SUFFICES ASSUME Init PROVE OnlyGiven
    OBVIOUS
  <2>1. Len(table) = 0
    BY EmptySeq DEF Init
  <2> QED
    BY <2>1 DEF OnlyGiven
<1>2. TypeOK /\ OnlyGiven /\ [Next]_vars => OnlyGiven'
  <2> SUFFICES ASSUME TypeOK, OnlyGiven, [Next]_vars PROVE OnlyGiven'
    OBVIOUS
  <2>1. ASSUME NEW l \in Line, InsertLine(l) PROVE OnlyGiven'
    <3>1. l \in IpRange /\ given' = given \cup {l}
      BY <2>1, InsertionOutcomes DEF InsertLine
    <3>2. PICK i \in InsertGaps(table, l) :
              table' = InsertBefore(table, i, l) \/ table' = table
      BY <2>1, InsertionOutcomes
    <3>3. CASE table' = table
      BY <3>1, <3>3 DEF OnlyGiven
    <3>4. CASE table' = InsertBefore(table, i, l)
      <4> DEFINE r == InsertBefore(table, i, l)
      <4>1. /\ Len(table) \in Nat
            /\ i \in 1..(Len(table) + 1) /\ table \in Seq(IpRange)
        BY LenProperties DEF TypeOK, InsertGaps
      <4>2. /\ Len(r) = Len(table) + 1
            /\ r[i] = l
            /\ \A j \in 1..(i - 1) : r[j] = table[j]
            /\ \A j \in i..Len(table) : r[j + 1] = table[j]
        BY <3>1, <4>1, Insertion
      <4>3. table' = r
        BY <3>4
      <4> HIDE DEF r
      <4>4. ASSUME NEW k \in 1..Len(r) PROVE r[k] \in given \cup {l}
        <5>1. CASE k = i
          BY <4>2, <5>1
        <5>2. CASE k < i
          <6>1. k \in 1..(i - 1) /\ k \in 1..Len(table)
            BY <4>1, <4>2, <5>2
          <6> QED
            BY <4>2, <6>1 DEF OnlyGiven
        <5>3. CASE k > i
          <6>1. k - 1 \in i..Len(table) /\ k - 1 \in 1..Len(table) /\ (k - 1) + 1 = k
            BY <4>1, <4>2, <5>3
          <6> QED
            BY <4>2, <6>1 DEF OnlyGiven
        <5> QED
          BY <4>1, <4>2, <5>1, <5>2, <5>3
      <4> QED
        BY <3>1, <4>3, <4>4 DEF OnlyGiven
    <3> QED
      BY <3>2, <3>3, <3>4
  <2>2. CASE UNCHANGED <<table, given>>
    BY <2>2 DEF OnlyGiven
  <2> QED
    BY <2>1, <2>2, OtherSteps
<1> QED
  BY <1>1, <1>2, TypeCorrect, PTL DEF Spec

\* With a file of disjoint ranges every address gets the value of its own line, and
\* one on no line the default, whatever the order of the lines and whatever tree
\* the map is.
THEOREM EveryAddressClassified == Spec => []Classified
<1>1. TypeOK /\ OnlyGiven /\ LostOnlyToNested /\ LookupExact => Classified
  <2> DEFINE Holds(l, ip) == Within(Point(ip), l)
  <2> SUFFICES ASSUME TypeOK, OnlyGiven, LostOnlyToNested, LookupExact, Disjoint,
                      NEW ip \in Addr
               PROVE  getIpTableValue(ip) =
                          IF \E l \in given : Holds(l, ip)
                          THEN {(CHOOSE l \in given : Holds(l, ip)).value}
                          ELSE {Default}
    BY DEF Classified
  <2>1. given \subseteq IpRange
    BY DEF TypeOK
  <2>2. ASSUME NEW l \in given, NEW m \in given, Equal(l, m) PROVE l = m
    <3>1. /\ l.from \in Nat /\ l.to \in Nat /\ l.from <= l.to
          /\ m.from \in Nat /\ m.to \in Nat /\ m.from <= m.to
      BY <2>1, IpTableAssumption DEF IpRange, Line, Addr
    <3>2. ~(l.to < m.from) /\ ~(m.to < l.from)
      BY <2>2, <3>1 DEF Equal, Within
    <3> QED
      BY <3>2 DEF Disjoint
  <2>3. ASSUME NEW l \in given, NEW m \in given, Holds(l, ip), Holds(m, ip) PROVE l = m
    <3>1. /\ l.from <= ip /\ ip <= l.to /\ m.from <= ip /\ ip <= m.to
          /\ l.from \in Nat /\ l.to \in Nat /\ m.from \in Nat /\ m.to \in Nat /\ ip \in Nat
      BY <2>1, <2>3, PointComparisons
    <3>2. ~(l.to < m.from) /\ ~(m.to < l.from)
      BY <3>1
    <3> QED
      BY <3>2 DEF Disjoint
  <2>4. \A l \in given : \E j \in 1..Len(table) : table[j] = l
    BY <2>2 DEF LostOnlyToNested, OnlyGiven
  <2>5. CASE \E l \in given : Holds(l, ip)
    <3> DEFINE l0 == CHOOSE l \in given : Holds(l, ip)
    <3>1. l0 \in given /\ Holds(l0, ip)
      BY <2>5
    <3> HIDE DEF l0
    <3>2. PICK j0 \in 1..Len(table) : table[j0] = l0
      BY <2>4, <3>1
    <3>3. j0 \in Holding(ip)
      BY <3>1, <3>2 DEF Holding
    <3>4. \A j \in Holding(ip) : table[j] = l0
      BY <2>3, <3>1 DEF Holding, OnlyGiven
    <3>5. getValue(ip) = {l0.value}
      <4>1. getValue(ip) # {} /\ getValue(ip) \subseteq {table[j].value : j \in Holding(ip)}
        BY <3>3 DEF LookupExact
      <4> QED
        BY <3>4, <4>1
    <3>6. l0.value # None
      BY <2>1, <3>1 DEF IpRange
    <3>7. getIpTableValue(ip) = {l0.value}
      BY <3>5, <3>6 DEF getIpTableValue
    <3> QED
      BY <2>5, <3>7 DEF l0
  <2>6. CASE ~\E l \in given : Holds(l, ip)
    <3>1. Holding(ip) = {}
      BY <2>6 DEF Holding, OnlyGiven
    <3>2. getValue(ip) = {None}
      BY <3>1 DEF LookupExact
    <3>3. getIpTableValue(ip) = {Default}
      BY <3>2 DEF getIpTableValue
    <3> QED
      BY <2>6, <3>3
  <2> QED
    BY <2>5, <2>6
<1> QED
  BY <1>1, TypeCorrect, TableFromFile, NothingElseLost, LookupIsExact, PTL
================================================================================
