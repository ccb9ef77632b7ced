-------------------------------- MODULE IpTable --------------------------------
(***************************************************************************)
(* route/: the table of address ranges a client's provider and area are    *)
(* looked up in.  The table is a std::map whose keys are intervals, and    *)
(* whose order calls two intervals equal when one contains the other.      *)
(* That is no equivalence: [1,2] = [1,9] = [8,9].  A std::map is only      *)
(* promised to work with an order for which it is one, so the map is       *)
(* modelled by what its search does: it descends a tree and compares, and  *)
(* ends in a gap between two neighbours it has both compared.  Which tree  *)
(* the library built is left open; every gap that fits is an outcome.      *)
(*                                                                         *)
(* Addresses are numbers in host byte order: the loader and the lookup     *)
(* both convert with ntohl.                                                *)
(***************************************************************************)
EXTENDS Integers, Sequences

CONSTANTS
    Top,        \* 0xffffffff, which inet_addr also answers for no address
    Value,      \* an isp and an area, both with names the table knows
    None,       \* AUTO_DETECT and AREA_UNKNOWN; a line with unknown names
    Default,    \* m_defaultIsp and m_defaultArea
    MaxLines    \* bound on the lines of the file

ASSUME IpTableAssumption ==
    /\ Top \in Nat
    /\ MaxLines \in Nat
    /\ None \notin Value

VARIABLES
    table,      \* m_table, in the order of the map
    lineNum,    \* lines of the file gone through
    given,      \* the ranges among them that were offered to the map
    state       \* of the loader

vars == <<table, lineNum, given, state>>

Addr == 0..Top
Line == [from : Addr, to : Addr, value : Value \cup {None}]
IpRange == {l \in Line : l.from <= l.to /\ l.to # Top /\ l.value # None}

Init ==
    /\ table = <<>>
    /\ lineNum = 0
    /\ given = {}
    /\ state = "load"

--------------------------------------------------------------------------------
(* IP_TABLE_KEY.                                                           *)

Within(a, b) == b.from <= a.from /\ a.to <= b.to

\* MUTANT: only one direction of the containment is tested.
EqualOneWay(a, b) == Within(a, b)

\* operator==
Equal(a, b) == Within(b, a) \/ Within(a, b)

\* MUTANT: ranges count as ordered only when they do not overlap.
LessApart(a, b) == ~Equal(a, b) /\ a.to < b.from

\* operator<
Less(a, b) == ~Equal(a, b) /\ a.from < b.from

\* operator>
Greater(a, b) == ~Equal(a, b) /\ a.to > b.to

\* The key of a single address.
Point(ip) == [from |-> ip, to |-> ip]

--------------------------------------------------------------------------------
(* std::map, as libstdc++ searches it.                                     *)

\* insert goes left where k < node and right otherwise.  It may end before the
\* i-th entry when it went right at the one before and left at this one.
InsertGaps(s, k) ==
    {i \in 1..(Len(s) + 1) :
        /\ i > 1 => ~Less(k, s[i - 1])
        /\ i <= Len(s) => Less(k, s[i])}

\* find goes right where node < k and left otherwise.
FindGaps(s, k) ==
    {i \in 1..(Len(s) + 1) :
        /\ i > 1 => Less(s[i - 1], k)
        /\ i <= Len(s) => ~Less(s[i], k)}

InsertBefore(s, i, e) ==
    [j \in 1..(Len(s) + 1) |-> IF j < i THEN s[j] ELSE IF j = i THEN e ELSE s[j - 1]]

\* MUTANT: the entry goes in although an equal one is there.
InsertedAlways(s, e) == {InsertBefore(s, i, e) : i \in InsertGaps(s, e)}

\* An entry that is not greater than the one before the gap counts as present.
Inserted(s, e) ==
    {IF i = 1 \/ Less(s[i - 1], e) THEN InsertBefore(s, i, e) ELSE s :
        i \in InsertGaps(s, e)}

\* MUTANT: find takes the next entry without comparing it.
HitAny(s, k, i) == i <= Len(s)

Hit(s, k, i) == i <= Len(s) /\ ~Less(k, s[i])

\* IP_TABLE::getValue
getValue(ip) ==
    {IF Hit(table, Point(ip), i) THEN table[i].value ELSE None :
        i \in FindGaps(table, Point(ip))}

\* IpTable::getIpTableValue, called by Route::processIP for every connection.
getIpTableValue(ip) == {IF v = None THEN Default ELSE v : v \in getValue(ip)}

--------------------------------------------------------------------------------
(* IpTable::loadIspIpDataFile.                                             *)

\* No such file: Route::init fails and main returns.
NoFile ==
    /\ state = "load" /\ lineNum = 0
    /\ state' = "failed"
    /\ UNCHANGED <<table, lineNum, given>>

NextLine ==
    /\ state = "load"
    /\ lineNum < MaxLines
    /\ lineNum' = lineNum + 1

\* MUTANT: lines with unknown names are taken.
SkippedByAddress(l) == Top \in {l.from, l.to}

\* Too few fields, unknown names, or no addresses.
Skipped(l) == l.value = None \/ Top \in {l.from, l.to}

SkipLine(l) ==
    /\ NextLine
    /\ Skipped(l)
    /\ UNCHANGED <<table, given, state>>

InsertLine(l) ==
    /\ NextLine
    /\ ~Skipped(l)
    /\ l.from <= l.to
    /\ table' \in Inserted(table, l)
    /\ given' = given \cup {l}
    /\ UNCHANGED state

\* The constructor of IP_TABLE_KEY asserts that the range is not empty.
AssertFails(l) ==
    /\ NextLine
    /\ ~Skipped(l)
    /\ l.from > l.to
    /\ state' = "aborted"
    /\ UNCHANGED <<table, given>>

EndOfFile ==
    /\ state = "load"
    /\ state' = "ready"
    /\ UNCHANGED <<table, lineNum, given>>

Next ==
    \/ NoFile
    \/ \E l \in Line : SkipLine(l) \/ InsertLine(l) \/ AssertFails(l)
    \/ EndOfFile

Spec == Init /\ [][Next]_vars

--------------------------------------------------------------------------------
(* Properties.                                                             *)

TypeOK ==
    /\ table \in Seq(IpRange)
    /\ lineNum \in Nat
    /\ given \subseteq IpRange
    /\ state \in {"load", "ready", "failed", "aborted"}

\* The map stays sorted by both ends, whatever ranges, nested or overlapping,
\* the file holds and in whatever order: the condition under which operator<
\* is an order on what the map contains.
Ordered ==
    \A i, j \in 1..Len(table) :
        i < j => table[i].from < table[j].from /\ table[i].to < table[j].to

Holding(ip) == {j \in 1..Len(table) : Within(Point(ip), table[j])}

\* A lookup ends at a range that contains the address if the map has one, and at
\* none otherwise, whichever tree the map is: the comparison's not being
\* transitive never leads a search past the range.
LookupExact ==
    \A ip \in Addr :
        IF Holding(ip) = {} THEN getValue(ip) = {None}
        ELSE /\ getValue(ip) # {}
             /\ getValue(ip) \subseteq {table[j].value : j \in Holding(ip)}

\* The loader loses a range only to one that contains it or that it contains;
\* of ranges that merely overlap it keeps both.
LostOnlyToNested ==
    \A l \in given : \E j \in 1..Len(table) : Equal(l, table[j])

Disjoint == \A l, m \in given : l # m => l.to < m.from \/ m.to < l.from

\* With a file of disjoint ranges, as the iptable in the repository is, every
\* address gets the provider and area of its line, and every other the default.
Classified ==
    Disjoint =>
        \A ip \in Addr :
            getIpTableValue(ip) =
                IF \E l \in given : Within(Point(ip), l)
                THEN {(CHOOSE l \in given : Within(Point(ip), l)).value}
                ELSE {Default}
================================================================================
