------------------------------ MODULE WebProofs ------------------------------
(***************************************************************************)
(* Proofs about the parts of the pages: the table, for any records and any *)
(* number of rows; the digests, for any strings, and the address checks,   *)
(* for any octets the format admits; the session, for any number of        *)
(* overlapping requests and log-ins; the cloud actions, for any number of  *)
(* kinds.                                                                  *)
(***************************************************************************)
EXTENDS WebPages, ToolProofs

-----------------------------------------------------------------------------
(* The table *)

Added == {"add", "declined"}

TableRows == [kind : {"data", "lazy"} \cup InHandKinds, shows : Records \cup {NoRecord},
              checked : BOOLEAN]

\* The rows rs, of which the first is new or not, stand for records of d.
Shows(rs, d) ==
  \A p \in 1..Len(rs) :
    /\ rs[p].kind \notin Added => Len(rs) - p + 1 \in 1..Len(d)
    /\ rs[p].kind \in {"data", "edit"} => rs[p].shows = d[Len(rs) - p + 1]
    /\ rs[p].checked => rs[p].kind \in {"data", "edit", "declined"}

\* No row is being added or edited.
Plain(rs) == \A p \in 1..Len(rs) : rs[p].kind \in {"data", "lazy"}

\* Only row p is, and it is of one of the kinds.
Editing(rs, p, kinds) ==
  p \in 1..Len(rs) /\ rs[p].kind \in kinds /\ \A q \in 1..Len(rs) \ {p} : rs[q].kind \in {"data", "lazy"}

GridInv ==
  /\ data \in Seq(Records)
  /\ rows \in Seq(TableRows) /\ Len(rows) <= MaxRows
  /\ state \in {"default", "add", "edit"}
  /\ state = "default" => Plain(rows)
  /\ state = "add" => Editing(rows, 1, Added)
  /\ state = "edit" => Plain(rows) \/ \E p \in 1..Len(rows) : Editing(rows, p, {"edit"})
  /\ pages \in Nat /\ page \in 0..(IF pages = 0 THEN 1 ELSE pages) /\ view \subseteq 1..Len(rows)
  /\ Shows(rows, data)

\* A record has its two fields.
LEMMA RecordFields ==
  /\ \A r \in Records : DOMAIN r = {"name", "ip"} /\ r.name \in Texts /\ r.ip \in Texts
  /\ \A n, a \in Texts : [name |-> n, ip |-> a] \in Records
<1>1. \A r \in Records : r = [name |-> r.name, ip |-> r.ip] /\ r.name \in Texts /\ r.ip \in Texts
  BY DEF Records
<1> QED BY <1>1 DEF Records

\* What getListLen returns.
LEMMA ListLenIs ==
  ASSUME NEW d \in Seq(Records), NEW n \in 0..Len(d),
         \A i \in 1..n : d[i].name # Blank, n < Len(d) => d[n + 1].name = Blank
  PROVE  getListLen(d) = n
<1> DEFINE IsLen(m) == /\ \A i \in 1..m : "name" \in DOMAIN d[i] /\ d[i].name # Blank
                       /\ m < Len(d) => "name" \notin DOMAIN d[m + 1] \/ d[m + 1].name = Blank
<1>1. \A i \in 1..Len(d) : "name" \in DOMAIN d[i]
  BY RecordFields
<1>2. IsLen(n)
  BY <1>1
<1>3. ASSUME NEW m \in 0..Len(d), IsLen(m) PROVE m = n
  <2>1. ASSUME m < n PROVE FALSE
    <3>1. m + 1 \in 1..n /\ m + 1 \in 1..Len(d) /\ m < Len(d)
      BY <2>1
    <3> QED BY <1>1, <1>3, <3>1
  <2>2. ASSUME n < m PROVE FALSE
    <3>1. n + 1 \in 1..m /\ n < Len(d)
      BY <2>2
    <3> QED BY <1>3, <3>1
  <2> QED BY <2>1, <2>2
<1>4. getListLen(d) = CHOOSE m \in 0..Len(d) : IsLen(m)
  BY DEF getListLen
<1> HIDE DEF IsLen
<1> QED BY <1>2, <1>3, <1>4

LEMMA ListLenExists ==
  ASSUME NEW d \in Seq(Records)
  PROVE  /\ getListLen(d) \in 0..Len(d)
         /\ \A i \in 1..getListLen(d) : d[i].name # Blank
         /\ getListLen(d) < Len(d) => d[getListLen(d) + 1].name = Blank
<1> DEFINE Ends == {m \in 0..Len(d) : m < Len(d) => d[m + 1].name = Blank}
<1>1. Ends \in SUBSET Nat /\ Len(d) \in Ends
  OBVIOUS
<1>2. PICK n \in Ends : \A m \in Ends : n <= m
  BY <1>1, LeastNatural
<1>3. n \in 0..Len(d) /\ (n < Len(d) => d[n + 1].name = Blank)
  OBVIOUS
<1>4. ASSUME NEW i \in 1..n PROVE d[i].name # Blank
  <2>1. i - 1 \notin Ends
    BY <1>2
  <2> QED BY <1>3, <2>1
<1>5. getListLen(d) = n
  BY <1>3, <1>4, ListLenIs
<1> QED BY <1>3, <1>4, <1>5

\* What changeTable returns: lazy rows of the page are filled, the others stay.
LEMMA ChangeTable ==
  ASSUME NEW rs \in Seq(TableRows), NEW d \in Seq(Records), NEW k, Shows(rs, d)
  PROVE  LET rt == changeTable(rs, k, d) IN
         /\ rt \in Seq(TableRows) /\ Len(rt) = Len(rs) /\ Shows(rt, d)
         /\ \A p \in 1..Len(rs) : \/ rt[p] = rs[p]
                                  \/ rs[p].kind = "lazy" /\ rt[p].kind = "data"
<1> DEFINE rt == changeTable(rs, k, d)
           n == Len(rs)
<1>1. n \in Nat /\ rt = [p \in 1..n |-> IF OnPage(p, k) /\ rs[p].kind = "lazy"
                                        THEN Row("data", d[n - p + 1]) ELSE rs[p]]
  BY DEF changeTable, getTrIndexInDataObj
<1>2. ASSUME NEW p \in 1..n
      PROVE  /\ rt[p] \in TableRows
             /\ \/ rt[p] = rs[p]
                \/ /\ rs[p].kind = "lazy" /\ rt[p].kind = "data" /\ ~rt[p].checked
                   /\ rt[p].shows = d[n - p + 1]
  <2>1. rs[p] \in TableRows
    OBVIOUS
  <2>2. CASE OnPage(p, k) /\ rs[p].kind = "lazy"
    <3>1. n - p + 1 \in 1..Len(d)
      BY <2>2 DEF Shows, Added
    <3>2. d[n - p + 1] \in Records
      BY <3>1
    <3>3. rt[p] = Row("data", d[n - p + 1])
      BY <1>1, <2>2
    <3> QED BY <2>2, <3>2, <3>3 DEF Row, TableRows
  <2>3. CASE ~(OnPage(p, k) /\ rs[p].kind = "lazy")
    BY <1>1, <2>1, <2>3
  <2> QED BY <2>2, <2>3
<1>3. DOMAIN rt = 1..n
  BY <1>1
<1>4. rt \in Seq(TableRows) /\ Len(rt) = n
  <2>1. rt \in [1..n -> TableRows]
    BY <1>1, <1>2
  <2> HIDE DEF rt
  <2> QED BY <1>1, <2>1
<1>5. Shows(rt, d)
  BY <1>2, <1>4 DEF Shows, Added
<1> QED BY <1>2, <1>4, <1>5

\* What contentCreate returns: a row for every listed record up to MaxRows.
LEMMA ContentCreate ==
  ASSUME NEW d \in Seq(Records), NEW k
  PROVE  LET rt == contentCreate(d, k)
             n  == IF getListLen(d) > MaxRows THEN MaxRows ELSE getListLen(d)
         IN  /\ rt \in Seq(TableRows) /\ Len(rt) = n /\ Shows(rt, d) /\ Plain(rt)
             /\ \A p \in 1..n : k = 0 => rt[p].kind = "data"
<1> DEFINE rt == contentCreate(d, k)
           n  == IF getListLen(d) > MaxRows THEN MaxRows ELSE getListLen(d)
<1>1. n \in 0..Len(d)
  BY ListLenExists, GridAssumption
<1>2. rt = [p \in 1..n |-> IF k = 0 \/ OnPage(p, k) THEN Row("data", d[n - p + 1])
                                                    ELSE Row("lazy", NoRecord)]
  BY DEF contentCreate
<1> HIDE DEF n
<1>3. ASSUME NEW p \in 1..n
      PROVE  /\ rt[p] \in TableRows /\ ~rt[p].checked /\ rt[p].kind \in {"data", "lazy"}
             /\ n - p + 1 \in 1..Len(d)
             /\ rt[p].kind = "data" => rt[p].shows = d[n - p + 1]
             /\ k = 0 => rt[p].kind = "data"
  <2>1. n - p + 1 \in 1..Len(d)
    BY <1>1
  <2>2. d[n - p + 1] \in Records
    BY <2>1
  <2>3. rt[p] = IF k = 0 \/ OnPage(p, k) THEN Row("data", d[n - p + 1]) ELSE Row("lazy", NoRecord)
    BY <1>2
  <2> QED BY <2>1, <2>2, <2>3 DEF Row, TableRows
<1>4. rt \in Seq(TableRows) /\ Len(rt) = n
  <2>1. rt \in [1..n -> TableRows]
    BY <1>2, <1>3
  <2> HIDE DEF rt
  <2> QED BY <1>1, <2>1
<1> HIDE DEF rt
<1>5. Shows(rt, d) /\ Plain(rt)
  BY <1>3, <1>4 DEF Shows, Plain
<1> QED BY <1>3, <1>4, <1>5 DEF rt, n

\* The numbers of S up to n.
UpTo(S, n) == {m \in S : m <= n}

\* Of a finite set of numbers every rank has one number, the one Nth returns.
LEMMA NthIs ==
  ASSUME NEW S \in SUBSET Int, IsFiniteSet(S)
  PROVE  /\ Cardinality(S) \in Nat
         /\ \A i \in 1..Cardinality(S) : Nth(S, i) \in S /\ Cardinality(UpTo(S, Nth(S, i))) = i
         /\ \A n \in S : Cardinality(UpTo(S, n)) \in 1..Cardinality(S)
         /\ \A n \in S : Nth(S, Cardinality(UpTo(S, n))) = n
<1> DEFINE c == Cardinality(S)
           rank(n) == Cardinality(UpTo(S, n))
           f == [n \in S |-> rank(n)]
<1>1. c \in Nat
  BY FS_CardinalityType
<1>2. ASSUME NEW n \in S
      PROVE  rank(n) \in 1..c
  <2>1. UpTo(S, n) \in SUBSET S /\ n \in UpTo(S, n)
    BY DEF UpTo
  <2>2. IsFiniteSet(UpTo(S, n)) /\ rank(n) <= c
    BY <2>1, FS_Subset
  <2>3. rank(n) \in Nat /\ rank(n) # 0
    BY <2>1, <2>2, FS_CardinalityType, FS_EmptySet
  <2> QED BY <1>1, <2>2, <2>3
<1>3. ASSUME NEW n \in S, NEW m \in S, n < m
      PROVE  rank(n) # rank(m)
  <2>1. UpTo(S, n) \in SUBSET UpTo(S, m) /\ UpTo(S, m) \in SUBSET S
    <3>1. \A x \in S : x <= n => x <= m
      BY <1>3
    <3> QED BY <3>1 DEF UpTo
  <2>2. m \in UpTo(S, m) /\ m \notin UpTo(S, n)
    BY <1>3 DEF UpTo
  <2>3. IsFiniteSet(UpTo(S, m))
    BY <2>1, FS_Subset
  <2> QED BY <2>1, <2>2, <2>3, FS_Subset
<1>4. \A n, m \in S : rank(n) = rank(m) => n = m
  <2>1. \A n, m \in S : n = m \/ n < m \/ m < n
    OBVIOUS
  <2> HIDE DEF rank
  <2> QED BY <1>3, <2>1
<1>5. f \in Injection(S, 1..c)
  <2>1. f \in [S -> 1..c]
    BY <1>2
  <2>2. \A n, m \in S : f[n] = f[m] => n = m
    BY <1>4
  <2> HIDE DEF f, rank
  <2> QED BY <2>1, <2>2 DEF Injection, IsInjective
<1>6. IsFiniteSet(1..c) /\ Cardinality(1..c) = c
  BY <1>1, FS_Interval
<1>7. f \in Surjection(S, 1..c)
  BY <1>5, <1>6, FS_Injection
<1>8. \A i \in 1..c : \E n \in S : rank(n) = i
  <2>1. \A i \in 1..c : \E n \in S : f[n] = i
    <3> HIDE DEF f
    <3> QED BY <1>7 DEF Surjection
  <2> QED BY <2>1
<1>9. \A i : Nth(S, i) = CHOOSE n \in S : rank(n) = i
  BY DEF Nth, UpTo
<1> HIDE DEF rank
<1>10. \A i \in 1..c : Nth(S, i) \in S /\ rank(Nth(S, i)) = i
  BY <1>8, <1>9
<1>11. ASSUME NEW n \in S
       PROVE  Nth(S, rank(n)) = n
  <2>1. Nth(S, rank(n)) \in S /\ rank(Nth(S, rank(n))) = rank(n)
    BY <1>2, <1>10
  <2> QED BY <1>4, <2>1
<1> QED BY <1>1, <1>2, <1>10, <1>11 DEF rank

\* A range of numbers counted from its other end is as large.
LEMMA Turned ==
  ASSUME NEW S \in SUBSET Int, IsFiniteSet(S), NEW n \in Int
  PROVE  LET T == {n - p + 1 : p \in S} IN IsFiniteSet(T) /\ Cardinality(T) = Cardinality(S)
<1> DEFINE T == {n - p + 1 : p \in S}
           f == [p \in S |-> n - p + 1]
<1>1. f \in [S -> T] /\ \A p \in S : f[p] = n - p + 1
  OBVIOUS
<1>2. \A p, q \in S : f[p] = f[q] => p = q
  BY <1>1
<1>3. \A t \in T : \E p \in S : f[p] = t
  BY <1>1
<1> HIDE DEF f, T
<1>4. f \in Bijection(S, T)
  BY <1>1, <1>2, <1>3 DEF Bijection, Injection, Surjection, IsInjective
<1>5. ExistsBijection(S, T)
  BY <1>4 DEF ExistsBijection
<1> QED BY <1>5, FS_Bijection DEF T

\* The number of pages, and the rows on one.
LEMMA PageList ==
  ASSUME NEW n \in Nat
  PROVE  PageOf(n) \in Nat /\ \A k : OnPages(k, n) \subseteq 1..n
<1>1. n + PageSize - 1 \in Nat /\ PageSize \in Nat \ {0}
  BY GridAssumption
<1>2. \A a \in Nat, b \in Nat \ {0} : a \div b \in Nat
  OBVIOUS
<1> QED BY <1>1, <1>2 DEF PageOf, OnPages

LEMMA InitGridInv == InitGrid => GridInv
<1> SUFFICES ASSUME InitGrid PROVE GridInv
  OBVIOUS
<1>1. FirstData \in Seq(Records) /\ MaxRows \in Nat
  BY GridAssumption
<1>2. /\ rows \in Seq(TableRows) /\ Len(rows) <= MaxRows
      /\ Plain(rows) /\ Shows(rows, data)
  BY <1>1, ContentCreate, ListLenExists DEF InitGrid
<1>3. pages \in Nat /\ page = 1 /\ view \subseteq 1..Len(rows)
  BY <1>2, PageList DEF InitGrid
<1> QED BY <1>1, <1>2, <1>3 DEF InitGrid, GridInv

LEMMA RefreshInv ==
  ASSUME NEW d \in Seq(Records), NEW k, refresh(d, k)
  PROVE  /\ GridInv'
         /\ Len(rows') = IF getListLen(d) > MaxRows THEN MaxRows ELSE getListLen(d)
         /\ data' = d /\ state' = "default"
         /\ k = 0 => \A p \in 1..Len(rows') : rows'[p].kind = "data"
<1> DEFINE c == contentCreate(d, k)
           n == IF getListLen(d) > MaxRows THEN MaxRows ELSE getListLen(d)
<1>1. /\ c \in Seq(TableRows) /\ Len(c) = n /\ Shows(c, d) /\ Plain(c)
      /\ \A p \in 1..n : k = 0 => c[p].kind = "data"
  BY ContentCreate
<1>2. n \in Nat /\ n <= MaxRows
  BY ListLenExists, GridAssumption
<1>3. /\ data' = d /\ rows' = changeTable(c, 1, d) /\ state' = "default"
      /\ pages' = PageOf(n) /\ page' = 1 /\ view' = OnPages(1, n)
  BY <1>1 DEF refresh, pageList
<1> HIDE DEF c, n
<1>4. /\ rows' \in Seq(TableRows) /\ Len(rows') = n /\ Shows(rows', d)
      /\ \A p \in 1..n : \/ rows'[p] = c[p]
                         \/ c[p].kind = "lazy" /\ rows'[p].kind = "data"
  BY <1>1, <1>3, ChangeTable
<1>5. Plain(rows')
  BY <1>1, <1>4 DEF Plain
<1>6. pages' \in Nat /\ view' \subseteq 1..n
  BY <1>2, <1>3, PageList
<1> QED BY <1>1, <1>2, <1>3, <1>4, <1>5, <1>6 DEF GridInv, n

\* A new row above rows that show records.
LEMMA NewRow ==
  ASSUME GridInv, state = "default", NEW kind \in Added
  PROVE  LET c == <<Row(kind, NoRecord)>> \o rows IN
         /\ c \in Seq(TableRows) /\ Len(c) = Len(rows) + 1
         /\ Editing(c, 1, Added) /\ Shows(c, data)
<1> DEFINE c == <<Row(kind, NoRecord)>> \o rows
           n == Len(rows)
<1>1. data \in Seq(Records) /\ rows \in Seq(TableRows) /\ n \in Nat /\ Plain(rows) /\ Shows(rows, data)
  BY DEF GridInv
<1>2. /\ Row(kind, NoRecord) \in TableRows /\ Row(kind, NoRecord).kind = kind
      /\ ~Row(kind, NoRecord).checked
  BY DEF Row, TableRows, InHandKinds, Added
<1>3. /\ c \in Seq(TableRows) /\ Len(c) = n + 1 /\ c[1] = Row(kind, NoRecord)
      /\ \A p \in 2..(n + 1) : c[p] = rows[p - 1]
  BY <1>1, <1>2
<1> HIDE DEF c
<1>4. Editing(c, 1, Added)
  <2>1. \A q \in 1..(n + 1) \ {1} : q \in 2..(n + 1) /\ q - 1 \in 1..n
    BY <1>1
  <2>2. \A q \in 1..(n + 1) \ {1} : c[q].kind \in {"data", "lazy"}
    BY <1>1, <1>3, <2>1 DEF Plain
  <2>3. 1 \in 1..(n + 1) /\ c[1].kind \in Added
    BY <1>1, <1>2, <1>3
  <2> QED BY <1>3, <2>2, <2>3 DEF Editing
<1>5. Shows(c, data)
  <2> SUFFICES ASSUME NEW p \in 1..(n + 1)
               PROVE  /\ c[p].kind \notin Added => n + 1 - p + 1 \in 1..Len(data)
                      /\ c[p].kind \in {"data", "edit"} => c[p].shows = data[n + 1 - p + 1]
                      /\ c[p].checked => c[p].kind \in {"data", "edit", "declined"}
    BY <1>3 DEF Shows
  <2>1. CASE p = 1
    BY <1>2, <1>3, <2>1 DEF Added
  <2>2. CASE p # 1
    <3>1. p - 1 \in 1..n /\ c[p] = rows[p - 1] /\ n + 1 - p + 1 = n - (p - 1) + 1
      BY <1>1, <1>3, <2>2
    <3> QED BY <1>1, <3>1 DEF Shows, Plain
  <2> QED BY <2>1, <2>2
<1> QED BY <1>3, <1>4, <1>5 DEF c

LEMMA AddClickInv ==
  ASSUME GridInv, NEW accept \in BOOLEAN, AddClick(accept)
  PROVE  GridInv' /\ Len(rows') = Len(rows) + 1
<1> DEFINE n == Len(rows)
<1>1. /\ data \in Seq(Records) /\ n \in Nat /\ n + 1 <= MaxRows /\ state = "default"
      /\ data' = data /\ state' = "add" /\ view \subseteq 1..n
      /\ pages \in Nat /\ page \in 0..(IF pages = 0 THEN 1 ELSE pages)
  BY GridAssumption DEF GridInv, AddClick
<1>2. CASE accept
  <2> DEFINE c == <<Row("add", NoRecord)>> \o rows
  <2>1. c \in Seq(TableRows) /\ Len(c) = n + 1 /\ Editing(c, 1, Added) /\ Shows(c, data)
    BY <1>1, NewRow DEF Added
  <2>2. /\ rows' = changeTable(c, 1, data)
        /\ pages' = PageOf(n + 1) /\ page' = 1 /\ view' = OnPages(1, n + 1)
    BY <1>2 DEF AddClick, pageList
  <2> HIDE DEF c
  <2>3. /\ rows' \in Seq(TableRows) /\ Len(rows') = n + 1 /\ Shows(rows', data)
        /\ \A p \in 1..(n + 1) : \/ rows'[p] = c[p]
                                 \/ c[p].kind = "lazy" /\ rows'[p].kind = "data"
    BY <1>1, <2>1, <2>2, ChangeTable
  <2>4. Editing(rows', 1, Added)
    BY <2>1, <2>3 DEF Editing, Added
  <2>5. pages' \in Nat /\ view' \subseteq 1..(n + 1)
    BY <1>1, <2>2, PageList
  <2> QED BY <1>1, <2>2, <2>3, <2>4, <2>5 DEF GridInv
<1>3. CASE ~accept
  <2> DEFINE c == <<Row("declined", NoRecord)>> \o rows
  <2>1. c \in Seq(TableRows) /\ Len(c) = n + 1 /\ Editing(c, 1, Added) /\ Shows(c, data)
    BY <1>1, NewRow DEF Added
  <2>2. rows' = c /\ view' = {1} \cup {p + 1 : p \in view} /\ UNCHANGED <<page, pages>>
    BY <1>3 DEF AddClick
  <2> HIDE DEF c
  <2>3. view' \subseteq 1..(n + 1)
    <3>1. \A p \in view : p + 1 \in 1..(n + 1)
      BY <1>1
    <3> QED BY <1>1, <2>2, <3>1
  <2> QED BY <1>1, <2>1, <2>2, <2>3 DEF GridInv
<1> QED BY <1>2, <1>3

LEMMA EditClickInv == ASSUME GridInv, NEW p \in 1..Len(rows), EditClick(p) PROVE GridInv'
<1> DEFINE n == Len(rows)
           r == data[n - p + 1]
<1>1. /\ data \in Seq(Records) /\ rows \in Seq(TableRows) /\ n \in Nat
      /\ Plain(rows) /\ Shows(rows, data) /\ rows[p].kind = "data"
  BY DEF GridInv, EditClick
<1>2. n - p + 1 \in 1..Len(data)
  BY <1>1 DEF Shows, Added
<1>3. r \in Records
  BY <1>1, <1>2
<1>4. rows' = [rows EXCEPT ![p].kind = "edit", ![p].shows = r]
      /\ state' = "edit" /\ UNCHANGED <<data, page, pages, view>>
  BY DEF EditClick, getTrIndexInDataObj
<1>5. rows[p] \in TableRows
  BY <1>1
<1> HIDE DEF r
<1>6. /\ [rows[p] EXCEPT !.kind = "edit", !.shows = r] \in TableRows
      /\ rows' = [rows EXCEPT ![p] = [rows[p] EXCEPT !.kind = "edit", !.shows = r]]
  BY <1>1, <1>3, <1>4, <1>5 DEF TableRows, InHandKinds
<1>7. /\ rows' \in Seq(TableRows) /\ Len(rows') = n
      /\ rows'[p].kind = "edit" /\ rows'[p].shows = r
      /\ \A q \in 1..n : q # p => rows'[q] = rows[q]
  BY <1>1, <1>5, <1>6 DEF TableRows
<1>8. Editing(rows', p, {"edit"})
  BY <1>1, <1>7 DEF Editing, Plain
<1>9. Shows(rows', data)
  BY <1>1, <1>2, <1>7 DEF Shows, Added, r
<1> QED BY <1>4, <1>7, <1>8, <1>9 DEF GridInv

\* Boxes are checked in rows that show a record.
LEMMA BoxesInv ==
  ASSUME GridInv, UNCHANGED <<data, state, page, pages, view>>,
         rows' \in Seq(TableRows), Len(rows') = Len(rows),
         \A p \in 1..Len(rows) : /\ rows'[p].kind = rows[p].kind /\ rows'[p].shows = rows[p].shows
                                 /\ rows'[p].checked => rows[p].checked \/ p \in Boxes
  PROVE  GridInv'
<1>1. Shows(rows', data)
  BY DEF GridInv, Shows, Boxes
<1>2. /\ state = "default" => Plain(rows')
      /\ Plain(rows) => Plain(rows')
      /\ \A p \in 1..Len(rows) : \A kinds : Editing(rows, p, kinds) => Editing(rows', p, kinds)
  BY DEF GridInv, Plain, Editing
<1>3. state = "edit" => Plain(rows') \/ \E p \in 1..Len(rows') : Editing(rows', p, {"edit"})
  BY <1>2 DEF GridInv
<1>4. state = "add" => Editing(rows', 1, Added)
  BY <1>2 DEF GridInv, Editing
<1> QED BY <1>1, <1>2, <1>3, <1>4 DEF GridInv

LEMMA SelectClickInv == ASSUME GridInv, NEW p \in 1..Len(rows), SelectClick(p) PROVE GridInv'
<1>1. rows \in Seq(TableRows) /\ rows[p] \in TableRows
  BY DEF GridInv
<1>2. p \in Boxes /\ rows' = [rows EXCEPT ![p].checked = ~@]
      /\ UNCHANGED <<data, state, page, pages, view>>
  BY DEF SelectClick
<1>3. [rows[p] EXCEPT !.checked = ~@] \in TableRows
  BY <1>1 DEF TableRows
<1>4. /\ rows' \in Seq(TableRows) /\ Len(rows') = Len(rows)
      /\ \A q \in 1..Len(rows) : q # p => rows'[q] = rows[q]
      /\ rows'[p] = [rows[p] EXCEPT !.checked = ~@]
  BY <1>1, <1>2, <1>3
<1>5. rows'[p].kind = rows[p].kind /\ rows'[p].shows = rows[p].shows
  BY <1>1, <1>4 DEF TableRows
<1> QED BY <1>2, <1>4, <1>5, BoxesInv

LEMMA SelectAllInv == ASSUME GridInv, NEW b \in BOOLEAN, SelectAll(b) PROVE GridInv'
<1> DEFINE n == Len(rows)
<1>1. rows \in Seq(TableRows) /\ n \in Nat
  BY DEF GridInv
<1>2. /\ rows' = [p \in 1..n |-> IF p \in Boxes THEN [rows[p] EXCEPT !.checked = b] ELSE rows[p]]
      /\ UNCHANGED <<data, state, page, pages, view>>
  BY DEF SelectAll
<1>3. ASSUME NEW p \in 1..n
      PROVE  /\ rows'[p] \in TableRows
             /\ rows'[p].kind = rows[p].kind /\ rows'[p].shows = rows[p].shows
             /\ rows'[p].checked => rows[p].checked \/ p \in Boxes
  <2>1. rows[p] \in TableRows
    BY <1>1
  <2>2. rows'[p] = IF p \in Boxes THEN [rows[p] EXCEPT !.checked = b] ELSE rows[p]
    BY <1>2
  <2> QED BY <2>1, <2>2 DEF TableRows
<1>4. rows' \in [1..n -> TableRows]
  BY <1>2, <1>3
<1>5. rows' \in Seq(TableRows) /\ Len(rows') = n
  BY <1>1, <1>4
<1> QED BY <1>2, <1>3, <1>5, BoxesInv

\* A page's lazy rows are filled; nothing else changes.
LEMMA ChangePageInv == ASSUME GridInv, NEW k \in 1..pages, ChangePage(k) PROVE GridInv'
<1>1. /\ data \in Seq(Records) /\ rows \in Seq(TableRows) /\ Shows(rows, data)
      /\ page' = k /\ view' = OnPages(k, Len(rows))
      /\ rows' = changeTable(rows, k, data) /\ UNCHANGED <<data, state, pages>>
  BY DEF GridInv, ChangePage
<1>2. /\ rows' \in Seq(TableRows) /\ Len(rows') = Len(rows) /\ Shows(rows', data)
      /\ \A p \in 1..Len(rows) : \/ rows'[p] = rows[p]
                                 \/ rows[p].kind = "lazy" /\ rows'[p].kind = "data"
  BY <1>1, ChangeTable
<1>3. /\ state = "default" => Plain(rows')
      /\ Plain(rows) => Plain(rows')
      /\ \A p \in 1..Len(rows), kinds \in {Added, {"edit"}} :
           Editing(rows, p, kinds) => Editing(rows', p, kinds)
  BY <1>2 DEF GridInv, Plain, Editing, Added
<1>4. state = "edit" => Plain(rows') \/ \E p \in 1..Len(rows') : Editing(rows', p, {"edit"})
  BY <1>2, <1>3 DEF GridInv
<1>5. state = "add" => Editing(rows', 1, Added)
  BY <1>3 DEF GridInv, Editing
<1>6. page' \in 0..(IF pages' = 0 THEN 1 ELSE pages') /\ view' \subseteq 1..Len(rows')
  <2>1. Len(rows) \in Nat /\ k \in 0..pages /\ pages # 0 /\ pages \in Nat
    BY <1>1 DEF GridInv
  <2>2. view' \subseteq 1..Len(rows)
    BY <1>1, <2>1, PageList
  <2> QED BY <1>1, <1>2, <2>1, <2>2
<1> QED BY <1>1, <1>2, <1>3, <1>4, <1>5, <1>6 DEF GridInv

\* The row in hand.
LEMMA TheEditTr ==
  ASSUME NEW p, NEW kinds \in {Added, {"edit"}}, Editing(rows, p, kinds)
  PROVE  EditTr = p
BY DEF EditTr, Editing, Added, InHandKinds

\* A row in hand is the one the state speaks of.
LEMMA OneInHand ==
  ASSUME GridInv, HasEditTr, state = "edit"
  PROVE  \E p \in 1..Len(rows) : Editing(rows, p, {"edit"})
BY DEF GridInv, HasEditTr, Plain, InHandKinds

LEMMA CancelClickInv == GridInv /\ CancelClick => GridInv'
<1> SUFFICES ASSUME GridInv, CancelClick PROVE GridInv'
  OBVIOUS
<1> DEFINE n == Len(rows)
<1>1. /\ data \in Seq(Records) /\ rows \in Seq(TableRows) /\ n \in Nat /\ n <= MaxRows
      /\ Shows(rows, data) /\ state' = "default" /\ data' = data /\ view \subseteq 1..n
      /\ pages \in Nat /\ page \in 0..(IF pages = 0 THEN 1 ELSE pages)
  BY DEF GridInv, CancelClick
<1>2. CASE state = "edit"
  <2>1. PICK p \in 1..n : Editing(rows, p, {"edit"})
    BY <1>2, OneInHand DEF CancelClick
  <2>2. EditTr = p /\ SaveIndex + 1 = n - p + 1
    BY <1>2, <2>1, TheEditTr DEF SaveIndex, getTrIndexInDataObj
  <2> DEFINE r == data[n - p + 1]
  <2>3. n - p + 1 \in 1..Len(data) /\ r \in Records /\ rows[p] \in TableRows
    BY <1>1, <2>1 DEF Shows, Editing, Added
  <2>4. /\ rows' = [rows EXCEPT ![p].kind = "data", ![p].shows = r]
        /\ UNCHANGED <<page, pages, view>>
    BY <1>2, <2>2 DEF CancelClick
  <2> HIDE DEF r
  <2>5. /\ [rows[p] EXCEPT !.kind = "data", !.shows = r] \in TableRows
        /\ rows' = [rows EXCEPT ![p] = [rows[p] EXCEPT !.kind = "data", !.shows = r]]
    BY <1>1, <2>3, <2>4 DEF TableRows
  <2>6. /\ rows' \in Seq(TableRows) /\ Len(rows') = n
        /\ rows'[p].kind = "data" /\ rows'[p].shows = r
        /\ \A q \in 1..n : q # p => rows'[q] = rows[q]
    BY <1>1, <2>3, <2>5 DEF TableRows
  <2>7. Plain(rows')
    BY <2>1, <2>6 DEF Plain, Editing
  <2>8. Shows(rows', data)
    BY <1>1, <2>3, <2>6 DEF Shows, r
  <2> QED BY <1>1, <2>4, <2>6, <2>7, <2>8 DEF GridInv
<1>3. CASE state = "add" /\ n = 1
  <2>1. rows' = <<>> /\ view' = {} /\ UNCHANGED <<page, pages>>
    BY <1>3 DEF CancelClick
  <2>2. rows' \in Seq(TableRows) /\ Len(rows') = 0 /\ Plain(rows') /\ Shows(rows', data)
    BY <2>1 DEF Plain, Shows
  <2> QED BY <1>1, <2>1, <2>2, GridAssumption DEF GridInv
<1>4. CASE state = "add" /\ n # 1
  <2> DEFINE t == Tail(rows)
  <2>1. Editing(rows, 1, Added)
    BY <1>4 DEF GridInv
  <2>2. n >= 2
    <3>1. 1 \in 1..n
      BY <2>1 DEF Editing
    <3>2. n \in Nat /\ n # 1
      BY <1>1, <1>4
    <3> HIDE DEF n
    <3> QED BY <3>1, <3>2
  <2>3. t \in Seq(TableRows) /\ Len(t) = n - 1 /\ \A p \in 1..(n - 1) : t[p] = rows[p + 1]
    BY <1>1, <2>2
  <2>4. /\ rows' = changeTable(t, 1, data)
        /\ pages' = PageOf(n - 1) /\ page' = 1 /\ view' = OnPages(1, n - 1)
    BY <1>4 DEF CancelClick, pageList
  <2> HIDE DEF t
  <2>5. Plain(t)
    <3>1. \A p \in 1..(n - 1) : p + 1 \in 1..n \ {1}
      BY <1>1
    <3> QED BY <2>1, <2>3, <3>1 DEF Plain, Editing
  <2>6. Shows(t, data)
    <3>1. \A p \in 1..(n - 1) : p + 1 \in 1..n /\ n - (p + 1) + 1 = n - 1 - p + 1
      BY <1>1
    <3> QED BY SMTT(30), <1>1, <2>3, <3>1 DEF Shows
  <2>7. /\ rows' \in Seq(TableRows) /\ Len(rows') = n - 1 /\ Shows(rows', data)
        /\ \A p \in 1..(n - 1) : \/ rows'[p] = t[p]
                                 \/ t[p].kind = "lazy" /\ rows'[p].kind = "data"
    <3>1. /\ changeTable(t, 1, data) \in Seq(TableRows) /\ Len(changeTable(t, 1, data)) = Len(t)
          /\ Shows(changeTable(t, 1, data), data)
          /\ \A p \in 1..Len(t) : \/ changeTable(t, 1, data)[p] = t[p]
                                  \/ /\ t[p].kind = "lazy"
                                     /\ changeTable(t, 1, data)[p].kind = "data"
      BY <1>1, <2>3, <2>6, ChangeTable
    <3> QED BY <2>3, <2>4, <3>1
  <2>8. Plain(rows')
    BY <2>3, <2>5, <2>7 DEF Plain
  <2>9. n - 1 \in Nat /\ n - 1 <= MaxRows
    BY <1>1, <2>2, GridAssumption
  <2>10. pages' \in Nat /\ view' \subseteq 1..(n - 1)
    BY <2>4, <2>9, PageList
  <2> QED BY <1>1, <2>4, <2>7, <2>8, <2>9, <2>10 DEF GridInv
<1>5. state \in {"add", "edit"}
  BY DEF GridInv, CancelClick
<1> QED BY <1>2, <1>3, <1>4, <1>5

LEMMA CleanClickInv == GridInv /\ CleanClick => GridInv'
<1> SUFFICES ASSUME GridInv, CleanClick PROVE GridInv'
  OBVIOUS
<1>1. data \in Seq(Records)
  BY DEF GridInv
<1>2. CASE data = <<>>
  BY <1>1, <1>2, RefreshInv DEF CleanClick
<1>3. CASE data # <<>>
  <2>1. data[1] \in Records
    BY <1>1, <1>3
  <2>2. blankData(data[1]) \in Records
    BY <2>1, RecordFields DEF blankData, Records, Texts
  <2>3. <<blankData(data[1])>> \in Seq(Records)
    BY <2>2
  <2> QED BY <1>3, <2>3, RefreshInv DEF CleanClick
<1> QED BY <1>2, <1>3

LEMMA RefreshClickInv == GridInv /\ RefreshClick => GridInv'
BY RefreshInv DEF GridInv, RefreshClick

\* A record with all fields blank.
LEMMA BlankData ==
  ASSUME NEW r \in Records
  PROVE  blankData(r) \in Records /\ blankData(r).name = Blank /\ blankData(r).ip = Blank
BY RecordFields DEF blankData, Records, Texts

\* The records of the checked rows.
Gone == 1..Len(data) \cap {CheckedIndex(p) + 1 : p \in Checked}

LEMMA GoneIsFinite ==
  ASSUME GridInv
  PROVE  /\ IsFiniteSet(Gone) /\ Gone \in SUBSET (1..Len(data))
         /\ Cardinality(Gone) \in Nat
<1>1. Gone \in SUBSET (1..Len(data))
  BY DEF Gone
<1>2. IsFiniteSet(1..Len(data))
  BY FS_Interval DEF GridInv
<1> QED BY <1>1, <1>2, FS_Subset, FS_CardinalityType

\* What DelClick makes of the data: the records kept, in their order, and as
\* many blank ones as were deleted.
LEMMA DelClickData ==
  ASSUME GridInv, DelClick
  PROVE  LET kept == 1..Len(data) \ Gone
             d    == data'
         IN  /\ d \in Seq(Records) /\ (~DelThrows => refresh(d, 0))
             /\ IsFiniteSet(kept) /\ Cardinality(kept) \in 0..Len(d)
             /\ \A i \in 1..Cardinality(kept) : d[i] = data[Nth(kept, i)]
             /\ \A i \in 1..Len(d) : i > Cardinality(kept) => d[i].name = Blank /\ d[i].ip = Blank
<1> DEFINE kept == 1..Len(data) \ Gone
           c    == Cardinality(kept)
           many == Cardinality(Gone)
           head == [i \in 1..c |-> data[Nth(kept, i)]]
           tail == [i \in 1..many |-> blankData(data[Nth(Gone, many + 1 - i)])]
<1>1. data \in Seq(Records) /\ Len(data) \in Nat
  BY DEF GridInv
<1>2. IsFiniteSet(Gone) /\ Gone \in SUBSET (1..Len(data)) /\ many \in Nat /\ Gone \in SUBSET Int
  BY GoneIsFinite
<1>3. IsFiniteSet(kept) /\ kept \in SUBSET (1..Len(data)) /\ kept \in SUBSET Int
  <2>1. IsFiniteSet(1..Len(data)) /\ kept \in SUBSET (1..Len(data))
    BY <1>1, FS_Interval
  <2>2. IsFiniteSet(kept)
    BY <2>1, FS_Subset
  <2> QED BY <2>1, <2>2
<1>4. c \in Nat /\ \A i \in 1..c : Nth(kept, i) \in 1..Len(data)
  BY <1>3, NthIs
<1>5. \A i \in 1..many : Nth(Gone, i) \in 1..Len(data)
  BY <1>2, NthIs
<1>6. data' = WithoutChecked /\ (~DelThrows => refresh(WithoutChecked, 0))
  BY DEF DelClick, refresh
<1>made. WithoutChecked = head \o tail
  BY DEF WithoutChecked, Gone
<1> HIDE DEF kept, c, many
<1>7. head \in Seq(Records) /\ Len(head) = c
  <2>1. head \in [1..c -> Records]
    BY <1>1, <1>4
  <2> HIDE DEF head
  <2> QED BY <1>4, <2>1
<1>8. /\ tail \in Seq(Records) /\ Len(tail) = many
      /\ \A i \in 1..many : tail[i].name = Blank /\ tail[i].ip = Blank
  <2>1. ASSUME NEW i \in 1..many
        PROVE  tail[i] \in Records /\ tail[i].name = Blank /\ tail[i].ip = Blank
    <3>1. many + 1 - i \in 1..many
      BY <1>2
    <3>2. data[Nth(Gone, many + 1 - i)] \in Records
      BY <1>1, <1>5, <3>1
    <3> QED BY <3>2, BlankData
  <2>2. tail \in [1..many -> Records]
    BY <2>1
  <2> HIDE DEF tail
  <2> QED BY <1>2, <2>1, <2>2
<1>9. \A i \in 1..c : head[i] = data[Nth(kept, i)]
  OBVIOUS
<1> HIDE DEF head, tail
<1>10. data' = head \o tail
  BY <1>6, <1>made
<1>11. data' \in Seq(Records) /\ Len(data') = c + many
  <2>1. head \o tail \in Seq(Records) /\ Len(head \o tail) = c + many
    BY <1>7, <1>8
  <2> QED BY <1>10, <2>1
<1>12. \A i \in 1..c : data'[i] = data[Nth(kept, i)]
  BY <1>2, <1>4, <1>7, <1>8, <1>9, <1>10
<1>13. ASSUME NEW i \in 1..Len(data'), i > c
       PROVE  data'[i].name = Blank /\ data'[i].ip = Blank
  <2>1. i - c \in 1..many /\ i \in 1..(c + many) /\ ~(i <= c)
    BY <1>2, <1>4, <1>11, <1>13
  <2>2. data'[i] = tail[i - c]
    BY <1>7, <1>8, <1>10, <2>1
  <2> QED BY <1>8, <2>1, <2>2
<1>14. (~DelThrows => refresh(data', 0)) /\ c \in 0..Len(data')
  BY <1>2, <1>4, <1>6, <1>11
<1> QED BY <1>3, <1>11, <1>12, <1>13, <1>14 DEF kept, c

Typed == [name : Names, ip : Addresses]

\* What was typed is written, up to the first field that fails its check, and
\* the values replaced are kept.
LEMMA SaveDataIs ==
  ASSUME NEW r \in Records \cup {NoRecord}, NEW typed \in Typed
  PROVE  LET s == SaveData(r, typed)
             undone == [f \in DOMAIN s.record |-> IF f \in DOMAIN s.old THEN s.old[f] ELSE s.record[f]]
         IN  /\ s.ok => s.record \in Records /\ s.record.name = typed.name
             /\ r \in Records => s.record \in Records /\ s.old # NoRecord /\ undone = r
             /\ r = NoRecord => s.old = NoRecord
<1> DEFINE s == SaveData(r, typed)
           bad == checkIp(typed["ip"], {}) # "ENONE"
           fails(f) == f = "ip" /\ bad
           written == IF fails("name") THEN {} ELSE IF fails("ip") THEN {"name"} ELSE {"name", "ip"}
           old == [f \in written \cap DOMAIN r |-> r[f]]
           rec == [f \in written \cup DOMAIN r |-> IF f \in written THEN typed[f] ELSE r[f]]
           undone == [f \in DOMAIN rec |-> IF f \in DOMAIN old THEN old[f] ELSE rec[f]]
<1>1. /\ s.ok = \A f \in DOMAIN typed : ~(f = "ip" /\ checkIp(typed[f], {}) # "ENONE")
      /\ s.old = old /\ s.record = rec
  BY DEF SaveData
<1>2. /\ DOMAIN typed = {"name", "ip"} /\ typed.name \in Names /\ typed.ip \in Addresses
      /\ typed.name \in Texts /\ typed.ip \in Texts
  <2>1. typed = [name |-> typed.name, ip |-> typed.ip]
    BY DEF Typed
  <2> QED BY <2>1 DEF Typed, Texts
<1>3. s.ok => ~bad
  BY <1>1, <1>2
<1> HIDE DEF bad, s
<1>4. written = IF bad THEN {"name"} ELSE {"name", "ip"}
  OBVIOUS
<1>5. CASE r \in Records
  <2>1. DOMAIN r = {"name", "ip"} /\ r.name \in Texts /\ r.ip \in Texts
        /\ r = [name |-> r.name, ip |-> r.ip]
    BY <1>5, RecordFields DEF Records
  <2>2. /\ DOMAIN rec = {"name", "ip"} /\ rec.name = typed.name
        /\ rec.ip = IF bad THEN r.ip ELSE typed.ip
    BY <1>4, <2>1
  <2>3. rec = [name |-> rec.name, ip |-> rec.ip]
    BY <2>2
  <2>4. rec \in Records
    BY <1>2, <2>1, <2>2, <2>3, RecordFields
  <2>5. "name" \in DOMAIN old /\ old["name"] = r["name"] /\ DOMAIN old = written
    BY <1>4, <2>1
  <2>6. old # NoRecord
    BY <2>5 DEF NoRecord
  <2>7. undone = r
    <3>1. undone = [f \in {"name", "ip"} |-> r[f]]
      BY <1>4, <2>1, <2>2
    <3> QED BY <2>1, <3>1
  <2>8. r # NoRecord
    BY SMTT(30), <2>1 DEF NoRecord
  <2> HIDE DEF old, rec
  <2> QED BY <1>1, <1>5, <2>2, <2>4, <2>6, <2>7, <2>8 DEF s
<1>6. CASE r = NoRecord
  <2>1. DOMAIN r = {}
    BY <1>6 DEF NoRecord
  <2>2. old = NoRecord
    BY <2>1 DEF NoRecord
  <2>3. r \notin Records
    BY <2>1, RecordFields
  <2>4. ASSUME ~bad PROVE rec \in Records /\ rec.name = typed.name
    <3>1. DOMAIN rec = {"name", "ip"} /\ rec.name = typed.name /\ rec.ip = typed.ip
      BY <1>4, <2>1, <2>4
    <3>2. rec = [name |-> rec.name, ip |-> rec.ip]
      BY <3>1
    <3> QED BY <1>2, <3>1, <3>2, RecordFields
  <2> HIDE DEF old, rec
  <2> QED BY <1>1, <1>3, <1>6, <2>2, <2>3, <2>4 DEF s
<1> QED BY <1>5, <1>6

\* Where the row in hand is, and the record it belongs to.
LEMMA InHand ==
  ASSUME GridInv, state # "default", state = "add" \/ HasEditTr
  PROVE  /\ EditTr \in 1..Len(rows) /\ SaveIndex \in 0..Len(data)
         /\ SaveIndex + 1 = Len(rows) - EditTr + 1
         /\ state = "edit" => SaveIndex < Len(data) /\ Editing(rows, EditTr, {"edit"})
         /\ state = "add" => EditTr = 1 /\ Editing(rows, EditTr, Added)
<1> DEFINE n == Len(rows)
<1>1. n \in Nat /\ Len(data) \in Nat /\ Shows(rows, data) /\ state \in {"add", "edit"}
  BY DEF GridInv
<1>2. CASE state = "edit"
  <2>1. PICK p \in 1..n : Editing(rows, p, {"edit"})
    BY <1>2, OneInHand
  <2>2. EditTr = p /\ SaveIndex = n - p
    BY <1>2, <2>1, TheEditTr DEF SaveIndex, getTrIndexInDataObj
  <2>3. n - p + 1 \in 1..Len(data)
    BY <1>1, <2>1 DEF Shows, Editing, Added
  <2> QED BY <1>1, <1>2, <2>1, <2>2, <2>3
<1>3. CASE state = "add"
  <2>1. Editing(rows, 1, Added)
    BY <1>3 DEF GridInv
  <2>2. EditTr = 1 /\ SaveIndex = n - 1 /\ 1 \in 1..n
    BY <1>3, <2>1, TheEditTr DEF SaveIndex, Editing
  <2>3. n - 1 <= Len(data)
    <3>1. CASE n = 1
      BY <1>1, <3>1
    <3>2. CASE n # 1
      <4>1. 2 \in 1..n \ {1} /\ n - 2 + 1 = n - 1
        BY <1>1, <2>2, <3>2
      <4>2. rows[2].kind \notin Added
        BY <2>1, <4>1 DEF Editing, Added
      <4> QED BY <1>1, <4>1, <4>2 DEF Shows
    <3> QED BY <3>1, <3>2
  <2> QED BY <1>1, <1>3, <2>1, <2>2, <2>3
<1> QED BY <1>1, <1>2, <1>3

\* Without its last element a sequence is its beginning.
LEMMA RemovedLast ==
  ASSUME NEW S, NEW s \in Seq(S), Len(s) # 0, NEW k, k = Len(s)
  PROVE  RemoveAt(s, k) = SubSeq(s, 1, Len(s) - 1)
<1>1. SubSeq(s, k + 1, Len(s)) = <<>> /\ SubSeq(s, 1, k - 1) \in Seq(S)
  OBVIOUS
<1>2. RemoveAt(s, k) = SubSeq(s, 1, k - 1) \o SubSeq(s, k + 1, Len(s))
  BY DEF RemoveAt
<1>3. SubSeq(s, 1, k - 1) \o <<>> = SubSeq(s, 1, k - 1)
  BY <1>1
<1> QED BY <1>1, <1>2, <1>3

\* A refused save leaves the data as they were.
LEMMA RefusedSave ==
  ASSUME GridInv, state # "default", HasEditTr, NEW typed \in Typed
  PROVE  LET g == SaveIndex
             d == Holding(data, g)
             s == SaveData(d[g + 1], typed)
         IN  Restored([d EXCEPT ![g + 1] = s.record], g, s.old) = data
<1> DEFINE g == SaveIndex
           d == Holding(data, g)
           s == SaveData(d[g + 1], typed)
           new == [d EXCEPT ![g + 1] = s.record]
           undone == [f \in DOMAIN s.record |-> IF f \in DOMAIN s.old THEN s.old[f] ELSE s.record[f]]
<1>1. data \in Seq(Records) /\ Len(data) \in Nat
  BY DEF GridInv
<1>2. g \in 0..Len(data) /\ (state = "edit" => g < Len(data)) /\ state \in {"add", "edit"}
  BY InHand DEF GridInv
<1>3. CASE g < Len(data)
  <2>1. d = data /\ g + 1 \in 1..Len(data)
    BY <1>1, <1>2, <1>3 DEF Holding
  <2>2. d[g + 1] \in Records
    BY <1>1, <2>1
  <2>3. s.old # NoRecord /\ undone = d[g + 1] /\ s.record \in Records
    BY <2>2, SaveDataIs
  <2> HIDE DEF g, d, s
  <2>4. new \in Seq(Records) /\ Len(new) = Len(data) /\ new[g + 1] = s.record
    BY <1>1, <2>1, <2>3
  <2>5. Restored(new, g, s.old) = [new EXCEPT ![g + 1] = undone]
    BY <2>3, <2>4 DEF Restored
  <2>6. [new EXCEPT ![g + 1] = undone] = data
    <3>1. data \in [1..Len(data) -> Records] /\ new = [data EXCEPT ![g + 1] = s.record]
      BY <1>1, <2>1
    <3>2. undone = data[g + 1]
      BY <2>1, <2>3
    <3> HIDE DEF new, undone
    <3> QED BY <2>1, <3>1, <3>2
  <2> QED BY <2>5, <2>6 DEF g, d, s
<1>4. CASE g = Len(data)
  <2>1. state = "add" /\ d = Append(data, NoRecord)
    BY <1>1, <1>2, <1>4 DEF Holding
  <2>2. d[g + 1] = NoRecord
    BY <1>1, <1>4, <2>1
  <2>3. s.old = NoRecord
    BY <2>2, SaveDataIs
  <2> DEFINE Held == Records \cup {NoRecord, s.record}
  <2> HIDE DEF g, d, s
  <2>4. data \in Seq(Held) /\ d \in Seq(Held) /\ s.record \in Held
    BY <1>1, <2>1
  <2> HIDE DEF Held
  <2>5. /\ new \in Seq(Held) /\ Len(new) = Len(data) + 1
        /\ \A i \in 1..Len(data) : new[i] = data[i]
    <3>1. Len(d) = g + 1 /\ \A i \in 1..Len(data) : d[i] = data[i]
      BY <1>1, <1>4, <2>1, <2>4
    <3>2. d \in [1..(g + 1) -> Held]
      BY <2>4, <3>1
    <3>3. new \in [1..(g + 1) -> Held] /\ \A i \in 1..Len(data) : new[i] = data[i]
      BY <1>1, <1>2, <1>4, <2>4, <3>1, <3>2
    <3> HIDE DEF new
    <3> QED BY <1>1, <1>2, <1>4, <3>3
  <2>6. Restored(new, g, s.old) = RemoveAt(new, g + 1)
    BY <2>1, <2>3 DEF Restored
  <2>7. RemoveAt(new, g + 1) = data
    <3> HIDE DEF new
    <3>1. SubSeq(new, 1, Len(data)) = data
      <4>1. /\ SubSeq(new, 1, Len(data)) \in Seq(Held) /\ Len(SubSeq(new, 1, Len(data))) = Len(data)
            /\ \A i \in 1..Len(data) : SubSeq(new, 1, Len(data))[i] = data[i]
        BY <1>1, <2>4, <2>5
      <4> QED BY <2>4, <4>1
    <3>2. Len(new) # 0 /\ g + 1 = Len(new) /\ Len(new) - 1 = Len(data)
      BY <1>1, <1>4, <2>5
    <3>3. RemoveAt(new, g + 1) = SubSeq(new, 1, Len(new) - 1)
      BY <2>5, <3>2, RemovedLast
    <3> QED BY <3>1, <3>2, <3>3
  <2> QED BY <2>6, <2>7 DEF g, d, s
<1> QED BY <1>1, <1>2, <1>3, <1>4

\* The record in hand, as it is written.
LEMMA AcceptedSave ==
  ASSUME GridInv, state # "default", HasEditTr, NEW typed \in Typed, NEW record \in Records
  PROVE  LET new == [Holding(data, SaveIndex) EXCEPT ![SaveIndex + 1] = record]
         IN  /\ new \in Seq(Records) /\ Len(new) \in {Len(data), SaveIndex + 1} /\ Len(new) >= Len(data)
             /\ SaveIndex + 1 \in 1..Len(new) /\ new[SaveIndex + 1] = record
             /\ \A i \in 1..Len(data) : i # SaveIndex + 1 => new[i] = data[i]
<1> DEFINE g == SaveIndex
           d == Holding(data, g)
           new == [d EXCEPT ![g + 1] = record]
<1>1. data \in Seq(Records) /\ Len(data) \in Nat /\ g \in 0..Len(data)
  BY InHand DEF GridInv
<1> HIDE DEF g
<1>2. CASE g < Len(data)
  BY <1>1, <1>2 DEF Holding, g
<1>3. CASE g = Len(data)
  <2>1. d = Append(data, NoRecord)
    BY <1>3 DEF Holding
  <2> DEFINE Held == Records \cup {NoRecord}
  <2>2. d \in [1..(g + 1) -> Held] /\ \A i \in 1..g : d[i] = data[i]
    <3>1. data \in Seq(Held) /\ NoRecord \in Held
      BY <1>1
    <3> HIDE DEF Held, d
    <3>2. d \in Seq(Held) /\ Len(d) = g + 1 /\ \A i \in 1..g : d[i] = data[i]
      BY <1>1, <1>3, <2>1, <3>1
    <3> QED BY <3>2
  <2> HIDE DEF d
  <2>3. new \in [1..(g + 1) -> Records]
    BY <1>1, <1>3, <2>2
  <2>4. new[g + 1] = record /\ \A i \in 1..g : new[i] = data[i]
    BY <1>1, <1>3, <2>2
  <2>5. new \in Seq(Records) /\ Len(new) = g + 1
    <3> HIDE DEF new
    <3> QED BY <1>1, <2>3
  <2> QED BY <1>1, <1>3, <2>4, <2>5 DEF g, d
<1> QED BY <1>1, <1>2, <1>3

LEMMA SaveClickInv ==
  ASSUME GridInv, NEW typed \in Typed, NEW accept \in BOOLEAN, SaveClick(typed, accept)
  PROVE  GridInv' /\ (state' = state => data' = data)
<1> DEFINE g == SaveIndex
           d == Holding(data, g)
           s == SaveData(d[g + 1], typed)
           new == [d EXCEPT ![g + 1] = s.record]
           filled == [Row("data", s.record) EXCEPT !.checked = rows[EditTr].checked]
           n == Len(rows)
<1>1. /\ state # "default" /\ HasEditTr /\ UNCHANGED <<page, pages, view>>
      /\ \/ /\ s.ok /\ data' = new /\ state' = "default"
            /\ rows' = [rows EXCEPT ![EditTr] = filled]
         \/ data' = Restored(new, g, s.old) /\ UNCHANGED <<rows, state>>
  BY DEF SaveClick
<1>2. CASE data' = Restored(new, g, s.old) /\ UNCHANGED <<rows, state>>
  <2>1. data' = data
    BY <1>1, <1>2, RefusedSave
  <2> QED BY <1>1, <1>2, <2>1 DEF GridInv, Plain, Editing, Shows
<1>3. CASE s.ok /\ data' = new /\ state' = "default" /\ rows' = [rows EXCEPT ![EditTr] = filled]
  <2>1. /\ data \in Seq(Records) /\ rows \in Seq(TableRows) /\ n \in Nat /\ Shows(rows, data)
    BY DEF GridInv
  <2>2. d[g + 1] \in Records \cup {NoRecord}
    BY <1>1, <2>1, InHand DEF Holding
  <2>3. s.record \in Records
    BY <1>3, <2>2, SaveDataIs
  <2>4. /\ data' \in Seq(Records) /\ Len(data') >= Len(data)
        /\ g + 1 \in 1..Len(data') /\ data'[g + 1] = s.record
        /\ \A i \in 1..Len(data) : i # g + 1 => data'[i] = data[i]
    BY <1>1, <1>3, <2>3, AcceptedSave
  <2>5. /\ EditTr \in 1..n /\ g + 1 = n - EditTr + 1
        /\ \E kinds \in {Added, {"edit"}} : Editing(rows, EditTr, kinds)
    BY <1>1, InHand DEF GridInv
  <2> HIDE DEF g, d, s, new
  <2>6. rows[EditTr] \in TableRows
    BY <2>1, <2>5
  <2>7. filled \in TableRows /\ filled.kind = "data" /\ filled.shows = s.record
    BY <2>3, <2>6 DEF TableRows, Row
  <2> HIDE DEF filled
  <2>8. /\ rows' \in Seq(TableRows) /\ Len(rows') = n /\ rows'[EditTr] = filled
        /\ \A p \in 1..n : p # EditTr => rows'[p] = rows[p]
    BY <1>3, <2>1, <2>5, <2>7
  <2>9. Plain(rows')
    BY <2>5, <2>7, <2>8 DEF Plain, Editing
  <2>10. Shows(rows', data')
    <3> SUFFICES ASSUME NEW p \in 1..n
                 PROVE  /\ n - p + 1 \in 1..Len(data')
                        /\ rows'[p].kind = "data" => rows'[p].shows = data'[n - p + 1]
                        /\ rows'[p].checked => rows'[p].kind \in {"data", "edit"}
      BY <2>8, <2>9 DEF Shows, Plain, Added
    <3>1. CASE p = EditTr
      BY <2>4, <2>5, <2>7, <2>8, <3>1
    <3>2. CASE p # EditTr
      <4>1. rows'[p] = rows[p] /\ rows[p].kind \in {"data", "lazy"}
        BY <2>5, <2>8, <3>2 DEF Editing
      <4>2. n - p + 1 \in 1..Len(data) /\ n - p + 1 # g + 1
        BY SMTT(30), <2>1, <2>5, <3>2, <4>1 DEF Shows, Added
      <4>3. n - p + 1 \in 1..Len(data')
        BY <2>1, <2>4, <4>2
      <4> QED BY <2>1, <2>4, <4>1, <4>2, <4>3 DEF Shows
    <3> QED BY <3>1, <3>2
  <2> QED BY <1>1, <1>3, <2>4, <2>8, <2>9, <2>10 DEF GridInv
<1> QED BY <1>1, <1>2, <1>3

LEMMA ListedIs ==
  ASSUME GridInv
  PROVE  /\ Listed \in 0..Len(data) /\ Listed <= MaxRows
         /\ state # "add" => Listed = Len(rows)
         /\ state = "add" => Listed = Len(rows) - 1
<1>1. Len(rows) \in Nat /\ Len(data) \in Nat /\ Len(rows) <= MaxRows
  BY DEF GridInv
<1>2. CASE state = "add"
  <2>1. SaveIndex \in 0..Len(data) /\ Listed = SaveIndex /\ Listed = Len(rows) - 1
    BY <1>1, <1>2, InHand DEF SaveIndex, Listed
  <2>2. MaxRows \in Nat
    BY GridAssumption
  <2> HIDE DEF Listed
  <2>3. Listed \in 0..Len(data) /\ Listed <= MaxRows
    BY <1>1, <2>1, <2>2
  <2> QED BY <1>2, <2>1, <2>3
<1>3. CASE state # "add" /\ Len(rows) = 0
  <2>1. Listed = 0 - 0
    BY <1>3 DEF Listed
  <2>2. MaxRows \in Nat
    BY GridAssumption
  <2> HIDE DEF Listed
  <2> QED BY <1>1, <1>3, <2>1, <2>2
<1>4. CASE state # "add" /\ Len(rows) # 0
  <2>1. 1 \in 1..Len(rows) /\ rows[1].kind \notin Added
    BY <1>1, <1>4 DEF GridInv, Plain, Editing, Added
  <2>2. Len(rows) - 1 + 1 \in 1..Len(data)
    BY <1>1, <1>4, <2>1 DEF GridInv, Shows
  <2> QED BY <1>1, <1>4, <2>2 DEF Listed
<1> QED BY <1>2, <1>3, <1>4

\* The ranks of the numbers up to b are the same among all.
LEMMA NthUpTo ==
  ASSUME NEW S \in SUBSET Int, IsFiniteSet(S), NEW b \in Int
  PROVE  LET K == UpTo(S, b) IN
         /\ IsFiniteSet(K) /\ K \in SUBSET Int /\ Cardinality(K) \in 0..Cardinality(S)
         /\ \A i \in 1..Cardinality(K) : Nth(S, i) = Nth(K, i) /\ Nth(K, i) \in K
         /\ \A i \in 1..Cardinality(S) : i > Cardinality(K) => Nth(S, i) \in S /\ Nth(S, i) > b
<1> DEFINE K == UpTo(S, b)
<1>1. K \in SUBSET S /\ K \in SUBSET Int
  BY DEF UpTo
<1>2. /\ IsFiniteSet(K) /\ Cardinality(K) \in Nat /\ Cardinality(S) \in Nat
      /\ Cardinality(K) <= Cardinality(S)
  BY <1>1, FS_Subset, FS_CardinalityType
<1>3. ASSUME NEW n \in K PROVE UpTo(S, n) = UpTo(K, n)
  <2>1. \A m \in S : m <= n => m <= b
    BY <1>1 DEF UpTo
  <2> QED BY <2>1 DEF UpTo
<1>4. \A n \in S : n \notin K => n > b
  BY DEF UpTo
<1> HIDE DEF K
<1>5. ASSUME NEW i \in 1..Cardinality(K)
      PROVE  Nth(S, i) = Nth(K, i) /\ Nth(K, i) \in K
  <2>1. Nth(K, i) \in K /\ Cardinality(UpTo(K, Nth(K, i))) = i
    BY <1>1, <1>2, NthIs
  <2>2. Cardinality(UpTo(S, Nth(K, i))) = i /\ Nth(K, i) \in S
    BY <1>1, <1>3, <2>1
  <2>3. Nth(S, Cardinality(UpTo(S, Nth(K, i)))) = Nth(K, i)
    BY <2>2, NthIs
  <2> QED BY <2>1, <2>2, <2>3
<1>6. ASSUME NEW i \in 1..Cardinality(S), i > Cardinality(K)
      PROVE  Nth(S, i) \in S /\ Nth(S, i) > b
  <2>1. Nth(S, i) \in S /\ Cardinality(UpTo(S, Nth(S, i))) = i
    BY NthIs
  <2>2. ASSUME Nth(S, i) \in K PROVE FALSE
    <3>1. Cardinality(UpTo(K, Nth(S, i))) \in 1..Cardinality(K)
      BY <1>1, <1>2, <2>2, NthIs
    <3>2. Cardinality(UpTo(K, Nth(S, i))) = i
      BY <1>3, <2>1, <2>2
    <3> QED BY <1>2, <1>6, <3>1, <3>2
  <2> QED BY <1>4, <2>1, <2>2
<1> QED BY <1>1, <1>2, <1>5, <1>6 DEF K

\* The listed records that a deletion leaves.
Kept == UpTo(1..Len(data) \ Gone, Listed)

\* The rows that a deletion leaves, the last record's first.
Left == {p \in Unchecked : rows[p].kind \notin Added}

\* A row is of an addition when it is the first one and one is under way.
LEMMA AddedIsFirst ==
  ASSUME GridInv, NEW p \in 1..Len(rows)
  PROVE  rows[p].kind \in Added <=> state = "add" /\ p = 1
BY DEF GridInv, Plain, Editing, Added

LEMMA LeftIsKept ==
  ASSUME GridInv
  PROVE  /\ Left \in SUBSET (1..Len(rows)) /\ Left \in SUBSET Int /\ IsFiniteSet(Left)
         /\ Kept = {Len(rows) - p + 1 : p \in Left}
         /\ Cardinality(Left) \in Nat /\ Cardinality(Kept) = Cardinality(Left)
<1> DEFINE n == Len(rows)
<1>1. /\ n \in Nat /\ Len(data) \in Nat /\ Listed \in 0..Len(data)
      /\ (state # "add" => Listed = n) /\ (state = "add" => Listed = n - 1)
  BY ListedIs DEF GridInv
<1>2. Left \in SUBSET (1..n) /\ Left \in SUBSET Int
  BY <1>1 DEF Left, Unchecked
<1>3. IsFiniteSet(Left) /\ Cardinality(Left) \in Nat
  <2>1. IsFiniteSet(1..n)
    BY <1>1, FS_Interval
  <2> QED BY <1>2, <2>1, FS_Subset, FS_CardinalityType
<1>4. ASSUME NEW p \in 1..n, n - p + 1 \in 1..Len(data)
      PROVE  n - p + 1 \in Gone <=> p \in Checked
  <2>1. \A q \in 1..n : n - q + 1 = n - p + 1 => q = p
    BY <1>1
  <2> QED BY <1>4, <2>1 DEF Gone, Checked, CheckedIndex, getTrIndexInDataObj
<1>5. ASSUME NEW p \in 1..n
      PROVE  p \in Left <=> n - p + 1 \in Kept
  <2>1. n - p + 1 \in 1..Listed <=> ~(state = "add" /\ p = 1)
    BY <1>1
  <2>2. n - p + 1 \in 1..Listed => n - p + 1 \in 1..Len(data)
    BY <1>1
  <2>3. n - p + 1 \in Kept <=> n - p + 1 \in 1..Listed /\ n - p + 1 \notin Gone
    BY <1>1 DEF Kept, UpTo
  <2>4. p \in Left <=> p \notin Checked /\ rows[p].kind \notin Added
    BY DEF Left, Unchecked
  <2> QED BY <1>4, <2>1, <2>2, <2>3, <2>4, AddedIsFirst
<1>6. ASSUME NEW i \in Kept
      PROVE  n - i + 1 \in 1..n /\ i = n - (n - i + 1) + 1
  <2>1. i \in 1..Len(data) /\ i <= Listed
    BY DEF Kept, UpTo
  <2> QED BY <1>1, <2>1
<1>7. Kept \in SUBSET {n - p + 1 : p \in Left}
  <2> SUFFICES ASSUME NEW i \in Kept PROVE \E p \in Left : i = n - p + 1
    OBVIOUS
  <2> QED BY <1>5, <1>6
<1>8. {n - p + 1 : p \in Left} \in SUBSET Kept
  BY <1>2, <1>5
<1>9. Kept = {n - p + 1 : p \in Left}
  BY <1>7, <1>8
<1>10. n \in Int
  BY <1>1
<1> HIDE DEF n
<1>11. Cardinality(Kept) = Cardinality(Left)
  BY <1>2, <1>3, <1>9, <1>10, Turned
<1> QED BY <1>2, <1>3, <1>9, <1>11 DEF n

\* Counted from its other end, a set has its ranks in the opposite order.
LEMMA NthTurned ==
  ASSUME NEW S \in SUBSET Int, IsFiniteSet(S), NEW n \in Int, NEW p \in 1..Cardinality(S)
  PROVE  Nth({n - x + 1 : x \in S}, Cardinality(S) - p + 1) = n - Nth(S, p) + 1
<1> DEFINE T == {n - x + 1 : x \in S}
           c == Cardinality(S)
           q == Nth(S, p)
           i == n - q + 1
           above == {x \in S : q < x}
           from == {x \in S : q <= x}
<1>1. c \in Nat /\ q \in S /\ Cardinality(UpTo(S, q)) = p
  BY NthIs
<1>2. IsFiniteSet(T) /\ T \in SUBSET Int
  <2>1. T \in SUBSET Int
    OBVIOUS
  <2>2. IsFiniteSet(T)
    BY Turned
  <2> QED BY <2>1, <2>2
<1> HIDE DEF c, q
<1>3. q \in Int /\ i \in T /\ i \in Int /\ p \in 1..c
  BY <1>1 DEF c
<1>4. Cardinality(from) = c - p + 1 /\ IsFiniteSet(from)
  <2>1. UpTo(S, q) \in SUBSET S /\ above \in SUBSET S
    BY DEF UpTo
  <2>2. UpTo(S, q) \cap above = {} /\ UpTo(S, q) \cup above = S
    <3>1. \A x \in S : ~(x <= q /\ q < x) /\ (x <= q \/ q < x)
      BY <1>3
    <3> QED BY <3>1 DEF UpTo
  <2>3. /\ IsFiniteSet(UpTo(S, q)) /\ IsFiniteSet(above) /\ Cardinality(above) \in Nat
    BY <2>1, FS_Subset, FS_CardinalityType
  <2>4. c = p + Cardinality(above)
    <3>1. Cardinality(UpTo(S, q) \cup above) =
            Cardinality(UpTo(S, q)) + Cardinality(above) - Cardinality(UpTo(S, q) \cap above)
      BY <2>3, FS_Union
    <3>2. Cardinality(UpTo(S, q) \cap above) = 0
      BY <2>2, FS_EmptySet
    <3>3. Cardinality(UpTo(S, q) \cup above) = c
      BY <2>2 DEF c
    <3> HIDE DEF above
    <3> QED BY <1>1, <1>3, <2>3, <3>1, <3>2, <3>3
  <2>5. from = above \cup {q} /\ q \notin above
    <3>1. \A x \in S : q <= x <=> q < x \/ x = q
      BY <1>3
    <3>2. ~(q < q)
      BY <1>3
    <3> QED BY <1>1, <3>1, <3>2
  <2> HIDE DEF above, from
  <2>6. Cardinality(from) = Cardinality(above) + 1 /\ IsFiniteSet(from)
    BY <2>3, <2>5, FS_AddElement
  <2> QED BY <1>1, <1>3, <2>3, <2>4, <2>6
<1>5. UpTo(T, i) = {n - x + 1 : x \in from}
  <2>1. \A x \in S : n - x + 1 <= i <=> q <= x
    BY <1>3
  <2> QED BY <2>1 DEF UpTo
<1>6. Cardinality(UpTo(T, i)) = c - p + 1
  <2>1. from \in SUBSET Int
    OBVIOUS
  <2> HIDE DEF from, i
  <2> QED BY <1>4, <1>5, <2>1, Turned
<1>7. Nth(T, c - p + 1) = i
  <2> HIDE DEF i, T
  <2> QED BY <1>2, <1>3, <1>6, NthIs
<1> QED BY <1>7 DEF c, q

\* With one more number, below all others, every rank is one higher.
LEMMA NthAfterFirst ==
  ASSUME NEW S \in SUBSET Int, IsFiniteSet(S), NEW a \in Int, \A x \in S : a < x
  PROVE  LET T == S \cup {a} IN
         /\ Cardinality(T) = Cardinality(S) + 1
         /\ Nth(T, 1) = a
         /\ \A p \in 1..Cardinality(S) : Nth(T, p + 1) = Nth(S, p)
<1> DEFINE T == S \cup {a}
<1>1. a \notin S
  BY SMT
<1>2. IsFiniteSet(T) /\ Cardinality(T) = Cardinality(S) + 1 /\ T \in SUBSET Int
  BY <1>1, FS_AddElement
<1>3. UpTo(T, a) = {a}
  <2>1. \A x \in T : x <= a <=> x = a
    OBVIOUS
  <2>2. a \in T
    OBVIOUS
  <2> HIDE DEF T
  <2> QED BY <2>1, <2>2 DEF UpTo
<1>4. Cardinality({a}) = 1
  BY FS_Singleton
<1>5. a \in T
  OBVIOUS
<1>6. ASSUME NEW p \in 1..Cardinality(S)
      PROVE  Nth(T, p + 1) = Nth(S, p)
  <2> DEFINE q == Nth(S, p)
  <2>1. q \in S /\ Cardinality(UpTo(S, q)) = p
    BY NthIs
  <2> HIDE DEF q
  <2>2. UpTo(T, q) = UpTo(S, q) \cup {a} /\ a \notin UpTo(S, q) /\ q \in T
    <3>1. a <= q
      BY <2>1
    <3> QED BY <1>1, <2>1, <3>1 DEF UpTo
  <2>3. IsFiniteSet(UpTo(S, q))
    BY FS_Subset DEF UpTo
  <2>4. Cardinality(UpTo(T, q)) = p + 1
    BY <2>1, <2>2, <2>3, FS_AddElement
  <2> HIDE DEF T
  <2>5. Nth(T, Cardinality(UpTo(T, q))) = q
    BY <1>2, <2>2, NthIs
  <2> QED BY <2>4, <2>5 DEF q
<1> HIDE DEF T
<1>7. Nth(T, 1) = a
  <2>1. Nth(T, Cardinality(UpTo(T, a))) = a
    BY <1>2, <1>5, NthIs
  <2> QED BY <1>3, <1>4, <2>1
<1> QED BY <1>2, <1>6, <1>7 DEF T

\* The record of the p-th row left is the p-th from the end of those listed.
LEMMA DeletedAt ==
  ASSUME GridInv, DelClick, NEW p \in 1..Cardinality(Left)
  PROVE  LET q == Nth(Left, p)
             i == Cardinality(Left) - p + 1
         IN  /\ q \in Left /\ i \in 1..Len(data')
             /\ data'[i] = data[Len(rows) - q + 1]
<1> DEFINE all == 1..Len(data) \ Gone
           a == Cardinality(all)
           c == Cardinality(Left)
           n == Len(rows)
           i == c - p + 1
<1>1. /\ data' \in Seq(Records) /\ IsFiniteSet(all) /\ a \in 0..Len(data')
      /\ \A j \in 1..a : data'[j] = data[Nth(all, j)]
  BY DelClickData
<1>2. /\ Left \in SUBSET Int /\ IsFiniteSet(Left) /\ Kept = {n - x + 1 : x \in Left}
      /\ c \in Nat /\ Cardinality(Kept) = c
  BY LeftIsKept
<1>3. Listed \in Int /\ all \in SUBSET Int /\ n \in Int /\ Len(data') \in Nat /\ a \in Nat
  BY <1>1, ListedIs DEF GridInv
<1>4. Kept = UpTo(all, Listed)
  BY DEF Kept
<1> HIDE DEF all, a, n
<1>5. c \in 0..a /\ \A j \in 1..c : Nth(all, j) = Nth(Kept, j)
  <2>1. /\ Cardinality(Kept) \in 0..Cardinality(all)
        /\ \A j \in 1..Cardinality(Kept) : Nth(all, j) = Nth(Kept, j)
    BY <1>1, <1>3, <1>4, NthUpTo
  <2> HIDE DEF c
  <2> QED BY <1>2, <2>1 DEF a
<1>6. i \in 1..c /\ i \in 1..a /\ i \in 1..Len(data')
  BY <1>1, <1>2, <1>3, <1>5
<1>7. Nth(Kept, i) = n - Nth(Left, p) + 1
  BY <1>2, <1>3, NthTurned
<1>8. Nth(Left, p) \in Left
  BY <1>2, NthIs
<1>9. data'[i] = data[n - Nth(Left, p) + 1]
  <2> HIDE DEF i, c
  <2> QED BY <1>1, <1>5, <1>6, <1>7
<1> QED BY <1>6, <1>8, <1>9 DEF n

\* A page number is at least that of a row above.
LEMMA FirstPage ==
  ASSUME NEW n \in Nat, n >= PageSize
  PROVE  PageOf(1) <= PageOf(n)
<1>1. PageSize \in Nat \ {0}
  BY GridAssumption
<1>2. \A a \in Nat, b \in Nat \ {0} : a >= b => a \div b >= 1
  OBVIOUS
<1>3. \A b \in Nat \ {0} : b \div b = 1
  OBVIOUS
<1>4. PageOf(1) = PageSize \div PageSize /\ PageOf(n) = (n + PageSize - 1) \div PageSize
  BY <1>1 DEF PageOf
<1>5. n + PageSize - 1 \in Nat /\ n + PageSize - 1 >= PageSize
  BY <1>1
<1> QED BY <1>1, <1>2, <1>3, <1>4, <1>5

\* A deletion that throws leaves a row being added in its place: were that row
\* deleted, the first page would be turned to.
LEMMA ThrowKeepsAdded ==
  ASSUME GridInv, DelThrows, state = "add"
  PROVE  1 \in Unchecked /\ Unchecked = Left \cup {1} /\ \A x \in Left : 1 < x
<1>1. /\ rows \in Seq(TableRows) /\ Len(rows) \in Nat /\ 1 \in 1..Len(rows)
  BY DEF GridInv, Editing
<1>2. ASSUME 1 \in Checked PROVE FALSE
  <2>1. Checked \in SUBSET (1..Len(rows)) /\ Checked \in SUBSET Int
    BY <1>1 DEF Checked
  <2>2. IsFiniteSet(Checked) /\ IsFiniteSet(Unchecked) /\ Cardinality(Unchecked) \in Nat
    <3>1. IsFiniteSet(1..Len(rows)) /\ Unchecked \in SUBSET (1..Len(rows))
      BY <1>1, FS_Interval DEF Unchecked
    <3> QED BY <2>1, <3>1, FS_Subset, FS_CardinalityType
  <2>3. UpTo(Checked, 1) = {1}
    <3>1. \A x \in Checked : x <= 1 <=> x = 1
      BY <2>1
    <3> QED BY <1>2, <3>1 DEF UpTo
  <2>4. Nth(Checked, 1) = 1
    <3>1. Cardinality({1}) = 1
      BY FS_Singleton
    <3>2. Nth(Checked, Cardinality(UpTo(Checked, 1))) = 1
      BY <1>2, <2>1, <2>2, NthIs
    <3> QED BY <2>3, <3>1, <3>2
  <2>5. LeftListed \in Int /\ LeftListed > PageSize /\ PageSize \in Nat
    BY <2>2, GridAssumption DEF LeftListed, DelThrows
  <2>6. LeftListed \in Nat /\ LeftListed >= PageSize
    BY <2>5
  <2>7. PageOf(1) <= PageOf(LeftListed) /\ PageOf(1) \in Nat /\ PageOf(LeftListed) \in Nat
    BY <2>6, FirstPage, PageList
  <2> QED BY <2>4, <2>7 DEF DelThrows
<1>3. 1 \in Unchecked
  BY <1>1, <1>2 DEF Unchecked
<1>4. \A x \in 1..Len(rows) : rows[x].kind \in Added <=> x = 1
  BY AddedIsFirst
<1>5. Unchecked \in SUBSET (1..Len(rows)) /\ \A x \in 1..Len(rows) : x # 1 => 1 < x
  BY DEF Unchecked
<1> QED BY <1>3, <1>4, <1>5 DEF Left

\* A deletion that throws leaves the unchecked rows as they were.
LEMMA ThrownRows ==
  ASSUME GridInv, DelClick, DelThrows
  PROVE  LET c == Cardinality(Left)
             m == Len(rows')
         IN  /\ GridInv' /\ Listed' = c /\ m - c \in {0, 1} /\ Len(rows') # Len(rows)
             /\ \A p \in 1..c : rows'[m - c + p] = rows[Nth(Left, p)]
<1> DEFINE n == Len(rows)
           c == Cardinality(Left)
           u == Cardinality(Unchecked)
           off == IF state = "add" THEN 1 ELSE 0
<1>1. /\ data' \in Seq(Records) /\ rows \in Seq(TableRows) /\ n \in Nat /\ n <= MaxRows
      /\ Shows(rows, data) /\ state \in {"default", "add", "edit"} /\ MaxRows \in Nat
  BY DelClickData, GridAssumption DEF GridInv
<1>2. /\ rows' = [p \in 1..u |-> rows[Nth(Unchecked, p)]]
      /\ view' = {p \in 1..u : Nth(Unchecked, p) \in view}
      /\ pages' = PageOf(LeftListed) /\ page' = 0 /\ state' = state /\ Checked # {}
  BY DEF DelClick
<1>3. /\ Unchecked \in SUBSET (1..n) /\ Unchecked \in SUBSET Int /\ IsFiniteSet(Unchecked)
      /\ u \in Nat /\ u < n
  <2>1. IsFiniteSet(1..n) /\ Cardinality(1..n) = n /\ Unchecked \in SUBSET (1..n) /\ Unchecked # 1..n
    <3>1. PICK x \in 1..n : x \in Checked
      BY <1>2 DEF Checked
    <3>2. Unchecked \in SUBSET (1..n) /\ x \notin Unchecked
      BY <3>1 DEF Unchecked
    <3>3. IsFiniteSet(1..n) /\ Cardinality(1..n) = n
      <4>1. n \in Nat
        BY <1>1
      <4> HIDE DEF n
      <4> QED BY <4>1, FS_Interval
    <3> QED BY <3>1, <3>2, <3>3
  <2>2. IsFiniteSet(Unchecked) /\ u <= n /\ u # n
    BY <2>1, FS_Subset
  <2>3. u \in Nat
    BY <2>2, FS_CardinalityType
  <2>4. Unchecked \in SUBSET Int
    BY <2>1
  <2> HIDE DEF n, u
  <2> QED BY <1>1, <2>1, <2>2, <2>3, <2>4
<1>4. /\ Left \in SUBSET (1..n) /\ Left \in SUBSET Int /\ IsFiniteSet(Left) /\ c \in Nat
  BY LeftIsKept
<1>5. \A p \in 1..u : Nth(Unchecked, p) \in Unchecked /\ Cardinality(UpTo(Unchecked, Nth(Unchecked, p))) = p
  BY <1>3, NthIs
<1>6. /\ u = off + c
      /\ \A p \in 1..c : Nth(Unchecked, off + p) = Nth(Left, p) /\ Nth(Left, p) \in Left
      /\ state = "add" => Nth(Unchecked, 1) = 1
  <2>1. \A p \in 1..c : Nth(Left, p) \in Left
    BY <1>4, NthIs
  <2>2. CASE state = "add"
    <3>1. Unchecked = Left \cup {1} /\ \A x \in Left : 1 < x
      BY <2>2, ThrowKeepsAdded
    <3>2. /\ u = c + 1 /\ Nth(Unchecked, 1) = 1
          /\ \A p \in 1..c : Nth(Unchecked, p + 1) = Nth(Left, p)
      <4> DEFINE T == Left \cup {1}
      <4>1. /\ Cardinality(T) = c + 1 /\ Nth(T, 1) = 1
            /\ \A p \in 1..c : Nth(T, p + 1) = Nth(Left, p)
        <5>1. Left \in SUBSET Int /\ IsFiniteSet(Left) /\ 1 \in Int /\ \A x \in Left : 1 < x
          BY <1>4, <3>1
        <5> QED BY Zenon, <5>1, NthAfterFirst
      <4>2. Unchecked = T
        BY <3>1
      <4> HIDE DEF T
      <4> QED BY <4>1, <4>2
    <3>3. \A p \in 1..c : p + 1 = 1 + p
      BY <1>4
    <3> HIDE DEF c, u
    <3> QED BY <1>4, <2>1, <2>2, <3>2, <3>3
  <2>3. CASE state # "add"
    <3>1. \A p \in Unchecked : rows[p].kind \notin Added
      BY <1>3, <2>3, AddedIsFirst
    <3>2. Unchecked = Left
      BY <3>1 DEF Left
    <3>3. off = 0 /\ \A p \in 1..c : off + p = p
      BY <1>4, <2>3
    <3> HIDE DEF off
    <3> QED BY <1>4, <2>1, <2>3, <3>2, <3>3
  <2> QED BY <2>2, <2>3
<1>7. ASSUME NEW p \in 1..u
      PROVE  /\ rows'[p] = rows[Nth(Unchecked, p)] /\ rows'[p] \in TableRows
             /\ ~rows'[p].checked /\ Nth(Unchecked, p) \in 1..n
  <2>1. rows'[p] = rows[Nth(Unchecked, p)] /\ Nth(Unchecked, p) \in Unchecked
    BY <1>2, <1>5
  <2>2. Nth(Unchecked, p) \in 1..n /\ ~rows[Nth(Unchecked, p)].checked
    BY <2>1 DEF Unchecked, Checked
  <2>3. rows[Nth(Unchecked, p)] \in TableRows
    BY <1>1, <2>2
  <2> QED BY <2>1, <2>2, <2>3
<1> HIDE DEF u, c, n
<1>8. rows' \in Seq(TableRows) /\ Len(rows') = u
  <2>1. rows' \in [1..u -> TableRows]
    BY <1>2, <1>7
  <2> QED BY <1>3, <2>1
<1>9. /\ u - c = off /\ u - c \in {0, 1}
      /\ \A p \in 1..c : off + p \in 1..u /\ rows'[off + p] = rows[Nth(Left, p)]
  <2>1. \A p \in 1..c : off + p \in 1..u
    BY <1>3, <1>4, <1>6
  <2> QED BY <1>3, <1>4, <1>6, <1>7, <2>1
<1>10. Shows(rows', data')
  <2> SUFFICES ASSUME NEW k \in 1..u
               PROVE  /\ rows'[k].kind \notin Added => u - k + 1 \in 1..Len(data')
                      /\ rows'[k].kind \in {"data", "edit"} => rows'[k].shows = data'[u - k + 1]
                      /\ rows'[k].checked => rows'[k].kind \in {"data", "edit", "declined"}
    BY <1>8 DEF Shows
  <2>1. CASE off < k
    <3> DEFINE p == k - off
               q == Nth(Left, p)
    <3>1. p \in 1..c /\ k = off + p /\ u - k + 1 = c - p + 1
      BY <1>3, <1>4, <1>6, <2>1
    <3>2. rows'[k] = rows[q] /\ q \in Left
      BY <1>6, <1>9, <3>1
    <3>3. c - p + 1 \in 1..Len(data') /\ data'[c - p + 1] = data[n - q + 1]
      BY <3>1, DeletedAt DEF c, n
    <3> HIDE DEF p, q
    <3>4. q \in 1..n /\ rows[q].kind \notin Added
      BY <1>4, <3>2 DEF Left
    <3>5. rows[q].kind \in {"data", "edit"} => rows[q].shows = data[n - q + 1]
      BY <1>1, <3>4 DEF Shows, n
    <3> QED BY <1>7, <3>1, <3>2, <3>3, <3>5
  <2>2. CASE ~(off < k)
    <3>1. k = 1 /\ state = "add" /\ 1 \in 1..u
      BY <1>3, <2>2
    <3>2. rows'[1] = rows[1] /\ ~rows'[1].checked
      BY <1>6, <1>7, <3>1
    <3>3. rows[1].kind \in Added
      BY <3>1 DEF GridInv, Editing
    <3> QED BY <3>1, <3>2, <3>3 DEF Added
  <2> QED BY <2>1, <2>2
<1>11. /\ state = "default" => Plain(rows')
       /\ state = "add" => Editing(rows', 1, Added)
       /\ state = "edit" => Plain(rows') \/ \E p \in 1..u : Editing(rows', p, {"edit"})
  <2>1. Plain(rows) => Plain(rows')
    BY <1>7, <1>8 DEF Plain, n
  <2>2. ASSUME NEW kinds, NEW k \in 1..u, Editing(rows, Nth(Unchecked, k), kinds)
        PROVE  Editing(rows', k, kinds)
    <3>1. \A j \in 1..u : j # k => Nth(Unchecked, j) # Nth(Unchecked, k)
      BY <1>5
    <3>2. \A j \in 1..u \ {k} : rows'[j].kind \in {"data", "lazy"}
      BY <1>7, <2>2, <3>1 DEF Editing, n
    <3>3. rows'[k].kind \in kinds
      BY <1>7, <2>2 DEF Editing
    <3> QED BY <1>8, <3>2, <3>3 DEF Editing
  <2>3. ASSUME state = "add" PROVE Editing(rows', 1, Added)
    <3>1. 1 \in 1..u /\ Nth(Unchecked, 1) = 1 /\ Editing(rows, 1, Added)
      BY <1>3, <1>4, <1>6, <2>3 DEF GridInv
    <3> QED BY <2>2, <3>1
  <2>4. ASSUME NEW p \in 1..n, Editing(rows, p, {"edit"})
        PROVE  Plain(rows') \/ \E k \in 1..u : Editing(rows', k, {"edit"})
    <3>1. CASE \E k \in 1..u : Nth(Unchecked, k) = p
      BY <2>2, <2>4, <3>1
    <3>2. CASE ~\E k \in 1..u : Nth(Unchecked, k) = p
      <4>1. \A k \in 1..u : rows'[k].kind \in {"data", "lazy"}
        BY <1>7, <2>4, <3>2 DEF Editing, n
      <4> QED BY <1>8, <4>1 DEF Plain
    <3> QED BY <3>1, <3>2
  <2> QED BY <2>1, <2>3, <2>4 DEF GridInv, n
<1>12. LeftListed = c /\ pages' \in Nat
  <2>1. LeftListed = u - off
    BY DEF LeftListed, u
  <2>2. LeftListed = c
    BY <1>3, <1>4, <1>6, <2>1
  <2> QED BY <1>2, <1>4, <2>2, PageList
<1>13. Listed' = c
  BY <1>2, <1>4, <1>6, <1>8 DEF Listed
<1>14. GridInv'
  <2>1. view' \subseteq 1..u /\ u <= MaxRows
    BY <1>1, <1>2, <1>3
  <2>2. page' \in 0..(IF pages' = 0 THEN 1 ELSE pages')
    BY <1>2, <1>12
  <2>3. /\ state' = "default" => Plain(rows')
        /\ state' = "add" => Editing(rows', 1, Added)
        /\ state' = "edit" => Plain(rows') \/ \E p \in 1..Len(rows') : Editing(rows', p, {"edit"})
    BY <1>2, <1>8, <1>11
  <2> QED BY <1>1, <1>2, <1>8, <1>10, <1>12, <2>1, <2>2, <2>3 DEF GridInv
<1>15. \A p \in 1..c : rows'[u - c + p] = rows[Nth(Left, p)]
  BY <1>9
<1>16. u # n
  BY <1>1, <1>3
<1> QED BY <1>8, <1>9, <1>13, <1>14, <1>15, <1>16 DEF c, n

LEMMA DelClickInv == GridInv /\ DelClick => GridInv'
<1> SUFFICES ASSUME GridInv, DelClick PROVE GridInv'
  OBVIOUS
<1>1. CASE ~DelThrows
  <2>1. data' \in Seq(Records) /\ refresh(data', 0)
    BY <1>1, DelClickData
  <2> QED BY <2>1, RefreshInv
<1>2. CASE DelThrows
  BY <1>2, ThrownRows
<1> QED BY <1>1, <1>2

LEMMA NextGridInv ==
  ASSUME GridInv, NextGrid
  PROVE  GridInv'
<1>1. ASSUME NEW n \in Names, NEW a \in Addresses, NEW b \in BOOLEAN, SaveClick([name |-> n, ip |-> a], b)
      PROVE  GridInv'
  <2>1. [name |-> n, ip |-> a] \in Typed
    BY DEF Typed
  <2> QED BY <1>1, <2>1, SaveClickInv
<1> QED BY <1>1, AddClickInv, EditClickInv, CancelClickInv, SelectClickInv, SelectAllInv, DelClickInv,
           CleanClickInv, ChangePageInv, RefreshClickInv DEF NextGrid

LEMMA SameGrid ==
  ASSUME GridInv, UNCHANGED gridVars
  PROVE  GridInv'
BY DEF GridInv, Plain, Editing, Shows, gridVars

LEMMA InvShows == GridInv => RowsShow
<1> SUFFICES ASSUME GridInv PROVE RowsShow
  OBVIOUS
<1>1. DOMAIN data = 1..Len(data)
  BY DEF GridInv
<1> QED BY <1>1 DEF GridInv, Shows, RowsShow, Added

LEMMA RefusedSaves ==
  ASSUME GridInv, [NextGrid]_gridVars, state # "default", state' = state, Len(rows') = Len(rows)
  PROVE  data' = data
<1>1. ASSUME NEW n \in Names, NEW a \in Addresses, NEW b \in BOOLEAN, SaveClick([name |-> n, ip |-> a], b)
      PROVE  data' = data
  <2>1. [name |-> n, ip |-> a] \in Typed
    BY DEF Typed
  <2> QED BY <1>1, <2>1, SaveClickInv
<1>2. CASE DelClick
  <2>1. DelThrows
    BY <1>2, DelClickData DEF refresh
  <2> QED BY <1>2, <2>1, ThrownRows
<1> QED BY <1>1, <1>2 DEF NextGrid, AddClick, EditClick, CancelClick, SelectClick, SelectAll,
           CleanClick, ChangePage, RefreshClick, refresh, gridVars

\* The device keeps no more records than the table may have, each with a name.
Named ==
  /\ Blank \notin Names
  /\ Len(FirstData) <= MaxRows
  /\ \A i \in 1..Len(FirstData) : FirstData[i].name # Blank

IsListOf(m, d) ==
  /\ m \in 0..Len(d) /\ m <= MaxRows
  /\ \A i \in 1..m : d[i].name # Blank
  /\ \A i \in 1..Len(d) : i > m => d[i].name = Blank /\ d[i].ip = Blank

\* The rows stand for the whole list.
ListInv == GridInv /\ IsListOf(Listed, data)

LEMMA RefreshList ==
  ASSUME NEW d \in Seq(Records), NEW k, refresh(d, k), NEW m, IsListOf(m, d)
  PROVE  ListInv' /\ Len(rows') = m
<1>1. m \in 0..Len(d) /\ Len(d) \in Nat
  BY DEF IsListOf
<1>2. m < Len(d) => d[m + 1].name = Blank
  BY <1>1 DEF IsListOf
<1>3. getListLen(d) = m
  BY <1>1, <1>2, ListLenIs DEF IsListOf
<1>4. GridInv' /\ Len(rows') = m /\ data' = d /\ state' = "default"
  BY <1>1, <1>3, RefreshInv, GridAssumption DEF IsListOf
<1>5. Listed' = m
  BY <1>1, <1>4 DEF Listed
<1> QED BY <1>4, <1>5 DEF ListInv

LEMMA InitListInv == Named /\ InitGrid => ListInv
<1> SUFFICES ASSUME Named, InitGrid PROVE ListInv
  OBVIOUS
<1>1. FirstData \in Seq(Records) /\ MaxRows \in Nat /\ Len(FirstData) \in Nat
  BY GridAssumption
<1>2. getListLen(FirstData) = Len(FirstData)
  BY <1>1, ListLenIs DEF Named
<1>3. Len(rows) = Len(FirstData)
  BY <1>1, <1>2, ContentCreate DEF Named, InitGrid
<1> QED BY <1>1, <1>3, InitGridInv DEF Named, ListInv, IsListOf, Listed, InitGrid

LEMMA DelClickList ==
  ASSUME ListInv, DelClick
  PROVE  /\ IsFiniteSet(Kept) /\ Kept \in SUBSET Int
         /\ IsListOf(Cardinality(Kept), data')
         /\ \A i \in 1..Cardinality(Kept) : data'[i] = data[Nth(Kept, i)]
<1> DEFINE all == 1..Len(data) \ Gone
           a == Cardinality(all)
           m == Cardinality(Kept)
<1>1. /\ data' \in Seq(Records) /\ IsFiniteSet(all) /\ a \in 0..Len(data')
      /\ \A i \in 1..a : data'[i] = data[Nth(all, i)]
      /\ \A i \in 1..Len(data') : i > a => data'[i].name = Blank /\ data'[i].ip = Blank
  BY DelClickData DEF ListInv
<1>2. Listed \in 0..Len(data) /\ Listed <= MaxRows /\ Listed \in Int /\ all \in SUBSET Int
      /\ Len(data) \in Nat
  BY ListedIs DEF ListInv, GridInv
<1>3. Kept = UpTo(all, Listed)
  BY DEF Kept
<1>4. all \in SUBSET (1..Len(data))
  OBVIOUS
<1> HIDE DEF all, a
<1>5. /\ IsFiniteSet(Kept) /\ Kept \in SUBSET Int /\ m \in 0..a
      /\ \A i \in 1..m : Nth(all, i) = Nth(Kept, i) /\ Nth(Kept, i) \in Kept
      /\ \A i \in 1..a : i > m => Nth(all, i) \in all /\ Nth(all, i) > Listed
  BY <1>1, <1>2, <1>3, NthUpTo DEF a
<1>6. Kept \in SUBSET (1..Listed)
  <2>1. ASSUME NEW x \in Kept PROVE x \in 1..Listed
    <3>1. x \in all /\ x <= Listed
      BY <1>3 DEF UpTo
    <3>2. x \in 1..Len(data)
      BY <1>4, <3>1
    <3> QED BY <1>2, <3>1, <3>2
  <2> QED BY <2>1
<1>7. m <= Listed
  <2>1. IsFiniteSet(1..Listed) /\ Cardinality(1..Listed) = Listed
    BY <1>2, FS_Interval
  <2> QED BY <1>6, <2>1, FS_Subset
<1> HIDE DEF m
<1>8. a \in Nat /\ Len(data') \in Nat /\ MaxRows \in Nat
  BY <1>1, GridAssumption
<1>9. \A i \in 1..m : data'[i] = data[Nth(Kept, i)] /\ Nth(Kept, i) \in 1..Listed
  <2> SUFFICES ASSUME NEW i \in 1..m
               PROVE  data'[i] = data[Nth(Kept, i)] /\ Nth(Kept, i) \in 1..Listed
    OBVIOUS
  <2>1. i \in 1..a /\ Nth(all, i) = Nth(Kept, i) /\ Nth(Kept, i) \in Kept
    BY <1>5, <1>8
  <2>2. data'[i] = data[Nth(all, i)]
    BY <1>1, <2>1
  <2> QED BY <1>6, <2>1, <2>2
<1>10. \A i \in 1..m : data'[i].name # Blank
  BY <1>9 DEF ListInv, IsListOf
<1>11. ASSUME NEW i \in 1..Len(data'), i > m
       PROVE  data'[i].name = Blank /\ data'[i].ip = Blank
  <2>1. CASE i > a
    BY <1>1, <2>1
  <2>2. CASE ~(i > a)
    <3>1. i \in 1..a
      BY <1>8, <2>2
    <3>2. data'[i] = data[Nth(all, i)] /\ Nth(all, i) \in 1..Len(data) /\ Nth(all, i) > Listed
      BY <1>1, <1>4, <1>5, <1>11, <3>1
    <3> QED BY <3>2 DEF ListInv, IsListOf
  <2> QED BY <2>1, <2>2
<1>12. m \in 0..Len(data') /\ m <= MaxRows
  BY <1>1, <1>2, <1>5, <1>7, <1>8
<1> QED BY <1>5, <1>9, <1>10, <1>11, <1>12 DEF IsListOf, m

LEMMA SaveClickList ==
  ASSUME Named, ListInv, NEW typed \in Typed, NEW accept \in BOOLEAN, SaveClick(typed, accept)
  PROVE  ListInv'
<1> DEFINE g == SaveIndex
           s == SaveData(Holding(data, g)[g + 1], typed)
<1>1. GridInv /\ GridInv' /\ HasEditTr /\ state # "default" /\ state' \in {state, "default"}
  BY SaveClickInv DEF ListInv, SaveClick
<1>2. CASE state' = state
  <2>1. data' = data /\ Len(rows') = Len(rows)
    BY <1>1, <1>2, SaveClickInv DEF SaveClick, ListInv
  <2> QED BY <1>1, <1>2, <2>1 DEF ListInv, Listed
<1>3. CASE state' # state
  <2>1. /\ s.ok /\ data' = [Holding(data, g) EXCEPT ![g + 1] = s.record] /\ state' = "default"
        /\ \E filled : rows' = [rows EXCEPT ![EditTr] = filled]
    BY <1>3 DEF SaveClick
  <2>2. Holding(data, g)[g + 1] \in Records \cup {NoRecord}
    BY <1>1, InHand DEF Holding, GridInv
  <2>3. s.record \in Records /\ s.record.name # Blank
    BY <2>1, <2>2, SaveDataIs DEF Named, Typed
  <2> HIDE DEF g, s
  <2>4. /\ data' \in Seq(Records) /\ Len(data') \in {Len(data), g + 1} /\ Len(data') >= Len(data)
        /\ g + 1 \in 1..Len(data') /\ data'[g + 1] = s.record
        /\ \A i \in 1..Len(data) : i # g + 1 => data'[i] = data[i]
    BY <1>1, <2>1, <2>3, AcceptedSave DEF g
  <2>5. /\ Listed \in 0..Len(data) /\ Len(data) \in Nat /\ Len(rows) \in Nat /\ g \in 0..Len(data)
        /\ Len(rows) <= MaxRows /\ MaxRows \in Nat
    BY SMTT(30), <1>1, ListedIs, InHand, GridAssumption DEF GridInv, g
  <2>6. Listed' = Len(rows)
    <3>1. Len(rows') = Len(rows)
      BY <1>1, <2>1 DEF GridInv
    <3> QED BY <2>1, <2>5, <3>1 DEF Listed
  <2>7. /\ g + 1 \in 1..Len(rows) /\ Len(rows) \in {Listed, g + 1}
        /\ Listed \in {Len(rows), g}
    <3>1. EditTr \in 1..Len(rows) /\ g + 1 = Len(rows) - EditTr + 1 /\ (state = "add" => EditTr = 1)
      BY <1>1, InHand DEF g
    <3>2. (state # "add" => Listed = Len(rows)) /\ (state = "add" => Listed = Len(rows) - 1)
      BY <1>1, ListedIs
    <3> QED BY <2>5, <3>1, <3>2
  <2>8. Len(rows) \in 0..Len(data')
    BY <2>4, <2>5, <2>7
  <2>9. ASSUME NEW i \in 1..Len(rows) PROVE data'[i].name # Blank
    <3>1. CASE i = g + 1
      BY <2>3, <2>4, <3>1
    <3>2. CASE i # g + 1
      <4>1. i \in 1..Listed /\ i \in 1..Len(data)
        BY <2>5, <2>7, <3>2
      <4> QED BY <2>4, <3>2, <4>1 DEF ListInv, IsListOf
    <3> QED BY <3>1, <3>2
  <2>10. ASSUME NEW i \in 1..Len(data'), i > Len(rows)
         PROVE  data'[i].name = Blank /\ data'[i].ip = Blank
    <3>1. i \in 1..Len(data) /\ i # g + 1 /\ i > Listed
      BY <2>4, <2>5, <2>7, <2>10
    <3> QED BY <2>4, <3>1 DEF ListInv, IsListOf
  <2> QED BY <1>1, <2>5, <2>6, <2>8, <2>9, <2>10 DEF ListInv, IsListOf
<1> QED BY <1>2, <1>3

LEMMA TableLength ==
  ASSUME NEW rs, Len(rs) \in Nat, NEW k, NEW d
  PROVE  Len(changeTable(rs, k, d)) = Len(rs)
BY DEF changeTable

\* The actions that neither save nor delete keep the list.
LEMMA KeepsList ==
  ASSUME ListInv, GridInv', data' = data, Len(rows') \in Nat,
         Len(rows') - (IF state' = "add" THEN 1 ELSE 0) = Len(rows) - (IF state = "add" THEN 1 ELSE 0)
  PROVE  ListInv'
BY DEF ListInv, Listed

LEMMA NextListInv ==
  ASSUME Named, ListInv, NextGrid
  PROVE  ListInv'
<1> DEFINE n == Len(rows)
<1>1. /\ GridInv /\ GridInv' /\ n \in Nat /\ data \in Seq(Records) /\ rows \in Seq(TableRows)
      /\ IsListOf(Listed, data)
  BY NextGridInv DEF ListInv, GridInv
<1>2. ASSUME NEW b \in BOOLEAN, AddClick(b)
      PROVE  ListInv'
  <2>1. Len(rows') = n + 1
    BY <1>1, <1>2, AddClickInv
  <2>2. state = "default" /\ state' = "add" /\ data' = data
    BY <1>2 DEF AddClick
  <2> QED BY <1>1, <2>1, <2>2, KeepsList
<1>3. ASSUME NEW p \in 1..n, EditClick(p)
      PROVE  ListInv'
  BY <1>1, <1>3, KeepsList DEF EditClick
<1>4. ASSUME NEW nm \in Names, NEW a \in Addresses, NEW b \in BOOLEAN,
             SaveClick([name |-> nm, ip |-> a], b)
      PROVE  ListInv'
  <2>1. [name |-> nm, ip |-> a] \in Typed
    BY DEF Typed
  <2> QED BY <1>4, <2>1, SaveClickList
<1>5. CASE CancelClick
  <2>1. data' = data /\ state # "default" /\ state' = "default" /\ state \in {"add", "edit"}
    BY <1>1, <1>5 DEF CancelClick, GridInv
  <2>2. CASE state = "edit"
    <3>1. Len(rows') = n
      BY <1>1, <1>5, <2>2 DEF CancelClick
    <3> QED BY <1>1, <2>1, <2>2, <3>1, KeepsList
  <2>3. CASE state = "add"
    <3>1. n # 0
      BY <1>1, <2>3 DEF GridInv, Editing
    <3>2. Len(rows') = n - 1
      <4>1. CASE n = 1
        BY <1>5, <2>3, <4>1 DEF CancelClick
      <4>2. CASE n # 1
        <5>1. rows' = changeTable(Tail(rows), 1, data)
          BY <1>5, <2>3, <4>2 DEF CancelClick
        <5>2. Len(Tail(rows)) = n - 1 /\ n - 1 \in Nat
          BY <1>1, <3>1
        <5> QED BY <5>1, <5>2, TableLength
      <4> QED BY <4>1, <4>2
    <3> QED BY <1>1, <2>1, <2>3, <3>1, <3>2, KeepsList
  <2> QED BY <2>1, <2>2, <2>3
<1>6. ASSUME NEW p \in 1..n, SelectClick(p)
      PROVE  ListInv'
  BY <1>1, <1>6, KeepsList DEF SelectClick
<1>7. ASSUME NEW b \in BOOLEAN, SelectAll(b)
      PROVE  ListInv'
  <2>1. Len(rows') = n /\ data' = data /\ state' = state
    BY <1>1, <1>7 DEF SelectAll
  <2> QED BY <1>1, <2>1, KeepsList
<1>8. CASE DelClick
  <2>1. IsListOf(Cardinality(Kept), data')
    BY <1>8, DelClickList
  <2>2. CASE ~DelThrows
    <3>1. data' \in Seq(Records) /\ refresh(data', 0)
      BY <1>1, <1>8, <2>2, DelClickData
    <3> QED BY <2>1, <3>1, RefreshList
  <2>3. CASE DelThrows
    <3>1. Listed' = Cardinality(Left) /\ Cardinality(Left) = Cardinality(Kept)
      BY <1>1, <1>8, <2>3, ThrownRows, LeftIsKept
    <3> QED BY <1>1, <2>1, <3>1 DEF ListInv
  <2> QED BY <2>2, <2>3
<1>9. CASE CleanClick
  <2> DEFINE d == IF data = <<>> THEN data ELSE <<blankData(data[1])>>
  <2>1. d \in Seq(Records) /\ Len(d) \in Nat
        /\ \A i \in 1..Len(d) : d[i].name = Blank /\ d[i].ip = Blank
    <3>1. CASE data = <<>>
      BY <1>1, <3>1
    <3>2. CASE data # <<>>
      <4>1. data[1] \in Records
        BY <1>1, <3>2
      <4>2. d = <<blankData(data[1])>>
        BY <3>2
      <4>3. blankData(data[1]) \in Records /\ blankData(data[1]).name = Blank /\ blankData(data[1]).ip = Blank
        BY <4>1, BlankData
      <4> HIDE DEF d
      <4> QED BY <4>2, <4>3
    <3> QED BY <3>1, <3>2
  <2>2. refresh(d, 1)
    BY <1>9 DEF CleanClick
  <2> HIDE DEF d
  <2>3. IsListOf(0, d)
    BY <2>1, GridAssumption DEF IsListOf
  <2> QED BY <2>1, <2>2, <2>3, RefreshList
<1>10. ASSUME NEW k \in 1..pages, ChangePage(k)
       PROVE  ListInv'
  <2>1. Len(rows') = n /\ data' = data /\ state' = state
    BY <1>1, <1>10, TableLength DEF ChangePage
  <2> QED BY <1>1, <2>1, KeepsList
<1>11. CASE RefreshClick
  BY <1>1, <1>11, RefreshList DEF RefreshClick
<1> QED BY <1>2, <1>3, <1>4, <1>5, <1>6, <1>7, <1>8, <1>9, <1>10, <1>11 DEF NextGrid

LEMMA SameList ==
  ASSUME ListInv, UNCHANGED gridVars
  PROVE  ListInv'
BY SameGrid DEF ListInv, Listed, IsListOf, gridVars

LEMMA ListMirrors == ListInv => RowsMirror
<1> SUFFICES ASSUME ListInv PROVE RowsMirror
  OBVIOUS
<1>1. data \in Seq(Records) /\ DOMAIN data = 1..Len(data)
  BY DEF ListInv, GridInv
<1>2. RestBlank
  <2> SUFFICES ASSUME NEW i \in DOMAIN data, i > Listed, NEW f \in DOMAIN data[i]
               PROVE  data[i][f] = Blank
    BY DEF RestBlank
  <2>1. f \in {"name", "ip"}
    BY <1>1, RecordFields
  <2> QED BY <1>1, <2>1 DEF ListInv, IsListOf
<1> QED BY <1>2, InvShows DEF ListInv, RowsMirror

\* The record a row stands for, filled in or not.
LEMMA SeenIs ==
  ASSUME NEW rs, NEW d, Shows(rs, d), NEW p \in 1..Len(rs), rs[p].kind \in {"data", "edit", "lazy"}
  PROVE  Seen(rs, d, p) = d[Len(rs) - p + 1]
BY DEF Seen, Shows, getTrIndexInDataObj

LEMMA DeletesExact ==
  ASSUME ListInv, DelClick
  PROVE  /\ Listed' = Cardinality(Left)
         /\ \A p \in 1..Cardinality(Left) :
              Seen(rows', data', Len(rows') - Cardinality(Left) + p) = Seen(rows, data, Nth(Left, p))
<1> DEFINE n == Len(rows)
           m == Len(rows')
           c == Cardinality(Left)
<1>1. /\ GridInv /\ n \in Nat /\ rows \in Seq(TableRows) /\ Shows(rows, data)
  BY DEF ListInv, GridInv
<1>2. /\ Left \in SUBSET (1..n) /\ c \in Nat /\ Cardinality(Kept) = c
  BY <1>1, LeftIsKept
<1>3. /\ GridInv' /\ Listed' = c /\ m \in Nat /\ m - c \in {0, 1}
      /\ \A p \in 1..c : rows'[m - c + p].kind \in {"data", "edit", "lazy"}
  <2>1. CASE ~DelThrows
    <3>1. data' \in Seq(Records) /\ refresh(data', 0)
      BY <1>1, <2>1, DelClickData
    <3>2. IsListOf(Cardinality(Kept), data')
      BY DelClickList
    <3>3. ListInv' /\ m = c
      BY <1>2, <3>1, <3>2, RefreshList
    <3>4. state' = "default" /\ \A p \in 1..m : rows'[p].kind = "data"
      BY <3>1, RefreshInv
    <3>5. \A p \in 1..c : m - c + p = p
      BY <1>2, <3>3
    <3>6. Listed' = c
      BY <1>2, <3>3, <3>4 DEF Listed
    <3> HIDE DEF c, m
    <3> QED BY <1>2, <3>3, <3>4, <3>5, <3>6 DEF ListInv
  <2>2. CASE DelThrows
    <3>1. /\ GridInv' /\ Listed' = c /\ m - c \in {0, 1}
          /\ \A p \in 1..c : rows'[m - c + p] = rows[Nth(Left, p)]
      BY <1>1, <2>2, ThrownRows
    <3>2. m \in Nat
      BY <3>1 DEF GridInv
    <3>3. ASSUME NEW p \in 1..c PROVE rows[Nth(Left, p)].kind \in {"data", "edit", "lazy"}
      <4>1. Nth(Left, p) \in Left
        BY <1>1, DeletedAt
      <4>2. Nth(Left, p) \in 1..n /\ rows[Nth(Left, p)].kind \notin Added
        BY <1>2, <4>1 DEF Left
      <4>3. rows[Nth(Left, p)] \in TableRows
        BY <1>1, <4>2
      <4> QED BY <4>2, <4>3 DEF TableRows, InHandKinds, Added
    <3> QED BY <3>1, <3>2, <3>3
  <2> QED BY <2>1, <2>2
<1>4. Shows(rows', data')
  BY <1>3 DEF GridInv
<1>5. ASSUME NEW p \in 1..c
      PROVE  Seen(rows', data', m - c + p) = Seen(rows, data, Nth(Left, p))
  <2>1. Nth(Left, p) \in Left /\ data'[c - p + 1] = data[n - Nth(Left, p) + 1]
    BY <1>1, DeletedAt
  <2>2. Nth(Left, p) \in 1..n /\ rows[Nth(Left, p)].kind \notin Added
    BY <1>2, <2>1 DEF Left
  <2>3. rows[Nth(Left, p)].kind \in {"data", "edit", "lazy"}
    <3>1. rows[Nth(Left, p)] \in TableRows
      BY <1>1, <2>2
    <3> QED BY <2>2, <3>1 DEF TableRows, InHandKinds, Added
  <2>4. Seen(rows, data, Nth(Left, p)) = data[n - Nth(Left, p) + 1]
    BY <1>1, <2>2, <2>3, SeenIs
  <2>5. m - c + p \in 1..m /\ m - (m - c + p) + 1 = c - p + 1
    BY <1>2, <1>3
  <2>6. Seen(rows', data', m - c + p) = data'[c - p + 1]
    <3> DEFINE k == m - c + p
    <3>1. rows'[k].kind \in {"data", "edit", "lazy"} /\ k \in 1..m
      BY <1>3, <2>5
    <3>2. Seen(rows', data', k) = data'[m - k + 1]
      BY <1>4, <3>1, SeenIs
    <3> QED BY <2>5, <3>2
  <2> QED BY <2>1, <2>4, <2>6
<1> QED BY <1>3, <1>5

-----------------------------------------------------------------------------
(* The session *)

Flights == [Requests -> [what : {"none", "data", "logout", "auth"},
                         leg : {"none", "first", "login", "again", "user"},
                         stok : Nat]]

\* The user can only be logging in where the log-in page is shown, once.
UserLogin ==
  /\ flight \in Flights
  /\ issued \in Nat /\ session \in Nat
  /\ \A r, q \in Requests : flight[r].leg = "user" => login /\ (flight[q].leg = "user" => q = r)

SessionInv == UserLogin /\ NotStranded

LEMMA InitSessionInv == InitSession => SessionInv
BY DEF InitSession, SessionInv, Flights, UserLogin, NotStranded, Idle

\* The types of the session's variables.
SessionTypes ==
  /\ authStatus \in BOOLEAN /\ pwd \in BOOLEAN /\ logoutHandle \in BOOLEAN
  /\ login \in BOOLEAN /\ lost \in BOOLEAN
  /\ code \in {"normal", "reset"} /\ timers \subseteq {"show", "fail"}
  /\ issued \in 0..MaxLogins /\ session \in 0..issued /\ valid \subseteq 1..issued
  /\ \A r \in Requests : flight[r].stok \in 0..issued

LEMMA NextSessionTypes ==
  ASSUME SessionInv, SessionTypes, NextSession
  PROVE  SessionTypes'
<1>1. /\ MaxLogins \in Nat /\ issued \in 0..MaxLogins /\ issued \in Nat
      /\ flight \in Flights /\ \A q \in Requests : flight[q].stok \in 0..issued
  BY SessionAssumption DEF SessionInv, UserLogin, SessionTypes
<1>2. ASSUME NEW r \in Requests, NEW l \in 0..issued', issued' \in {issued, issued + 1},
             flight'[r].stok = l, \A q \in Requests \ {r} : flight'[q] = flight[q]
      PROVE  \A q \in Requests : flight'[q].stok \in 0..issued'
  BY <1>1, <1>2
<1> DEFINE Stoks == \A q \in Requests : flight[q].stok \in 0..issued
           Others == /\ authStatus \in BOOLEAN /\ pwd \in BOOLEAN /\ logoutHandle \in BOOLEAN
                     /\ login \in BOOLEAN /\ lost \in BOOLEAN
                     /\ code \in {"normal", "reset"} /\ timers \subseteq {"show", "fail"}
                     /\ issued \in 0..MaxLogins /\ session \in 0..issued /\ valid \subseteq 1..issued
<1>3. (SessionTypes <=> Others /\ Stoks) /\ (SessionTypes' <=> Others' /\ Stoks')
  BY DEF SessionTypes
<1>4. ASSUME NEW r \in Requests, NEW what \in {"data", "logout"}, sendDsReq(r, what)
      PROVE  SessionTypes'
  <2>1. CASE authStatus
    <3>1. flight' = [flight EXCEPT ![r] = [what |-> what, leg |-> "first", stok |-> session]]
          /\ UNCHANGED <<pageVars, timers, valid, issued, lost>>
      BY <1>4, <2>1 DEF sendDsReq
    <3>2. Stoks'
      BY <1>1, <3>1 DEF SessionTypes, Flights
    <3> QED BY <1>3, <3>1, <3>2 DEF SessionTypes, pageVars
  <2>2. CASE ~authStatus
    <3>1. Callback(what) /\ UNCHANGED <<authStatus, flight, timers, valid, issued, lost>>
      BY <1>4, <2>2 DEF sendDsReq
    <3>2. /\ session' \in {session, 0} /\ pwd' \in {pwd, FALSE} /\ code' \in {code, "normal"}
          /\ login' \in {login, TRUE} /\ logoutHandle' \in {logoutHandle, TRUE}
      BY <3>1 DEF Callback
    <3>3. session' \in 0..issued'
      BY <1>1, <3>1, <3>2 DEF SessionTypes
    <3>4. Others'
      BY <3>1, <3>2, <3>3 DEF SessionTypes
    <3> QED BY <1>3, <3>1, <3>4
  <2> QED BY <2>1, <2>2
<1>5. ASSUME NEW r \in Requests, flight' = [flight EXCEPT ![r] = Idle], issued' \in {issued, issued + 1}
      PROVE  Stoks'
  BY <1>1, <1>5 DEF Idle, Flights
<1>6. ASSUME NEW r \in Requests, NEW l \in {"first", "again"}, Accepted(r, l)
      PROVE  SessionTypes'
  <2>1. Stoks'
    BY <1>5, <1>6 DEF Accepted
  <2>2. Others'
    <3>1. /\ UNCHANGED <<timers, issued, lost>>
          /\ authStatus' \in {authStatus, TRUE} /\ code' \in {code, "normal"}
          /\ session' \in {session, 0} /\ pwd' \in {pwd, FALSE} /\ login' \in {login, TRUE}
          /\ logoutHandle' \in {logoutHandle, TRUE} /\ valid' \in {valid, valid \ {flight[r].stok}}
      BY <1>6 DEF Accepted, Callback
    <3>2. session' \in 0..issued' /\ issued' \in 0..MaxLogins
      BY <1>1, <3>1 DEF SessionTypes
    <3>3. /\ authStatus' \in BOOLEAN /\ pwd' \in BOOLEAN /\ logoutHandle' \in BOOLEAN
          /\ login' \in BOOLEAN /\ lost' \in BOOLEAN
      BY <3>1 DEF SessionTypes
    <3>4. code' \in {"normal", "reset"} /\ timers' \subseteq {"show", "fail"} /\ valid' \subseteq 1..issued'
      BY <3>1 DEF SessionTypes
    <3> QED BY <3>2, <3>3, <3>4
  <2> QED BY <1>3, <2>1, <2>2
<1>7. ASSUME NEW r \in Requests, NEW c \in {"normal", "reset"}, postDsUnAuthHandle(r, c)
      PROVE  SessionTypes'
  <2>1. Stoks'
    <3>1. CASE flight' = [flight EXCEPT ![r] = Idle]
      BY <1>5, <1>7, <3>1 DEF postDsUnAuthHandle
    <3>2. CASE flight' = [flight EXCEPT ![r].leg = "login"]
      BY <1>1, <1>7, <3>2 DEF postDsUnAuthHandle, Flights
    <3> QED BY <1>7, <3>1, <3>2 DEF postDsUnAuthHandle, Awaiting
  <2>2. /\ UNCHANGED <<pwd, session, login, valid, issued, lost>>
        /\ authStatus' \in {authStatus, FALSE} /\ code' \in {code, c}
        /\ logoutHandle' \in {logoutHandle, FALSE} /\ timers' \in {timers, timers \cup {"show"}}
    BY <1>7 DEF postDsUnAuthHandle
  <2>3. Others'
    <3>1. /\ authStatus' \in BOOLEAN /\ logoutHandle' \in BOOLEAN
          /\ code' \in {"normal", "reset"} /\ timers' \subseteq {"show", "fail"}
      BY <2>2 DEF SessionTypes
    <3> QED BY <2>2, <3>1 DEF SessionTypes
  <2> QED BY <1>3, <2>1, <2>3
<1>8. ASSUME NEW r \in Requests, NEW c \in {"normal", "reset"},
             AuthFails(r, c) \/ AgainRefused(r, c) \/ UserAuthFails(r, c)
      PROVE  SessionTypes'
  <2>1. Stoks'
    BY <1>5, <1>8 DEF AuthFails, AgainRefused, UserAuthFails
  <2>2. Others'
    BY <1>3, <1>8 DEF AuthFails, AgainRefused, UserAuthFails, loginErrHandle
  <2> QED BY <1>3, <2>1, <2>2
<1>9. ASSUME NewToken, lost' = lost, timers' = timers, code' = code, logoutHandle' = logoutHandle,
             login' \in {login, FALSE}
      PROVE  Others'
  <2>1. /\ issued' = issued + 1 /\ issued' \in 0..MaxLogins /\ session' = issued'
        /\ pwd' = TRUE /\ authStatus' = TRUE
        /\ valid' = valid \cup {issued + 1} \/ valid' = {issued + 1}
    BY <1>1, <1>9 DEF NewToken
  <2>2. ASSUME NEW v \in valid' PROVE v \in 1..issued'
    <3>1. v \in 1..issued \/ v = issued + 1
      BY <2>1 DEF SessionTypes
    <3> QED BY <1>1, <2>1, <3>1
  <2>3. session' \in 0..issued'
    BY <1>1, <2>1
  <2>4. valid' \subseteq 1..issued'
    BY <2>2
  <2>5. /\ authStatus' \in BOOLEAN /\ pwd' \in BOOLEAN /\ logoutHandle' \in BOOLEAN
        /\ login' \in BOOLEAN /\ lost' \in BOOLEAN
        /\ code' \in {"normal", "reset"} /\ timers' \subseteq {"show", "fail"}
    BY <1>9, <2>1 DEF SessionTypes
  <2> QED BY <2>1, <2>3, <2>4, <2>5
<1>10. ASSUME NEW r \in Requests, AuthDone(r)
       PROVE  SessionTypes'
  <2>1. Stoks'
    <3>1. issued' = issued + 1 /\ flight' = [flight EXCEPT ![r].leg = "again", ![r].stok = issued + 1]
      BY <1>10 DEF AuthDone, NewToken
    <3>2. flight'[r].stok = issued + 1 /\ \A q \in Requests \ {r} : flight'[q] = flight[q]
      BY <1>1, <3>1 DEF Flights
    <3>3. issued + 1 \in 0..issued'
      BY <1>1, <3>1
    <3> QED BY <1>2, <3>1, <3>2, <3>3
  <2> QED BY <1>3, <1>9, <1>10, <2>1 DEF AuthDone
<1>11. ASSUME NEW r \in Requests, UserAuth(r)
       PROVE  SessionTypes'
  <2>1. Stoks'
    BY <1>1, <1>11 DEF UserAuth, Flights
  <2> QED BY <1>3, <1>11, <2>1 DEF UserAuth
<1>12. ASSUME NEW r \in Requests, UserAuthDone(r)
       PROVE  SessionTypes'
  <2>1. Stoks'
    BY <1>5, <1>12 DEF UserAuthDone, NewToken
  <2> QED BY <1>3, <1>9, <1>12, <2>1 DEF UserAuthDone
<1>13. ASSUME NEW r \in Requests, LoseAnswer(r)
       PROVE  SessionTypes'
  <2>1. Stoks'
    BY <1>5, <1>13 DEF LoseAnswer
  <2> QED BY <1>3, <1>13, <2>1 DEF LoseAnswer, pageVars
<1>14. ASSUME NEW t \in timers, TimerFires(t)
       PROVE  SessionTypes'
  BY <1>3, <1>14 DEF TimerFires, loginErrHandle
<1>15. CASE Expire
  BY <1>3, <1>15 DEF Expire, pageVars
<1>16. CASE Reload
  <2>1. Stoks'
    <3>1. issued' = issued /\ \A q \in Requests : flight'[q].stok = 0
      BY <1>16 DEF Reload, Idle
    <3> QED BY <1>1, <3>1
  <2>2. session' \in 0..issued'
    BY <1>1, <1>16 DEF Reload
  <2>3. Others'
    BY <1>3, <1>16, <2>2 DEF Reload
  <2> QED BY <1>3, <2>1, <2>3
<1> QED
  BY <1>4, <1>6, <1>7, <1>8, <1>10, <1>11, <1>12, <1>13, <1>14, <1>15, <1>16 DEF NextSession

LEMMA NextSessionInv ==
  ASSUME SessionInv, NextSession
  PROVE  SessionInv'
<1> USE DEF SessionInv, Flights, pageVars, Idle, Leg
<1>1. ASSUME NEW r \in Requests, NEW what \in {"data", "logout"}, sendDsReq(r, what)
      PROVE  SessionInv'
  BY <1>1 DEF sendDsReq, Callback, UserLogin, NotStranded
<1>2. ASSUME NEW r \in Requests, NEW l \in {"first", "again"}, Accepted(r, l)
      PROVE  SessionInv'
  BY <1>2 DEF Accepted, Callback, UserLogin, NotStranded
<1>3. ASSUME NEW r \in Requests, NEW c \in {"normal", "reset"}, postDsUnAuthHandle(r, c)
      PROVE  SessionInv'
  BY <1>3 DEF postDsUnAuthHandle, Awaiting, UserLogin, NotStranded
<1>4. ASSUME NEW r \in Requests, NEW c \in {"normal", "reset"}, AuthFails(r, c)
      PROVE  SessionInv'
  BY <1>4 DEF AuthFails, UserLogin, NotStranded
<1>5. ASSUME NEW r \in Requests, NEW c \in {"normal", "reset"}, AgainRefused(r, c)
      PROVE  SessionInv'
  BY <1>5 DEF AgainRefused, loginErrHandle, UserLogin, NotStranded
<1>6. ASSUME NEW r \in Requests, NEW c \in {"normal", "reset"}, UserAuthFails(r, c)
      PROVE  SessionInv'
  BY <1>6 DEF UserAuthFails, UserLogin, NotStranded
<1>7. ASSUME NEW r \in Requests, AuthDone(r)
      PROVE  SessionInv'
  <2>1. /\ flight' = [flight EXCEPT ![r].leg = "again", ![r].stok = issued + 1]
        /\ authStatus' = TRUE /\ login' = login /\ issued' = issued + 1 /\ session' = issued + 1
    BY <1>7 DEF AuthDone, NewToken
  <2>2. /\ \A q \in Requests \ {r} : flight'[q] = flight[q]
        /\ flight'[r].leg = "again"
    BY <2>1 DEF UserLogin
  <2>3. flight' \in Flights /\ issued' \in Nat /\ session' \in Nat
    <3> DEFINE sent == [flight EXCEPT ![r].leg = "again"]
    <3>1. flight' = [sent EXCEPT ![r].stok = issued + 1]
      BY <2>1
    <3>2. sent \in Flights
      BY DEF UserLogin
    <3>3. issued + 1 \in Nat /\ issued' \in Nat /\ session' \in Nat
      BY <2>1 DEF UserLogin
    <3> HIDE DEF sent, SessionInv
    <3>4. flight' \in Flights
      BY <3>1, <3>2, <3>3
    <3> QED BY <3>3, <3>4
  <2> QED BY <2>1, <2>2, <2>3 DEF UserLogin, NotStranded
<1>8. ASSUME NEW r \in Requests, UserAuth(r)
      PROVE  SessionInv'
  BY <1>8 DEF UserAuth, UserLogin, NotStranded
<1>9. ASSUME NEW r \in Requests, UserAuthDone(r)
      PROVE  SessionInv'
  <2>1. /\ flight[r].leg = "user" /\ flight' = [flight EXCEPT ![r] = Idle]
        /\ authStatus' = TRUE /\ login' = FALSE /\ issued' = issued + 1 /\ session' = issued + 1
    BY <1>9 DEF UserAuthDone, NewToken
  <2>2. \A q \in Requests : flight'[q].leg # "user"
    BY <2>1 DEF UserLogin
  <2> QED BY <2>1, <2>2 DEF UserLogin, NotStranded
<1>10. ASSUME NEW r \in Requests, LoseAnswer(r)
       PROVE  SessionInv'
  BY <1>10 DEF LoseAnswer, UserLogin, NotStranded
<1>11. ASSUME NEW t \in timers, TimerFires(t)
       PROVE  SessionInv'
  BY <1>11 DEF TimerFires, loginErrHandle, UserLogin, NotStranded
<1>12. CASE Expire
  BY <1>12 DEF Expire, UserLogin, NotStranded
<1>13. CASE Reload
  BY <1>13 DEF Reload, UserLogin, NotStranded
<1> QED
  BY <1>1, <1>2, <1>3, <1>4, <1>5, <1>6, <1>7, <1>8, <1>9, <1>10, <1>11, <1>12, <1>13 DEF NextSession

-----------------------------------------------------------------------------
(* The cloud actions *)

\* A run that has met no other one has the page's timers to itself, and its own
\* guard until it reports.
CloudInv ==
  /\ phase \in [Ops -> {"idle", "action", "query", "check", "poll", "gone"}]
  /\ polls \subseteq Ops
  /\ \A op \in polls : phase[op] = "poll"
  /\ alone \subseteq Ops
  /\ \A op \in alone : \A o \in Ops \ {op} : ~Active(o)
  /\ RunGuarded

LEMMA InitCloudInv == InitCloud => CloudInv
BY DEF InitCloud, CloudInv, RunGuarded, Unanswered

LEMMA QueryStatusInv ==
  ASSUME CloudInv, NEW op \in Ops, QueryStatus(op), phase[op] = "action"
  PROVE  CloudInv'
<1>1. /\ waits' = (waits \ {waitHd}) \cup {op} /\ waitHd' = op /\ reported' = reported
      /\ polls' = polls \ {pollHd}
      /\ phase' = [o \in Ops |-> IF o = op THEN "query" ELSE IF Over(o, TRUE) THEN "idle" ELSE phase[o]]
      /\ alone' = IF \E o \in Ops \ {op} : Active(o) THEN {} ELSE {op}
  BY DEF QueryStatus, ClearPoll
<1>2. /\ phase' \in [Ops -> {"idle", "action", "query", "check", "poll", "gone"}]
      /\ polls' \subseteq Ops /\ \A o \in polls' : o # op => phase'[o] = "poll"
  BY <1>1 DEF CloudInv, Over
<1>3. CASE \E o \in Ops \ {op} : Active(o)
  BY <1>1, <1>2, <1>3 DEF CloudInv, RunGuarded, Unanswered
<1>4. CASE ~\E o \in Ops \ {op} : Active(o)
  <2>1. \A o \in Ops \ {op} : phase'[o] = "idle" /\ o \notin polls' /\ o \notin waits'
    BY <1>1, <1>4 DEF CloudInv, Active, Over
  <2>2. alone' = {op}
    BY <1>1, <1>4
  <2> QED BY <1>1, <1>2, <2>1, <2>2 DEF CloudInv, Active, RunGuarded, Unanswered
<1> QED BY <1>3, <1>4

LEMMA NextCloudInv ==
  ASSUME CloudInv, NextCloud
  PROVE  CloudInv'
<1> USE DEF CloudInv, Active, RunGuarded, Unanswered, Over, Reports, ClearWait, ClearPoll, EndQuery, EndRun
<1>1. ASSUME NEW op \in Ops, Start(op) PROVE CloudInv'
  BY <1>1 DEF Start
<1>2. ASSUME NEW op \in Ops, ActionAnswered(op) PROVE CloudInv'
  <2>1. CASE QueryStatus(op)
    BY <1>2, <2>1, QueryStatusInv DEF ActionAnswered
  <2>2. CASE ~QueryStatus(op)
    BY <1>2, <2>2 DEF ActionAnswered
  <2> QED BY <2>1, <2>2
<1>3. ASSUME NEW op \in Ops, ActionLost(op) PROVE CloudInv'
  BY <1>3 DEF ActionLost
<1>4. ASSUME NEW op \in Ops, QueryEnds(op) PROVE CloudInv'
  BY <1>4 DEF QueryEnds
<1>5. ASSUME NEW op \in Ops, QueryTrying(op) PROVE CloudInv'
  BY <1>5 DEF QueryTrying
<1>6. ASSUME NEW op \in Ops, QueryGone(op) PROVE CloudInv'
  BY <1>6 DEF QueryGone
<1>7. ASSUME NEW op \in Ops, PollFires(op) PROVE CloudInv'
  BY <1>7 DEF PollFires
<1>8. ASSUME NEW op \in Ops, WaitFires(op) PROVE CloudInv'
  <2>1. /\ waits' = waits \ {op} /\ polls' \subseteq polls /\ reported' = reported \cup {op}
        /\ waitHd' = waitHd /\ alone' = alone /\ op \in waits
    BY <1>8 DEF WaitFires
  <2>2. /\ phase' \in [Ops -> {"idle", "action", "query", "check", "poll", "gone"}]
        /\ \A o \in Ops : phase'[o] = phase[o] \/ phase'[o] = "idle"
    BY <1>8 DEF WaitFires
  <2>3. \A o \in Ops : ~Active(o) => ~Active(o)'
    BY <2>1, <2>2
  <2>4. \A o \in polls' : phase'[o] = "poll"
    BY <1>8 DEF WaitFires
  <2> QED BY <2>1, <2>2, <2>3, <2>4
<1>9. CASE Stop
  BY <1>9 DEF Stop
<1>10. CASE LoadPage
  BY <1>10 DEF LoadPage
<1>11. ASSUME NEW op \in Ops, CheckAnswered(op) PROVE CloudInv'
  BY <1>11 DEF CheckAnswered
<1> QED BY <1>1, <1>2, <1>3, <1>4, <1>5, <1>6, <1>7, <1>8, <1>9, <1>10, <1>11 DEF NextCloud

\* The types of the cloud actions' variables; a run waits for its next query
\* exactly as long as the timer for it is pending.
CloudTypes ==
  /\ stoped \in BOOLEAN /\ waits \subseteq Ops /\ reported \subseteq Ops
  /\ pollHd \in Ops \cup {NoOp} /\ waitHd \in Ops \cup {NoOp}
  /\ \A op \in Ops : phase[op] = "poll" => op \in polls

LEMMA InitTypes == InitSession /\ InitCloud => SessionTypes /\ CloudTypes
<1>1. MaxLogins \in Nat
  BY SessionAssumption
<1>2. InitSession => SessionTypes
  <2> SUFFICES ASSUME InitSession PROVE SessionTypes
    OBVIOUS
  <2>1. issued = 0 /\ session = 0 /\ valid = {} /\ \A r \in Requests : flight[r].stok = 0
    BY DEF InitSession, Idle
  <2>2. issued \in 0..MaxLogins /\ session \in 0..issued /\ valid \subseteq 1..issued
        /\ \A r \in Requests : flight[r].stok \in 0..issued
    BY <1>1, <2>1
  <2> QED BY <2>2 DEF InitSession, SessionTypes
<1>3. InitCloud => CloudTypes
  BY DEF InitCloud, CloudTypes
<1> QED BY <1>2, <1>3

LEMMA NextCloudTypes ==
  ASSUME CloudInv, CloudTypes, NextCloud
  PROVE  CloudTypes'
<1>1. phase \in [Ops -> {"idle", "action", "query", "check", "poll", "gone"}] /\ polls \subseteq Ops
      /\ \A op \in polls : phase[op] = "poll"
  BY DEF CloudInv
<1> USE DEF CloudTypes, Over, Reports, ClearWait, ClearPoll, EndQuery, EndRun
<1>2. ASSUME NEW op \in Ops, Start(op) PROVE CloudTypes'
  BY <1>1, <1>2 DEF Start, Active
<1>3. ASSUME NEW op \in Ops, ActionAnswered(op) PROVE CloudTypes'
  BY <1>1, <1>3 DEF ActionAnswered, QueryStatus
<1>4. ASSUME NEW op \in Ops, ActionLost(op) PROVE CloudTypes'
  BY <1>1, <1>4 DEF ActionLost
<1>5. ASSUME NEW op \in Ops, QueryEnds(op) PROVE CloudTypes'
  BY <1>1, <1>5 DEF QueryEnds
<1>6. ASSUME NEW op \in Ops, QueryTrying(op) PROVE CloudTypes'
  BY <1>1, <1>6 DEF QueryTrying
<1>7. ASSUME NEW op \in Ops, QueryGone(op) PROVE CloudTypes'
  BY <1>1, <1>7 DEF QueryGone
<1>8. ASSUME NEW op \in Ops, PollFires(op) PROVE CloudTypes'
  BY <1>1, <1>8 DEF PollFires
<1>9. ASSUME NEW op \in Ops, WaitFires(op) PROVE CloudTypes'
  BY <1>1, <1>9 DEF WaitFires
<1>10. CASE Stop
  BY <1>1, <1>10 DEF Stop
<1>11. CASE LoadPage
  BY <1>1, <1>11 DEF LoadPage
<1>12. ASSUME NEW op \in Ops, CheckAnswered(op) PROVE CloudTypes'
  BY <1>1, <1>12 DEF CheckAnswered
<1> QED BY <1>2, <1>3, <1>4, <1>5, <1>6, <1>7, <1>8, <1>9, <1>10, <1>11,
           <1>12 DEF NextCloud

-----------------------------------------------------------------------------
(* The pages *)

CallTypes == call.fn \in {"none", "hex", "b64", "str", "pair"}

PagesInv == CallTypes /\ GridInv /\ SessionInv /\ SessionTypes /\ CloudInv /\ CloudTypes

LEMMA NextPagesInv == PagesInv /\ [Next]_vars => PagesInv'
<1> SUFFICES ASSUME PagesInv, [Next]_vars PROVE PagesInv'
  OBVIOUS
<1>1. UNCHANGED sessionVars => SessionInv' /\ SessionTypes'
  BY DEF PagesInv, SessionInv, SessionTypes, UserLogin, NotStranded, Leg, sessionVars, pageVars
<1>2. UNCHANGED cloudVars => CloudInv' /\ CloudTypes'
  BY DEF PagesInv, CloudInv, CloudTypes, Active, RunGuarded, Unanswered, cloudVars
<1>3. /\ UNCHANGED gridVars \/ NextGrid
      /\ UNCHANGED sessionVars \/ NextSession
      /\ UNCHANGED cloudVars \/ NextCloud
  BY DEF Next, Form, Table, Session, Cloud, vars
<1>4. GridInv'
  BY <1>3, NextGridInv, SameGrid DEF PagesInv
<1>5. SessionInv' /\ SessionTypes'
  BY <1>1, <1>3, NextSessionInv, NextSessionTypes DEF PagesInv
<1>6. CloudInv' /\ CloudTypes'
  BY <1>2, <1>3, NextCloudInv, NextCloudTypes DEF PagesInv
<1>7. CallTypes'
  <2>1. call' = call \/ NextTools
    BY DEF Next, Form, Table, Session, Cloud, vars
  <2> QED BY <2>1 DEF PagesInv, CallTypes, NextTools, Return, NoCall, Digest, Keyed, CheckPair, Encodings
<1> QED BY <1>4, <1>5, <1>6, <1>7 DEF PagesInv

LEMMA AlwaysPagesInv == Spec => []PagesInv
<1>1. Init => PagesInv
  BY InitGridInv, InitSessionInv, InitCloudInv, InitTypes DEF Init, PagesInv, CallTypes, InitTools, NoCall
<1> QED BY <1>1, NextPagesInv, PTL DEF Spec

LEMMA AlwaysListInv == ASSUME Named PROVE Spec => []ListInv
<1>1. Init => ListInv
  BY InitListInv DEF Init
<1>2. ListInv /\ [Next]_vars => ListInv'
  <2> SUFFICES ASSUME ListInv, [Next]_vars PROVE ListInv'
    OBVIOUS
  <2>1. UNCHANGED gridVars \/ NextGrid
    BY DEF Next, Form, Table, Session, Cloud, vars
  <2> QED BY <2>1, NextListInv, SameList
<1> QED BY <1>1, <1>2, PTL DEF Spec

LEMMA AlwaysHashInv == Spec => []HashInv
<1>1. Init => HashInv
  <2> SUFFICES ASSUME Init PROVE HashInv
    OBVIOUS
  <2>1. call.fn = "none" /\ "none" \notin Encodings
    BY SMT DEF Init, InitTools, NoCall, Encodings
  <2> QED BY Zenon, <2>1 DEF HashInv, Hashes
<1>2. HashInv /\ [Next]_vars => HashInv'
  <2> SUFFICES ASSUME HashInv, [Next]_vars PROVE HashInv'
    OBVIOUS
  <2>1. call' = call \/ NextTools
    BY DEF Next, Form, Table, Session, Cloud, vars
  <2>2. CASE call' = call
    BY Zenon, <2>2 DEF HashInv, Hashes
  <2> QED BY Zenon, <2>1, <2>2, NextHashInv
<1> QED BY <1>1, <1>2, PTL DEF Spec

LEMMA AlwaysPairInv == Spec => []PairInv
<1>1. Init => PairInv
  BY DEF Init, InitTools, NoCall, PairInv
<1>2. PairInv /\ [Next]_vars => PairInv'
  <2> SUFFICES ASSUME PairInv, [Next]_vars PROVE PairInv'
    OBVIOUS
  <2>1. call' = call \/ NextTools
    BY DEF Next, Form, Table, Session, Cloud, vars
  <2>2. CASE call' = call
    BY Zenon, <2>2 DEF PairInv
  <2> QED BY Zenon, <2>1, <2>2, NextPairInv
<1> QED BY <1>1, <1>2, PTL DEF Spec

\* The variables of every part keep their types: among the rest, the page marked exists
\* if any is (a deletion that throws marks none), a token in use was handed out, and the timers for the next query are
\* those of the runs that wait for it.
THEOREM PagesTypeOK == Spec => []TypeOK
<1>1. PagesInv => TypeOK
  <2> SUFFICES ASSUME PagesInv PROVE TypeOK
    OBVIOUS
  <2>1. /\ \A i \in DOMAIN data : DOMAIN data[i] \subseteq {"name", "ip"}
        /\ \A p \in DOMAIN rows : rows[p].kind \in {"data", "lazy"} \cup InHandKinds /\ rows[p].checked \in BOOLEAN
    <3>1. data \in Seq(Records) /\ rows \in Seq(TableRows)
      BY DEF PagesInv, GridInv
    <3>2. ASSUME NEW i \in DOMAIN data PROVE data[i] \in Records
      BY <3>1
    <3>3. ASSUME NEW p \in DOMAIN rows PROVE rows[p] \in TableRows
      BY <3>1
    <3> QED BY <3>2, <3>3, RecordFields DEF TableRows
  <2>2. /\ Len(rows) <= MaxRows /\ state \in {"default", "add", "edit"}
        /\ pages \in Nat /\ page \in 0..(IF pages = 0 THEN 1 ELSE pages) /\ view \subseteq DOMAIN rows
    BY DEF PagesInv, GridInv
  <2>3. /\ {authStatus, pwd, logoutHandle, login, lost} \subseteq BOOLEAN
        /\ code \in {"normal", "reset"} /\ timers \subseteq {"show", "fail"}
        /\ issued \in 0..MaxLogins /\ session \in 0..issued /\ valid \subseteq 1..issued
        /\ \A r \in Requests : flight[r].leg \in {"none", "first", "login", "again", "user"}
                               /\ flight[r].stok \in 0..issued
    <3>1. flight \in Flights
      BY DEF PagesInv, SessionInv, UserLogin
    <3>2. \A r \in Requests : flight[r].leg \in {"none", "first", "login", "again", "user"}
      BY <3>1 DEF Flights
    <3> QED BY <3>2 DEF PagesInv, SessionTypes
  <2>4. /\ stoped \in BOOLEAN /\ pollHd \in Ops \cup {NoOp} /\ waitHd \in Ops \cup {NoOp}
        /\ phase \in [Ops -> {"idle", "action", "query", "check", "poll", "gone"}]
        /\ polls = {op \in Ops : phase[op] = "poll"} /\ waits \subseteq Ops
        /\ reported \subseteq Ops /\ alone \subseteq Ops
    BY DEF PagesInv, CloudInv, CloudTypes
  <2>5. call.fn \in {"none", "hex", "b64", "str", "pair"}
    BY DEF PagesInv, CallTypes
  <2> QED BY <2>1, <2>2, <2>3, <2>4, <2>5 DEF TypeOK
<1> QED BY <1>1, AlwaysPagesInv, PTL

\* Whatever was added, edited, cancelled, deleted, refused or paged before, a
\* filled row shows the record that an edit or a deletion of it would reach.
THEOREM RowsShowRecords == Spec => []RowsShow
<1>1. PagesInv => RowsShow
  BY InvShows DEF PagesInv
<1> QED BY <1>1, AlwaysPagesInv, PTL

\* When no name is blank and the first records fit into the table, the table is
\* the list: no record is left beyond its rows.
THEOREM TableMirrorsList == ASSUME Named PROVE Spec => []RowsMirror
<1>1. ListInv => RowsMirror
  BY ListMirrors
<1> QED BY <1>1, AlwaysListInv, PTL

\* A deletion takes away the checked rows and no other, also while a row is
\* being added or edited and when it throws half-way.
THEOREM DeletionIsExact == ASSUME Named PROVE Spec => DeleteExact
<1>1. ListInv /\ [Next]_vars =>
        [DelClick =>
           LET left == {p \in Unchecked : rows[p].kind \notin {"add", "declined"}}
           IN  /\ Listed' = Cardinality(left)
               /\ \A p \in 1..Cardinality(left) :
                    Seen(rows', data', Len(rows') - Cardinality(left) + p)
                      = Seen(rows, data, Nth(left, p))]_gridVars
  BY DeletesExact DEF Left, Added
<1> QED BY <1>1, AlwaysListInv, PTL DEF Spec, DeleteExact

\* While an addition or an edit goes on over the same rows the records are as
\* they were: what a refused save wrote into one is taken back, and one that it
\* added is removed.
THEOREM RefusalRestores == Spec => RefusedSaveRestores
<1>1. PagesInv /\ [Next]_vars =>
        [state # "default" /\ state' = state /\ Len(rows') = Len(rows) =>
           /\ getListLen(data') = getListLen(data)
           /\ \A i \in 1..getListLen(data) : data'[i] = data[i]]_gridVars
  <2> SUFFICES ASSUME PagesInv, [Next]_vars, state # "default", state' = state, Len(rows') = Len(rows)
               PROVE  data' = data
    OBVIOUS
  <2>1. [NextGrid]_gridVars
    BY DEF Next, Form, Table, Session, Cloud, vars
  <2> QED BY <2>1, RefusedSaves DEF PagesInv
<1> QED BY <1>1, AlwaysPagesInv, PTL DEF Spec, RefusedSaveRestores

\* A pair of fields that passes the checks of verify.js is, as numbers, a mask of
\* leading ones and a host's address in its network, whatever was typed.
THEOREM AcceptedHosts == Spec => []HostInNetwork
<1> QED BY AlwaysPairInv, PairHost, PTL

\* Whichever of the three encodings a page asks for, in whichever case of digits or
\* with whichever padding character, it is given the same digest: that of the bytes of
\* the string.
THEOREM EncodingsAgree == Spec => []OneDigest
<1> QED BY AlwaysHashInv, HashInvDigest, PTL

\* The words core_md5 is given are the string's bytes, padded as RFC 1321 has it,
\* wherever the string ends in a word or a block.
THEOREM StringsPadded == Spec => []PaddedToBlocks
<1> QED BY AlwaysHashInv, HashInvPadded, PTL

\* The keyed digests are the nested ones of RFC 2104, for keys shorter and longer than
\* a block and characters of either size.
THEOREM KeyedNested == Spec => []HmacNested
<1> QED BY AlwaysHashInv, HashInvNested, PTL

\* However the answers to overlapping requests interleave, a page without a
\* session comes to the log-in page, unless an answer is lost.
THEOREM PageNotStranded == Spec => []NotStranded
<1>1. PagesInv => NotStranded
  BY DEF PagesInv, SessionInv
<1> QED BY <1>1, AlwaysPagesInv, PTL

\* A cloud action that runs alone has its own guard until it reports.
THEOREM RunsAreGuarded == Spec => []RunGuarded
<1>1. PagesInv => RunGuarded
  BY DEF PagesInv, CloudInv
<1> QED BY <1>1, AlwaysPagesInv, PTL
=============================================================================
