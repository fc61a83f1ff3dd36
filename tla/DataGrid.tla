------------------------------- MODULE DataGrid -------------------------------
(***************************************************************************)
(* The editable table of the pages (DataGrid.js) with a head row, a box to *)
(* check in every row and synchronous callbacks.  `data' is the array of   *)
(* records, a record the function of its defined fields; `rows' are the    *)
(* rows below the head, the last record first: a row is filled (or, on a   *)
(* page not yet turned to, lazy), or it is the row being added or edited.  *)
(* Record i of the array is data[i + 1].  `view' has the positions of the  *)
(* rows on display, `page' is the number marked in the list of pages (0    *)
(* where a deletion broke off before it marked one).  Operators have the   *)
(* names of the code's private methods without their underscore.           *)
(***************************************************************************)
EXTENDS Verify

CONSTANTS
  Names,     \* texts of the first field (str), the one that ends the list when blank
  Addresses, \* texts of the second field (ip), good ones and BadFormat
  Blank,     \* the empty text
  PageSize,  \* paging.num
  MaxRows,   \* max
  FirstData  \* the records the page starts with

VARIABLES data, rows, state, page, pages, view

gridVars == <<data, rows, state, page, pages, view>>

Texts == Names \cup Addresses \cup {Blank}
         \cup UNION {{FirstData[i].name, FirstData[i].ip} : i \in DOMAIN FirstData}
Records == [name : Texts, ip : Texts]

ASSUME GridAssumption ==
  /\ PageSize \in Nat \ {0}
  /\ MaxRows \in Nat
  /\ FirstData \in Seq(Records)

\* A row being added, one whose addition the page declined, one being edited.
InHandKinds == {"add", "declined", "edit"}

NoRecord == <<>>
Row(kind, shows) == [kind |-> kind, shows |-> shows, checked |-> FALSE]

\* The length of the list: up to the first record without the check field.
getListLen(d) ==
  CHOOSE n \in 0..Len(d) :
    /\ \A i \in 1..n : "name" \in DOMAIN d[i] /\ d[i].name # Blank
    /\ n < Len(d) => "name" \notin DOMAIN d[n + 1] \/ d[n + 1].name = Blank

\* The data index of the row at position p below the head, of n rows.
getTrIndexInDataObj(p, n) == n - p

OnPage(p, k) == p \in ((k - 1) * PageSize + 1)..(k * PageSize)

\* changeTable: the rows of the page that were never filled are filled now.
changeTable(rs, k, d) ==
  [p \in 1..Len(rs) |->
     IF OnPage(p, k) /\ rs[p].kind = "lazy"
     THEN Row("data", d[getTrIndexInDataObj(p, Len(rs)) + 1]) ELSE rs[p]]

\* contentCreate: one row for every listed record, filled on page k only; no
\* page (Refresh without an argument) fills them all.
contentCreate(d, k) ==
  LET n == IF getListLen(d) > MaxRows THEN MaxRows ELSE getListLen(d)
  IN  [p \in 1..n |-> IF k = 0 \/ OnPage(p, k) THEN Row("data", d[n - p + 1])
                                               ELSE Row("lazy", NoRecord)]

\* The page that row n is on, and the number of pages n rows take.
PageOf(n) == (n + PageSize - 1) \div PageSize
OnPages(k, n) == {p \in 1..n : OnPage(p, k)}

\* Slip: the page shown stays the one it was.
PageListKeepsPage(n) ==
  /\ pages' = PageOf(n)
  /\ view' = OnPages(page, n) /\ page' = page

\* pageList: as many pages as n rows take, shown from page 1.
pageList(n) ==
  /\ pages' = PageOf(n)
  /\ view' = OnPages(1, n) /\ page' = 1

\* refresh
refresh(d, k) ==
  /\ data' = d
  /\ rows' = changeTable(contentCreate(d, k), 1, d)
  /\ state' = "default"
  /\ pageList(Len(contentCreate(d, k)))

blankData(r) == [f \in DOMAIN r |-> Blank]

\* The row in hand; a deletion may have taken it away, and then saving and
\* cancelling throw before they change anything.
HasEditTr == \E p \in 1..Len(rows) : rows[p].kind \in InHandKinds
EditTr == CHOOSE p \in 1..Len(rows) : rows[p].kind \in InHandKinds

------------------------------------------------------------------------------
InitGrid ==
  /\ data = FirstData
  /\ rows = contentCreate(FirstData, 1)
  /\ state = "default"
  /\ page = 1 /\ pages = PageOf(Len(rows)) /\ view = OnPages(1, Len(rows))

\* A new row on top, on page 1.  When the page's own callback declines, the
\* row stays, with its box, above the rows on display, and no page is turned.
AddClick(accept) ==
  /\ state = "default"
  /\ Len(rows) # MaxRows
  /\ state' = "add"
  /\ \/ /\ accept
        /\ rows' = changeTable(<<Row("add", NoRecord)>> \o rows, 1, data)
        /\ pageList(Len(rows) + 1)
     \/ /\ ~accept
        /\ rows' = <<Row("declined", NoRecord)>> \o rows
        /\ view' = {1} \cup {p + 1 : p \in view}
        /\ UNCHANGED <<page, pages>>
  /\ UNCHANGED data

EditClick(p) ==
  /\ state = "default"
  /\ p \in view /\ rows[p].kind = "data"
  /\ state' = "edit"
  /\ rows' = [rows EXCEPT ![p].kind = "edit", ![p].shows = data[getTrIndexInDataObj(p, Len(rows)) + 1]]
  /\ UNCHANGED <<data, page, pages, view>>

\* The fields are written one after the other; the first that fails its check
\* ends the writing.  old are the values replaced (of the defined fields).
SaveData(r, typed) ==
  LET fails(f) == f = "ip" /\ checkIp(typed[f], {}) # "ENONE"
      written  == IF fails("name") THEN {} ELSE IF fails("ip") THEN {"name"} ELSE {"name", "ip"}
      old      == [f \in written \cap DOMAIN r |-> r[f]]
  IN  [ok      |-> \A f \in DOMAIN typed : ~fails(f),
       changed |-> \E f \in written : f \notin DOMAIN r \/ r[f] # typed[f],
       old     |-> old,
       record  |-> [f \in written \cup DOMAIN r |-> IF f \in written THEN typed[f] ELSE r[f]]]

\* The record the row in hand belongs to, and the array that has it (an added
\* one takes the record at the end of the list that a deletion left blank).
SaveIndex == IF state = "add" THEN Len(rows) - 1
             ELSE getTrIndexInDataObj(EditTr, Len(rows))
Holding(d, g) == IF g = Len(d) THEN Append(d, NoRecord) ELSE d

\* Slips: only an edit is undone, or only an addition.
RestoresEdit(d, g, old) ==
  IF old # NoRecord
  THEN [d EXCEPT ![g + 1] = [f \in DOMAIN @ |-> IF f \in DOMAIN old THEN old[f] ELSE @[f]]]
  ELSE d
RestoresAddition(d, g, old) == IF state = "add" THEN RemoveAt(d, g + 1) ELSE d

\* A refused save puts the replaced values back, or removes the added record.
Restored(d, g, old) ==
  IF old # NoRecord
  THEN [d EXCEPT ![g + 1] = [f \in DOMAIN @ |-> IF f \in DOMAIN old THEN old[f] ELSE @[f]]]
  ELSE IF state = "add" THEN RemoveAt(d, g + 1) ELSE d

\* accept is the answer of the page's own save callback.
SaveClick(typed, accept) ==
  /\ state # "default" /\ HasEditTr
  /\ LET g    == SaveIndex
         d    == Holding(data, g)
         save == SaveData(d[g + 1], typed)
         new  == [d EXCEPT ![g + 1] = save.record]
     IN  IF save.ok /\ (accept \/ (state = "edit" /\ ~save.changed))
         THEN /\ data' = new
              /\ rows' = [rows EXCEPT ![EditTr] = [Row("data", save.record) EXCEPT !.checked = rows[EditTr].checked]]
              /\ state' = "default"
         ELSE /\ data' = Restored(new, g, save.old)
              /\ UNCHANGED <<rows, state>>
  /\ UNCHANGED <<page, pages, view>>

CancelClick ==
  /\ state # "default" /\ HasEditTr
  /\ state' = "default"
  /\ IF state = "edit"
     THEN /\ rows' = [rows EXCEPT ![EditTr].kind = "data",
                                  ![EditTr].shows = data[SaveIndex + 1]]
          /\ UNCHANGED <<page, pages, view>>
     ELSE IF Len(rows) = 1
          THEN rows' = <<>> /\ view' = {} /\ UNCHANGED <<page, pages>>
          ELSE /\ rows' = changeTable(Tail(rows), 1, data)
               /\ pageList(Len(rows) - 1)
  /\ UNCHANGED data

\* A box of a row in view; the box in the head checks or clears them all.
Boxes == {p \in 1..Len(rows) : p \in view /\ rows[p].kind \in {"data", "edit", "declined"}}
SelectClick(p) ==
  /\ p \in Boxes
  /\ rows' = [rows EXCEPT ![p].checked = ~@]
  /\ UNCHANGED <<data, state, page, pages, view>>
SelectAll(b) ==
  /\ Boxes # {}
  /\ rows' = [p \in 1..Len(rows) |-> IF p \in Boxes THEN [rows[p] EXCEPT !.checked = b] ELSE rows[p]]
  /\ UNCHANGED <<data, state, page, pages, view>>

\* The i-th number of a finite set, from the least one.
Nth(S, i) == CHOOSE n \in S : Cardinality({m \in S : m <= n}) = i

\* Slip: the row being added is left out of the count twice.
CheckedIndexTwice(p) == Len(rows) - p - (IF state = "add" THEN 1 ELSE 0)
CheckedIndex(p) == getTrIndexInDataObj(p, Len(rows))

\* The records of the checked rows are blanked and moved to the end, the last
\* one first (the row of a declined addition may have none yet).
Checked == {p \in 1..Len(rows) : rows[p].checked}
WithoutChecked ==
  LET gone == 1..Len(data) \cap {CheckedIndex(p) + 1 : p \in Checked}
      kept == 1..Len(data) \ gone
      many == Cardinality(gone)
  IN  [i \in 1..Cardinality(kept) |-> data[Nth(kept, i)]]
      \o [i \in 1..many |-> blankData(data[Nth(gone, many + 1 - i)])]

\* The rows that a deletion leaves, and how many of them are records.
Unchecked == 1..Len(rows) \ Checked
LeftListed == Cardinality(Unchecked) - (IF state = "add" THEN 1 ELSE 0)

\* The page turned to is the one of the first row deleted, also when the list
\* has lost that page: there _listNodeClick throws.
DelThrows == LeftListed > PageSize /\ PageOf(Nth(Checked, 1)) > PageOf(LeftListed)

\* The table is built anew, without an addition or edit under way, unless the
\* deletion throws: the rows left then stay as they are, an addition or edit
\* goes on, and no page is marked in the new list.
DelClick ==
  /\ Checked # {}
  /\ \/ ~DelThrows /\ refresh(WithoutChecked, 0)
     \/ /\ DelThrows
        /\ data' = WithoutChecked
        /\ rows' = [p \in 1..Cardinality(Unchecked) |-> rows[Nth(Unchecked, p)]]
        /\ view' = {p \in 1..Cardinality(Unchecked) : Nth(Unchecked, p) \in view}
        /\ pages' = PageOf(LeftListed) /\ page' = 0
        /\ UNCHANGED state

\* After the confirmation only a blank record is left.
CleanClick ==
  /\ rows # <<>> \/ state # "default"
  /\ refresh(IF data = <<>> THEN data ELSE <<blankData(data[1])>>, 1)

ChangePage(k) ==
  /\ k \in 1..pages /\ k # page
  /\ page' = k /\ view' = OnPages(k, Len(rows))
  /\ rows' = changeTable(rows, k, data)
  /\ UNCHANGED <<data, state, pages>>

RefreshClick == refresh(data, 1)

NextGrid ==
  \/ \E b \in BOOLEAN : AddClick(b)
  \/ \E p \in 1..Len(rows) : EditClick(p)
  \/ \E n \in Names, a \in Addresses, b \in BOOLEAN : SaveClick([name |-> n, ip |-> a], b)
  \/ CancelClick
  \/ \E p \in 1..Len(rows) : SelectClick(p)
  \/ \E b \in BOOLEAN : SelectAll(b)
  \/ DelClick
  \/ CleanClick
  \/ \E k \in 1..pages : ChangePage(k)
  \/ RefreshClick

------------------------------------------------------------------------------
\* Every filled row shows the record that an edit or a deletion of that row
\* would reach, whatever was added, cancelled, deleted, refused or paged before.
RowsShow ==
  \A p \in 1..Len(rows) : rows[p].kind \in {"data", "edit"} =>
    /\ Len(rows) - p + 1 \in DOMAIN data
    /\ rows[p].shows = data[Len(rows) - p + 1]

\* The records beyond the rows are blank.
Listed == Len(rows) - (IF state = "add" THEN 1 ELSE 0)
RestBlank ==
  \A i \in DOMAIN data : i > Listed => \A f \in DOMAIN data[i] : data[i][f] = Blank

\* The rows are the list: each shows the record it stands for, and beyond them
\* there is no other.
RowsMirror == RowsShow /\ RestBlank

\* The record that row p of rs stands for, filled in or not yet.
Seen(rs, d, p) == IF rs[p].kind = "lazy" THEN d[getTrIndexInDataObj(p, Len(rs)) + 1]
                  ELSE rs[p].shows

\* Deleting takes the checked rows away and no other, whether it ends or throws
\* half-way: the records left unchecked are listed afterwards, in their order.
DeleteExact ==
  [][DelClick =>
       LET left == {p \in Unchecked : rows[p].kind \notin {"add", "declined"}}
       IN  /\ Listed' = Cardinality(left)
           /\ \A p \in 1..Cardinality(left) :
                Seen(rows', data', Len(rows') - Cardinality(left) + p)
                  = Seen(rows, data, Nth(left, p))]_gridVars

\* As long as an addition or an edit goes on over the same rows, refused saves
\* included, the listed records are what they were.  (A deletion that throws
\* leaves the addition or the edit under way, over fewer rows.)
RefusedSaveRestores ==
  [][state # "default" /\ state' = state /\ Len(rows') = Len(rows) =>
       /\ getListLen(data') = getListLen(data)
       /\ \A i \in 1..getListLen(data) : data'[i] = data[i]]_gridVars
==============================================================================
