------------------------------- MODULE WebPages -------------------------------
(***************************************************************************)
(* A browser shows one of the pages' parts: a form that hashes and checks  *)
(* what was typed (PageTools), a table (DataGrid), a page whose requests   *)
(* need a session (WebSession) or one that runs cloud actions              *)
(* (CloudAction).  They share no state but what WebSession hands to the    *)
(* others: the answer without data that a run of CloudAction may get.      *)
(***************************************************************************)
EXTENDS PageTools, DataGrid, WebSession, CloudAction

VARIABLE shown

vars == <<shown, call, gridVars, sessionVars, cloudVars>>

Init ==
  /\ shown \in {"form", "table", "session", "cloud"}
  /\ InitTools
  /\ InitGrid
  /\ InitSession /\ (shown = "session" \/ ~pwd)
  /\ InitCloud

Form    == shown = "form" /\ NextTools /\ UNCHANGED <<shown, gridVars, sessionVars, cloudVars>>
Table   == shown = "table" /\ NextGrid /\ UNCHANGED <<shown, call, sessionVars, cloudVars>>
Session == shown = "session" /\ NextSession /\ UNCHANGED <<shown, call, gridVars, cloudVars>>
Cloud   == shown = "cloud" /\ NextCloud /\ UNCHANGED <<shown, call, gridVars, sessionVars>>

Next == Form \/ Table \/ Session \/ Cloud

\* Only the browser's own timer is relied on; no answer need ever come.
WaitTimer(op) ==
  shown = "cloud" /\ WaitFires(op) /\ UNCHANGED <<shown, call, gridVars, sessionVars>>

Spec == Init /\ [][Next]_vars /\ \A op \in Ops : WF_vars(WaitTimer(op))

------------------------------------------------------------------------------
\* The fields of records are the two of the list, the page marked exists, if any is, a
\* token in use was handed out, and a timer handle names an operation.
TypeOK ==
  /\ call.fn \in {"none", "hex", "b64", "str", "pair"}
  /\ \A i \in DOMAIN data : DOMAIN data[i] \subseteq {"name", "ip"}
  /\ \A p \in DOMAIN rows : rows[p].kind \in {"data", "lazy"} \cup InHandKinds /\ rows[p].checked \in BOOLEAN
  /\ Len(rows) <= MaxRows /\ state \in {"default", "add", "edit"}
  /\ pages \in Nat /\ page \in 0..(IF pages = 0 THEN 1 ELSE pages) /\ view \subseteq DOMAIN rows
  /\ {authStatus, pwd, logoutHandle, login, lost} \subseteq BOOLEAN
  /\ code \in {"normal", "reset"} /\ timers \subseteq {"show", "fail"}
  /\ issued \in 0..MaxLogins /\ session \in 0..issued /\ valid \subseteq 1..issued
  /\ \A r \in Requests : flight[r].leg \in {"none", "first", "login", "again", "user"}
                         /\ flight[r].stok \in 0..issued
  /\ stoped \in BOOLEAN /\ pollHd \in Ops \cup {NoOp} /\ waitHd \in Ops \cup {NoOp}
  /\ phase \in [Ops -> {"idle", "action", "query", "check", "poll", "gone"}]
  /\ polls = {op \in Ops : phase[op] = "poll"} /\ waits \subseteq Ops
  /\ reported \subseteq Ops /\ alone \subseteq Ops
==============================================================================
