------------------------------ MODULE SharedStore ------------------------------
(***************************************************************************)
(* What the Decision Stores of several devices promise together: the       *)
(* records they publish on the remote only accumulate, as long as the      *)
(* commands of each device exclude each other.                             *)
(***************************************************************************)
VARIABLES
  shared,  \* record id -> record, of the records published so far
  lapsed   \* two commands of one device may have worked at once

CaseIds(records) == {id \in DOMAIN records : id[1] = "case"}

\* A case and a rule are never changed; a candidate gains evidence and may be
\* promoted, once.
Extends(old, new) ==
  \A id \in DOMAIN old :
    /\ id \in DOMAIN new
    /\ \/ new[id] = old[id]
       \/ /\ id[1] = "candidate" /\ old[id].rule = <<>> /\ old[id].evidence \subseteq new[id].evidence

\* A rule rests on two captured cases, or was approved by a human on some
\* evidence.
Founded(records) ==
  \A id \in DOMAIN records : id[1] = "rule" =>
    \/ \E a, b \in records[id].evidence \cap CaseIds(records) : a # b
    \/ records[id].authoritative /\ records[id].evidence # {}

Init == shared = <<>> /\ lapsed = FALSE
Publish == Extends(shared, shared') /\ Founded(shared') /\ UNCHANGED lapsed
Lapse == UNCHANGED shared /\ lapsed' = TRUE
Lapsed == lapsed /\ UNCHANGED lapsed
Spec == Init /\ [][Publish \/ Lapse \/ Lapsed]_<<shared, lapsed>>
================================================================================
