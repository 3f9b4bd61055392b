---------------------------- MODULE MCRepairLoop ----------------------------
(* Instances of RepairLoop for TLC: two of the tests fail with the same line. *)
EXTENDS RepairLoop, TLC

CONSTANTS t1, t2, t3, m1, m2, m3

TwoLines == t1 :> m1 @@ t2 :> m2 @@ t3 :> m2

\* Test failures and documentation findings do not bear on one another.
Apart == { s \in Snapshot : s.fails = {} \/ s.docs = {} }
NoDocs == { s \in Snapshot : s.docs = {} }

CodeIssue == { i \in Issue : ~i.docs /\ i.target = {} /\ i.known = {} }
AnyIssue  == CodeIssue \union { i \in Issue : i.docs }

AnyTrouble == {"unrunnable", "failed_infra"}
Unrunnable == {"unrunnable"}
NoTrouble  == {}
=============================================================================
