----------------------------- MODULE StageGates -----------------------------
(***************************************************************************)
(* What the staged workflow promises, without artifacts or commands: each  *)
(* run clears gates, one at a time and each over the gates before it, and  *)
(* the only ways to an approved implementation are to build the run while  *)
(* its plan is cleared or to inherit the approval of another run.          *)
(***************************************************************************)
EXTENDS Naturals

CONSTANT RunId

Gate == {"issue", "plan", "verdict", "publish"}

VARIABLES
  cleared,    \* cleared[r]: the gates run r stands past
  building    \* the runs whose implementation is under way

vars == <<cleared, building>>

TypeOK == cleared \in [RunId -> SUBSET Gate] /\ building \subseteq RunId

Init == cleared = [r \in RunId |-> {}] /\ building = {}

Open(r, g)  == cleared' = [cleared EXCEPT ![r] = @ \union {g}]
Close(r, g) == cleared' = [cleared EXCEPT ![r] = @ \ {g}]

ClearIssue(r) == Open(r, "issue") /\ UNCHANGED building

\* A plan is cleared over a cleared issue, and may be found wanting later.
ClearPlan(r)    == "issue" \in cleared[r] /\ Open(r, "plan") /\ UNCHANGED building
WithdrawPlan(r) == Close(r, "plan") /\ UNCHANGED building

\* Work begins on a cleared plan; it may be given up without a verdict.
Build(r) ==
  /\ "plan" \in cleared[r]
  /\ building' = building \union {r}
  /\ UNCHANGED cleared

GiveUp(r) == building' = building \ {r} /\ UNCHANGED cleared

\* A verdict is about work that was under way; another process may be at it still.
Judge(r) ==
  /\ r \in building
  /\ Open(r, "verdict") \/ Close(r, "verdict")
  /\ building' \in {building, building \ {r}}

\* A resumed run takes over the verdict of the run it retries.
Inherit(r, s) ==
  /\ {"issue", "plan"} \subseteq cleared[r]
  /\ "verdict" \in cleared[s]
  /\ Open(r, "verdict")
  /\ UNCHANGED building

\* A pull request is planned on an approval only; or the plan for it is carried over.
PlanPr(r) ==
  /\ {"issue", "verdict"} \subseteq cleared[r]
  /\ Open(r, "publish")
  /\ UNCHANGED building

InheritPr(r, s) ==
  /\ "publish" \in cleared[s]
  /\ "issue" \in cleared[r]
  /\ Open(r, "publish")
  /\ UNCHANGED building

Next ==
  \E r \in RunId :
    \/ ClearIssue(r) \/ ClearPlan(r) \/ WithdrawPlan(r)
    \/ Build(r) \/ GiveUp(r) \/ Judge(r)
    \/ PlanPr(r)
    \/ \E s \in RunId : Inherit(r, s) \/ InheritPr(r, s)

Spec == Init /\ [][Next]_vars

\* A run is past no gate without the reviewed issue.
IssueFirst == \A r \in RunId : cleared[r] # {} => "issue" \in cleared[r]
=============================================================================
