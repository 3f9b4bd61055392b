---------------------------- MODULE ProjectSetup ----------------------------
(***************************************************************************)
(* Setting a consuming project up: precision-squad-bootstrap-skill         *)
(* (bootstrap.py, deploy/) and `install-skill` write files that the people *)
(* of the project write too.                                               *)
(*                                                                         *)
(* A file is written by emptying it and filling it, and a process may die  *)
(* in between.                                                             *)
(***************************************************************************)
EXTENDS Naturals

CONSTANT MaxSteps     \* bound: bootstraps, and deeds of others, in a behaviour

ASSUME MaxStepsAssumption == MaxSteps \in Nat

VARIABLES
  below,     \* the directories of bootstrap's own that the project lies somewhere below
  file,      \* file[f]: what is in it
  step,      \* what the bootstrap under way does next
  opened,    \* the file it has emptied and not yet filled
  outcome,   \* how the last bootstrap ended
  fresh,     \* the files were up to date when it began (observed)
  touched,   \* the files others touched since (observed)
  wrote,     \* the files it emptied (observed)
  steps      \* counter (bounds the model)

observed == <<fresh, touched, wrote>>
vars     == <<below, file, step, opened, outcome, observed, steps>>

\* "root": the .precision-squad.toml read before "config", .precision-squad/precision-squad.toml;
\* "meta": .precision-squad/bootstrap/bootstrap.json.
File == {"skill", "config", "root", "meta"}

\* "template": what this version of bootstrap writes. "managed": anything else with one of its
\* markers. No marker has what people write, nor the skill `install-skill` copies.
\* "recorded": metadata without outcomes.
Content == {"absent", "empty", "template", "managed", "users", "packaged", "recorded"}

Init ==
  /\ below \in SUBSET {".precision-squad", "bootstrap"}
  /\ file \in [File -> {"absent", "users", "managed"}]
  /\ file["root"] # "managed" /\ file["meta"] = "absent"
  /\ step = "idle" /\ opened = "none" /\ outcome = "none"
  /\ fresh = FALSE /\ touched = {} /\ wrote = {} /\ steps = 0

Exists(f) == file[f] # "absent"

Put(f, c) == file' = [file EXCEPT ![f] = c]

-----------------------------------------------------------------------------
(* precision-squad-bootstrap-skill.                                        *)

\* Slip: the marker is not looked for in the skill.
ManagedConfigOnly(f) == f = "skill" \/ file[f] \in {"template", "managed"}

\* The names on the path of f that are among bootstrap's own.
Names(f) == below \union (IF f = "config" THEN {".precision-squad"} ELSE {})

\* _is_bootstrap_managed: by its marker, or by the names on its path.
Managed(f) ==
  \/ file[f] \in {"template", "managed"}
  \/ Names(f) = {".precision-squad", "bootstrap"}

Conflicts(f) == Exists(f) /\ ~Managed(f)

\* Slip: a bootstrap that ended stands for one under way.
EndLingering(how) == step' = how /\ outcome' = how

End(how) == step' = "idle" /\ outcome' = how

\* The prerequisites do not hold, or the root configuration is in the way.
Begin ==
  /\ step = "idle" /\ steps < MaxSteps
  /\ steps' = steps + 1
  /\ fresh' = (file["skill"] = "template" /\ file["config"] = "template")
  /\ touched' = {} /\ wrote' = {}
  /\ \/ End("failed")
     \/ Exists("root") /\ End("refused")
     \/ ~Exists("root") /\ step' = "check_config" /\ outcome' = "none"
  /\ UNCHANGED <<below, file, opened>>

CheckConfig ==
  /\ step = "check_config"
  /\ IF Conflicts("config") THEN End("refused") ELSE step' = "check_skill" /\ UNCHANGED outcome
  /\ UNCHANGED <<below, file, opened, observed, steps>>

CheckSkill ==
  /\ step = "check_skill"
  /\ IF Conflicts("skill") THEN End("refused") ELSE step' = "skill" /\ UNCHANGED outcome
  /\ UNCHANGED <<below, file, opened, observed, steps>>

\* Slip: the configuration is looked at once more before it is written.
FollowingChecked == [skill |-> "check_config", config |-> "meta", meta |-> "outcomes"]

Following == [skill |-> "config", config |-> "meta", meta |-> "outcomes"]

Target(s) == IF s = "outcomes" THEN "meta" ELSE s

\* Slip: whatever has the marker is left as it is.
SatisfiedIfManaged(f) == f # "meta" /\ file[f] \in {"template", "managed"}

\* Slip: files are written whatever is in them.
SatisfiedNever(f) == FALSE

\* Metadata carries a timestamp, and is written every time.
Satisfied(f) == f # "meta" /\ file[f] = "template"

Empty(s) ==
  LET f == Target(s)
  IN  /\ step = s /\ opened = "none"
      /\ IF Satisfied(f)
         THEN step' = Following[s] /\ UNCHANGED <<file, opened, wrote>>
         ELSE /\ Put(f, "empty")
              /\ opened' = f /\ wrote' = wrote \union {f}
              /\ UNCHANGED step
      /\ UNCHANGED <<below, outcome, fresh, touched, steps>>

Fill(s) ==
  LET f == Target(s)
  IN  /\ step = s /\ opened = f
      /\ Put(f, IF s = "meta" THEN "recorded" ELSE "template")
      /\ opened' = "none"
      /\ IF s = "outcomes" THEN End("done") ELSE step' = Following[s] /\ UNCHANGED outcome
      /\ UNCHANGED <<below, observed, steps>>

\* Killed, or a file cannot be written.
Die ==
  /\ step # "idle"
  /\ End("failed") /\ opened' = "none"
  /\ UNCHANGED <<below, file, observed, steps>>

-----------------------------------------------------------------------------
(* Others, at any time.                                                    *)

Deed(f, c) ==
  /\ steps < MaxSteps /\ steps' = steps + 1
  /\ Put(f, c)
  /\ touched' = touched \union {f}
  /\ UNCHANGED <<below, step, opened, outcome, fresh, wrote>>

\* People write, edit and remove their files; an edit leaves the marker where it is.
People(f) ==
  \/ Deed(f, "absent")
  \/ Deed(f, "users")
  \/ file[f] \in {"template", "managed"} /\ Deed(f, "managed")

\* _install_skill, which may be killed between emptying the file and filling it.
InstallSkill ==
  \E force \in BOOLEAN, c \in {"packaged", "empty"} :
    (Exists("skill") => force) /\ Deed("skill", c)

-----------------------------------------------------------------------------
Bootstrap ==
  \/ Begin \/ CheckConfig \/ CheckSkill
  \/ \E s \in {"skill", "config", "meta", "outcomes"} : Empty(s) \/ Fill(s)
  \/ Die

Next ==
  \/ Bootstrap
  \/ \E f \in {"skill", "config", "root"} : People(f)
  \/ InstallSkill

Spec == Init /\ [][Next]_vars

-----------------------------------------------------------------------------
(* Properties.                                                             *)

TypeOK ==
  /\ below \subseteq {".precision-squad", "bootstrap"}
  /\ file \in [File -> Content]
  /\ step \in {"idle", "check_config", "check_skill", "skill", "config", "meta", "outcomes"}
  /\ opened \in {"none", "skill", "config", "meta"}
  /\ outcome \in {"none", "refused", "failed", "done"}
  /\ fresh \in BOOLEAN /\ touched \subseteq File /\ wrote \subseteq File
  /\ steps \in 0..MaxSteps

\* bootstrap.py promises that existing user-managed files will not be overwritten. None
\* is that was there before the bootstrap began, but for one whose path makes it
\* bootstrap's own: the configuration of a project below a directory "bootstrap", and the
\* skill of one that is below a ".precision-squad" too.
UsersFilesKept ==
  [][\A f \in {"skill", "config"} :
       file[f] \in {"users", "packaged"} /\ f \in wrote' \ wrote =>
         f \in touched \/ Names(f) = {".precision-squad", "bootstrap"}]_vars

\* A bootstrap that refuses has written nothing: every conflict is found before the
\* first file is touched, whatever others do to the files meanwhile (write_managed_surface).
RefusedWroteNothing == outcome = "refused" => wrote = {}

\* A bootstrap that ends well leaves every file as this version writes it, and its
\* metadata complete, unless others wrote to them in the meantime.
DoneIsInstalled ==
  outcome = "done" =>
    \A f \in {"skill", "config", "meta"} \ touched : file[f] = "template"

\* A bootstrap of a project that is up to date leaves the files alone (and so cannot
\* leave one of them empty when it is killed).
Idempotent == fresh => wrote \subseteq touched \union {"meta"}
=============================================================================
