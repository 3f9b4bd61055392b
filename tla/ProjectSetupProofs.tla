------------------------- MODULE ProjectSetupProofs -------------------------
(***************************************************************************)
(* Proofs about ProjectSetup, for behaviours of any length: what bootstrap *)
(* may write and leave behind, whatever people do to the files meanwhile.  *)
(***************************************************************************)
EXTENDS ProjectSetup, TLAPS

Checking == {"check_config", "check_skill"}

\* Nothing is written before the checks are over, and no end is on record before the end.
Orderly ==
  /\ step \in Checking => wrote = {}
  /\ step # "idle" => outcome = "none"

\* A file that was checked is not one people wrote, unless they have since.
NotUsers(f) ==
  \/ f \in touched \/ file[f] \notin {"users", "packaged"}
  \/ Names(f) = {".precision-squad", "bootstrap"}

Checked ==
  /\ step \notin {"idle", "check_config"} => NotUsers("config")
  /\ step \notin {"idle", "check_config", "check_skill"} => NotUsers("skill")

\* What the bootstrap has seen to is as it wrote it, unless others wrote to it.
Installed(f) == f \in touched \/ file[f] = "template"

SeenTo ==
  /\ step \in {"config", "meta", "outcomes"} => Installed("skill")
  /\ step \in {"meta", "outcomes"} => Installed("config")

\* Files that were up to date are left alone.
StillFresh == fresh => Installed("skill") /\ Installed("config")

IInv ==
  /\ TypeOK
  /\ Orderly /\ Checked /\ SeenTo /\ StillFresh
  /\ RefusedWroteNothing /\ DoneIsInstalled /\ Idempotent

-----------------------------------------------------------------------------
LEMMA PutSafe ==
  ASSUME TypeOK, NEW f \in File, NEW c \in Content, Put(f, c)
  PROVE  /\ file' \in [File -> Content] /\ file'[f] = c
         /\ \A g \in File : g # f => file'[g] = file[g]
BY DEF TypeOK, Put

-----------------------------------------------------------------------------
LEMMA BeginStep ==
  ASSUME IInv, Begin
  PROVE  IInv'
<1> USE DEF IInv, Begin
<1>1. TypeOK'
  BY MaxStepsAssumption DEF TypeOK, End
<1>2. Orderly' /\ Checked' /\ SeenTo'
  BY DEF End, Orderly, Checking, Checked, SeenTo
<1>3. StillFresh' /\ RefusedWroteNothing' /\ DoneIsInstalled' /\ Idempotent'
  BY DEF End, StillFresh, Installed, RefusedWroteNothing, DoneIsInstalled, Idempotent
<1> QED BY <1>1, <1>2, <1>3

LEMMA CheckStep ==
  ASSUME IInv, CheckConfig \/ CheckSkill
  PROVE  IInv'
<1> USE DEF IInv, CheckConfig, CheckSkill
<1>0. UNCHANGED <<below, file, opened, fresh, touched, wrote, steps>>
  BY DEF observed
<1>1. TypeOK'
  BY <1>0 DEF TypeOK, End
<1>2. Orderly' /\ SeenTo'
  BY <1>0 DEF End, Orderly, Checking, SeenTo
<1>3. \A f \in {"config", "skill"} : ~Conflicts(f) => NotUsers(f)
  BY DEF Conflicts, Managed, Exists, NotUsers
<1>4. Checked'
  BY <1>0, <1>3 DEF End, Checked, NotUsers, Names
<1>5. StillFresh' /\ RefusedWroteNothing' /\ DoneIsInstalled' /\ Idempotent'
  BY <1>0 DEF End, StillFresh, Installed, RefusedWroteNothing, DoneIsInstalled, Idempotent,
     Orderly, Checking
<1> QED BY <1>1, <1>2, <1>4, <1>5

Writing == {"skill", "config", "meta", "outcomes"}

LEMMA EmptyStep ==
  ASSUME IInv, NEW s \in Writing, Empty(s)
  PROVE  IInv'
<1>0. /\ step = s /\ outcome = "none" /\ Target(s) \in File
      /\ UNCHANGED <<below, outcome, fresh, touched, steps>>
  BY DEF Empty, IInv, Orderly, Target, File, Writing
<1>1. CASE Satisfied(Target(s))
  <2>1. /\ step' = Following[s] /\ UNCHANGED <<file, opened, wrote>>
        /\ s \in {"skill", "config"} /\ file[s] = "template"
    BY <1>1 DEF Empty, Satisfied, Target, Writing
  <2>2. TypeOK'
    BY <1>0, <2>1 DEF IInv, TypeOK, Following
  <2>3. Orderly' /\ Checked' /\ SeenTo'
    BY <1>0, <2>1 DEF IInv, Following, Orderly, Checking, Checked, NotUsers, Names, SeenTo,
       Installed
  <2>4. StillFresh' /\ RefusedWroteNothing' /\ DoneIsInstalled' /\ Idempotent'
    BY <1>0, <2>1
       DEF IInv, StillFresh, Installed, RefusedWroteNothing, DoneIsInstalled, Idempotent
  <2> QED BY <2>2, <2>3, <2>4 DEF IInv
<1>2. CASE ~Satisfied(Target(s))
  <2>0. PICK f \in File : f = Target(s)
    BY <1>0
  <2>1. /\ Put(f, "empty") /\ opened' = f /\ wrote' = wrote \union {f}
        /\ step' = step /\ "empty" \in Content
        /\ f \in {"skill", "config", "meta"} /\ (f # "meta" => f = s /\ file[f] # "template")
    BY <1>2, <2>0 DEF Empty, Satisfied, Target, Writing, Content
  <2>2. /\ file' \in [File -> Content] /\ file'[f] = "empty"
        /\ \A g \in File : g # f => file'[g] = file[g]
    BY <1>0, <2>1, PutSafe DEF IInv
  <2>3. TypeOK'
    BY <1>0, <2>1, <2>2 DEF IInv, TypeOK
  <2>4. Orderly' /\ Checked' /\ SeenTo'
    BY <1>0, <2>1, <2>2
       DEF IInv, Orderly, Checking, Writing, Checked, NotUsers, SeenTo, Installed, File, Names
  <2>5. f # "meta" /\ fresh => f \in touched
    BY <2>1 DEF IInv, StillFresh, Installed
  <2>6. StillFresh' /\ RefusedWroteNothing' /\ DoneIsInstalled' /\ Idempotent'
    BY <1>0, <2>1, <2>2, <2>5 DEF IInv, StillFresh, Installed, RefusedWroteNothing,
       DoneIsInstalled, Idempotent, File
  <2> QED BY <2>2, <2>3, <2>4, <2>6 DEF IInv
<1> QED BY <1>1, <1>2

LEMMA FillStep ==
  ASSUME IInv, NEW s \in Writing, Fill(s)
  PROVE  IInv'
<1>0. PICK f \in File : f = Target(s)
  BY DEF Target, File, Writing
<1> DEFINE c == IF s = "meta" THEN "recorded" ELSE "template"
<1>1. /\ step = s /\ outcome = "none" /\ Put(f, c) /\ opened' = "none"
      /\ UNCHANGED <<below, fresh, touched, wrote, steps>>
      /\ IF s = "outcomes" THEN End("done") ELSE step' = Following[s] /\ UNCHANGED outcome
      /\ f \in {"skill", "config", "meta"} /\ (f # "meta" => f = s)
      /\ (f = "meta" => s \in {"meta", "outcomes"}) /\ c \in Content
  BY <1>0 DEF Fill, IInv, Orderly, observed, Target, Writing, Content
<1>2. /\ file' \in [File -> Content] /\ file'[f] = c
      /\ \A g \in File : g # f => file'[g] = file[g]
  <2> HIDE DEF c
  <2> QED BY <1>1, PutSafe DEF IInv
<1>3. TypeOK'
  BY <1>1, <1>2 DEF IInv, TypeOK, Following, Writing, End
<1>4. Orderly' /\ Checked' /\ SeenTo'
  BY <1>1, <1>2 DEF IInv, Orderly, Checking, Writing, Checked, NotUsers, Names, SeenTo, Installed,
     File, Following, End
<1>5. StillFresh' /\ RefusedWroteNothing' /\ Idempotent'
  BY <1>1, <1>2 DEF IInv, StillFresh, Installed, RefusedWroteNothing, Idempotent, File, End
<1>6. DoneIsInstalled'
  BY <1>1, <1>2 DEF IInv, SeenTo, Installed, DoneIsInstalled, File, End
<1> QED BY <1>2, <1>3, <1>4, <1>5, <1>6 DEF IInv

LEMMA DieStep ==
  ASSUME IInv, Die
  PROVE  IInv'
<1> USE DEF IInv, Die, End, observed
<1>1. TypeOK'
  BY DEF TypeOK
<1>2. Orderly' /\ Checked' /\ SeenTo'
  BY DEF Orderly, Checking, Checked, SeenTo
<1>3. StillFresh' /\ RefusedWroteNothing' /\ DoneIsInstalled' /\ Idempotent'
  BY DEF StillFresh, Installed, RefusedWroteNothing, DoneIsInstalled, Idempotent
<1> QED BY <1>1, <1>2, <1>3

\* Others may do to a file what they like: it counts as touched.
LEMMA DeedStep ==
  ASSUME IInv, NEW f \in File, NEW c \in Content, Deed(f, c)
  PROVE  IInv'
<1>1. /\ Put(f, c) /\ touched' = touched \union {f} /\ steps' \in 0..MaxSteps
      /\ UNCHANGED <<below, step, opened, outcome, fresh, wrote>>
  BY MaxStepsAssumption DEF Deed, IInv, TypeOK
<1>2. /\ file' \in [File -> Content]
      /\ \A g \in File : g # f => file'[g] = file[g]
  BY <1>1, PutSafe DEF IInv
<1>3. TypeOK'
  BY <1>1, <1>2 DEF IInv, TypeOK
<1>4. Orderly' /\ Checked' /\ SeenTo' /\ StillFresh'
  BY <1>1, <1>2 DEF IInv, Orderly, Checked, NotUsers, Names, SeenTo, Installed, StillFresh, File
<1>5. RefusedWroteNothing' /\ DoneIsInstalled' /\ Idempotent'
  BY <1>1, <1>2 DEF IInv, RefusedWroteNothing, DoneIsInstalled, Idempotent, File
<1> QED BY <1>2, <1>3, <1>4, <1>5 DEF IInv

LEMMA OthersStep ==
  ASSUME IInv, InstallSkill \/ \E f \in {"skill", "config", "root"} : People(f)
  PROVE  IInv'
<1>1. PICK f \in File, c \in Content : Deed(f, c)
  BY DEF InstallSkill, People, File, Content
<1> QED BY <1>1, DeedStep

-----------------------------------------------------------------------------
LEMMA InitIInv == Init => IInv
<1> SUFFICES ASSUME Init PROVE IInv
  OBVIOUS
<1>1. TypeOK
  <2>1. file \in [File -> Content] /\ steps \in 0..MaxSteps
    BY MaxStepsAssumption DEF Init, Content
  <2> QED BY <2>1 DEF Init, TypeOK
<1>2. Orderly /\ Checked /\ SeenTo /\ StillFresh
  BY DEF Init, Orderly, Checking, Checked, SeenTo, StillFresh
<1>3. RefusedWroteNothing /\ DoneIsInstalled /\ Idempotent
  BY DEF Init, RefusedWroteNothing, DoneIsInstalled, Idempotent
<1> QED BY <1>1, <1>2, <1>3 DEF IInv

LEMMA NextIInv == IInv /\ [Next]_vars => IInv'
<1> SUFFICES ASSUME IInv, [Next]_vars PROVE IInv'
  OBVIOUS
<1>1. CASE Bootstrap
  BY <1>1, BeginStep, CheckStep, EmptyStep, FillStep, DieStep DEF Bootstrap, Writing
<1>2. CASE InstallSkill \/ \E f \in {"skill", "config", "root"} : People(f)
  BY <1>2, OthersStep
<1>3. CASE UNCHANGED vars
  <2> USE <1>3 DEF vars, observed, IInv
  <2>1. TypeOK'
    BY DEF TypeOK
  <2>2. Orderly' /\ Checked' /\ SeenTo' /\ StillFresh'
    BY DEF Orderly, Checked, NotUsers, Names, SeenTo, Installed, StillFresh
  <2>3. RefusedWroteNothing' /\ DoneIsInstalled' /\ Idempotent'
    BY DEF RefusedWroteNothing, DoneIsInstalled, Idempotent
  <2> QED BY <2>1, <2>2, <2>3
<1> QED BY <1>1, <1>2, <1>3 DEF Next

LEMMA AlwaysIInv == Spec => []IInv
BY InitIInv, NextIInv, PTL DEF Spec

\* The files hold what people, bootstrap and install-skill write, and a bootstrap is at
\* one of its steps.
THEOREM SetupTypeCorrect == Spec => []TypeOK
<1>1. IInv => TypeOK
  BY DEF IInv
<1> QED BY <1>1, AlwaysIInv, PTL

\* A bootstrap that refuses has written nothing: both conflicts are looked for before the
\* first file is touched (write_managed_surface).
THEOREM RefusalWritesNothing == Spec => []RefusedWroteNothing
<1>1. IInv => RefusedWroteNothing
  BY DEF IInv
<1> QED BY <1>1, AlwaysIInv, PTL

\* A bootstrap that ends well leaves each file as this version writes it, and its metadata
\* complete, unless others wrote to the file since it began.
THEOREM DoneMeansInstalled == Spec => []DoneIsInstalled
<1>1. IInv => DoneIsInstalled
  BY DEF IInv
<1> QED BY <1>1, AlwaysIInv, PTL

\* A bootstrap of a project that is up to date empties no file but its metadata.
THEOREM BootstrapIdempotent == Spec => []Idempotent
<1>1. IInv => Idempotent
  BY DEF IInv
<1> QED BY <1>1, AlwaysIInv, PTL

\* A file that people wrote before the bootstrap began is not written by it, but for one
\* that the names on its path make bootstrap's (_is_bootstrap_managed).
THEOREM UsersFilesAreKept == Spec => UsersFilesKept
<1> DEFINE Kept == \A f \in {"skill", "config"} :
                     file[f] \in {"users", "packaged"} /\ f \in wrote' \ wrote =>
                       f \in touched \/ Names(f) = {".precision-squad", "bootstrap"}
<1>1. ASSUME IInv, Next
      PROVE  Kept
  <2> SUFFICES ASSUME NEW f \in {"skill", "config"}, file[f] \in {"users", "packaged"},
                      f \in wrote', f \notin wrote
               PROVE  NotUsers(f)
    BY DEF NotUsers
  <2>1. \E s \in Writing : Empty(s)
    BY <1>1 DEF Next, Bootstrap, Begin, CheckConfig, CheckSkill, Fill, Die, People, Deed,
       InstallSkill, observed, Writing
  <2>2. PICK s \in Writing : Empty(s) /\ wrote' = wrote \union {Target(s)}
    BY <2>1 DEF Empty
  <2>3. step = s /\ s = f
    BY <2>2 DEF Empty, Target, Writing
  <2> QED BY <1>1, <2>3 DEF IInv, Checked
<1>2. IInv /\ [Next]_vars => [Kept]_vars
  BY <1>1
<1> QED BY <1>2, AlwaysIInv, PTL DEF Spec, UsersFilesKept
=============================================================================
