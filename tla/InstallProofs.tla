---------------------------- MODULE InstallProofs ----------------------------
(***************************************************************************)
(* The safety of staging and rolling back for every number of kernels, of  *)
(* modules and of installs.                                                *)
(***************************************************************************)
EXTENDS Install, TLAPS

\* The places of a rollback from each of its commands on.
FromInitrd == {"redepmod", "rolledback"}
FromConf == {"unblacklist", "reblacklist", "reinitrd"} \cup FromInitrd
FromEnable == {"unconf", "reconf"} \cup FromConf
FromUnit == {"reenable"} \cup FromEnable
FromScript == {"reunit"} \cup FromUnit
FromCopy == {"redisable", "reremove", "rescript"} \cup FromScript

\* The places of an install from each of its commands on.
FromDepmod == {"nouveau", "initramfs", "installed"}
FromService == {"depmod"} \cup FromDepmod
FromModules == {"conf", "script", "unit", "enable", "disable", "remove"} \cup FromService

\* A run knows what it works on, and a module is staged only from an artifact
\* that is whole.
JobInv ==
  /\ pc = "idle" => slot = None
  /\ pc \in InstallSteps => kernel \in Kernels /\ stage \in Stages /\ slot \in Backups
  /\ pc \in RollbackSteps =>
       /\ slot \in Backups /\ backup[slot] # None
       /\ kernel \in Kernels
       /\ backup[slot].kernel \in Generic => kernel = backup[slot].kernel
  /\ pc \in InstallSteps \ {"backup"} => backup[slot] # None
  /\ pc \in {"modules"} \cup FromModules => Whole

\* What the host would load, as far as the saved files can give it back.
Covers(saved, old) ==
  \A m \in Modules :
    old.image.modules[m] # None =>
      IF saved.modules[m] # None THEN old.image.modules[m] = saved.modules[m]
      ELSE m \in Distro /\ old.image.modules[m] = "distro"

\* A backup is what the host was when its install began.
Faithful(b) ==
  /\ Covers(backup[b], before[b])
  /\ backup[b].conf = before[b].image.conf
  /\ backup[b].blacklist = before[b].image.blacklist
  /\ backup[b].initrd = before[b].initrd
  /\ backup[b].script = before[b].script
  /\ backup[b].unit = before[b].unit
  /\ backup[b].enabled = before[b].enabled
  /\ backup[b].enabled => backup[b].unit /\ backup[b].script
  /\ \A m \in Modules :
       backup[b].modules[m] \in Stages =>
         artifact[backup[b].kernel][backup[b].modules[m]] = "whole"

BackupInv ==
  /\ \A b \in Backups : backup[b] # None => before[b] # None /\ Faithful(b)
  /\ pc = "backup" =>
       /\ backup[slot] = None
       /\ before[slot] = [image |-> Image(kernel), initrd |-> initrd[kernel],
                          script |-> script, unit |-> unit, enabled |-> enabled]

\* How far an install has come.
InstallInv ==
  /\ pc = "modules" => \A m \in Modules \ todo : updates[kernel][m] = stage
  /\ pc \in FromModules => \A m \in Modules : updates[kernel][m] = stage
  /\ pc \in FromModules \ {"conf"} => conf = StageConf[stage]
  /\ pc \in {"script", "unit", "enable"} => stage = "gen2"
  /\ pc \in {"disable", "remove"} => stage # "gen2"
  /\ pc \in {"unit", "enable"} => script
  /\ pc = "enable" => unit
  /\ pc = "remove" => ~ enabled
  /\ pc \in FromService => unit = (stage = "gen2") /\ enabled = (stage = "gen2")
  /\ pc \in FromDepmod => indexed[kernel] = Modules
  /\ pc \in {"initramfs", "installed"} => ("nouveau" \in wants => blacklist)
  /\ pc = "installed" => ("initramfs" \in wants => initrd[kernel] = Image(kernel))

\* How far a rollback has come; the modules and the initramfs are of interest
\* on the kernel the backup was taken on.
RollbackInv ==
  LET saved == backup[slot]
      here == kernel = saved.kernel
  IN
  /\ pc = "move" => \A m \in Modules \ todo : updates[kernel][m] = None
  /\ pc = "restore" /\ here =>
       \A m \in Modules : updates[kernel][m] = IF m \in todo THEN None ELSE saved.modules[m]
  /\ pc \in FromCopy /\ here => updates[kernel] = saved.modules
  /\ pc \in {"reremove", "rescript", "reunit", "reenable"} => ~ enabled
  /\ pc = "rescript" => ~ script /\ ~ unit
  /\ pc = "reunit" => ~ unit
  /\ pc \in FromScript => script = saved.script
  /\ pc \in FromUnit => unit = saved.unit
  /\ pc \in FromEnable => enabled = saved.enabled
  /\ pc \in FromConf => conf = saved.conf
  /\ pc \in {"reinitrd"} \cup FromInitrd => (saved.managed => blacklist = saved.blacklist)
  /\ pc \in FromInitrd /\ here => initrd[kernel] = saved.initrd
  /\ pc = "rolledback" => indexed[kernel] = {m \in Modules : updates[kernel][m] # None}

Inv ==
  /\ TypeOK
  /\ JobInv
  /\ BackupInv
  /\ InstallInv
  /\ RollbackInv
  /\ EnabledIsThere
  /\ BuiltWhole

-----------------------------------------------------------------------------
(* The steps that change the options, the policy or the second pass *)

\* Such a step, of either run, leaves the modules, the artifacts and the
\* backups as they are.
LEMMA SettingsKept ==
  ASSUME Inv,
         UNCHANGED <<running, artifact, backup, before, job, todo, updates, indexed, initrd>>,
         conf' \in Confs, {blacklist, script, unit, enabled}' \subseteq BOOLEAN,
         \/ pc \in FromModules /\ pc' \in FromModules
         \/ pc \in FromCopy /\ pc' \in FromCopy
  PROVE  TypeOK' /\ JobInv' /\ BackupInv' /\ BuiltWhole'
<1> USE DEF FromInitrd, FromConf, FromEnable, FromUnit, FromScript, FromCopy,
            FromDepmod, FromService, FromModules, InstallSteps, RollbackSteps
<1>1. TypeOK'
  BY DEF Inv, TypeOK, job
<1>2. JobInv'
  BY DEF Inv, JobInv, Whole, job
<1>3. BackupInv'
  BY DEF Inv, BackupInv, Faithful, Covers
<1>4. BuiltWhole'
  BY DEF Inv, BuiltWhole
<1>5. QED
  BY <1>1, <1>2, <1>3, <1>4

LEMMA ConfKeeps ==
  ASSUME Inv, Conf
  PROVE  Inv'
<1>1. /\ pc = "conf" /\ conf' = StageConf[stage]
      /\ pc' = (IF stage = "gen2" THEN "script" ELSE IF unit THEN "disable" ELSE "depmod")
      /\ UNCHANGED <<running, artifact, backup, before, job, todo>>
      /\ UNCHANGED <<updates, indexed, initrd, blacklist, script, unit, enabled>>
  BY DEF Conf, At, Goto, KeepModules, KeepService, KeepTools
<1>2. stage \in Stages
  BY <1>1 DEF Inv, JobInv, InstallSteps
<1>3. conf' \in Confs
  BY <1>1, <1>2, StagesAssumption DEF StageConf, Confs
<1>4. TypeOK' /\ JobInv' /\ BackupInv' /\ BuiltWhole'
  BY <1>1, <1>3, SettingsKept DEF Inv, TypeOK, FromModules, FromService
<1>5. InstallInv'
  BY <1>1, <1>4 DEF Inv, TypeOK, InstallInv, EnabledIsThere, FromModules, FromService, FromDepmod, job
<1>6. RollbackInv' /\ EnabledIsThere'
  BY <1>1 DEF Inv, EnabledIsThere, RollbackInv, FromInitrd, FromConf, FromEnable,
              FromUnit, FromScript, FromCopy
<1>7. QED
  BY <1>4, <1>5, <1>6 DEF Inv

LEMMA InstallScriptKeeps ==
  ASSUME Inv, InstallScript
  PROVE  Inv'
<1>1. /\ pc = "script" /\ script' = TRUE /\ pc' = "unit"
      /\ UNCHANGED <<running, artifact, backup, before, job, todo>>
      /\ UNCHANGED <<updates, indexed, initrd, conf, blacklist, unit, enabled>>
  BY DEF InstallScript, At, Goto, KeepModules, KeepPolicy, KeepTools
<1>2. TypeOK' /\ JobInv' /\ BackupInv' /\ BuiltWhole'
  BY <1>1, SettingsKept DEF Inv, TypeOK, FromModules
<1>3. InstallInv'
  BY <1>1 DEF Inv, InstallInv, FromModules, FromService, FromDepmod, job
<1>4. RollbackInv' /\ EnabledIsThere'
  BY <1>1 DEF Inv, EnabledIsThere, RollbackInv, FromInitrd, FromConf, FromEnable,
              FromUnit, FromScript, FromCopy
<1>5. QED
  BY <1>2, <1>3, <1>4 DEF Inv

LEMMA InstallUnitKeeps ==
  ASSUME Inv, InstallUnit
  PROVE  Inv'
<1>1. /\ pc = "unit" /\ unit' = TRUE /\ pc' = "enable"
      /\ UNCHANGED <<running, artifact, backup, before, job, todo>>
      /\ UNCHANGED <<updates, indexed, initrd, conf, blacklist, script, enabled>>
  BY DEF InstallUnit, At, Goto, KeepModules, KeepPolicy, KeepTools
<1>2. TypeOK' /\ JobInv' /\ BackupInv' /\ BuiltWhole'
  BY <1>1, SettingsKept DEF Inv, TypeOK, FromModules
<1>3. InstallInv'
  BY <1>1 DEF Inv, InstallInv, FromModules, FromService, FromDepmod, job
<1>4. RollbackInv' /\ EnabledIsThere'
  BY <1>1 DEF Inv, EnabledIsThere, RollbackInv, FromInitrd, FromConf, FromEnable,
              FromUnit, FromScript, FromCopy
<1>5. QED
  BY <1>2, <1>3, <1>4 DEF Inv

LEMMA EnableKeeps ==
  ASSUME Inv, Enable
  PROVE  Inv'
<1>1. /\ pc = "enable" /\ enabled' = TRUE /\ pc' = "depmod"
      /\ UNCHANGED <<running, artifact, backup, before, job, todo>>
      /\ UNCHANGED <<updates, indexed, initrd, conf, blacklist, script, unit>>
  BY DEF Enable, At, Goto, KeepModules, KeepPolicy, KeepTools
<1>2. TypeOK' /\ JobInv' /\ BackupInv' /\ BuiltWhole'
  BY <1>1, SettingsKept DEF Inv, TypeOK, FromModules, FromService
<1>3. InstallInv'
  BY <1>1 DEF Inv, InstallInv, TypeOK, FromModules, FromService, FromDepmod, job
<1>4. RollbackInv' /\ EnabledIsThere'
  BY <1>1 DEF Inv, InstallInv, EnabledIsThere, RollbackInv, FromInitrd, FromConf,
              FromEnable, FromUnit, FromScript, FromCopy
<1>5. QED
  BY <1>2, <1>3, <1>4 DEF Inv

LEMMA DisableKeeps ==
  ASSUME Inv, NEW label, NEW next, Disable(label, next),
         \/ label = "disable" /\ next = "remove"
         \/ label = "redisable" /\ next = "reremove"
  PROVE  Inv'
<1>1. /\ pc = label /\ enabled' = FALSE /\ pc' = next
      /\ UNCHANGED <<running, artifact, backup, before, job, todo>>
      /\ UNCHANGED <<updates, indexed, initrd, conf, blacklist, script, unit>>
  BY DEF Disable, At, Goto, KeepModules, KeepPolicy, KeepTools
<1>2. TypeOK' /\ JobInv' /\ BackupInv' /\ BuiltWhole'
  BY <1>1, SettingsKept DEF Inv, TypeOK, FromModules, FromCopy
<1>3. InstallInv'
  BY <1>1 DEF Inv, InstallInv, FromModules, FromService, FromDepmod, job
<1>4. RollbackInv' /\ EnabledIsThere'
  BY <1>1 DEF Inv, EnabledIsThere, RollbackInv, FromInitrd, FromConf, FromEnable,
              FromUnit, FromScript, FromCopy, job
<1>5. QED
  BY <1>2, <1>3, <1>4 DEF Inv

LEMMA RemoveKeeps ==
  ASSUME Inv, NEW label, NEW next, Remove(label, next),
         \/ label = "remove" /\ next = "depmod"
         \/ label = "reremove" /\ next = "rescript"
  PROVE  Inv'
<1>1. /\ pc = label /\ script' = FALSE /\ unit' = FALSE /\ pc' = next
      /\ UNCHANGED <<running, artifact, backup, before, job, todo>>
      /\ UNCHANGED <<updates, indexed, initrd, conf, blacklist, enabled>>
  BY DEF Remove, At, Goto, KeepModules, KeepPolicy, KeepTools
<1>2. TypeOK' /\ JobInv' /\ BackupInv' /\ BuiltWhole'
  BY <1>1, SettingsKept DEF Inv, TypeOK, FromModules, FromService, FromCopy
<1>3. ~ enabled
  BY <1>1 DEF Inv, InstallInv, RollbackInv
<1>4. InstallInv'
  BY <1>1, <1>3 DEF Inv, TypeOK, InstallInv, FromModules, FromService, FromDepmod, job
<1>5. RollbackInv' /\ EnabledIsThere'
  BY <1>1, <1>3 DEF Inv, EnabledIsThere, RollbackInv, FromInitrd, FromConf, FromEnable,
              FromUnit, FromScript, FromCopy, job
<1>6. QED
  BY <1>2, <1>4, <1>5 DEF Inv

LEMMA NouveauKeeps ==
  ASSUME Inv, Nouveau
  PROVE  Inv'
<1>1. /\ pc = "nouveau" /\ blacklist' = (blacklist \/ "nouveau" \in wants)
      /\ pc' = "initramfs"
      /\ UNCHANGED <<running, artifact, backup, before, job, todo>>
      /\ UNCHANGED <<updates, indexed, initrd, conf, script, unit, enabled>>
  BY DEF Nouveau, At, Goto, KeepModules, KeepService, KeepTools
<1>2. TypeOK' /\ JobInv' /\ BackupInv' /\ BuiltWhole'
  BY <1>1, SettingsKept DEF Inv, TypeOK, FromModules, FromService, FromDepmod
<1>3. InstallInv'
  BY <1>1 DEF Inv, InstallInv, FromModules, FromService, FromDepmod, job
<1>4. RollbackInv' /\ EnabledIsThere'
  BY <1>1 DEF Inv, EnabledIsThere, RollbackInv, FromInitrd, FromConf, FromEnable,
              FromUnit, FromScript, FromCopy
<1>5. QED
  BY <1>2, <1>3, <1>4 DEF Inv

\* What a rollback has saved beside it.
LEMMA SavedKnown ==
  ASSUME Inv, pc \in RollbackSteps
  PROVE  /\ slot \in Backups /\ backup[slot] \in Saved /\ kernel \in Kernels
         /\ before[slot] # None /\ Faithful(slot)
<1>1. slot \in Backups /\ backup[slot] # None /\ kernel \in Kernels
  BY DEF Inv, JobInv
<1>2. QED
  BY <1>1 DEF Inv, TypeOK, BackupInv

LEMMA RestoreScriptKeeps ==
  ASSUME Inv, RestoreScript
  PROVE  Inv'
<1>1. /\ pc = "rescript" /\ script' = (script \/ backup[slot].script) /\ pc' = "reunit"
      /\ UNCHANGED <<running, artifact, backup, before, job, todo>>
      /\ UNCHANGED <<updates, indexed, initrd, conf, blacklist, unit, enabled>>
  BY DEF RestoreScript, At, Goto, KeepModules, KeepPolicy, KeepTools
<1>2. backup[slot] \in Saved /\ Faithful(slot)
  BY <1>1, SavedKnown DEF RollbackSteps
<1>3. script' \in BOOLEAN
  BY <1>1, <1>2 DEF Inv, TypeOK, Saved
<1>4. TypeOK' /\ JobInv' /\ BackupInv' /\ BuiltWhole'
  BY <1>1, <1>3, SettingsKept DEF Inv, TypeOK, FromInitrd, FromConf, FromEnable,
              FromUnit, FromScript, FromCopy
<1>5. InstallInv'
  BY <1>1 DEF InstallInv, FromModules, FromService, FromDepmod
<1>6. EnabledIsThere'
  BY <1>1, <1>2 DEF Inv, EnabledIsThere, RollbackInv, Faithful, FromInitrd, FromConf, FromEnable,
              FromUnit, FromScript, FromCopy
<1>7. RollbackInv'
  BY <1>1, <1>2 DEF Inv, TypeOK, RollbackInv, Saved, FromInitrd, FromConf, FromEnable,
              FromUnit, FromScript, FromCopy, job
<1>8. QED
  BY <1>4, <1>5, <1>6, <1>7 DEF Inv

LEMMA RestoreUnitKeeps ==
  ASSUME Inv, RestoreUnit
  PROVE  Inv'
<1>1. /\ pc = "reunit" /\ unit' = (unit \/ backup[slot].unit) /\ pc' = "reenable"
      /\ UNCHANGED <<running, artifact, backup, before, job, todo>>
      /\ UNCHANGED <<updates, indexed, initrd, conf, blacklist, script, enabled>>
  BY DEF RestoreUnit, At, Goto, KeepModules, KeepPolicy, KeepTools
<1>2. backup[slot] \in Saved /\ Faithful(slot)
  BY <1>1, SavedKnown DEF RollbackSteps
<1>3. unit' \in BOOLEAN
  BY <1>1, <1>2 DEF Inv, TypeOK, Saved
<1>4. TypeOK' /\ JobInv' /\ BackupInv' /\ BuiltWhole'
  BY <1>1, <1>3, SettingsKept DEF Inv, TypeOK, FromInitrd, FromConf, FromEnable,
              FromUnit, FromScript, FromCopy
<1>5. InstallInv'
  BY <1>1 DEF InstallInv, FromModules, FromService, FromDepmod
<1>6. EnabledIsThere'
  BY <1>1, <1>2 DEF Inv, EnabledIsThere, RollbackInv, Faithful, FromInitrd, FromConf, FromEnable,
              FromUnit, FromScript, FromCopy
<1>7. RollbackInv'
  BY <1>1, <1>2 DEF Inv, TypeOK, RollbackInv, Saved, FromInitrd, FromConf, FromEnable,
              FromUnit, FromScript, FromCopy, job
<1>8. QED
  BY <1>4, <1>5, <1>6, <1>7 DEF Inv

LEMMA RestoreEnabledKeeps ==
  ASSUME Inv, RestoreEnabled
  PROVE  Inv'
<1>1. /\ pc = "reenable" /\ enabled' = (enabled \/ backup[slot].enabled)
      /\ pc' = "unconf"
      /\ UNCHANGED <<running, artifact, backup, before, job, todo>>
      /\ UNCHANGED <<updates, indexed, initrd, conf, blacklist, script, unit>>
  BY DEF RestoreEnabled, At, Goto, KeepModules, KeepPolicy, KeepTools
<1>2. backup[slot] \in Saved /\ Faithful(slot)
  BY <1>1, SavedKnown DEF RollbackSteps
<1>3. enabled' \in BOOLEAN
  BY <1>1, <1>2 DEF Inv, TypeOK, Saved
<1>4. TypeOK' /\ JobInv' /\ BackupInv' /\ BuiltWhole'
  BY <1>1, <1>3, SettingsKept DEF Inv, TypeOK, FromInitrd, FromConf, FromEnable,
              FromUnit, FromScript, FromCopy
<1>5. InstallInv'
  BY <1>1 DEF InstallInv, FromModules, FromService, FromDepmod
<1>6. EnabledIsThere'
  BY <1>1, <1>2 DEF Inv, EnabledIsThere, RollbackInv, Faithful, FromInitrd, FromConf, FromEnable,
              FromUnit, FromScript, FromCopy
<1>7. RollbackInv'
  BY <1>1, <1>2 DEF Inv, TypeOK, RollbackInv, Saved, FromInitrd, FromConf, FromEnable,
              FromUnit, FromScript, FromCopy, job
<1>8. QED
  BY <1>4, <1>5, <1>6, <1>7 DEF Inv

LEMMA RemoveConfKeeps ==
  ASSUME Inv, RemoveConf
  PROVE  Inv'
<1>1. /\ pc = "unconf" /\ conf' = None /\ pc' = "reconf"
      /\ UNCHANGED <<running, artifact, backup, before, job, todo>>
      /\ UNCHANGED <<updates, indexed, initrd, blacklist, script, unit, enabled>>
  BY DEF RemoveConf, At, Goto, KeepModules, KeepService, KeepTools
<1>2. backup[slot] \in Saved /\ Faithful(slot)
  BY <1>1, SavedKnown DEF RollbackSteps
<1>3. conf' \in Confs
  BY <1>1, <1>2 DEF Confs
<1>4. TypeOK' /\ JobInv' /\ BackupInv' /\ BuiltWhole'
  BY <1>1, <1>3, SettingsKept DEF Inv, TypeOK, FromInitrd, FromConf, FromEnable,
              FromUnit, FromScript, FromCopy
<1>5. InstallInv'
  BY <1>1 DEF InstallInv, FromModules, FromService, FromDepmod
<1>6. EnabledIsThere'
  BY <1>1, <1>2 DEF Inv, EnabledIsThere, RollbackInv, Faithful, FromInitrd, FromConf, FromEnable,
              FromUnit, FromScript, FromCopy
<1>7. RollbackInv'
  BY <1>1, <1>2 DEF Inv, TypeOK, RollbackInv, Saved, FromInitrd, FromConf, FromEnable,
              FromUnit, FromScript, FromCopy, job
<1>8. QED
  BY <1>4, <1>5, <1>6, <1>7 DEF Inv

LEMMA RestoreConfKeeps ==
  ASSUME Inv, RestoreConf
  PROVE  Inv'
<1>1. /\ pc = "reconf" /\ conf' = backup[slot].conf
      /\ pc' = (IF backup[slot].managed THEN "unblacklist" ELSE "reinitrd")
      /\ UNCHANGED <<running, artifact, backup, before, job, todo>>
      /\ UNCHANGED <<updates, indexed, initrd, blacklist, script, unit, enabled>>
  BY DEF RestoreConf, At, Goto, KeepModules, KeepService, KeepTools
<1>2. backup[slot] \in Saved /\ Faithful(slot)
  BY <1>1, SavedKnown DEF RollbackSteps
<1>3. conf' \in Confs
  BY <1>1, <1>2 DEF Inv, TypeOK, Saved
<1>4. TypeOK' /\ JobInv' /\ BackupInv' /\ BuiltWhole'
  BY <1>1, <1>3, SettingsKept DEF Inv, TypeOK, FromInitrd, FromConf, FromEnable,
              FromUnit, FromScript, FromCopy
<1>5. InstallInv'
  BY <1>1 DEF InstallInv, FromModules, FromService, FromDepmod
<1>6. EnabledIsThere'
  BY <1>1, <1>2 DEF Inv, EnabledIsThere, RollbackInv, Faithful, FromInitrd, FromConf, FromEnable,
              FromUnit, FromScript, FromCopy
<1>7. RollbackInv'
  BY <1>1, <1>2 DEF Inv, TypeOK, RollbackInv, Saved, FromInitrd, FromConf, FromEnable,
              FromUnit, FromScript, FromCopy, job
<1>8. QED
  BY <1>4, <1>5, <1>6, <1>7 DEF Inv

LEMMA RemoveBlacklistKeeps ==
  ASSUME Inv, RemoveBlacklist
  PROVE  Inv'
<1>1. /\ pc = "unblacklist" /\ blacklist' = FALSE /\ pc' = "reblacklist"
      /\ UNCHANGED <<running, artifact, backup, before, job, todo>>
      /\ UNCHANGED <<updates, indexed, initrd, conf, script, unit, enabled>>
  BY DEF RemoveBlacklist, At, Goto, KeepModules, KeepService, KeepTools
<1>2. backup[slot] \in Saved /\ Faithful(slot)
  BY <1>1, SavedKnown DEF RollbackSteps
<1>3. blacklist' \in BOOLEAN
  BY <1>1, <1>2 DEF Inv, TypeOK, Saved
<1>4. TypeOK' /\ JobInv' /\ BackupInv' /\ BuiltWhole'
  BY <1>1, <1>3, SettingsKept DEF Inv, TypeOK, FromInitrd, FromConf, FromEnable,
              FromUnit, FromScript, FromCopy
<1>5. InstallInv'
  BY <1>1 DEF InstallInv, FromModules, FromService, FromDepmod
<1>6. EnabledIsThere'
  BY <1>1, <1>2 DEF Inv, EnabledIsThere, RollbackInv, Faithful, FromInitrd, FromConf, FromEnable,
              FromUnit, FromScript, FromCopy
<1>7. RollbackInv'
  BY <1>1, <1>2 DEF Inv, TypeOK, RollbackInv, Saved, FromInitrd, FromConf, FromEnable,
              FromUnit, FromScript, FromCopy, job
<1>8. QED
  BY <1>4, <1>5, <1>6, <1>7 DEF Inv

LEMMA RestoreBlacklistKeeps ==
  ASSUME Inv, RestoreBlacklist
  PROVE  Inv'
<1>1. /\ pc = "reblacklist" /\ blacklist' = backup[slot].blacklist
      /\ pc' = "reinitrd"
      /\ UNCHANGED <<running, artifact, backup, before, job, todo>>
      /\ UNCHANGED <<updates, indexed, initrd, conf, script, unit, enabled>>
  BY DEF RestoreBlacklist, At, Goto, KeepModules, KeepService, KeepTools
<1>2. backup[slot] \in Saved /\ Faithful(slot)
  BY <1>1, SavedKnown DEF RollbackSteps
<1>3. blacklist' \in BOOLEAN
  BY <1>1, <1>2 DEF Inv, TypeOK, Saved
<1>4. TypeOK' /\ JobInv' /\ BackupInv' /\ BuiltWhole'
  BY <1>1, <1>3, SettingsKept DEF Inv, TypeOK, FromInitrd, FromConf, FromEnable,
              FromUnit, FromScript, FromCopy
<1>5. InstallInv'
  BY <1>1 DEF InstallInv, FromModules, FromService, FromDepmod
<1>6. EnabledIsThere'
  BY <1>1, <1>2 DEF Inv, EnabledIsThere, RollbackInv, Faithful, FromInitrd, FromConf, FromEnable,
              FromUnit, FromScript, FromCopy
<1>7. RollbackInv'
  BY <1>1, <1>2 DEF Inv, TypeOK, RollbackInv, Saved, FromInitrd, FromConf, FromEnable,
              FromUnit, FromScript, FromCopy, job
<1>8. QED
  BY <1>4, <1>5, <1>6, <1>7 DEF Inv

-----------------------------------------------------------------------------
(* The other steps of an install *)

LEMMA ImageType ==
  ASSUME TypeOK, NEW k \in Kernels
  PROVE  Image(k) \in Images
<1>1. \A m \in Modules : Loads(k, m) \in Files \cup {"distro"}
  BY DEF TypeOK, Loads, Files
<1>2. [m \in Modules |-> Loads(k, m)] \in [Modules -> Files \cup {"distro"}]
  BY <1>1
<1>3. QED
  BY <1>2 DEF TypeOK, Image, Images

LEMMA BeginInstallKeeps ==
  ASSUME Inv, BeginInstall
  PROVE  Inv'
<1> DEFINE host == [image |-> Image(running), initrd |-> initrd[running],
                    script |-> script, unit |-> unit, enabled |-> enabled]
<1>1. PICK b \in Backups :
        before[b] = None /\ slot' = b /\ before' = [before EXCEPT ![b] = host]
  BY DEF BeginInstall
<1>2. /\ pc = "idle" /\ pc' = "backup" /\ kernel' = running /\ stage' \in Stages
      /\ wants' \in {{}, {"initramfs"}, {"initramfs", "nouveau"}}
      /\ UNCHANGED <<updates, indexed, initrd, conf, blacklist, script, unit, enabled>>
      /\ UNCHANGED <<artifact, backup, running, todo>>
  BY DEF BeginInstall, Goto, KeepBoot, KeepTools, boot
<1>3. Image(running) \in Images
  BY ImageType DEF Inv, TypeOK
<1>4. host \in Hosts
  BY <1>3 DEF Inv, TypeOK, Hosts
<1>5. TypeOK'
  <2>1. before' \in [Backups -> Hosts \cup {None}]
    BY <1>1, <1>4 DEF Inv, TypeOK
  <2>2. QED
    BY <1>1, <1>2, <2>1 DEF Inv, TypeOK, InstallSteps
<1>6. backup[b] = None
  BY <1>1 DEF Inv, BackupInv
<1>7. JobInv'
  BY <1>1, <1>2 DEF Inv, JobInv, TypeOK, InstallSteps, RollbackSteps, FromModules,
                    FromService, FromDepmod
<1>8. BackupInv'
  <2>1. Image(kernel)' = Image(running)
    BY <1>2 DEF Image, Loads
  <2>2. before'[slot'] = [image |-> Image(kernel), initrd |-> initrd[kernel],
                          script |-> script, unit |-> unit, enabled |-> enabled]'
    BY <1>1, <1>2, <2>1 DEF Inv, TypeOK
  <2>3. \A c \in Backups : backup'[c] # None => before'[c] # None /\ Faithful(c)'
    <3> SUFFICES ASSUME NEW c \in Backups, backup'[c] # None
                 PROVE  before'[c] # None /\ Faithful(c)'
      OBVIOUS
    <3>1. c # b /\ before'[c] = before[c]
      BY <1>1, <1>2, <1>6 DEF Inv, TypeOK
    <3>2. QED
      BY <1>2, <3>1 DEF Inv, BackupInv, Faithful, Covers
  <2>4. QED
    BY <1>1, <1>2, <1>6, <2>2, <2>3 DEF BackupInv
<1>9. InstallInv' /\ RollbackInv' /\ EnabledIsThere' /\ BuiltWhole'
  BY <1>2 DEF Inv, InstallInv, RollbackInv, EnabledIsThere, BuiltWhole, FromModules,
              FromService, FromDepmod, FromInitrd, FromConf, FromEnable, FromUnit,
              FromScript, FromCopy
<1>10. QED
  BY <1>5, <1>7, <1>8, <1>9 DEF Inv

LEMMA BackupKeeps ==
  ASSUME Inv, Backup
  PROVE  Inv'
<1> DEFINE saved == [kernel |-> kernel, modules |-> SavedModules, initrd |-> initrd[kernel],
                     conf |-> conf, blacklist |-> blacklist, script |-> script,
                     unit |-> unit, enabled |-> enabled, managed |-> FALSE]
<1>1. /\ pc = "backup" /\ pc' = "mark"
      /\ backup' = [backup EXCEPT ![slot] = saved]
      /\ UNCHANGED <<updates, indexed, initrd, conf, blacklist, script, unit, enabled>>
      /\ UNCHANGED <<artifact, running, before, job, todo>>
  BY DEF Backup, At, Goto, KeepBoot, boot
<1>2. kernel \in Kernels /\ stage \in Stages /\ slot \in Backups
  BY <1>1 DEF Inv, JobInv, InstallSteps
<1>3. SavedModules \in [Modules -> Files]
  BY <1>2 DEF Inv, TypeOK, SavedModules, Files
<1>4. saved \in Saved /\ saved # None
  <2>1. saved \in Saved
    BY <1>2, <1>3 DEF Inv, TypeOK, Saved
  <2>2. QED
    BY <2>1, NoRecordAssumption
<1>5. TypeOK'
  BY <1>1, <1>2, <1>4 DEF Inv, TypeOK, InstallSteps, job
<1>6. JobInv'
  BY <1>1, <1>2, <1>4 DEF Inv, TypeOK, JobInv, InstallSteps, RollbackSteps, FromModules,
              FromService, FromDepmod, job
<1>7. BackupInv'
  <2>1. before[slot] = [image |-> Image(kernel), initrd |-> initrd[kernel],
                        script |-> script, unit |-> unit, enabled |-> enabled]
    BY <1>1 DEF Inv, BackupInv
  <2>2. before[slot] # None
    BY <1>1, <1>2, <2>1, ImageType, NoRecordAssumption DEF Inv, TypeOK, Hosts
  <2>3. QED
    <3> SUFFICES ASSUME NEW b \in Backups, backup'[b] # None
                 PROVE  before'[b] # None /\ Faithful(b)'
      BY <1>1 DEF BackupInv
    <3>1. CASE b # slot
      BY <1>1, <3>1 DEF Inv, TypeOK, BackupInv, Faithful, Covers
    <3>2. CASE b = slot
      <4>1. backup'[b] = saved
        BY <1>1, <1>2, <3>2 DEF Inv, TypeOK
      <4>2. before'[b] # None
        BY <1>1, <1>2, <2>1, <2>2, <3>2
      <4>3. Covers(backup[b], before[b])'
        BY <1>1, <1>2, <2>1, <3>2, <4>1 DEF Covers, SavedModules, Image, Loads
      <4>4. \A m \in Modules :
              saved.modules[m] \in Stages =>
                artifact[saved.kernel][saved.modules[m]] = "whole"
        BY <1>2, NoneAssumption DEF SavedModules, Inv, BuiltWhole
      <4>5. QED
        BY <1>1, <1>2, <2>1, <3>2, <4>1, <4>2, <4>3, <4>4
        DEF Faithful, Image, Inv, EnabledIsThere
    <3>3. QED
      BY <3>1, <3>2
<1>8. InstallInv' /\ RollbackInv' /\ EnabledIsThere' /\ BuiltWhole'
  BY <1>1 DEF Inv, InstallInv, RollbackInv, EnabledIsThere, BuiltWhole, FromModules,
              FromService, FromDepmod, FromInitrd, FromConf, FromEnable, FromUnit,
              FromScript, FromCopy
<1>9. QED
  BY <1>5, <1>6, <1>7, <1>8 DEF Inv

LEMMA MarkKeeps ==
  ASSUME Inv, Mark
  PROVE  Inv'
<1> DEFINE saved == [backup[slot] EXCEPT !.managed = "nouveau" \in wants]
<1>1. /\ pc = "mark" /\ pc' = "artifact"
      /\ backup' = [backup EXCEPT ![slot] = saved]
      /\ UNCHANGED <<updates, indexed, initrd, conf, blacklist, script, unit, enabled>>
      /\ UNCHANGED <<artifact, running, before, job, todo>>
  BY DEF Mark, At, Goto, KeepBoot, boot
<1>2. /\ kernel \in Kernels /\ stage \in Stages /\ slot \in Backups
      /\ backup[slot] \in Saved
  BY <1>1 DEF Inv, TypeOK, JobInv, InstallSteps
<1>3. saved \in Saved /\ saved # None
  <2>1. \A flag \in BOOLEAN : [backup[slot] EXCEPT !.managed = flag] \in Saved
    BY <1>2 DEF Saved
  <2>2. ("nouveau" \in wants) \in BOOLEAN
    OBVIOUS
  <2>3. saved \in Saved
    BY <2>1, <2>2, Zenon
  <2>4. QED
    BY <2>3, NoRecordAssumption
<1>4. TypeOK'
  BY <1>1, <1>2, <1>3 DEF Inv, TypeOK, InstallSteps, job
<1>5. JobInv'
  BY <1>1, <1>2, <1>3 DEF Inv, TypeOK, JobInv, InstallSteps, RollbackSteps, FromModules,
              FromService, FromDepmod, job
<1>6. BackupInv'
  <2> SUFFICES ASSUME NEW b \in Backups, backup'[b] # None
               PROVE  before'[b] # None /\ Faithful(b)'
    BY <1>1 DEF BackupInv
  <2>1. CASE b # slot
    BY <1>1, <2>1 DEF Inv, TypeOK, BackupInv, Faithful, Covers
  <2>2. CASE b = slot
    <3>1. backup'[b] = saved /\ backup[b] # None
      BY <1>1, <1>2, <2>2, NoRecordAssumption DEF Inv, TypeOK
    <3>2. /\ saved.kernel = backup[b].kernel /\ saved.modules = backup[b].modules
          /\ saved.initrd = backup[b].initrd /\ saved.conf = backup[b].conf
          /\ saved.blacklist = backup[b].blacklist /\ saved.script = backup[b].script
          /\ saved.unit = backup[b].unit /\ saved.enabled = backup[b].enabled
      BY <1>2, <2>2 DEF Saved
    <3>3. QED
      BY <1>1, <2>2, <3>1, <3>2 DEF Inv, BackupInv, Faithful, Covers
  <2>3. QED
    BY <2>1, <2>2
<1>7. InstallInv' /\ RollbackInv' /\ EnabledIsThere' /\ BuiltWhole'
  BY <1>1 DEF Inv, InstallInv, RollbackInv, EnabledIsThere, BuiltWhole, FromModules,
              FromService, FromDepmod, FromInitrd, FromConf, FromEnable, FromUnit,
              FromScript, FromCopy
<1>8. QED
  BY <1>4, <1>5, <1>6, <1>7 DEF Inv

\* Modules, options, policy, second pass and backups as they are: the places of
\* a run are all that is left to check.
LEMMA BootKept ==
  ASSUME Inv, KeepBoot, UNCHANGED <<backup, before, artifact>>
  PROVE  /\ EnabledIsThere' /\ BuiltWhole'
         /\ \A b \in Backups : backup'[b] # None => before'[b] # None /\ Faithful(b)'
BY DEF Inv, KeepBoot, boot, EnabledIsThere, BuiltWhole, BackupInv, Faithful, Covers

LEMMA TakeArtifactKeeps ==
  ASSUME Inv, TakeArtifact
  PROVE  Inv'
<1>1. /\ pc = "artifact" /\ Whole /\ pc' = "modules" /\ todo' = Modules
      /\ UNCHANGED <<updates, indexed, initrd, conf, blacklist, script, unit, enabled>>
      /\ UNCHANGED <<artifact, backup, running, before, job>> /\ KeepBoot
  BY DEF TakeArtifact, At, Loop, KeepBoot, KeepTools, boot
<1>2. TypeOK' /\ JobInv'
  BY <1>1 DEF Inv, TypeOK, JobInv, Whole, InstallSteps, RollbackSteps, FromModules,
              FromService, FromDepmod, job
<1>3. BackupInv' /\ EnabledIsThere' /\ BuiltWhole'
  BY <1>1, BootKept DEF BackupInv
<1>4. InstallInv' /\ RollbackInv'
  BY <1>1 DEF InstallInv, RollbackInv, FromModules, FromService, FromDepmod, FromInitrd,
              FromConf, FromEnable, FromUnit, FromScript, FromCopy
<1>5. QED
  BY <1>2, <1>3, <1>4 DEF Inv

\* An artifact that changes was not whole, so nothing was staged or saved from it.
LEMMA ArtifactChanged ==
  ASSUME Inv, NEW state \in {"partial", "whole"}, SetArtifact(state),
         kernel \in Kernels, stage \in Stages,
         state = "partial" => artifact[kernel][stage] = "none",
         KeepBoot, UNCHANGED <<backup, before>>
  PROVE  /\ artifact' \in [Kernels -> [Stages -> {"none", "partial", "whole"}]]
         /\ artifact'[kernel][stage] = state
         /\ EnabledIsThere' /\ BuiltWhole'
         /\ \A b \in Backups : backup'[b] # None => before'[b] # None /\ Faithful(b)'
<1>1. /\ artifact' \in [Kernels -> [Stages -> {"none", "partial", "whole"}]]
      /\ artifact'[kernel][stage] = state
  BY DEF SetArtifact, Inv, TypeOK
<1>2. ASSUME NEW k \in Kernels, NEW s \in Stages, artifact[k][s] = "whole"
      PROVE  artifact'[k][s] = "whole"
  BY <1>2 DEF SetArtifact, Inv, TypeOK
<1>3. EnabledIsThere' /\ BuiltWhole'
  BY <1>2 DEF Inv, KeepBoot, boot, EnabledIsThere, BuiltWhole
<1>4. ASSUME NEW b \in Backups, backup'[b] # None
      PROVE  before'[b] # None /\ Faithful(b)'
  <2>1. backup[b] \in Saved /\ Faithful(b) /\ before[b] # None
    BY <1>4 DEF Inv, TypeOK, BackupInv
  <2>2. backup[b].kernel \in Kernels
    BY <2>1 DEF Saved
  <2>3. QED
    BY <1>2, <2>1, <2>2 DEF Faithful, Covers
<1>5. QED
  BY <1>1, <1>3, <1>4

LEMMA BuildBeginsKeeps ==
  ASSUME Inv, BuildBegins
  PROVE  Inv'
<1>1. /\ pc = "artifact" /\ pc' = "compile" /\ todo' = todo
      /\ artifact[kernel][stage] = "none" /\ SetArtifact("partial")
      /\ UNCHANGED <<updates, indexed, initrd, conf, blacklist, script, unit, enabled>>
      /\ UNCHANGED <<backup, running, before, job>> /\ KeepBoot
  BY DEF BuildBegins, At, Goto, KeepBoot, boot
<1>2. kernel \in Kernels /\ stage \in Stages
  BY <1>1 DEF Inv, JobInv, InstallSteps
<1>3. /\ artifact' \in [Kernels -> [Stages -> {"none", "partial", "whole"}]]
      /\ EnabledIsThere' /\ BuiltWhole'
      /\ \A b \in Backups : backup'[b] # None => before'[b] # None /\ Faithful(b)'
  BY <1>1, <1>2, ArtifactChanged
<1>4. TypeOK' /\ JobInv'
  BY <1>1, <1>3 DEF Inv, TypeOK, JobInv, InstallSteps, RollbackSteps, FromModules,
              FromService, FromDepmod, job
<1>5. BackupInv' /\ InstallInv' /\ RollbackInv'
  BY <1>1, <1>3 DEF BackupInv, InstallInv, RollbackInv, FromModules, FromService, FromDepmod,
              FromInitrd, FromConf, FromEnable, FromUnit, FromScript, FromCopy
<1>6. QED
  BY <1>3, <1>4, <1>5 DEF Inv

LEMMA BuildEndsKeeps ==
  ASSUME Inv, BuildEnds
  PROVE  Inv'
<1>1. /\ pc = "compile" /\ pc' = "modules" /\ todo' = Modules
      /\ SetArtifact("whole")
      /\ UNCHANGED <<updates, indexed, initrd, conf, blacklist, script, unit, enabled>>
      /\ UNCHANGED <<backup, running, before, job>> /\ KeepBoot
  BY DEF BuildEnds, At, Loop, KeepBoot, boot
<1>2. kernel \in Kernels /\ stage \in Stages
  BY <1>1 DEF Inv, JobInv, InstallSteps
<1>3. /\ artifact' \in [Kernels -> [Stages -> {"none", "partial", "whole"}]]
      /\ artifact'[kernel][stage] = "whole"
      /\ EnabledIsThere' /\ BuiltWhole'
      /\ \A b \in Backups : backup'[b] # None => before'[b] # None /\ Faithful(b)'
  BY <1>1, <1>2, ArtifactChanged
<1>4. TypeOK' /\ JobInv'
  BY <1>1, <1>3 DEF Inv, TypeOK, JobInv, Whole, InstallSteps, RollbackSteps, FromModules,
              FromService, FromDepmod, job
<1>5. BackupInv' /\ InstallInv' /\ RollbackInv'
  BY <1>1, <1>3 DEF BackupInv, InstallInv, RollbackInv, FromModules, FromService, FromDepmod,
              FromInitrd, FromConf, FromEnable, FromUnit, FromScript, FromCopy
<1>6. QED
  BY <1>3, <1>4, <1>5 DEF Inv

LEMMA InstallModuleKeeps ==
  ASSUME Inv, NEW m \in Modules, InstallModule(m)
  PROVE  Inv'
<1>1. /\ pc = "modules" /\ pc' = pc /\ m \in todo /\ todo' = todo \ {m}
      /\ updates' = [updates EXCEPT ![kernel][m] = stage]
      /\ UNCHANGED <<indexed, initrd, conf, blacklist, script, unit, enabled>>
      /\ UNCHANGED <<artifact, backup, running, before, job>>
  BY DEF InstallModule, At, KeepPolicy, KeepService, KeepTools
<1>2. kernel \in Kernels /\ stage \in Stages /\ Whole
  BY <1>1 DEF Inv, JobInv, InstallSteps
<1>3. /\ updates' \in [Kernels -> [Modules -> Files]]
      /\ \A k \in Kernels, n \in Modules :
            updates'[k][n] = IF k = kernel /\ n = m THEN stage ELSE updates[k][n]
  BY <1>1, <1>2 DEF Inv, TypeOK, Files
<1>4. TypeOK' /\ JobInv'
  BY <1>1, <1>3 DEF Inv, TypeOK, JobInv, Whole, InstallSteps, RollbackSteps, FromModules,
              FromService, FromDepmod, job
<1>5. BackupInv' /\ EnabledIsThere'
  BY <1>1 DEF Inv, BackupInv, Faithful, Covers, EnabledIsThere
<1>6. BuiltWhole'
  BY <1>1, <1>2, <1>3 DEF Inv, BuiltWhole, Whole
<1>7. InstallInv'
  BY <1>1, <1>2, <1>3 DEF Inv, InstallInv, FromModules, FromService, FromDepmod, job
<1>8. RollbackInv'
  BY <1>1 DEF RollbackInv, FromInitrd, FromConf, FromEnable, FromUnit, FromScript, FromCopy
<1>9. QED
  BY <1>4, <1>5, <1>6, <1>7, <1>8 DEF Inv

LEMMA ModulesDoneKeeps ==
  ASSUME Inv, ModulesDone
  PROVE  Inv'
<1>1. /\ pc = "modules" /\ pc' = "conf" /\ todo = {} /\ todo' = todo
      /\ UNCHANGED <<updates, indexed, initrd, conf, blacklist, script, unit, enabled>>
      /\ UNCHANGED <<artifact, backup, running, before, job>> /\ KeepBoot
  BY DEF ModulesDone, At, Goto, KeepBoot, KeepTools, boot
<1>2. TypeOK' /\ JobInv'
  BY <1>1 DEF Inv, TypeOK, JobInv, Whole, InstallSteps, RollbackSteps, FromModules,
              FromService, FromDepmod, job
<1>3. BackupInv' /\ EnabledIsThere' /\ BuiltWhole'
  BY <1>1, BootKept DEF BackupInv
<1>4. InstallInv' /\ RollbackInv'
  BY <1>1 DEF Inv, InstallInv, RollbackInv, FromModules, FromService, FromDepmod, FromInitrd,
              FromConf, FromEnable, FromUnit, FromScript, FromCopy, job
<1>5. QED
  BY <1>2, <1>3, <1>4 DEF Inv

LEMMA InstallDepmodKeeps ==
  ASSUME Inv, InstallDepmod
  PROVE  Inv'
<1>1. /\ pc = "depmod" /\ pc' = "nouveau" /\ todo' = todo /\ Depmod(kernel)
      /\ UNCHANGED <<updates, initrd, conf, blacklist, script, unit, enabled>>
      /\ UNCHANGED <<artifact, backup, running, before, job>>
  BY DEF InstallDepmod, At, Goto, KeepPolicy, KeepService, KeepTools
<1>2. /\ kernel \in Kernels /\ stage \in Stages
      /\ \A m \in Modules : updates[kernel][m] = stage
  BY <1>1 DEF Inv, JobInv, InstallInv, InstallSteps, FromModules, FromService
<1>3. indexed' \in [Kernels -> SUBSET Modules]
  BY <1>1, <1>2 DEF Depmod, Inv, TypeOK
<1>4. indexed'[kernel] = Modules
  BY <1>1, <1>2, NoneAssumption DEF Depmod, Inv, TypeOK
<1>5. TypeOK' /\ JobInv'
  BY <1>1, <1>3 DEF Inv, TypeOK, JobInv, Whole, InstallSteps, RollbackSteps, FromModules,
              FromService, FromDepmod, job
<1>6. BackupInv' /\ EnabledIsThere' /\ BuiltWhole'
  BY <1>1 DEF Inv, BackupInv, Faithful, Covers, EnabledIsThere, BuiltWhole
<1>7. InstallInv' /\ RollbackInv'
  BY <1>1, <1>4 DEF Inv, InstallInv, RollbackInv, FromModules, FromService, FromDepmod,
              FromInitrd, FromConf, FromEnable, FromUnit, FromScript, FromCopy, job
<1>8. QED
  BY <1>5, <1>6, <1>7 DEF Inv

LEMMA InitramfsKeeps ==
  ASSUME Inv, Initramfs
  PROVE  Inv'
<1>1. /\ pc = "initramfs" /\ pc' = "installed" /\ todo' = todo
      /\ initrd' = IF "initramfs" \in wants THEN [initrd EXCEPT ![kernel] = Image(kernel)]
                   ELSE initrd
      /\ UNCHANGED <<updates, indexed, conf, blacklist, script, unit, enabled>>
      /\ UNCHANGED <<artifact, backup, running, before, job>>
  BY DEF Initramfs, At, Goto, KeepPolicy, KeepService, KeepTools
<1>2. kernel \in Kernels
  BY <1>1 DEF Inv, JobInv, InstallSteps
<1>3. Image(kernel) \in Images
  BY <1>2, ImageType DEF Inv
<1>4. initrd' \in [Kernels -> Images]
  BY <1>1, <1>2, <1>3 DEF Inv, TypeOK
<1>5. Image(kernel)' = Image(kernel)
  BY <1>1 DEF Image, Loads, job
<1>6. "initramfs" \in wants => initrd'[kernel] = Image(kernel)
  BY <1>1, <1>2 DEF Inv, TypeOK
<1>7. TypeOK' /\ JobInv'
  BY <1>1, <1>4 DEF Inv, TypeOK, JobInv, Whole, InstallSteps, RollbackSteps, FromModules,
              FromService, FromDepmod, job
<1>8. BackupInv' /\ EnabledIsThere' /\ BuiltWhole'
  BY <1>1 DEF Inv, BackupInv, Faithful, Covers, EnabledIsThere, BuiltWhole
<1>9. InstallInv' /\ RollbackInv'
  BY <1>1, <1>5, <1>6 DEF Inv, InstallInv, RollbackInv, FromModules, FromService, FromDepmod,
              FromInitrd, FromConf, FromEnable, FromUnit, FromScript, FromCopy, job
<1>10. QED
  BY <1>7, <1>8, <1>9 DEF Inv

-----------------------------------------------------------------------------
(* The other steps of a rollback *)

LEMMA BeginRollbackKeeps ==
  ASSUME Inv, BeginRollback
  PROVE  Inv'
<1>1. /\ pc = "idle" /\ pc' = "move" /\ todo' = Modules
      /\ UNCHANGED <<updates, indexed, initrd, conf, blacklist, script, unit, enabled>>
      /\ UNCHANGED <<artifact, backup, running, before, stage, wants>> /\ KeepBoot
      /\ slot' \in Backups /\ backup[slot'] # None /\ kernel' = RollbackKernel(slot')
  BY DEF BeginRollback, Loop, KeepBoot, KeepTools, boot
<1>2. backup[slot'] \in Saved
  BY <1>1 DEF Inv, TypeOK
<1>3. /\ kernel' \in Kernels
      /\ backup[slot'].kernel \in Generic => kernel' = backup[slot'].kernel
  BY <1>1, <1>2 DEF RollbackKernel, Saved, Inv, TypeOK
<1>4. TypeOK' /\ JobInv'
  BY <1>1, <1>3 DEF Inv, TypeOK, JobInv, InstallSteps, RollbackSteps, FromModules,
              FromService, FromDepmod
<1>5. BackupInv' /\ EnabledIsThere' /\ BuiltWhole'
  BY <1>1, BootKept DEF BackupInv
<1>6. InstallInv' /\ RollbackInv'
  BY <1>1 DEF InstallInv, RollbackInv, FromModules, FromService, FromDepmod, FromInitrd,
              FromConf, FromEnable, FromUnit, FromScript, FromCopy
<1>7. QED
  BY <1>4, <1>5, <1>6 DEF Inv

LEMMA MoveAwayKeeps ==
  ASSUME Inv, NEW m \in Modules, MoveAway(m)
  PROVE  Inv'
<1>1. /\ pc = "move" /\ pc' = pc /\ m \in todo /\ todo' = todo \ {m}
      /\ updates' = [updates EXCEPT ![kernel][m] = None]
      /\ UNCHANGED <<indexed, initrd, conf, blacklist, script, unit, enabled>>
      /\ UNCHANGED <<artifact, backup, running, before, job>>
  BY DEF MoveAway, At, KeepPolicy, KeepService, KeepTools
<1>2. kernel \in Kernels
  BY <1>1, SavedKnown DEF RollbackSteps
<1>3. /\ updates' \in [Kernels -> [Modules -> Files]]
      /\ \A k \in Kernels, n \in Modules :
            updates'[k][n] = IF k = kernel /\ n = m THEN None ELSE updates[k][n]
  BY <1>1, <1>2 DEF Inv, TypeOK, Files
<1>4. TypeOK' /\ JobInv'
  BY <1>1, <1>3 DEF Inv, TypeOK, JobInv, InstallSteps, RollbackSteps, FromModules,
              FromService, FromDepmod, job
<1>5. BackupInv' /\ EnabledIsThere'
  BY <1>1 DEF Inv, BackupInv, Faithful, Covers, EnabledIsThere
<1>6. BuiltWhole'
  BY <1>1, <1>3, NoneAssumption DEF Inv, BuiltWhole
<1>7. RollbackInv'
  BY <1>1, <1>2, <1>3 DEF Inv, RollbackInv, FromInitrd, FromConf, FromEnable, FromUnit,
              FromScript, FromCopy, job
<1>8. InstallInv'
  BY <1>1 DEF InstallInv, FromModules, FromService, FromDepmod
<1>9. QED
  BY <1>4, <1>5, <1>6, <1>7, <1>8 DEF Inv

LEMMA MovedAwayKeeps ==
  ASSUME Inv, MovedAway
  PROVE  Inv'
<1>1. /\ pc = "move" /\ pc' = "restore" /\ todo = {} /\ todo' = Modules
      /\ UNCHANGED <<updates, indexed, initrd, conf, blacklist, script, unit, enabled>>
      /\ UNCHANGED <<artifact, backup, running, before, job>> /\ KeepBoot
  BY DEF MovedAway, At, Loop, KeepBoot, KeepTools, boot
<1>2. TypeOK' /\ JobInv'
  BY <1>1 DEF Inv, TypeOK, JobInv, InstallSteps, RollbackSteps, FromModules,
              FromService, FromDepmod, job
<1>3. BackupInv' /\ EnabledIsThere' /\ BuiltWhole'
  BY <1>1, BootKept DEF BackupInv
<1>4. InstallInv' /\ RollbackInv'
  BY <1>1 DEF Inv, InstallInv, RollbackInv, FromModules, FromService, FromDepmod, FromInitrd,
              FromConf, FromEnable, FromUnit, FromScript, FromCopy, job
<1>5. QED
  BY <1>2, <1>3, <1>4 DEF Inv

LEMMA CopyBackKeeps ==
  ASSUME Inv, NEW m \in Modules, CopyBack(m)
  PROVE  Inv'
<1> DEFINE saved == backup[slot]
<1>1. /\ pc = "restore" /\ pc' = pc /\ m \in todo /\ todo' = todo \ {m}
      /\ updates' = IF saved.modules[m] = None THEN updates
                    ELSE [updates EXCEPT ![saved.kernel][m] = saved.modules[m]]
      /\ UNCHANGED <<indexed, initrd, conf, blacklist, script, unit, enabled>>
      /\ UNCHANGED <<artifact, backup, running, before, job>>
  BY DEF CopyBack, At, KeepPolicy, KeepService, KeepTools
<1>2. /\ kernel \in Kernels /\ saved.kernel \in Kernels /\ Faithful(slot)
      /\ saved.modules \in [Modules -> Files]
  BY <1>1, SavedKnown DEF RollbackSteps, Saved
<1>3. /\ updates' \in [Kernels -> [Modules -> Files]]
      /\ \A k \in Kernels, n \in Modules :
            updates'[k][n] = IF k = saved.kernel /\ n = m /\ saved.modules[m] # None
                            THEN saved.modules[m] ELSE updates[k][n]
  <2>1. CASE saved.modules[m] = None
    BY <1>1, <2>1 DEF Inv, TypeOK
  <2>2. CASE saved.modules[m] # None
    BY <1>1, <1>2, <2>2 DEF Inv, TypeOK
  <2>3. QED
    BY <2>1, <2>2
<1>4. TypeOK' /\ JobInv'
  BY <1>1, <1>3 DEF Inv, TypeOK, JobInv, InstallSteps, RollbackSteps, FromModules,
              FromService, FromDepmod, job
<1>5. BackupInv' /\ EnabledIsThere'
  BY <1>1 DEF Inv, BackupInv, Faithful, Covers, EnabledIsThere
<1>6. BuiltWhole'
  BY <1>1, <1>2, <1>3 DEF Inv, BuiltWhole, Faithful
<1>7. RollbackInv'
  <2>1. kernel = saved.kernel =>
          \A n \in Modules :
            updates'[kernel][n] = IF n \in todo' THEN None ELSE saved.modules[n]
    BY <1>1, <1>2, <1>3 DEF Inv, RollbackInv
  <2>2. QED
    BY <1>1, <2>1 DEF RollbackInv, FromInitrd, FromConf, FromEnable, FromUnit,
              FromScript, FromCopy, job
<1>8. InstallInv'
  BY <1>1 DEF InstallInv, FromModules, FromService, FromDepmod
<1>9. QED
  BY <1>4, <1>5, <1>6, <1>7, <1>8 DEF Inv

LEMMA CopiedBackKeeps ==
  ASSUME Inv, CopiedBack
  PROVE  Inv'
<1>1. /\ pc = "restore" /\ pc' = "redisable" /\ todo = {} /\ todo' = todo
      /\ UNCHANGED <<updates, indexed, initrd, conf, blacklist, script, unit, enabled>>
      /\ UNCHANGED <<artifact, backup, running, before, job>> /\ KeepBoot
  BY DEF CopiedBack, At, Goto, KeepBoot, KeepTools, boot
<1>2. TypeOK' /\ JobInv'
  BY <1>1 DEF Inv, TypeOK, JobInv, InstallSteps, RollbackSteps, FromModules,
              FromService, FromDepmod, job
<1>3. BackupInv' /\ EnabledIsThere' /\ BuiltWhole'
  BY <1>1, BootKept DEF BackupInv
<1>4. kernel = backup[slot].kernel => updates[kernel] = backup[slot].modules
  <2>1. /\ kernel \in Kernels /\ updates[kernel] \in [Modules -> Files]
        /\ backup[slot].modules \in [Modules -> Files]
    BY <1>1, SavedKnown DEF RollbackSteps, Saved, Inv, TypeOK
  <2>2. kernel = backup[slot].kernel =>
          \A m \in Modules : updates[kernel][m] = backup[slot].modules[m]
    BY <1>1 DEF Inv, RollbackInv
  <2>3. QED
    BY <2>1, <2>2
<1>5. InstallInv' /\ RollbackInv'
  BY <1>1, <1>4 DEF InstallInv, RollbackInv, FromModules, FromService, FromDepmod, FromInitrd,
              FromConf, FromEnable, FromUnit, FromScript, FromCopy, job
<1>6. QED
  BY <1>2, <1>3, <1>5 DEF Inv

LEMMA RestoreInitrdKeeps ==
  ASSUME Inv, RestoreInitrd
  PROVE  Inv'
<1>1. /\ pc = "reinitrd" /\ pc' = "redepmod" /\ todo' = todo
      /\ initrd' = IF kernel = backup[slot].kernel
                   THEN [initrd EXCEPT ![kernel] = backup[slot].initrd] ELSE initrd
      /\ UNCHANGED <<updates, indexed, conf, blacklist, script, unit, enabled>>
      /\ UNCHANGED <<artifact, backup, running, before, job>>
  BY DEF RestoreInitrd, At, Goto, KeepPolicy, KeepService, KeepTools
<1>2. kernel \in Kernels /\ backup[slot].initrd \in Images
  BY <1>1, SavedKnown DEF RollbackSteps, Saved
<1>3. /\ initrd' \in [Kernels -> Images]
      /\ kernel = backup[slot].kernel => initrd'[kernel] = backup[slot].initrd
  BY <1>1, <1>2 DEF Inv, TypeOK
<1>4. TypeOK' /\ JobInv'
  BY <1>1, <1>3 DEF Inv, TypeOK, JobInv, InstallSteps, RollbackSteps, FromModules,
              FromService, FromDepmod, job
<1>5. BackupInv' /\ EnabledIsThere' /\ BuiltWhole'
  BY <1>1 DEF Inv, BackupInv, Faithful, Covers, EnabledIsThere, BuiltWhole
<1>6. InstallInv' /\ RollbackInv'
  BY <1>1, <1>3 DEF Inv, InstallInv, RollbackInv, FromModules, FromService, FromDepmod,
              FromInitrd, FromConf, FromEnable, FromUnit, FromScript, FromCopy, job
<1>7. QED
  BY <1>4, <1>5, <1>6 DEF Inv

LEMMA RollbackDepmodKeeps ==
  ASSUME Inv, RollbackDepmod
  PROVE  Inv'
<1>1. /\ pc = "redepmod" /\ pc' = "rolledback" /\ todo' = todo /\ Depmod(kernel)
      /\ UNCHANGED <<updates, initrd, conf, blacklist, script, unit, enabled>>
      /\ UNCHANGED <<artifact, backup, running, before, job>>
  BY DEF RollbackDepmod, At, Goto, KeepPolicy, KeepService, KeepTools
<1>2. kernel \in Kernels
  BY <1>1, SavedKnown DEF RollbackSteps
<1>3. /\ indexed' \in [Kernels -> SUBSET Modules]
      /\ indexed'[kernel] = {m \in Modules : updates[kernel][m] # None}
  BY <1>1, <1>2 DEF Depmod, Inv, TypeOK
<1>4. TypeOK' /\ JobInv'
  BY <1>1, <1>3 DEF Inv, TypeOK, JobInv, InstallSteps, RollbackSteps, FromModules,
              FromService, FromDepmod, job
<1>5. BackupInv' /\ EnabledIsThere' /\ BuiltWhole'
  BY <1>1 DEF Inv, BackupInv, Faithful, Covers, EnabledIsThere, BuiltWhole
<1>6. InstallInv' /\ RollbackInv'
  BY <1>1, <1>3 DEF Inv, InstallInv, RollbackInv, FromModules, FromService, FromDepmod,
              FromInitrd, FromConf, FromEnable, FromUnit, FromScript, FromCopy, job
<1>7. QED
  BY <1>4, <1>5, <1>6 DEF Inv

-----------------------------------------------------------------------------
(* The end of a run, and the theorems *)

\* With no run on the host nothing is said about how far one has come.
LEMMA IdleKeeps ==
  ASSUME Inv, Leave, UNCHANGED <<backup, artifact>>,
         TypeOK', EnabledIsThere', BuiltWhole'
  PROVE  Inv'
<1>1. pc' = "idle" /\ slot' = None /\ before' = before
  BY DEF Leave
<1>2. JobInv' /\ InstallInv' /\ RollbackInv'
  BY <1>1 DEF JobInv, InstallInv, RollbackInv, InstallSteps, RollbackSteps, FromModules,
              FromService, FromDepmod, FromInitrd, FromConf, FromEnable, FromUnit,
              FromScript, FromCopy
<1>3. BackupInv'
  BY <1>1 DEF Inv, BackupInv, Faithful, Covers
<1>4. QED
  BY <1>2, <1>3 DEF Inv

LEMMA FinishKeeps ==
  ASSUME Inv, Finish
  PROVE  Inv'
<1>1. /\ Leave /\ KeepBoot /\ UNCHANGED <<artifact, backup, before>>
      /\ UNCHANGED <<updates, indexed, initrd, conf, blacklist, script, unit, enabled>>
  BY DEF Finish, Leave, KeepBoot, KeepTools, boot
<1>2. EnabledIsThere' /\ BuiltWhole'
  BY <1>1, BootKept
<1>3. TypeOK'
  BY <1>1 DEF Inv, TypeOK, Leave
<1>4. QED
  BY <1>1, <1>2, <1>3, IdleKeeps

LEMMA StopsKeeps ==
  ASSUME Inv, Stops
  PROVE  Inv'
<1>1. /\ Partly /\ Leave
      /\ UNCHANGED <<artifact, backup, before, indexed, conf, blacklist, unit, enabled>>
      /\ pc \notin Done \cup {"idle"}
  BY DEF Stops, Partly, Leave, KeepPolicy, KeepTools
<1> DEFINE Tears ==
      /\ updates' \in [Kernels -> [Modules -> Files]]
      /\ \A k \in Kernels, m \in Modules :
            updates'[k][m] = updates[k][m] \/ updates'[k][m] = "torn"
<1>2. Tears
  <2>1. CASE UNCHANGED updates
    BY <2>1 DEF Inv, TypeOK
  <2>2. ASSUME pc = "modules", NEW m \in todo,
               updates' = [updates EXCEPT ![kernel][m] = "torn"]
        PROVE  Tears
    <3>1. kernel \in Kernels /\ m \in Modules
      BY <2>2 DEF Inv, TypeOK, JobInv, InstallSteps
    <3>2. QED
      BY <2>2, <3>1 DEF Inv, TypeOK, Files
  <2>3. ASSUME pc = "restore", NEW m \in todo,
               updates' = [updates EXCEPT ![backup[slot].kernel][m] = "torn"]
        PROVE  Tears
    <3>1. backup[slot].kernel \in Kernels /\ m \in Modules
      BY <2>3, SavedKnown DEF Inv, TypeOK, RollbackSteps, Saved
    <3>2. QED
      BY <2>3, <3>1 DEF Inv, TypeOK, Files
  <2>4. QED
    BY <1>1, <2>1, <2>2, <2>3 DEF Partly
<1>3. initrd' \in [Kernels -> Images]
  <2>1. CASE UNCHANGED initrd
    BY <2>1 DEF Inv, TypeOK
  <2>2. CASE pc = "reinitrd" /\ initrd' = [initrd EXCEPT ![kernel] = Torn]
    <3>1. kernel \in Kernels
      BY <2>2, SavedKnown DEF RollbackSteps
    <3>2. QED
      BY <2>2, <3>1 DEF Inv, TypeOK, Torn, Images
  <2>3. QED
    BY <1>1, <2>1, <2>2 DEF Partly
<1>4. /\ script' \in BOOLEAN
      /\ script' = script \/ (script' = FALSE /\ ~ enabled)
  BY <1>1 DEF Partly, Inv, TypeOK, InstallInv, RollbackInv
<1>5. TypeOK'
  BY <1>1, <1>2, <1>3, <1>4 DEF Inv, TypeOK, Leave
<1>6. EnabledIsThere'
  BY <1>1, <1>4 DEF Inv, EnabledIsThere
<1>7. BuiltWhole'
  <2>1. "torn" \notin Stages
    BY StagesAssumption
  <2>2. QED
    BY <1>1, <1>2, <2>1 DEF Inv, BuiltWhole
<1>8. QED
  BY <1>1, <1>5, <1>6, <1>7, IdleKeeps

LEMMA RebootsKeeps ==
  ASSUME Inv, Reboots
  PROVE  Inv'
<1>1. /\ pc = "idle" /\ pc' = "idle" /\ running' \in Kernels
      /\ UNCHANGED <<updates, indexed, initrd, conf, blacklist, script, unit, enabled>>
      /\ UNCHANGED <<artifact, backup, before, todo, job>> /\ KeepBoot
  BY DEF Reboots, KeepBoot, KeepTools, boot
<1>2. TypeOK' /\ JobInv'
  BY <1>1 DEF Inv, TypeOK, JobInv, InstallSteps, RollbackSteps, FromModules,
              FromService, FromDepmod, job
<1>3. BackupInv' /\ EnabledIsThere' /\ BuiltWhole'
  BY <1>1, BootKept DEF BackupInv
<1>4. InstallInv' /\ RollbackInv'
  BY <1>1 DEF InstallInv, RollbackInv, FromModules, FromService, FromDepmod, FromInitrd,
              FromConf, FromEnable, FromUnit, FromScript, FromCopy
<1>5. QED
  BY <1>2, <1>3, <1>4 DEF Inv

LEMMA InitHolds ==
  ASSUME Init
  PROVE  Inv
<1>1. TypeOK
  <2>1. \A k \in Kernels : Image(k) \in Images
    <3> SUFFICES ASSUME NEW k \in Kernels
                 PROVE  Image(k) \in Images
      OBVIOUS
    <3>1. \A m \in Modules : Loads(k, m) \in Files \cup {"distro"}
      BY DEF Init, Loads, Files
    <3>2. QED
      BY <3>1 DEF Init, Image, Images, Confs
  <2>2. initrd \in [Kernels -> Images]
    BY <2>1 DEF Init
  <2>3. QED
    BY <2>2 DEF Init, TypeOK, Files, Confs
<1>2. JobInv /\ BackupInv /\ InstallInv /\ RollbackInv
  BY DEF Init, JobInv, BackupInv, InstallInv, RollbackInv, InstallSteps, RollbackSteps,
         FromModules, FromService, FromDepmod, FromInitrd, FromConf, FromEnable, FromUnit,
         FromScript, FromCopy
<1>3. EnabledIsThere /\ BuiltWhole
  BY NoneAssumption DEF Init, EnabledIsThere, BuiltWhole
<1>4. QED
  BY <1>1, <1>2, <1>3 DEF Inv

LEMMA StepKeeps ==
  ASSUME Inv, [Next]_vars
  PROVE  Inv'
<1>1. CASE UNCHANGED vars
  BY <1>1 DEF vars, boot, job, Inv, TypeOK, JobInv, Whole, BackupInv, Faithful, Covers,
              InstallInv, RollbackInv, EnabledIsThere, BuiltWhole, Image, Loads
<1>2. CASE Install
  BY <1>2, BeginInstallKeeps, BackupKeeps, MarkKeeps, TakeArtifactKeeps, BuildBeginsKeeps,
     BuildEndsKeeps, InstallModuleKeeps, ModulesDoneKeeps, ConfKeeps, InstallScriptKeeps,
     InstallUnitKeeps, EnableKeeps, DisableKeeps, RemoveKeeps, InstallDepmodKeeps,
     NouveauKeeps, InitramfsKeeps
  DEF Install
<1>3. CASE Rollback
  BY <1>3, BeginRollbackKeeps, MoveAwayKeeps, CopyBackKeeps, MovedAwayKeeps,
     CopiedBackKeeps, DisableKeeps, RemoveKeeps, RestoreScriptKeeps, RestoreUnitKeeps,
     RestoreEnabledKeeps, RemoveConfKeeps, RestoreConfKeeps, RemoveBlacklistKeeps,
     RestoreBlacklistKeeps, RestoreInitrdKeeps, RollbackDepmodKeeps
  DEF Rollback
<1>4. CASE Finish \/ Stops \/ Reboots
  BY <1>4, FinishKeeps, StopsKeeps, RebootsKeeps
<1>5. QED
  BY <1>1, <1>2, <1>3, <1>4 DEF Next

\* The invariant holds at every step of every sequence of installs, rollbacks,
\* interruptions and reboots.
THEOREM Invariance == Spec => []Inv
<1>1. Init => Inv
  BY InitHolds
<1>2. Inv /\ [Next]_vars => Inv'
  BY StepKeeps
<1>3. QED
  BY <1>1, <1>2, PTL DEF Spec

\* Every variable of the installer keeps its type.
THEOREM TypeCorrect == Spec => []TypeOK
<1>1. Inv => TypeOK
  BY DEF Inv
<1>2. QED
  BY <1>1, Invariance, PTL

\* A rollback that ends gives back what the host would have booted when the
\* install began, however often it or that install was interrupted.
THEOREM RollbackStaysRestoring == Spec => []RollbackRestores
<1>1. ASSUME Inv, pc = "rolledback", backup[slot].kernel \in Generic
      PROVE  LET old == before[slot] IN
             /\ \A m \in Modules :
                  old.image.modules[m] # None => Loads(kernel, m) = old.image.modules[m]
             /\ conf = old.image.conf
             /\ backup[slot].managed => blacklist = old.image.blacklist
             /\ initrd[kernel] = old.initrd
             /\ script = old.script /\ unit = old.unit /\ enabled = old.enabled
  <2>1. /\ kernel = backup[slot].kernel /\ backup[slot] \in Saved /\ Faithful(slot)
    BY <1>1, SavedKnown DEF Inv, JobInv, RollbackSteps
  <2>2. /\ updates[kernel] = backup[slot].modules
        /\ indexed[kernel] = {m \in Modules : updates[kernel][m] # None}
    BY <1>1, <2>1 DEF Inv, RollbackInv, FromCopy, FromScript, FromUnit, FromEnable,
                      FromConf, FromInitrd
  <2>3. \A m \in Modules : before[slot].image.modules[m] # None =>
          Loads(kernel, m) = before[slot].image.modules[m]
    BY <2>1, <2>2 DEF Faithful, Covers, Loads
  <2>4. QED
    BY <1>1, <2>1, <2>3 DEF Faithful, Inv, RollbackInv, FromCopy, FromScript, FromUnit,
                            FromEnable, FromConf, FromInitrd
<1>2. Inv => RollbackRestores
  BY <1>1 DEF RollbackRestores
<1>3. QED
  BY <1>2, Invariance, PTL

\* An install that ends has staged exactly what was asked for.
THEOREM InstalledStaysAsAsked == Spec => []InstalledAsAsked
<1>1. Inv => InstalledAsAsked
  <2> SUFFICES ASSUME Inv, pc = "installed"
               PROVE  InstalledAsAsked
    BY DEF InstalledAsAsked
  <2>1. \A m \in Modules : Loads(kernel, m) = stage
    BY DEF Inv, InstallInv, Loads, FromModules, FromService, FromDepmod
  <2>2. QED
    BY <2>1 DEF InstalledAsAsked, Inv, InstallInv, FromModules, FromService, FromDepmod
<1>2. QED
  BY <1>1, Invariance, PTL

\* The host never boots into a second pass whose files are gone.
THEOREM EnabledStaysThere == Spec => []EnabledIsThere
<1>1. Inv => EnabledIsThere
  BY DEF Inv
<1>2. QED
  BY <1>1, Invariance, PTL

\* No module of an unfinished build is staged, by an install or by a rollback.
THEOREM BuiltStaysWhole == Spec => []BuiltWhole
<1>1. Inv => BuiltWhole
  BY DEF Inv
<1>2. QED
  BY <1>1, Invariance, PTL
=============================================================================
