------------------------------ MODULE Install ------------------------------
(***************************************************************************)
(* Staging the driver for the next boot and taking it back:                *)
(* src/install.sh with the src/build.sh it calls, and src/rollback.sh.     *)
(*                                                                         *)
(* A step is one command that changes the host, a loop one step per        *)
(* module.  A run may end at every step (a failing command under set -e, a *)
(* signal, a power cut), with the command it was at done in part; the      *)
(* operator may then install again, roll back, repeat a rollback, or boot  *)
(* another kernel.  One run at a time is on the host.                      *)
(***************************************************************************)
EXTENDS FiniteSets

CONSTANTS
  Kernels,   \* the installed kernels
  Modules,   \* nvidia.ko and the modules built with it
  Stages,    \* the patch stages an operator asks for
  Backups,   \* one per install; bounds the number of installs
  Generic,   \* the kernels whose release ends in -generic
  Gen2Ready, \* the kernels the second pass supports
  Distro,    \* modules another package provides beside updates/
  None       \* no file

ASSUME KernelsAssumption == Generic \subseteq Kernels /\ Gen2Ready \subseteq Kernels
ASSUME StagesAssumption == Stages \subseteq {"rt", "rebar", "gen2"}
ASSUME NoneAssumption == None \notin Stages \cup Backups \cup {"torn", "distro"}

VARIABLES
  running,   \* the kernel the host runs
  artifact,  \* what the artifact directory of a kernel and a stage holds
  updates,   \* the files under /lib/modules/<kernel>/updates
  indexed,   \* the modules depmod last found there
  initrd,    \* what the initramfs of a kernel was made from
  conf,      \* /etc/modprobe.d/cmp50-unlock.conf
  blacklist, \* /etc/modprobe.d/cmp50-disable-nouveau.conf is there
  script,    \* /usr/local/sbin/cmp50-gen2-second-pass is there
  unit,      \* its unit file is there
  enabled,   \* and the unit is enabled
  backup,    \* the backups whose path the installer has printed
  pc, todo,  \* where the run is, and the modules its loop has not reached
  kernel, stage, wants, slot, \* its kernel, stage, options and backup, None
                              \* when there is no run
  before     \* what the host would boot when the install of a backup began

boot == <<updates, indexed, initrd, conf, blacklist, script, unit, enabled>>
job == <<kernel, stage, wants, slot>>
vars == <<running, artifact, boot, backup, pc, todo, job, before>>

-----------------------------------------------------------------------------
(* State *)

Files == Stages \cup {"torn", None}
Confs == {"rebar", "gen2", None}

InstallSteps ==
  {"backup", "mark", "artifact", "compile", "modules", "conf", "script", "unit",
   "enable", "disable", "remove", "depmod", "nouveau", "initramfs", "installed"}
RollbackSteps ==
  {"move", "restore", "redisable", "reremove", "rescript", "reunit", "reenable",
   "unconf", "reconf", "unblacklist", "reblacklist", "reinitrd", "redepmod",
   "rolledback"}
Done == {"installed", "rolledback"}

\* What modprobe finds: the index decides which path is looked at.
Loads(k, m) ==
  IF m \in indexed[k] THEN updates[k][m]
  ELSE IF m \in Distro THEN "distro" ELSE None

\* What update-initramfs copies for a kernel.
Image(k) ==
  [modules |-> [m \in Modules |-> Loads(k, m)], conf |-> conf, blacklist |-> blacklist]

Images ==
  [modules : [Modules -> Files \cup {"distro"}], conf : Confs, blacklist : BOOLEAN]
    \cup {[torn |-> TRUE]}

\* What the installer saves, and what a rollback is measured against.
Saved ==
  [kernel : Kernels, modules : [Modules -> Files], initrd : Images, conf : Confs,
   blacklist : BOOLEAN, script : BOOLEAN, unit : BOOLEAN, enabled : BOOLEAN,
   managed : BOOLEAN]
Hosts ==
  [image : Images, initrd : Images, script : BOOLEAN, unit : BOOLEAN, enabled : BOOLEAN]
ASSUME NoRecordAssumption == None \notin Saved \cup Hosts

TypeOK ==
  /\ running \in Kernels
  /\ artifact \in [Kernels -> [Stages -> {"none", "partial", "whole"}]]
  /\ updates \in [Kernels -> [Modules -> Files]]
  /\ indexed \in [Kernels -> SUBSET Modules]
  /\ initrd \in [Kernels -> Images]
  /\ conf \in Confs
  /\ {blacklist, script, unit, enabled} \subseteq BOOLEAN
  /\ backup \in [Backups -> Saved \cup {None}]
  /\ pc \in {"idle"} \cup InstallSteps \cup RollbackSteps
  /\ todo \subseteq Modules
  /\ kernel \in Kernels \cup {None}
  /\ stage \in Stages \cup {None}
  /\ wants \subseteq {"initramfs", "nouveau"}
  /\ slot \in Backups \cup {None}
  /\ before \in [Backups -> Hosts \cup {None}]

\* A host without this project: the owner may have a nouveau policy under the
\* same name.
Init ==
  /\ running \in Kernels
  /\ artifact = [k \in Kernels |-> [s \in Stages |-> "none"]]
  /\ updates = [k \in Kernels |-> [m \in Modules |-> None]]
  /\ indexed = [k \in Kernels |-> {}]
  /\ conf = None
  /\ blacklist \in BOOLEAN
  /\ initrd = [k \in Kernels |-> Image(k)]
  /\ script = FALSE
  /\ unit = FALSE
  /\ enabled = FALSE
  /\ backup = [b \in Backups |-> None]
  /\ pc = "idle"
  /\ todo = {}
  /\ kernel = None
  /\ stage = None
  /\ wants = {}
  /\ slot = None
  /\ before = [b \in Backups |-> None]

-----------------------------------------------------------------------------
(* Steps of a run *)

At(label) == pc = label /\ UNCHANGED <<running, job, before>>

Goto(label) == pc' = label /\ UNCHANGED todo

Loop(label) == pc' = label /\ todo' = Modules

\* Each part of the boot state a step leaves alone.
KeepModules == UNCHANGED <<updates, indexed, initrd>>
KeepPolicy == UNCHANGED <<conf, blacklist>>
KeepService == UNCHANGED <<script, unit, enabled>>
KeepBoot == UNCHANGED boot
KeepTools == UNCHANGED <<artifact, backup>>

\* Every check before the backup is a run that never began.
BeginInstall ==
  /\ pc = "idle"
  /\ kernel' = running
  /\ stage' \in Stages
  /\ stage' = "gen2" => running \in Gen2Ready
  /\ wants' \in {{}, {"initramfs"}, {"initramfs", "nouveau"}}
  /\ \E b \in Backups :
       /\ before[b] = None
       /\ slot' = b
       /\ before' = [before EXCEPT ![b] =
            [image |-> Image(running), initrd |-> initrd[running],
             script |-> script, unit |-> unit, enabled |-> enabled]]
  /\ Goto("backup")
  /\ KeepBoot /\ KeepTools /\ UNCHANGED running

SavedModulesOfUpdates == updates[kernel]
SavedModulesOfAnyPath == [m \in Modules |-> Loads(kernel, m)]
\* The module modinfo finds is saved under its own path; of those only the
\* ones in updates/ can differ when they are copied back.
SavedModules ==
  [m \in Modules |-> IF m \in indexed[kernel] THEN updates[kernel][m] ELSE None]

Backup ==
  /\ At("backup")
  /\ backup' = [backup EXCEPT ![slot] =
       [kernel |-> kernel, modules |-> SavedModules, initrd |-> initrd[kernel],
        conf |-> conf, blacklist |-> blacklist,
        script |-> script, unit |-> unit, enabled |-> enabled, managed |-> FALSE]]
  /\ Goto("mark")
  /\ KeepBoot /\ UNCHANGED artifact

Mark ==
  /\ At("mark")
  /\ backup' = [backup EXCEPT ![slot].managed = "nouveau" \in wants]
  /\ Goto("artifact")
  /\ KeepBoot /\ UNCHANGED artifact

WholeOnceThere == artifact[kernel][stage] # "none"
Whole == artifact[kernel][stage] = "whole"

SetArtifact(state) == artifact' = [artifact EXCEPT ![kernel][stage] = state]

\* The checksums tell a finished artifact directory; build.sh refuses one that
\* is there already, so an unfinished one ends the run.
TakeArtifact ==
  /\ At("artifact")
  /\ Whole
  /\ Loop("modules")
  /\ KeepBoot /\ KeepTools

BuildBegins ==
  /\ At("artifact")
  /\ artifact[kernel][stage] = "none"
  /\ SetArtifact("partial")
  /\ Goto("compile")
  /\ KeepBoot /\ UNCHANGED backup

BuildEnds ==
  /\ At("compile")
  /\ SetArtifact("whole")
  /\ Loop("modules")
  /\ KeepBoot /\ UNCHANGED backup

InstallModule(m) ==
  /\ At("modules")
  /\ m \in todo
  /\ updates' = [updates EXCEPT ![kernel][m] = stage]
  /\ todo' = todo \ {m}
  /\ UNCHANGED <<pc, indexed, initrd>>
  /\ KeepPolicy /\ KeepService /\ KeepTools

ModulesDone ==
  /\ At("modules")
  /\ todo = {}
  /\ Goto("conf")
  /\ KeepBoot /\ KeepTools

StageConf == [rt |-> None, rebar |-> "rebar", gen2 |-> "gen2"]

ConfOnlyWritten ==
  /\ At("conf")
  /\ conf' = IF StageConf[stage] = None THEN conf ELSE StageConf[stage]
  /\ Goto(IF stage = "gen2" THEN "script" ELSE IF unit THEN "disable" ELSE "depmod")
  /\ KeepModules /\ UNCHANGED blacklist /\ KeepService /\ KeepTools
Conf ==
  /\ At("conf")
  /\ conf' = StageConf[stage]
  /\ Goto(IF stage = "gen2" THEN "script" ELSE IF unit THEN "disable" ELSE "depmod")
  /\ KeepModules /\ UNCHANGED blacklist /\ KeepService /\ KeepTools

InstallScript ==
  /\ At("script")
  /\ script' = TRUE
  /\ Goto("unit")
  /\ KeepModules /\ KeepPolicy /\ UNCHANGED <<unit, enabled>> /\ KeepTools

InstallUnit ==
  /\ At("unit")
  /\ unit' = TRUE
  /\ Goto("enable")
  /\ KeepModules /\ KeepPolicy /\ UNCHANGED <<script, enabled>> /\ KeepTools

Enable ==
  /\ At("enable")
  /\ enabled' = TRUE
  /\ Goto("depmod")
  /\ KeepModules /\ KeepPolicy /\ UNCHANGED <<script, unit>> /\ KeepTools

DisableForgotten(label, next) ==
  /\ At(label)
  /\ Goto(next)
  /\ KeepBoot /\ KeepTools
Disable(label, next) ==
  /\ At(label)
  /\ enabled' = FALSE
  /\ Goto(next)
  /\ KeepModules /\ KeepPolicy /\ UNCHANGED <<script, unit>> /\ KeepTools

Remove(label, next) ==
  /\ At(label)
  /\ script' = FALSE
  /\ unit' = FALSE
  /\ Goto(next)
  /\ KeepModules /\ KeepPolicy /\ UNCHANGED enabled /\ KeepTools

Depmod(k) == indexed' = [indexed EXCEPT ![k] = {m \in Modules : updates[k][m] # None}]

InstallDepmod ==
  /\ At("depmod")
  /\ Depmod(kernel)
  /\ Goto("nouveau")
  /\ UNCHANGED <<updates, initrd>> /\ KeepPolicy /\ KeepService /\ KeepTools

Nouveau ==
  /\ At("nouveau")
  /\ blacklist' = (blacklist \/ "nouveau" \in wants)
  /\ Goto("initramfs")
  /\ KeepModules /\ UNCHANGED conf /\ KeepService /\ KeepTools

Initramfs ==
  /\ At("initramfs")
  /\ initrd' = IF "initramfs" \in wants THEN [initrd EXCEPT ![kernel] = Image(kernel)]
               ELSE initrd
  /\ Goto("installed")
  /\ UNCHANGED <<updates, indexed>> /\ KeepPolicy /\ KeepService /\ KeepTools

-----------------------------------------------------------------------------
(* The rollback *)

\* The kernel is read back from uname.txt by its -generic ending; another one
\* gives way to the kernel that runs.
RollbackKernel(b) ==
  IF backup[b].kernel \in Generic THEN backup[b].kernel ELSE running

BeginRollback ==
  /\ pc = "idle"
  /\ \E b \in Backups :
       /\ backup[b] # None
       /\ slot' = b
       /\ kernel' = RollbackKernel(b)
  /\ Loop("move")
  /\ UNCHANGED <<running, stage, wants, before>>
  /\ KeepBoot /\ KeepTools

MoveAway(m) ==
  /\ At("move")
  /\ m \in todo
  /\ updates' = [updates EXCEPT ![kernel][m] = None]
  /\ todo' = todo \ {m}
  /\ UNCHANGED <<pc, indexed, initrd>>
  /\ KeepPolicy /\ KeepService /\ KeepTools

MovedAway ==
  /\ At("move")
  /\ todo = {}
  /\ Loop("restore")
  /\ KeepBoot /\ KeepTools

\* The saved files go back to the paths they were saved from.
CopyBack(m) ==
  /\ At("restore")
  /\ m \in todo
  /\ LET saved == backup[slot] IN
       updates' = IF saved.modules[m] = None THEN updates
                  ELSE [updates EXCEPT ![saved.kernel][m] = saved.modules[m]]
  /\ todo' = todo \ {m}
  /\ UNCHANGED <<pc, indexed, initrd>>
  /\ KeepPolicy /\ KeepService /\ KeepTools

CopiedBack ==
  /\ At("restore")
  /\ todo = {}
  /\ Goto("redisable")
  /\ KeepBoot /\ KeepTools

RestoreScript ==
  /\ At("rescript")
  /\ script' = (script \/ backup[slot].script)
  /\ Goto("reunit")
  /\ KeepModules /\ KeepPolicy /\ UNCHANGED <<unit, enabled>> /\ KeepTools

RestoreUnit ==
  /\ At("reunit")
  /\ unit' = (unit \/ backup[slot].unit)
  /\ Goto("reenable")
  /\ KeepModules /\ KeepPolicy /\ UNCHANGED <<script, enabled>> /\ KeepTools

RestoreEnabled ==
  /\ At("reenable")
  /\ enabled' = (enabled \/ backup[slot].enabled)
  /\ Goto("unconf")
  /\ KeepModules /\ KeepPolicy /\ UNCHANGED <<script, unit>> /\ KeepTools

RemoveConf ==
  /\ At("unconf")
  /\ conf' = None
  /\ Goto("reconf")
  /\ KeepModules /\ UNCHANGED blacklist /\ KeepService /\ KeepTools

RestoreConf ==
  /\ At("reconf")
  /\ conf' = backup[slot].conf
  /\ Goto(IF backup[slot].managed THEN "unblacklist" ELSE "reinitrd")
  /\ KeepModules /\ UNCHANGED blacklist /\ KeepService /\ KeepTools

RemoveBlacklist ==
  /\ At("unblacklist")
  /\ blacklist' = FALSE
  /\ Goto("reblacklist")
  /\ KeepModules /\ UNCHANGED conf /\ KeepService /\ KeepTools

RestoreBlacklist ==
  /\ At("reblacklist")
  /\ blacklist' = backup[slot].blacklist
  /\ Goto("reinitrd")
  /\ KeepModules /\ UNCHANGED conf /\ KeepService /\ KeepTools

\* A backup has the image of its own kernel only.
RestoreInitrd ==
  /\ At("reinitrd")
  /\ initrd' = IF kernel = backup[slot].kernel
               THEN [initrd EXCEPT ![kernel] = backup[slot].initrd] ELSE initrd
  /\ Goto("redepmod")
  /\ UNCHANGED <<updates, indexed>> /\ KeepPolicy /\ KeepService /\ KeepTools

RollbackDepmod ==
  /\ At("redepmod")
  /\ Depmod(kernel)
  /\ Goto("rolledback")
  /\ UNCHANGED <<updates, initrd>> /\ KeepPolicy /\ KeepService /\ KeepTools

-----------------------------------------------------------------------------
(* The end of a run *)

Leave ==
  /\ pc' = "idle"
  /\ todo' = {}
  /\ kernel' = None
  /\ stage' = None
  /\ wants' = {}
  /\ slot' = None
  /\ UNCHANGED <<running, before>>

Finish ==
  /\ pc \in Done
  /\ Leave
  /\ KeepBoot /\ KeepTools

Torn == [torn |-> TRUE]

\* What the current command may leave behind when it does not end: a file half
\* written, the first of two files removed, some files copied back.
Partly ==
  /\ \/ /\ pc = "modules"
        /\ \E m \in todo : updates' = [updates EXCEPT ![kernel][m] = "torn"]
     \/ /\ pc = "restore"
        /\ \E m \in todo :
             /\ backup[slot].modules[m] # None
             /\ updates' = [updates EXCEPT ![backup[slot].kernel][m] = "torn"]
     \/ UNCHANGED updates
  /\ \/ /\ pc = "reinitrd" /\ kernel = backup[slot].kernel
        /\ initrd' = [initrd EXCEPT ![kernel] = Torn]
     \/ UNCHANGED initrd
  /\ script' \in {script} \cup (IF pc \in {"remove", "reremove"} THEN {FALSE} ELSE {})
  /\ UNCHANGED <<indexed, unit, enabled>>
  /\ KeepPolicy /\ KeepTools

\* A command fails, a signal arrives, or the power goes: no trap cleans up.
Stops ==
  /\ pc \notin Done \cup {"idle"}
  /\ Partly
  /\ Leave

Reboots ==
  /\ pc = "idle"
  /\ running' \in Kernels \ {running}
  /\ UNCHANGED <<pc, todo, job, before>>
  /\ KeepBoot /\ KeepTools

-----------------------------------------------------------------------------
(* Specification *)

Install ==
  \/ BeginInstall \/ Backup \/ Mark \/ TakeArtifact \/ BuildBegins \/ BuildEnds
  \/ \E m \in Modules : InstallModule(m)
  \/ ModulesDone \/ Conf \/ InstallScript \/ InstallUnit \/ Enable
  \/ Disable("disable", "remove") \/ Remove("remove", "depmod")
  \/ InstallDepmod \/ Nouveau \/ Initramfs

Rollback ==
  \/ BeginRollback
  \/ \E m \in Modules : MoveAway(m) \/ CopyBack(m)
  \/ MovedAway \/ CopiedBack
  \/ Disable("redisable", "reremove") \/ Remove("reremove", "rescript")
  \/ RestoreScript \/ RestoreUnit \/ RestoreEnabled \/ RemoveConf \/ RestoreConf
  \/ RemoveBlacklist \/ RestoreBlacklist \/ RestoreInitrd \/ RollbackDepmod

Next == Install \/ Rollback \/ Finish \/ Stops \/ Reboots

Spec == Init /\ [][Next]_vars

-----------------------------------------------------------------------------
(* Properties *)

\* Whatever was interrupted before, a rollback that ends with PASS gives back
\* what the host would have booted when that install began: every module that
\* could be loaded, the options, the second pass, the initramfs, and, if that
\* install managed it, the nouveau policy (rollback.sh).
RollbackRestores ==
  pc = "rolledback" /\ backup[slot].kernel \in Generic =>
    LET old == before[slot] IN
      /\ \A m \in Modules :
           old.image.modules[m] # None => Loads(kernel, m) = old.image.modules[m]
      /\ conf = old.image.conf
      /\ backup[slot].managed => blacklist = old.image.blacklist
      /\ initrd[kernel] = old.initrd
      /\ script = old.script /\ unit = old.unit /\ enabled = old.enabled

\* An install that ends with PASS has staged what was asked for, whatever it
\* found on the host: every module and the options of that stage, the second
\* pass for gen2 alone, and an initramfs made from just that.
InstalledAsAsked ==
  pc = "installed" =>
    /\ \A m \in Modules : Loads(kernel, m) = stage
    /\ conf = StageConf[stage]
    /\ enabled = (stage = "gen2") /\ unit = (stage = "gen2")
    /\ "nouveau" \in wants => blacklist
    /\ "initramfs" \in wants => initrd[kernel] = Image(kernel)

\* At no point can the host boot into a second pass that is not there.
EnabledIsThere == enabled => unit /\ script

\* No module of an unfinished build is ever staged.
BuiltWhole ==
  \A k \in Kernels, m \in Modules :
    updates[k][m] \in Stages => artifact[k][updates[k][m]] = "whole"
=============================================================================
