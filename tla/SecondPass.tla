----------------------------- MODULE SecondPass -----------------------------
(***************************************************************************)
(* The Gen2 second pass: src/scripts/cmp50-gen2-second-pass.sh, run by its *)
(* oneshot unit at boot and by an operator by hand.  It pauses udev,       *)
(* unbinds every CMP 50HX, unloads the driver, resets the cards and loads  *)
(* the driver again.                                                       *)
(*                                                                         *)
(* A step is one command of the script, a loop one step per card.  Under   *)
(* set -e a failing command ends the run through the EXIT trap, and so do  *)
(* INT and TERM; a signal that arrives while the trap runs ends it there,  *)
(* and SIGKILL ends the run anywhere.  Runs share the flock, udev, the     *)
(* driver and the cards; applications open and close the cards throughout. *)
(***************************************************************************)
EXTENDS Naturals, FiniteSets

CONSTANTS
  Procs,  \* runs of the script that may overlap: the unit's, an operator's
  Cards,  \* the CMP 50HX cards lspci lists
  Units,  \* systemd-udevd.service and its two sockets
  Free    \* the flock when nobody holds it

ASSUME ProcsAssumption == Free \notin Procs
ASSUME CardsAssumption == IsFiniteSet(Cards) /\ Cards # {}
ASSUME UnitsAssumption == Units # {}

VARIABLES
  pc,       \* where each run is; "idle" when there is none
  todo,     \* the cards the current loop of each run has not reached
  passed,   \* the latest run of each ended with PASS
  lock,     \* who holds /run/lock/cmp50-gen2.lock
  masked,   \* udev units that are masked
  running,  \* udev units that are active
  policy,   \* udev units masked by the host's owner, not by a run
  module,   \* the nvidia module is loaded
  bound,    \* cards bound to it
  ready,    \* cards nvidia-smi lists
  gen2,     \* cards whose link runs at 5.0 GT/s
  large,    \* cards whose ReBAR control has the 16 GiB encoding
  inUse,    \* an application holds an NVIDIA device file open
  foreign,  \* a GPU that is not a CMP 50HX is bound to nvidia as well
  damage    \* what last kept a run from restoring udev, "none" once it is whole

udev == <<masked, running, damage>>
cards == <<module, bound, ready, gen2, large>>
fixed == <<policy, foreign>>
vars == <<pc, todo, passed, lock, udev, cards, inUse, fixed>>

-----------------------------------------------------------------------------
(* State *)

\* Before the mark, between the mark and the reload, after it, and the trap.
Harmless == {"lock", "load", "wait", "speed", "drivers", "apps", "policy"}
Paused == {"unbind", "unload", "reset", "reload"}
Body == Harmless \cup {"mask", "stop"} \cup Paused \cup {"rewait", "verify"}
Trap == {"unmask", "start"}

TypeOK ==
  /\ pc \in [Procs -> {"idle"} \cup Body \cup Trap]
  /\ todo \in [Procs -> SUBSET Cards]
  /\ passed \in [Procs -> BOOLEAN]
  /\ lock \in Procs \cup {Free}
  /\ masked \subseteq Units
  /\ running \subseteq Units
  /\ policy \subseteq Units
  /\ module \in BOOLEAN
  /\ bound \subseteq Cards
  /\ ready \subseteq bound
  /\ gen2 \subseteq Cards
  /\ large \subseteq Cards
  /\ inUse \in BOOLEAN
  /\ foreign \in BOOLEAN
  /\ damage \in {"none", "killed", "failed", "signalled"}

\* The host has booted to the point where the unit may start: the driver is
\* not loaded yet, and the owner may have masked some udev units.
Init ==
  /\ pc = [p \in Procs |-> "idle"]
  /\ todo = [p \in Procs |-> {}]
  /\ passed = [p \in Procs |-> FALSE]
  /\ lock = Free
  /\ policy \in SUBSET Units
  /\ masked = policy
  /\ running = Units \ policy
  /\ module = FALSE
  /\ bound = {}
  /\ ready = {}
  /\ gen2 = {}
  /\ large = {}
  /\ inUse = FALSE
  /\ foreign \in BOOLEAN
  /\ damage = "none"

-----------------------------------------------------------------------------
(* Leaving a run *)

UdevStoppedAlways(p) == TRUE
UdevStoppedOnceDone(p) == pc[p] \in Paused \cup {"rewait", "verify"}
\* udev_stopped is set before the first operation on udev, and never reset.
UdevStopped(p) == pc[p] \in {"mask", "stop"} \cup Paused \cup {"rewait", "verify"}

Goto(p, label) == pc' = [pc EXCEPT ![p] = label]

LoopOver(p, left) == todo' = [todo EXCEPT ![p] = left]

Proceed(p, label) == Goto(p, label) /\ UNCHANGED <<todo, lock>>

Release(p) == lock' = IF lock = p THEN Free ELSE lock

\* exit: the EXIT trap has something to do only once udev_stopped is set.
Exit(p) ==
  /\ LoopOver(p, {})
  /\ IF UdevStopped(p)
     THEN Goto(p, "unmask") /\ UNCHANGED lock
     ELSE Goto(p, "idle") /\ Release(p)

Vanish(p) ==
  /\ LoopOver(p, {})
  /\ Goto(p, "idle")
  /\ Release(p)
  /\ passed' = [passed EXCEPT ![p] = FALSE]

-----------------------------------------------------------------------------
(* The driver and the cards, as far as the script sees them *)

\* modprobe nvidia probes every card.  A probe may fail, and the resize to
\* 16 GiB may not happen.  A loaded module is left as it is.
Modprobe ==
  IF module
  THEN UNCHANGED cards
  ELSE /\ module' = TRUE
       /\ bound' \in SUBSET Cards
       /\ \E grown \in SUBSET bound' : large' = large \cup grown
       /\ UNCHANGED <<ready, gen2>>

\* The card answers a client; its retraining may reach Gen2 or not.
Initializes(c) ==
  /\ c \in bound \ ready
  /\ ready' = ready \cup {c}
  /\ gen2' \in {gen2, gen2 \cup {c}}
  /\ UNCHANGED <<pc, todo, passed, lock, udev, module, bound, large, inUse, fixed>>

\* udev loads the driver for a card that has none.
UdevLoads ==
  /\ running # {}
  /\ ~ module
  /\ Modprobe
  /\ UNCHANGED <<pc, todo, passed, lock, udev, inUse, fixed>>

AppOpens ==
  /\ ready # {}
  /\ ~ inUse
  /\ inUse' = TRUE
  /\ UNCHANGED <<pc, todo, passed, lock, udev, cards, fixed>>

AppCloses ==
  /\ inUse
  /\ inUse' = FALSE
  /\ UNCHANGED <<pc, todo, passed, lock, udev, cards, fixed>>

-----------------------------------------------------------------------------
(* Up to the decision *)

Begin(p) ==
  /\ pc[p] = "idle"
  /\ Goto(p, "lock")
  /\ passed' = [passed EXCEPT ![p] = FALSE]
  /\ UNCHANGED <<todo, lock, udev, cards, inUse, fixed>>

At(p, label) ==
  /\ pc[p] = label
  /\ UNCHANGED <<inUse, fixed>>

LockAlwaysFree == TRUE
LockFree == lock = Free

TakeLock(p) ==
  /\ At(p, "lock")
  /\ IF LockFree
     THEN lock' = p /\ Goto(p, "load") /\ UNCHANGED todo
     ELSE Exit(p)
  /\ UNCHANGED <<passed, udev, cards>>

FirstLoad(p) ==
  /\ At(p, "load")
  /\ Modprobe
  /\ Proceed(p, "wait")
  /\ UNCHANGED <<passed, udev>>

\* Sixty tries, a second apart; then the count decides.
AllListed == ready = Cards
NeverGivesUp == FALSE
GivesUp == ~ AllListed

FirstWait(p) ==
  /\ At(p, "wait")
  /\ \/ AllListed /\ Proceed(p, "speed")
     \/ GivesUp /\ Exit(p)
  /\ UNCHANGED <<passed, udev, cards>>

AllLarge == large = Cards

\* Every link at Gen2 already: PASS if every BAR1 is large, an error if not.
FirstPass(p) ==
  /\ At(p, "speed")
  /\ gen2 = Cards
  /\ Exit(p)
  /\ passed' = [passed EXCEPT ![p] = AllLarge]
  /\ UNCHANGED <<udev, cards>>

NeedsSecondPass(p) ==
  /\ At(p, "speed")
  /\ gen2 # Cards
  /\ Proceed(p, "drivers")
  /\ UNCHANGED <<passed, udev, cards>>

RefusesButForeign(p) ==
  \/ pc[p] = "apps" /\ inUse
  \/ pc[p] = "policy" /\ masked # {}
RefusesButMasked(p) ==
  \/ pc[p] = "drivers" /\ foreign
  \/ pc[p] = "apps" /\ inUse
\* The three refusals: a foreign GPU, an open device file, a masked unit.
Refuses(p) ==
  \/ pc[p] = "drivers" /\ foreign
  \/ pc[p] = "apps" /\ inUse
  \/ pc[p] = "policy" /\ masked # {}

NextCheck == [drivers |-> "apps", apps |-> "policy", policy |-> "mask"]

Check(p) ==
  \E label \in DOMAIN NextCheck :
    /\ At(p, label)
    /\ IF Refuses(p) THEN Exit(p) ELSE Proceed(p, NextCheck[label])
    /\ UNCHANGED <<passed, udev, cards>>

-----------------------------------------------------------------------------
(* The second pass *)

Mask(p) ==
  /\ At(p, "mask")
  /\ masked' = Units
  /\ Proceed(p, "stop")
  /\ UNCHANGED <<passed, running, damage, cards>>

StopUdevFirstOnly(p) ==
  /\ At(p, "stop")
  /\ \E unit \in running : running' = running \ {unit}
  /\ Proceed(p, "unbind")
  /\ UNCHANGED <<passed, masked, damage, cards>>
StopUdev(p) ==
  /\ At(p, "stop")
  /\ running' = {}
  /\ Proceed(p, "unbind")
  /\ UNCHANGED <<passed, masked, damage, cards>>

UnbindFirstOnly(p) ==
  /\ At(p, "unbind")
  /\ \E c \in bound : bound' = bound \ {c} /\ ready' = ready \ {c}
  /\ Proceed(p, "unload")
  /\ UNCHANGED <<passed, udev, module, gen2, large>>
Unbind(p) ==
  /\ At(p, "unbind")
  /\ \/ bound = {} /\ Proceed(p, "unload") /\ UNCHANGED <<bound, ready>>
     \/ /\ \E c \in bound : bound' = bound \ {c} /\ ready' = ready \ {c}
        /\ UNCHANGED <<pc, todo, lock>>
  /\ UNCHANGED <<passed, udev, module, gen2, large>>

\* A device file held open keeps the module in use; modprobe -r may fail for
\* other reasons too, and only /proc/modules is believed.
Unload(p) ==
  /\ At(p, "unload")
  /\ \/ /\ ~ inUse
        /\ module' = FALSE
        /\ Goto(p, "reset")
        /\ LoopOver(p, Cards)
        /\ UNCHANGED lock
     \/ module /\ Exit(p) /\ UNCHANGED module
  /\ UNCHANGED <<passed, udev, bound, ready, gen2, large>>

\* FLR keeps the link and the Gen2 policy, and shrinks the ReBAR control.
Reset(p) ==
  /\ At(p, "reset")
  /\ \/ todo[p] = {} /\ Proceed(p, "reload") /\ UNCHANGED large
     \/ /\ \E c \in todo[p] : large' = large \ {c} /\ LoopOver(p, todo[p] \ {c})
        /\ UNCHANGED <<pc, lock>>
  /\ UNCHANGED <<passed, udev, module, bound, ready, gen2>>

Reload(p) ==
  /\ At(p, "reload")
  /\ Modprobe
  /\ Proceed(p, "rewait")
  /\ UNCHANGED <<passed, udev>>

SecondWait(p) ==
  /\ At(p, "rewait")
  /\ \/ AllListed /\ Goto(p, "verify") /\ LoopOver(p, Cards) /\ UNCHANGED lock
     \/ GivesUp /\ Exit(p)
  /\ UNCHANGED <<passed, udev, cards>>

VerifiedByLink(c) == c \in gen2
Verified(c) == c \in gen2 /\ c \in large

Verify(p) ==
  /\ At(p, "verify")
  /\ \/ todo[p] = {} /\ Exit(p) /\ passed' = [passed EXCEPT ![p] = TRUE]
     \/ /\ \E c \in todo[p] :
             IF Verified(c)
             THEN LoopOver(p, todo[p] \ {c}) /\ UNCHANGED <<pc, lock>>
             ELSE Exit(p)
        /\ UNCHANGED passed
  /\ UNCHANGED <<udev, cards>>

-----------------------------------------------------------------------------
(* restore_udev, each command followed by || true *)

Unmask(p) ==
  /\ At(p, "unmask")
  /\ masked' \in SUBSET masked
  /\ damage' = IF masked' = {} THEN damage ELSE "failed"
  /\ Proceed(p, "start")
  /\ UNCHANGED <<passed, running, cards>>

StartUdev(p) ==
  /\ At(p, "start")
  /\ \E started \in SUBSET (Units \ masked) : running' = running \cup started
  /\ damage' = IF masked = {} /\ running' = Units THEN "none" ELSE "failed"
  /\ Goto(p, "idle")
  /\ Release(p)
  /\ UNCHANGED <<todo, passed, masked, cards>>

-----------------------------------------------------------------------------
(* Failures and signals *)

\* What the current command may have done when it fails or is cut short.
Partly(p) ==
  /\ IF pc[p] = "mask" THEN masked' \in SUBSET Units ELSE UNCHANGED masked
  /\ IF pc[p] = "stop" THEN running' \in SUBSET running ELSE UNCHANGED running
  /\ IF pc[p] \in {"load", "reload"} THEN Modprobe \/ UNCHANGED cards ELSE UNCHANGED cards
  /\ UNCHANGED <<inUse, fixed>>

\* A command fails, or INT or TERM arrives: the trap runs.
Aborts(p) ==
  /\ pc[p] \in Body
  /\ Partly(p)
  /\ Exit(p)
  /\ UNCHANGED <<passed, damage>>

\* INT or TERM while the trap runs: the trap is not run again.
SignalledInTrap(p) ==
  /\ pc[p] \in Trap
  /\ damage' = "signalled"
  /\ Vanish(p)
  /\ UNCHANGED <<masked, running, cards, inUse, fixed>>

\* SIGKILL: an operator, or systemd after TimeoutStartSec and TERM.
Killed(p) ==
  /\ pc[p] \in Body \cup Trap
  /\ damage' = IF UdevStopped(p) \/ pc[p] \in Trap THEN "killed" ELSE damage
  /\ Vanish(p)
  /\ Partly(p)

-----------------------------------------------------------------------------
(* Specification *)

Step(p) ==
  \/ TakeLock(p) \/ FirstLoad(p) \/ FirstWait(p)
  \/ FirstPass(p) \/ NeedsSecondPass(p) \/ Check(p)
  \/ Mask(p) \/ StopUdev(p) \/ Unbind(p) \/ Unload(p) \/ Reset(p) \/ Reload(p)
  \/ SecondWait(p) \/ Verify(p)
  \/ Unmask(p) \/ StartUdev(p)

Interrupt(p) == Aborts(p) \/ SignalledInTrap(p) \/ Killed(p)

Environment ==
  \/ UdevLoads \/ AppOpens \/ AppCloses
  \/ \E c \in Cards : Initializes(c)

Next ==
  \/ \E p \in Procs : Begin(p) \/ Step(p) \/ Interrupt(p)
  \/ Environment

Spec == Init /\ [][Next]_vars

\* The script is a process the kernel schedules, and no command of it blocks
\* for ever: the waits are counted.
FairSpec == Spec /\ \A p \in Procs : WF_vars(Step(p))

-----------------------------------------------------------------------------
(* Properties *)

Restoring(p) == UdevStopped(p) \/ pc[p] \in Trap

\* Whatever command fails and whenever INT or TERM arrives in the script,
\* udev is masked or stopped only while a run is there that will restore it;
\* a run that finds the lock taken restores nothing (restore_udev).
UdevRestored ==
  damage = "none" =>
    \/ masked = policy /\ running = Units \ policy
    \/ \E p \in Procs : lock = p /\ pc[p] \in {"mask", "stop"} \cup Paused
                                             \cup {"rewait", "verify"} \cup Trap

\* A unit the owner masked stays masked and stopped through every run.
PolicyKept == policy \subseteq masked /\ policy \cap running = {}

\* From the first unbind to the reload no udev unit can run, so nothing but
\* the run itself loads the driver: no card is reset under a driver.
ResetUndriven ==
  \A p \in Procs :
    /\ pc[p] \in Paused => masked = Units /\ running = {}
    /\ pc[p] = "reset" => ~ module /\ bound = {}

\* A run that has ended with PASS says so of every card: listed, Gen2, and
\* 16 GiB, and no later run takes that away.
PassIsTrue ==
  \A p \in Procs :
    passed[p] => ready = Cards /\ gen2 = Cards /\ large = Cards

(* What a step may never do *)

\* The driver is never unloaded from under a GPU that is not a CMP 50HX, nor
\* any card unbound beside one.
ForeignServed == [][foreign => (module => module') /\ bound \subseteq bound']_vars

(* How far a run is *)

Rank == [idle |-> 0, start |-> 1, unmask |-> 2, verify |-> 3, rewait |-> 4, reload |-> 5,
         reset |-> 6, unload |-> 7, unbind |-> 8, stop |-> 9, mask |-> 10, policy |-> 11,
         apps |-> 12, drivers |-> 13, speed |-> 14, wait |-> 15, load |-> 16, lock |-> 17]

\* The cards the loop of a run has still to go through.
Ahead(p) == IF pc[p] = "unbind" THEN bound ELSE todo[p]

Closer(p) ==
  \/ Rank[pc'[p]] < Rank[pc[p]]
  \/ pc'[p] = pc[p] /\ Ahead(p)' \subseteq Ahead(p) /\ Ahead(p)' # Ahead(p)

\* Every command of a run, failing or not, and every signal brings it closer
\* to its end, and nothing else moves it back: not udev, another run or the
\* cards, which change what its loops go over.
RunsRunOut ==
  [][\A p \in Procs :
       /\ Step(p) \/ Interrupt(p) => Closer(p)
       /\ pc[p] # "idle" =>
            Closer(p) \/ (pc'[p] = pc[p] /\ Ahead(p)' \subseteq Ahead(p))]_vars

(* What the second pass promises the host *)

StageOf(label) ==
  IF label \in {"mask", "stop"} \cup Paused THEN "paused"
  ELSE IF label \in {"rewait", "verify"} THEN "loaded"
  ELSE IF label \in Trap THEN "restoring" ELSE "in"
Stage == IF lock = Free THEN "out" ELSE StageOf(pc[lock])

Udev ==
  IF masked = policy /\ running = Units \ policy THEN "whole"
  ELSE IF masked = Units /\ running = {} THEN "off" ELSE "partial"

Window == INSTANCE UdevWindow WITH
  Runs <- Procs, Nobody <- Free, run <- lock, stage <- Stage, udev <- Udev,
  excuse <- damage, driver <- module, others <- foreign

\* The runs of the script implement UdevWindow: the driver is unbound and
\* unloaded only in a window without udev, beside no other GPU, nothing but
\* the run loads it there, and udev is given back or the run has an excuse.
WindowKept == Window!Spec

(* Liveness *)

\* Every run ends, whatever the cards do.
RunsEnd == \A p \in Procs : pc[p] # "idle" ~> pc[p] = "idle"
=============================================================================
