----------------------------- MODULE UdevWindow -----------------------------
(***************************************************************************)
(* What the Gen2 second pass promises the rest of the host: one run at a   *)
(* time opens a window in which no udev unit is active; the driver is      *)
(* unbound and unloaded only inside it, never beside a GPU of another      *)
(* kind, and loaded again only by that run; and udev is whole afterwards   *)
(* unless there is an excuse (a kill, a signal in the trap, a systemctl    *)
(* that failed).  SecondPass.tla implements it.                            *)
(***************************************************************************)
CONSTANTS Runs, Nobody, Cards

VARIABLES
  run,      \* the run that holds the lock
  stage,    \* how far it is
  udev,     \* how much of udev is as its owner left it
  excuse,   \* what has kept a run from giving udev back, "none" once it is
  driver,   \* the driver is loaded
  bound,    \* the cards it drives
  others    \* it drives a GPU of another kind as well

vars == <<run, stage, udev, excuse, driver, bound, others>>

Stages == {"out", "in", "paused", "loaded", "restoring"}
Udev == {"whole", "partial", "off"}
Excuses == {"killed", "signalled", "failed"}

TypeOK ==
  /\ run \in Runs \cup {Nobody}
  /\ stage \in Stages
  /\ udev \in Udev
  /\ excuse \in {"none"} \cup Excuses
  /\ driver \in BOOLEAN
  /\ bound \subseteq Cards
  /\ others \in BOOLEAN

Init ==
  /\ run = Nobody
  /\ stage = "out"
  /\ udev = "whole"
  /\ excuse = "none"
  /\ driver = FALSE
  /\ bound = {}
  /\ others \in BOOLEAN

-----------------------------------------------------------------------------
Loads == ~ driver /\ driver' = TRUE /\ bound' \in SUBSET Cards
MayLoad == Loads \/ UNCHANGED <<driver, bound>>

\* Someone loads the driver: a run before its window, or udev where it works.
Load ==
  /\ stage = "in" \/ udev # "off"
  /\ Loads
  /\ UNCHANGED <<run, stage, udev, excuse, others>>

Enter(p) ==
  /\ stage = "out"
  /\ run' = p
  /\ stage' = "in"
  /\ UNCHANGED <<udev, excuse, driver, bound, others>>

Leave ==
  /\ stage = "in"
  /\ run' = Nobody
  /\ stage' = "out"
  /\ MayLoad
  /\ UNCHANGED <<udev, excuse, others>>

Open ==
  /\ stage = "in"
  /\ ~ others
  /\ stage' = "paused"
  /\ UNCHANGED <<run, udev, excuse, driver, bound, others>>

Pause ==
  /\ stage = "paused"
  /\ udev' \in IF udev = "off" THEN {"off"} ELSE {"partial", "off"}
  /\ UNCHANGED <<run, stage, excuse, driver, bound, others>>

InWindow == stage = "paused" /\ udev = "off"

Unbind(c) ==
  /\ InWindow
  /\ bound' = bound \ {c}
  /\ UNCHANGED <<run, stage, udev, excuse, driver, others>>

Unload ==
  /\ InWindow
  /\ bound = {}
  /\ driver' = FALSE
  /\ UNCHANGED <<run, stage, udev, excuse, bound, others>>

Reload ==
  /\ InWindow
  /\ stage' = "loaded"
  /\ MayLoad
  /\ UNCHANGED <<run, udev, excuse, others>>

\* The window ends, in order or not.
Close ==
  /\ stage \in {"paused", "loaded"}
  /\ stage' = "restoring"
  /\ udev' \in Udev
  /\ MayLoad
  /\ stage = "loaded" => UNCHANGED <<udev, driver, bound>>
  /\ UNCHANGED <<run, excuse, others>>

Restore ==
  /\ stage = "restoring"
  /\ udev' \in Udev
  /\ excuse' \in {excuse, "failed"}
  /\ UNCHANGED <<run, stage, driver, bound, others>>

Settle ==
  /\ stage = "restoring"
  /\ stage' = "out"
  /\ run' = Nobody
  /\ udev' \in Udev
  /\ excuse' = IF udev' = "whole" THEN "none" ELSE "failed"
  /\ UNCHANGED <<driver, bound, others>>

Vanish ==
  /\ stage \in {"paused", "loaded", "restoring"}
  /\ stage' = "out"
  /\ run' = Nobody
  /\ excuse' \in {"killed", "signalled"}
  /\ udev' \in Udev
  /\ MayLoad
  /\ UNCHANGED others

Next ==
  \/ Load \/ (\E p \in Runs : Enter(p)) \/ Leave
  \/ Open \/ Pause \/ (\E c \in Cards : Unbind(c)) \/ Unload \/ Reload
  \/ Close \/ Restore \/ Settle \/ Vanish

Spec == Init /\ [][Next]_vars

-----------------------------------------------------------------------------
\* Without an excuse udev is whole whenever no run owes it back.
NothingOwed ==
  excuse # "none" \/ stage \in {"paused", "loaded", "restoring"} \/ udev = "whole"
=============================================================================
