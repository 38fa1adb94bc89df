----------------------- MODULE SecondPassWindowProofs -----------------------
(***************************************************************************)
(* The runs of the second pass implement UdevWindow, for every number of   *)
(* overlapping runs, of cards and of udev units: each step of a run, each  *)
(* failure and signal, and each step of the host maps to a step of the     *)
(* window or leaves it alone.                                              *)
(***************************************************************************)
EXTENDS SecondPassProofs

(* The mapping *)

LEMMA NotFree == ASSUME NEW p \in Procs PROVE p # Free
BY ProcsAssumption

LEMMA Here ==
  ASSUME NEW p \in Procs, lock = p
  PROVE  Stage = StageOf(pc[p])
BY NotFree DEF Stage

LEMMA There ==
  ASSUME Inv, NEW p \in Procs, lock' = p, NEW label, pc' = [pc EXCEPT ![p] = label]
  PROVE  Stage' = StageOf(label)
BY NotFree DEF Stage, Inv, TypeOK

LEMMA Nowhere == (lock = Free => Stage = "out") /\ (lock' = Free => Stage' = "out")
BY DEF Stage

LEMMA StageOfLabels ==
  /\ \A label \in {"idle", "lock"} \cup (Body \ Marked) : StageOf(label) = "in"
  /\ \A label \in {"mask", "stop"} \cup Paused : StageOf(label) = "paused"
  /\ \A label \in {"rewait", "verify"} : StageOf(label) = "loaded"
  /\ \A label \in Trap : StageOf(label) = "restoring"
BY DEF StageOf, Body, Harmless, Marked, Paused, Trap

LEMMA UdevLevels == Udev \in Window!Udev /\ Udev' \in Window!Udev
BY DEF Udev, Window!Udev

LEMMA WholeUdev ==
  ASSUME policy = {}
  PROVE  /\ Udev = "whole" <=> masked = {} /\ running = Units
         /\ Udev = "off" <=> masked = Units /\ running = {}
BY UnitsAssumption DEF Udev

LEMMA NobodyRuns == ASSUME Udev = "off" PROVE running = {}
BY DEF Udev

\* From the first unbind to the reload udev is off.
LEMMA WindowIsOpen ==
  ASSUME Inv, NEW p \in Procs, pc[p] \in Paused
  PROVE  lock = p /\ ~ foreign /\ Window!InWindow
<1>1. /\ lock = p /\ ~ foreign /\ policy = {}
      /\ masked = Units /\ running = {}
  BY DEF Inv, RunInv, Held, Decided, Marked, Paused
<1>2. Stage = "paused"
  BY <1>1, Here, StageOfLabels
<1>3. QED
  BY <1>1, <1>2, WholeUdev DEF Window!InWindow

LEMMA UdevKept ==
  ASSUME UNCHANGED <<masked, running, policy>>
  PROVE  Udev' = Udev
BY DEF Udev

LEMMA ModprobeMayLoad ==
  ASSUME Inv, Modprobe \/ UNCHANGED cards
  PROVE  Window!MayLoad
BY DEF Modprobe, cards, Window!MayLoad, Window!Loads, Inv, TypeOK

-----------------------------------------------------------------------------
(* Moves within a stage, and the ends of a run *)

LEMMA Stays ==
  ASSUME Inv, NEW p \in Procs, lock = p, NEW label, pc' = [pc EXCEPT ![p] = label],
         StageOf(label) = StageOf(pc[p]),
         UNCHANGED <<lock, udev, module, bound, fixed>>
  PROVE  UNCHANGED Window!vars
<1>1. Stage' = Stage
  BY Here, There
<1>2. Udev' = Udev
  BY UdevKept DEF udev, fixed
<1>3. QED
  BY <1>1, <1>2 DEF Window!vars, udev, fixed

\* A step that leaves the lock and every place in the script alone.
LEMMA Remains ==
  ASSUME UNCHANGED <<pc, lock, udev, module, bound, fixed>>
  PROVE  UNCHANGED Window!vars
<1>1. Stage' = Stage /\ Udev' = Udev
  BY UdevKept DEF Stage, udev, fixed
<1>2. QED
  BY <1>1 DEF Window!vars, udev, fixed

\* A run that has not marked ends: it leaves, if it had come in.
LEMMA EndUnmarked ==
  ASSUME Inv, NEW p \in Procs, pc[p] \in Body \ Marked, Goto(p, "idle"), Release(p),
         UNCHANGED <<udev, fixed>>,
         UNCHANGED <<module, bound>> \/ (pc[p] \in Held /\ Window!MayLoad)
  PROVE  [Window!Next]_(Window!vars)
<1>1. pc' = [pc EXCEPT ![p] = "idle"] /\ UNCHANGED <<damage, foreign>> /\ Udev' = Udev
  BY UdevKept DEF Goto, udev, fixed
<1>2. CASE lock = p
  <2>1. Stage = "in" /\ Stage' = "out" /\ lock' = Free
    BY <1>2, Here, Nowhere, StageOfLabels DEF Release
  <2>2. Window!MayLoad
    BY DEF Window!MayLoad
  <2>3. QED
    BY <1>1, <2>1, <2>2 DEF Window!Next, Window!Leave
<1>3. CASE lock # p
  <2>1. UNCHANGED <<lock, module, bound>>
    BY <1>3, Holds DEF Release
  <2>2. Stage' = Stage
    BY <1>1, <1>3, <2>1 DEF Stage, Inv, TypeOK
  <2>3. QED
    BY <1>1, <2>1, <2>2 DEF Window!vars
<1>4. QED
  BY <1>2, <1>3

\* A marked run ends its window.
LEMMA EndMarked ==
  ASSUME Inv, NEW p \in Procs, pc[p] \in Marked, Goto(p, "unmask"),
         UNCHANGED <<lock, damage, fixed>>, Window!MayLoad,
         pc[p] \in {"rewait", "verify"} => UNCHANGED <<masked, running, module, bound>>
  PROVE  Window!Next
<1>1. lock = p /\ lock' = p
  BY Holds DEF Held, Decided
<1>2. Stage' = "restoring"
  BY <1>1, There, StageOfLabels DEF Goto, Trap
<1>3. CASE pc[p] \in {"rewait", "verify"}
  <2>1. Stage = "loaded" /\ Udev' = Udev
    BY <1>1, <1>3, Here, StageOfLabels, UdevKept DEF fixed
  <2>2. QED
    BY <1>2, <1>3, <2>1, UdevLevels DEF Window!Next, Window!Close, fixed
<1>4. CASE pc[p] \in {"mask", "stop"} \cup Paused
  <2>1. Stage = "paused"
    BY <1>1, <1>4, Here, StageOfLabels
  <2>2. QED
    BY <1>2, <2>1, UdevLevels DEF Window!Next, Window!Close, fixed
<1>5. QED
  BY <1>3, <1>4 DEF Marked

LEMMA ExitWindow ==
  ASSUME Inv, NEW p \in Procs, pc[p] \in Body, Exit(p),
         UNCHANGED <<udev, module, bound, fixed>>
  PROVE  [Window!Next]_(Window!vars)
<1>1. Window!MayLoad
  BY DEF Window!MayLoad
<1>2. CASE pc[p] \in Marked
  BY <1>1, <1>2, EndMarked DEF Exit, UdevStopped, Marked, udev
<1>3. CASE pc[p] \notin Marked
  BY <1>3, EndUnmarked DEF Exit, UdevStopped, Marked
<1>4. QED
  BY <1>2, <1>3

-----------------------------------------------------------------------------
(* The steps of a run *)

LEMMA TakeLockWindow ==
  ASSUME Inv, NEW p \in Procs, TakeLock(p)
  PROVE  [Window!Next]_(Window!vars)
<1>1. pc[p] = "lock" /\ pc[p] \in Body /\ UNCHANGED <<udev, module, bound, fixed>>
  BY DEF TakeLock, At, Body, Harmless, cards
<1>2. CASE LockFree
  <2>1. lock = Free /\ lock' = p /\ pc' = [pc EXCEPT ![p] = "load"]
    BY <1>2 DEF TakeLock, LockFree, Goto
  <2>2. StageOf("load") = "in"
    BY StageOfLabels DEF Body, Harmless, Marked, Paused
  <2>3. Stage = "out" /\ Stage' = "in"
    BY <2>1, <2>2, Nowhere, There
  <2>4. Udev' = Udev
    BY <1>1, UdevKept DEF udev, fixed
  <2>5. QED
    BY <1>1, <2>1, <2>3, <2>4 DEF Window!Next, Window!Enter, udev, fixed
<1>3. CASE ~ LockFree
  BY <1>1, <1>3, ExitWindow DEF TakeLock
<1>4. QED
  BY <1>2, <1>3

LEMMA FirstLoadWindow ==
  ASSUME Inv, NEW p \in Procs, FirstLoad(p)
  PROVE  [Window!Next]_(Window!vars)
<1>1. /\ pc[p] = "load" /\ pc' = [pc EXCEPT ![p] = "wait"]
      /\ Modprobe /\ UNCHANGED <<lock, udev, fixed>>
  BY DEF FirstLoad, At, Proceed, Goto
<1>2. lock = p /\ StageOf("load") = "in" /\ StageOf("wait") = "in"
  BY <1>1, Holds, StageOfLabels DEF Held, Body, Harmless, Marked, Paused
<1>3. Stage = "in" /\ Stage' = "in" /\ Udev' = Udev
  BY <1>1, <1>2, Here, There, UdevKept DEF udev, fixed
<1>4. Window!Loads \/ UNCHANGED <<module, bound>>
  BY <1>1, ModprobeMayLoad DEF Window!MayLoad
<1>5. QED
  BY <1>1, <1>3, <1>4 DEF Window!Next, Window!Load, Window!vars, udev, fixed

\* The waits and the checks before the mark: the run stays in, or leaves.
LEMMA BeforeMarkWindow ==
  ASSUME Inv, NEW p \in Procs, FirstWait(p) \/ FirstPass(p) \/ NeedsSecondPass(p)
  PROVE  [Window!Next]_(Window!vars)
<1>1. /\ pc[p] \in {"wait", "speed"}
      /\ Exit(p) \/ \E label \in {"speed", "drivers"} : Proceed(p, label)
      /\ UNCHANGED <<udev, module, bound, fixed>>
  BY DEF FirstWait, FirstPass, NeedsSecondPass, At, cards
<1>2. lock = p /\ pc[p] \in Body /\ StageOf(pc[p]) = "in"
  BY <1>1, Holds, StageOfLabels DEF Held, Body, Harmless, Marked, Paused
<1>3. ASSUME NEW label \in {"speed", "drivers"}, Proceed(p, label)
      PROVE  UNCHANGED Window!vars
  BY <1>1, <1>2, <1>3, Stays, StageOfLabels
     DEF Proceed, Goto, Body, Harmless, Marked, Paused
<1>4. QED
  BY <1>1, <1>2, <1>3, ExitWindow

\* The last check opens the window, and no other GPU is there.
LEMMA CheckWindow ==
  ASSUME Inv, NEW p \in Procs, Check(p)
  PROVE  [Window!Next]_(Window!vars)
<1>1. PICK label \in {"drivers", "apps", "policy"} :
        /\ pc[p] = label
        /\ Exit(p) \/ Proceed(p, NextCheck[label])
        /\ UNCHANGED <<udev, module, bound, fixed>>
  BY DEF Check, At, NextCheck, cards
<1>2. lock = p /\ pc[p] \in Body /\ StageOf(pc[p]) = "in"
  BY <1>1, Holds, StageOfLabels DEF Held, Decided, Body, Harmless, Marked, Paused
<1>3. CASE Exit(p)
  BY <1>1, <1>2, <1>3, ExitWindow
<1>4. CASE Proceed(p, NextCheck[label]) /\ label # "policy"
  <2>1. NextCheck[label] \in {"apps", "policy"}
    BY <1>1, <1>4 DEF NextCheck
  <2>2. QED
    BY <1>1, <1>2, <1>4, <2>1, Stays, StageOfLabels
       DEF Proceed, Goto, Body, Harmless, Marked, Paused
<1>5. CASE Proceed(p, NextCheck[label]) /\ label = "policy"
  <2>1. pc' = [pc EXCEPT ![p] = "mask"] /\ lock' = p
    BY <1>2, <1>5 DEF Proceed, Goto, NextCheck
  <2>2. Stage = "in" /\ Stage' = "paused" /\ Udev' = Udev
    BY <1>1, <1>2, <2>1, Here, There, StageOfLabels, UdevKept DEF udev, fixed
  <2>3. ~ foreign
    BY <1>1, <1>5 DEF Inv, RunInv, Decided, Marked
  <2>4. QED
    BY <1>1, <1>2, <2>1, <2>2, <2>3 DEF Window!Next, Window!Open, udev, fixed
<1>6. QED
  BY <1>1, <1>3, <1>4, <1>5

LEMMA PauseWindow ==
  ASSUME Inv, NEW p \in Procs, Mask(p) \/ StopUdev(p)
  PROVE  [Window!Next]_(Window!vars)
<1>1. PICK label \in {"stop", "unbind"} :
        /\ pc[p] \in {"mask", "stop"}
        /\ pc' = [pc EXCEPT ![p] = label]
        /\ UNCHANGED <<lock, damage, module, bound, fixed>>
  BY DEF Mask, StopUdev, At, Proceed, Goto, cards
<1>2. lock = p /\ policy = {} /\ policy' = {}
  BY <1>1 DEF Inv, RunInv, Held, Decided, Marked, fixed
<1>3. Stage = "paused"
  BY <1>1, <1>2, Here, StageOfLabels
<1>4. Stage' = "paused"
  <2>1. StageOf(label) = "paused"
    BY <1>1, StageOfLabels DEF Paused
  <2>2. lock' = p /\ pc' = [pc EXCEPT ![p] = label]
    BY <1>1, <1>2
  <2>3. QED
    BY <2>1, <2>2, There
<1>5. masked' = Units /\ (running' = running \/ running' = {})
  BY DEF Mask, StopUdev, At, Inv, RunInv
<1>6. Udev' # "whole" /\ (Udev = "off" => Udev' = "off")
  BY <1>2, <1>5, WholeUdev, UnitsAssumption DEF Udev
<1>7. Udev' \in IF Udev = "off" THEN {"off"} ELSE {"partial", "off"}
  BY <1>6, UdevLevels DEF Window!Udev
<1>8. QED
  BY <1>1, <1>3, <1>4, <1>7 DEF Window!Next, Window!Pause, fixed

LEMMA UnbindWindow ==
  ASSUME Inv, NEW p \in Procs, Unbind(p)
  PROVE  [Window!Next]_(Window!vars)
<1>1. pc[p] = "unbind" /\ UNCHANGED <<udev, module, fixed>>
  BY DEF Unbind, At
<1>2. lock = p /\ ~ foreign /\ Window!InWindow
  BY <1>1, WindowIsOpen DEF Paused
<1>3. CASE Proceed(p, "unload") /\ UNCHANGED bound
  BY <1>1, <1>2, <1>3, Stays, StageOfLabels DEF Proceed, Goto, Paused
<1>4. ASSUME NEW c \in bound, bound' = bound \ {c}, UNCHANGED <<pc, lock>>
      PROVE  Window!Next
  <2>1. c \in Cards
    BY DEF Inv, TypeOK
  <2>2. Stage' = Stage /\ Udev' = Udev
    BY <1>1, <1>4, UdevKept DEF Stage, udev, fixed
  <2>3. QED
    BY <1>1, <1>2, <1>4, <2>1, <2>2 DEF Window!Next, Window!Unbind, udev, fixed
<1>5. QED
  BY <1>3, <1>4 DEF Unbind

LEMMA UnloadWindow ==
  ASSUME Inv, NEW p \in Procs, Unload(p)
  PROVE  [Window!Next]_(Window!vars)
<1>1. pc[p] = "unload" /\ pc[p] \in Body /\ UNCHANGED <<udev, bound, fixed>>
  BY DEF Unload, At, Body, Paused
<1>2. lock = p /\ ~ foreign /\ Window!InWindow /\ bound = {}
  BY <1>1, WindowIsOpen DEF Paused, Inv, RunInv
<1>3. CASE Exit(p) /\ UNCHANGED module
  BY <1>1, <1>3, ExitWindow
<1>4. CASE module' = FALSE /\ Goto(p, "reset") /\ UNCHANGED lock
  <2>1. Stage' = Stage /\ Udev' = Udev
    BY <1>1, <1>2, <1>4, Here, There, StageOfLabels, UdevKept DEF Goto, Paused, udev, fixed
  <2>2. QED
    BY <1>1, <1>2, <1>4, <2>1 DEF Window!Next, Window!Unload, udev, fixed
<1>5. QED
  BY <1>3, <1>4 DEF Unload

LEMMA ResetWindow ==
  ASSUME Inv, NEW p \in Procs, Reset(p)
  PROVE  [Window!Next]_(Window!vars)
<1>1. pc[p] = "reset" /\ lock = p /\ UNCHANGED <<udev, module, bound, fixed>>
  BY WindowIsOpen DEF Reset, At, Paused
<1>2. CASE Proceed(p, "reload")
  BY <1>1, <1>2, Stays, StageOfLabels DEF Proceed, Goto, Paused
<1>3. CASE UNCHANGED <<pc, lock>>
  BY <1>1, <1>3, Remains
<1>4. QED
  BY <1>2, <1>3 DEF Reset

LEMMA ReloadWindow ==
  ASSUME Inv, NEW p \in Procs, Reload(p)
  PROVE  [Window!Next]_(Window!vars)
<1>1. /\ pc[p] = "reload" /\ pc' = [pc EXCEPT ![p] = "rewait"]
      /\ Modprobe /\ UNCHANGED <<lock, udev, fixed>>
  BY DEF Reload, At, Proceed, Goto
<1>2. lock = p /\ Window!InWindow
  BY <1>1, WindowIsOpen DEF Paused
<1>3. Stage' = "loaded" /\ Udev' = Udev /\ Window!MayLoad
  BY <1>1, <1>2, There, StageOfLabels, UdevKept, ModprobeMayLoad DEF udev, fixed
<1>4. QED
  BY <1>1, <1>2, <1>3 DEF Window!Next, Window!Reload, udev, fixed

LEMMA AfterReloadWindow ==
  ASSUME Inv, NEW p \in Procs, SecondWait(p) \/ Verify(p)
  PROVE  [Window!Next]_(Window!vars)
<1>1. /\ pc[p] \in {"rewait", "verify"} /\ pc[p] \in Body
      /\ \/ Exit(p)
         \/ pc' = [pc EXCEPT ![p] = "verify"] /\ UNCHANGED lock
         \/ UNCHANGED <<pc, lock>>
      /\ UNCHANGED <<udev, module, bound, fixed>>
  BY DEF SecondWait, Verify, At, Goto, Body, cards
<1>2. lock = p
  BY <1>1, Holds DEF Held, Decided, Marked
<1>3. QED
  BY <1>1, <1>2, Stays, Remains, ExitWindow, StageOfLabels

LEMMA RestoreWindow ==
  ASSUME Inv, NEW p \in Procs, Unmask(p) \/ StartUdev(p)
  PROVE  [Window!Next]_(Window!vars)
<1>1. pc[p] \in Trap /\ UNCHANGED <<module, bound, fixed>>
  BY DEF Unmask, StartUdev, At, Trap, cards
<1>2. lock = p /\ policy = {} /\ policy' = {}
  BY <1>1 DEF Inv, RunInv, Held, fixed
<1>3. Stage = "restoring"
  BY <1>1, <1>2, Here, StageOfLabels
<1>4. CASE Unmask(p)
  <2>1. pc' = [pc EXCEPT ![p] = "start"] /\ lock' = p /\ damage' \in {damage, "failed"}
    BY <1>2, <1>4 DEF Unmask, Proceed, Goto
  <2>2. Stage' = "restoring"
    BY <2>1, There, StageOfLabels DEF Trap
  <2>3. QED
    BY <1>1, <1>2, <1>3, <2>1, <2>2, UdevLevels DEF Window!Next, Window!Restore, fixed
<1>5. CASE StartUdev(p)
  <2>1. /\ pc' = [pc EXCEPT ![p] = "idle"] /\ lock' = Free /\ masked' = masked
        /\ damage' = IF masked = {} /\ running' = Units THEN "none" ELSE "failed"
    BY <1>2, <1>5 DEF StartUdev, Goto, Release
  <2>2. Udev' = "whole" <=> masked = {} /\ running' = Units
    BY <1>2, <2>1, UnitsAssumption DEF Udev
  <2>3. QED
    BY <1>1, <1>3, <2>1, <2>2, Nowhere, UdevLevels DEF Window!Next, Window!Settle, fixed
<1>6. QED
  BY <1>4, <1>5

LEMMA StepWindow ==
  ASSUME Inv, NEW p \in Procs, Step(p)
  PROVE  [Window!Next]_(Window!vars)
BY TakeLockWindow, FirstLoadWindow, BeforeMarkWindow, CheckWindow, PauseWindow, UnbindWindow,
   UnloadWindow, ResetWindow, ReloadWindow, AfterReloadWindow, RestoreWindow DEF Step

-----------------------------------------------------------------------------
(* Failures, signals and the host *)

LEMMA PartlyWindow ==
  ASSUME Inv, NEW p \in Procs, Partly(p)
  PROVE  /\ Window!MayLoad /\ UNCHANGED fixed
         /\ pc[p] \notin {"load", "reload"} => UNCHANGED cards
         /\ pc[p] \notin {"mask", "stop"} => UNCHANGED <<masked, running>>
BY ModprobeMayLoad DEF Partly

LEMMA AbortsWindow ==
  ASSUME Inv, NEW p \in Procs, Aborts(p)
  PROVE  [Window!Next]_(Window!vars)
<1>1. pc[p] \in Body /\ Partly(p) /\ Exit(p) /\ UNCHANGED damage
  BY DEF Aborts
<1>2. CASE pc[p] \in Marked
  <2>1. Goto(p, "unmask") /\ UNCHANGED lock
    BY <1>1, <1>2 DEF Exit, UdevStopped, Marked
  <2>2. QED
    BY <1>1, <1>2, <2>1, PartlyWindow, EndMarked DEF cards
<1>3. CASE pc[p] \notin Marked
  <2>1. Goto(p, "idle") /\ Release(p)
    BY <1>1, <1>3 DEF Exit, UdevStopped, Marked
  <2>2. UNCHANGED <<udev, fixed>>
    BY <1>1, <1>3, PartlyWindow DEF Marked, udev
  <2>3. UNCHANGED <<module, bound>> \/ (pc[p] \in Held /\ Window!MayLoad)
    BY <1>1, <1>3, PartlyWindow DEF Marked, Paused, Held, cards
  <2>4. QED
    BY <1>1, <1>3, <2>1, <2>2, <2>3, EndUnmarked
<1>4. QED
  BY <1>2, <1>3

\* A kill, or a signal in the trap: the lock falls free and udev stays as it is.
LEMMA VanishWindow ==
  ASSUME Inv, NEW p \in Procs, pc[p] \in Marked \cup Trap, Vanish(p), Partly(p),
         damage' \in {"killed", "signalled"}
  PROVE  Window!Next
<1>1. lock = p /\ lock' = Free
  BY Holds DEF Held, Decided, Vanish, Release
<1>2. Stage \in {"paused", "loaded", "restoring"}
  BY <1>1, Here, StageOfLabels DEF Marked
<1>3. Stage' = "out"
  BY <1>1, Nowhere
<1>4. QED
  BY <1>1, <1>2, <1>3, PartlyWindow, UdevLevels DEF Window!Next, Window!Vanish, fixed

LEMMA InterruptWindow ==
  ASSUME Inv, NEW p \in Procs, Interrupt(p)
  PROVE  [Window!Next]_(Window!vars)
<1>1. CASE SignalledInTrap(p)
  <2>1. Partly(p)
    BY <1>1 DEF SignalledInTrap, Partly, Trap
  <2>2. QED
    BY <1>1, <2>1, VanishWindow DEF SignalledInTrap
<1>2. CASE Killed(p) /\ pc[p] \in Marked \cup Trap
  BY <1>2, VanishWindow DEF Killed, UdevStopped, Marked
<1>3. CASE Killed(p) /\ pc[p] \notin Marked \cup Trap
  <2>1. /\ pc[p] \in Body \ Marked /\ Partly(p) /\ Goto(p, "idle") /\ Release(p)
        /\ UNCHANGED damage
    BY <1>3 DEF Killed, Vanish, UdevStopped, Marked
  <2>2. UNCHANGED <<udev, fixed>>
    BY <2>1, PartlyWindow DEF Marked, udev
  <2>3. UNCHANGED <<module, bound>> \/ (pc[p] \in Held /\ Window!MayLoad)
    BY <2>1, PartlyWindow DEF Marked, Paused, Held, cards
  <2>4. QED
    BY <2>1, <2>2, <2>3, EndUnmarked
<1>4. QED
  BY <1>1, <1>2, <1>3, AbortsWindow DEF Interrupt

LEMMA BeginWindow ==
  ASSUME Inv, NEW p \in Procs, Begin(p)
  PROVE  UNCHANGED Window!vars
<1>1. /\ pc[p] = "idle" /\ pc' = [pc EXCEPT ![p] = "lock"]
      /\ UNCHANGED <<lock, udev, module, bound, fixed>>
  BY DEF Begin, Goto, cards
<1>2. CASE lock = p
  BY <1>1, <1>2, Stays, StageOfLabels
<1>3. CASE lock # p
  <2>1. Stage' = Stage /\ Udev' = Udev
    BY <1>1, <1>3, UdevKept DEF Stage, Inv, TypeOK, udev, fixed
  <2>2. QED
    BY <1>1, <2>1 DEF Window!vars, udev, fixed
<1>4. QED
  BY <1>2, <1>3

LEMMA EnvironmentWindow ==
  ASSUME Inv, Environment
  PROVE  [Window!Next]_(Window!vars)
<1>1. UNCHANGED <<pc, lock, udev, fixed>>
  BY DEF Environment, UdevLoads, AppOpens, AppCloses, Initializes
<1>2. CASE UdevLoads
  <2>1. running # {} /\ ~ module /\ Modprobe
    BY <1>2 DEF UdevLoads
  <2>2. Udev # "off" /\ Window!Loads
    BY <2>1, NobodyRuns DEF Modprobe, Window!Loads
  <2>3. Stage' = Stage /\ Udev' = Udev
    BY <1>1, UdevKept DEF Stage, udev, fixed
  <2>4. QED
    BY <1>1, <2>2, <2>3 DEF Window!Next, Window!Load, udev, fixed
<1>3. CASE ~ UdevLoads
  <2>1. UNCHANGED <<module, bound>>
    BY <1>3 DEF Environment, AppOpens, AppCloses, Initializes, cards
  <2>2. QED
    BY <1>1, <2>1, Remains
<1>4. QED
  BY <1>2, <1>3

LEMMA InitWindow == Init => Window!Init
<1> SUFFICES ASSUME Init PROVE Window!Init
  OBVIOUS
<1>1. Stage = "out" /\ Udev = "whole"
  BY DEF Init, Stage, Udev
<1>2. QED
  BY <1>1 DEF Init, Window!Init

-----------------------------------------------------------------------------
(* Theorems *)

\* The overlapping runs of the script, with udev, applications, failures and
\* signals around them, implement UdevWindow.
THEOREM WindowIsKept == Spec => WindowKept
<1>1. Init => Window!Init
  BY InitWindow
<1>2. Inv /\ [Next]_vars => [Window!Next]_(Window!vars)
  <2>1. SUFFICES ASSUME Inv, [Next]_vars PROVE [Window!Next]_(Window!vars)
    OBVIOUS
  <2>2. CASE UNCHANGED vars
    BY <2>2, Remains DEF vars, cards
  <2>3. CASE Next
    BY <2>1, <2>3, BeginWindow, StepWindow, InterruptWindow, EnvironmentWindow DEF Next
  <2>4. QED
    BY <2>1, <2>2, <2>3
<1>3. QED
  BY <1>1, <1>2, Invariance, PTL DEF Spec, WindowKept, Window!Spec

\* So, seen from outside, udev is whole whenever no run owes it back, unless
\* something has kept a run from giving it back.
THEOREM UdevIsNotOwed == Spec => []Window!NothingOwed
<1>1. Inv => Window!NothingOwed
  <2>1. SUFFICES ASSUME Inv, damage = "none", Udev # "whole"
                 PROVE  Stage \in {"paused", "loaded", "restoring"}
    BY DEF Window!NothingOwed
  <2>2. PICK p \in Procs : lock = p /\ pc[p] \in Marked \cup Trap
    BY <2>1 DEF Inv, UdevRestored, Udev, Marked
  <2>3. QED
    BY <2>2, Here, StageOfLabels DEF Marked
<1>2. QED
  BY <1>1, Invariance, PTL
=============================================================================
