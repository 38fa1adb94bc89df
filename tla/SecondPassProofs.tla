-------------------------- MODULE SecondPassProofs --------------------------
(***************************************************************************)
(* The safety of the second pass for every number of overlapping runs, of  *)
(* cards and of udev units.                                                *)
(***************************************************************************)
EXTENDS SecondPass, TLAPS

Marked == {"mask", "stop"} \cup Paused \cup {"rewait", "verify"}
Decided == {"drivers", "apps", "policy"} \cup Marked
Held == {"load", "wait", "speed"} \cup Decided \cup Trap

\* What holds of a run at each place: it has the lock from the first load to
\* the end of the trap, so everything it has checked or done since stands.
RunInv(p) ==
  /\ pc[p] \in Held => lock = p
  /\ pc[p] \in Decided => \A q \in Procs : ~ passed[q]
  /\ pc[p] \in Decided \ {"drivers"} => ~ foreign
  /\ pc[p] \in Marked \cup Trap => policy = {}
  /\ pc[p] \in Marked \ {"mask", "stop"} => masked = Units /\ running = {}
  /\ pc[p] = "stop" => masked = Units
  /\ pc[p] \in {"unload", "reset"} => bound = {}
  /\ pc[p] = "reset" => ~ module
  /\ pc[p] \in {"speed", "verify"} => ready = Cards
  /\ pc[p] = "verify" => \A c \in Cards \ todo[p] : c \in gen2 /\ c \in large

\* Without the driver no card is bound.
DriverInv == ~ module => bound = {}

Inv ==
  /\ TypeOK
  /\ \A p \in Procs : RunInv(p)
  /\ DriverInv
  /\ UdevRestored
  /\ PolicyKept
  /\ PassIsTrue

-----------------------------------------------------------------------------
(* Lemmas *)

\* Of the runs only the holder of the lock is past TakeLock, so a step of the
\* holder owes nothing to the others.
LEMMA OthersIdle ==
  ASSUME Inv, NEW p \in Procs, lock = p,
         NEW label, pc' = [pc EXCEPT ![p] = label]
  PROVE  \A q \in Procs \ {p} : RunInv(q)'
<1> SUFFICES ASSUME NEW q \in Procs \ {p} PROVE RunInv(q)'
  OBVIOUS
<1>1. pc[q] \notin Held
  BY DEF Inv, RunInv
<1>2. pc'[q] = pc[q]
  BY DEF Inv, TypeOK
<1>3. QED
  BY <1>1, <1>2 DEF RunInv, Held, Decided, Marked, Paused, Trap

\* A run that does not hold the lock leaves the others as they are, as long
\* as it touches neither the cards nor udev and takes back no lock of theirs.
LEMMA OthersKept ==
  ASSUME Inv, NEW p \in Procs, NEW label,
         pc' = [pc EXCEPT ![p] = label],
         lock' = lock \/ (lock = p /\ lock' = Free),
         \A q \in Procs : passed'[q] => passed[q],
         NEW left, todo' = [todo EXCEPT ![p] = left],
         UNCHANGED <<udev, cards, fixed>>
  PROVE  \A q \in Procs \ {p} : RunInv(q)'
<1> SUFFICES ASSUME NEW q \in Procs \ {p} PROVE RunInv(q)'
  OBVIOUS
<1>1. pc'[q] = pc[q] /\ todo'[q] = todo[q]
  BY DEF Inv, TypeOK
<1>2. RunInv(q)
  BY DEF Inv
<1>3. pc[q] \in Held => lock' = q
  BY <1>2 DEF RunInv
<1>4. QED
  BY <1>1, <1>2, <1>3 DEF RunInv, udev, cards, fixed

\* The place a step is taken from is one where the run holds the lock.
LEMMA Holds ==
  ASSUME Inv, NEW p \in Procs, pc[p] \in Held
  PROVE  lock = p
BY DEF Inv, RunInv

\* A PASS stands as long as the cards do.
LEMMA PassKept ==
  ASSUME Inv, UNCHANGED <<passed, cards>>
  PROVE  passed' \in [Procs -> BOOLEAN] /\ PassIsTrue'
BY DEF Inv, TypeOK, PassIsTrue, cards

\* Leaving a run through exit keeps everything: the trap takes over a marked
\* run, and another one has left nothing behind.  Only a run that holds the
\* lock may say PASS.
LEMMA ExitKeeps ==
  ASSUME Inv, NEW p \in Procs, pc[p] \in Body, Exit(p),
         UNCHANGED <<udev, cards, inUse, fixed>>,
         passed' \in [Procs -> BOOLEAN], PassIsTrue',
         passed' = passed \/ pc[p] \in Held
  PROVE  Inv'
<1>1. PICK label \in {"unmask", "idle"} : pc' = [pc EXCEPT ![p] = label]
  BY DEF Exit, Goto
<1>2. todo' = [todo EXCEPT ![p] = {}]
  BY DEF Exit, LoopOver
<1>3. lock' = lock \/ (lock = p /\ lock' = Free)
  BY DEF Exit, Release
<1>4. TypeOK'
  BY <1>1, <1>2, <1>3 DEF Inv, TypeOK, Trap, udev, cards, fixed
<1>5. \A q \in Procs \ {p} : RunInv(q)'
  BY <1>1, <1>2, <1>3, OthersKept, OthersIdle, Holds
<1>6. pc'[p] = "unmask" => pc[p] \in Marked /\ lock' = lock
  BY <1>1 DEF Inv, TypeOK, Exit, Goto, UdevStopped, Marked
<1>7. RunInv(p)'
  <2>1. pc'[p] \in {"unmask", "idle"}
    BY <1>1 DEF Inv, TypeOK
  <2>2. CASE pc'[p] = "unmask"
    <3>1. lock' = p /\ policy' = {}
      BY <2>2, <1>6 DEF Inv, RunInv, Held, Decided, fixed
    <3>2. QED
      BY <2>2, <3>1 DEF RunInv, Decided, Marked, Paused
  <2>3. CASE pc'[p] = "idle"
    BY <2>3 DEF RunInv, Held, Decided, Marked, Paused, Trap
  <2>4. QED
    BY <2>1, <2>2, <2>3
<1>8. DriverInv' /\ PolicyKept'
  BY DEF Inv, DriverInv, PolicyKept, udev, cards, fixed
<1>9. UdevRestored'
  <2>1. CASE pc[p] \in Marked
    <3>1. pc'[p] = "unmask" /\ lock' = p
      BY <2>1, <1>1 DEF Inv, TypeOK, RunInv, Held, Decided, Exit, Goto, UdevStopped, Marked
    <3>2. QED
      BY <3>1 DEF UdevRestored, Trap
  <2>2. CASE pc[p] \notin Marked
    <3>1. \A q \in Procs : lock = q /\ pc[q] \in Marked \cup Trap => q # p
      BY <2>2 DEF Body, Harmless, Trap, Marked, Paused
    <3>2. \A q \in Procs : lock = q /\ q # p => lock' = q /\ pc'[q] = pc[q]
      BY <1>1, <1>3 DEF Inv, TypeOK
    <3>3. QED
      BY <3>1, <3>2 DEF Inv, UdevRestored, Marked, udev, fixed
  <2>3. QED
    BY <2>1, <2>2
<1>10. QED
  BY <1>4, <1>5, <1>7, <1>8, <1>9 DEF Inv

\* A run on its way restores udev at its end, whatever step it takes.
LEMMA UdevCarried ==
  ASSUME Inv, NEW p \in Procs, lock = p, lock' = p,
         NEW label, pc' = [pc EXCEPT ![p] = label],
         UNCHANGED <<udev, fixed>>,
         pc[p] \in Marked \cup Trap => label \in Marked \cup Trap
  PROVE  UdevRestored'
<1>1. pc'[p] = label
  BY DEF Inv, TypeOK
<1>2. CASE pc[p] \in Marked \cup Trap
  BY <1>1, <1>2 DEF UdevRestored, Marked
<1>3. CASE pc[p] \notin Marked \cup Trap
  BY <1>3 DEF Inv, UdevRestored, Marked, udev, fixed
<1>4. QED
  BY <1>2, <1>3

-----------------------------------------------------------------------------
(* The steps up to the decision *)

LEMMA BeginKeeps ==
  ASSUME Inv, NEW p \in Procs, Begin(p)
  PROVE  Inv'
<1>1. /\ pc[p] = "idle" /\ pc' = [pc EXCEPT ![p] = "lock"]
      /\ passed' = [passed EXCEPT ![p] = FALSE]
      /\ UNCHANGED <<todo, lock, udev, cards, inUse, fixed>>
  BY DEF Begin, Goto
<1>2. TypeOK'
  BY <1>1 DEF Inv, TypeOK, Body, Harmless, udev, cards, fixed
<1>3. \A q \in Procs : passed'[q] => passed[q]
  BY <1>1 DEF Inv, TypeOK
<1>4. \A q \in Procs \ {p} : pc'[q] = pc[q]
  BY <1>1 DEF Inv, TypeOK
<1>5. \A q \in Procs : RunInv(q)'
  <2>1. SUFFICES ASSUME NEW q \in Procs PROVE RunInv(q)'
    OBVIOUS
  <2>2. CASE q = p
    <3>1. pc'[p] = "lock"
      BY <1>1 DEF Inv, TypeOK
    <3>2. QED
      BY <2>2, <3>1 DEF RunInv, Held, Decided, Marked, Paused, Trap
  <2>3. CASE q # p
    BY <2>3, <1>1, <1>3, <1>4 DEF Inv, RunInv, udev, cards, fixed
  <2>4. QED
    BY <2>2, <2>3
<1>6. DriverInv' /\ PolicyKept' /\ PassIsTrue'
  BY <1>1, <1>3 DEF Inv, DriverInv, PolicyKept, PassIsTrue, udev, cards, fixed
<1>7. UdevRestored'
  <2>1. \A q \in Procs : pc[q] \in Marked \cup Trap => pc'[q] = pc[q]
    BY <1>1, <1>4 DEF Marked, Paused, Trap
  <2>2. QED
    BY <1>1, <2>1 DEF Inv, UdevRestored, Marked, udev, fixed
<1>8. QED
  BY <1>2, <1>5, <1>6, <1>7 DEF Inv

LEMMA TakeLockKeeps ==
  ASSUME Inv, NEW p \in Procs, TakeLock(p)
  PROVE  Inv'
<1>1. pc[p] = "lock" /\ pc[p] \in Body
  BY DEF TakeLock, At, Body, Harmless
<1>2. UNCHANGED <<passed, udev, cards, inUse, fixed>>
  BY DEF TakeLock, At
<1>3. CASE Exit(p)
  BY <1>1, <1>2, <1>3, ExitKeeps, PassKept
<1>4. CASE lock = Free /\ lock' = p /\ pc' = [pc EXCEPT ![p] = "load"] /\ UNCHANGED todo
  <2>1. TypeOK'
    BY <1>2, <1>4 DEF Inv, TypeOK, Body, Harmless, udev, cards, fixed
  <2>2. \A q \in Procs : pc[q] \notin Held
    BY <1>4, ProcsAssumption DEF Inv, RunInv
  <2>3. \A q \in Procs \ {p} : pc'[q] = pc[q]
    BY <1>4 DEF Inv, TypeOK
  <2>4. pc'[p] = "load"
    BY <1>4 DEF Inv, TypeOK
  <2>5. \A q \in Procs : RunInv(q)'
    BY <1>4, <2>2, <2>3, <2>4 DEF RunInv, Held, Decided, Marked, Paused, Trap
  <2>6. DriverInv' /\ PolicyKept' /\ PassIsTrue'
    BY <1>2 DEF Inv, DriverInv, PolicyKept, PassIsTrue, udev, cards, fixed
  <2>7. UdevRestored'
    BY <1>2, <1>4, ProcsAssumption DEF Inv, UdevRestored, udev, fixed
  <2>8. QED
    BY <2>1, <2>5, <2>6, <2>7 DEF Inv
<1>5. QED
  BY <1>3, <1>4 DEF TakeLock, LockFree, Goto

\* A step of the holder that leaves udev, the cards and the PASSes alone owes
\* only what its next place asks for.
LEMMA ProceedKeeps ==
  ASSUME Inv, NEW p \in Procs, pc[p] \in Held,
         NEW label \in Held, pc' = [pc EXCEPT ![p] = label],
         label \in Body \cup Trap,
         pc[p] \in Marked \cup Trap => label \in Marked \cup Trap,
         todo' \in [Procs -> SUBSET Cards],
         UNCHANGED <<passed, lock, udev, cards, inUse, fixed>>,
         RunInv(p)'
  PROVE  Inv'
<1>1. lock = p
  BY Holds
<1>2. TypeOK'
  BY DEF Inv, TypeOK, udev, cards, fixed
<1>3. \A q \in Procs : RunInv(q)'
  BY <1>1, OthersIdle
<1>4. DriverInv' /\ PolicyKept' /\ PassIsTrue'
  BY DEF Inv, DriverInv, PolicyKept, PassIsTrue, udev, cards, fixed
<1>5. UdevRestored'
  BY <1>1, UdevCarried
<1>6. QED
  BY <1>2, <1>3, <1>4, <1>5 DEF Inv

\* Loading the driver, whole or in part, takes nothing from a run that ended
\* with PASS: such a run has left the driver loaded.
LEMMA ModprobeKeeps ==
  ASSUME Inv, Modprobe \/ UNCHANGED cards
  PROVE  /\ module' \in BOOLEAN /\ bound' \subseteq Cards /\ ready' \subseteq bound'
         /\ gen2' \subseteq Cards /\ large' \subseteq Cards
         /\ DriverInv'
         /\ \A q \in Procs : passed[q] => UNCHANGED cards
         /\ module => UNCHANGED cards
<1>1. CASE module \/ UNCHANGED cards
  BY <1>1 DEF Inv, TypeOK, DriverInv, Modprobe, cards
<1>2. CASE ~ module /\ Modprobe
  <2>1. bound = {} /\ ready = {}
    BY <1>2 DEF Inv, DriverInv, TypeOK
  <2>2. \A q \in Procs : ~ passed[q]
    BY <2>1, CardsAssumption DEF Inv, PassIsTrue
  <2>3. module' = TRUE /\ bound' \subseteq Cards /\ ready' = {} /\ gen2' = gen2
    BY <1>2, <2>1 DEF Modprobe
  <2>4. large' \subseteq Cards
    BY <1>2, <2>3 DEF Modprobe, Inv, TypeOK
  <2>5. QED
    BY <1>2, <2>2, <2>3, <2>4 DEF Inv, TypeOK, DriverInv
<1>3. QED
  BY <1>1, <1>2

LEMMA FirstLoadKeeps ==
  ASSUME Inv, NEW p \in Procs, FirstLoad(p)
  PROVE  Inv'
<1>1. /\ pc[p] = "load" /\ Modprobe /\ pc' = [pc EXCEPT ![p] = "wait"]
      /\ UNCHANGED <<todo, lock, passed, udev, inUse, fixed>>
  BY DEF FirstLoad, At, Proceed, Goto
<1>2. lock = p
  BY <1>1, Holds DEF Held
<1>3. TypeOK' /\ DriverInv' /\ PassIsTrue'
  BY <1>1, ModprobeKeeps DEF Inv, TypeOK, PassIsTrue, Body, Harmless, udev, cards, fixed
<1>4. PolicyKept'
  BY <1>1 DEF Inv, PolicyKept, udev, fixed
<1>5. pc'[p] = "wait"
  BY <1>1 DEF Inv, TypeOK
<1>6. RunInv(p)'
  BY <1>1, <1>2, <1>5 DEF RunInv, Held, Decided, Marked, Paused, Trap
<1>7. \A q \in Procs : RunInv(q)'
  BY <1>1, <1>2, <1>6, OthersIdle
<1>8. UdevRestored'
  BY <1>1, <1>2, UdevCarried DEF Marked, Paused, Trap
<1>9. QED
  BY <1>3, <1>4, <1>7, <1>8 DEF Inv

LEMMA FirstWaitKeeps ==
  ASSUME Inv, NEW p \in Procs, FirstWait(p)
  PROVE  Inv'
<1>1. pc[p] = "wait" /\ UNCHANGED <<passed, udev, cards, inUse, fixed>>
  BY DEF FirstWait, At
<1>2. CASE Exit(p)
  BY <1>1, <1>2, ExitKeeps, PassKept DEF Body, Harmless
<1>3. CASE AllListed /\ pc' = [pc EXCEPT ![p] = "speed"] /\ UNCHANGED <<todo, lock>>
  <2>1. pc'[p] = "speed" /\ lock = p
    BY <1>1, <1>3, Holds DEF Inv, TypeOK, Held
  <2>2. RunInv(p)'
    BY <1>1, <1>3, <2>1 DEF RunInv, Held, Decided, Marked, Paused, Trap, AllListed, cards
  <2>3. QED
    BY <1>1, <1>3, <2>2, ProceedKeeps DEF Inv, TypeOK, Held, Body, Harmless, Marked, Paused, Trap
<1>4. QED
  BY <1>2, <1>3 DEF FirstWait, Proceed, Goto

LEMMA FirstPassKeeps ==
  ASSUME Inv, NEW p \in Procs, FirstPass(p)
  PROVE  Inv'
<1>1. /\ pc[p] = "speed" /\ gen2 = Cards /\ Exit(p)
      /\ passed' = [passed EXCEPT ![p] = AllLarge]
      /\ UNCHANGED <<udev, cards, inUse, fixed>>
  BY DEF FirstPass, At
<1>2. ready = Cards
  BY <1>1 DEF Inv, RunInv
<1>3. passed' \in [Procs -> BOOLEAN]
  BY <1>1 DEF Inv, TypeOK, AllLarge
<1>4. PassIsTrue'
  BY <1>1, <1>2 DEF Inv, TypeOK, PassIsTrue, AllLarge, cards
<1>5. QED
  BY <1>1, <1>3, <1>4, ExitKeeps DEF Body, Harmless, Held

LEMMA NeedsSecondPassKeeps ==
  ASSUME Inv, NEW p \in Procs, NeedsSecondPass(p)
  PROVE  Inv'
<1>1. /\ pc[p] = "speed" /\ gen2 # Cards /\ pc' = [pc EXCEPT ![p] = "drivers"]
      /\ UNCHANGED <<todo, lock, passed, udev, cards, inUse, fixed>>
  BY DEF NeedsSecondPass, At, Proceed, Goto
<1>2. lock = p /\ pc'[p] = "drivers"
  BY <1>1, Holds DEF Inv, TypeOK, Held
<1>3. \A q \in Procs : ~ passed'[q]
  BY <1>1 DEF Inv, PassIsTrue
<1>4. RunInv(p)'
  BY <1>1, <1>2, <1>3 DEF RunInv, Held, Decided, Marked, Paused, Trap
<1>5. QED
  BY <1>1, <1>4, ProceedKeeps DEF Inv, TypeOK, Held, Decided, Body, Harmless, Marked, Paused, Trap

\* After the last check nothing is masked, so the owner has masked nothing.
LEMMA CheckKeeps ==
  ASSUME Inv, NEW p \in Procs, Check(p)
  PROVE  Inv'
<1>1. PICK label \in {"drivers", "apps", "policy"} :
        /\ At(p, label)
        /\ IF Refuses(p) THEN Exit(p) ELSE Proceed(p, NextCheck[label])
        /\ UNCHANGED <<passed, udev, cards>>
  BY DEF Check, NextCheck
<1>2. pc[p] = label /\ UNCHANGED <<inUse, fixed>>
  BY <1>1 DEF At
<1>3. CASE Refuses(p)
  BY <1>1, <1>2, <1>3, ExitKeeps, PassKept DEF Body, Harmless
<1>4. CASE ~ Refuses(p)
  <2>1. lock = p /\ \A q \in Procs : ~ passed[q]
    BY <1>2, Holds DEF Inv, RunInv, Held, Decided
  <2>2. PICK next \in {"apps", "policy", "mask"} :
          /\ pc' = [pc EXCEPT ![p] = next] /\ UNCHANGED <<todo, lock>>
          /\ label = "drivers" => next = "apps"
          /\ label = "policy" => next = "mask"
          /\ next = "mask" => label = "policy"
    BY <1>1, <1>4 DEF Proceed, Goto, NextCheck
  <2>3. pc'[p] = next
    BY <2>2 DEF Inv, TypeOK
  <2>4. ~ foreign
    BY <1>2, <1>4 DEF Refuses, Inv, RunInv, Decided
  <2>5. next = "mask" => policy = {}
    BY <1>2, <1>4, <2>2 DEF Refuses, Inv, PolicyKept
  <2>6. RunInv(p)'
    BY <1>1, <1>2, <2>1, <2>2, <2>3, <2>4, <2>5
       DEF RunInv, Held, Decided, Marked, Paused, Trap, fixed
  <2>7. QED
    BY <1>1, <1>2, <2>2, <2>6, ProceedKeeps
       DEF Inv, TypeOK, Held, Decided, Body, Harmless, Marked, Paused, Trap
<1>5. QED
  BY <1>3, <1>4

-----------------------------------------------------------------------------
(* The second pass and the trap *)

\* From the mark on no PASS and no mask of the owner is at stake, so a step
\* owes the types, the driver and what its next place asks for.
LEMMA MarkedKeeps ==
  ASSUME Inv, NEW p \in Procs, pc[p] \in Marked,
         NEW label \in Marked, pc' = [pc EXCEPT ![p] = label],
         UNCHANGED <<passed, lock, inUse, fixed>>,
         todo' \in [Procs -> SUBSET Cards], masked' \subseteq Units,
         running' \subseteq Units, damage' = damage, module' \in BOOLEAN,
         bound' \subseteq Cards, ready' \subseteq bound', gen2' \subseteq Cards,
         large' \subseteq Cards, DriverInv',
         lock' = p => RunInv(p)'
  PROVE  Inv'
<1>1. lock = p /\ lock' = p /\ policy' = {} /\ \A q \in Procs : ~ passed'[q]
  BY Holds DEF Inv, RunInv, Held, Decided, fixed
<1>2. TypeOK'
  BY DEF Inv, TypeOK, Marked, Paused, Body, fixed
<1>3. \A q \in Procs : RunInv(q)'
  BY <1>1, OthersIdle
<1>4. PolicyKept' /\ PassIsTrue'
  BY <1>1 DEF PolicyKept, PassIsTrue
<1>5. UdevRestored'
  <2>1. pc'[p] = label
    BY DEF Inv, TypeOK
  <2>2. QED
    BY <1>1, <2>1 DEF UdevRestored, Marked
<1>6. QED
  BY <1>2, <1>3, <1>4, <1>5 DEF Inv

\* What a marked run knows: nothing passed, no foreign GPU, no owner's mask.
LEMMA MarkedKnows ==
  ASSUME Inv, NEW p \in Procs, pc[p] \in Marked
  PROVE  /\ lock = p /\ policy = {} /\ ~ foreign /\ \A q \in Procs : ~ passed[q]
         /\ pc = [pc EXCEPT ![p] = pc[p]]
BY Holds DEF Inv, TypeOK, RunInv, Held, Decided, Marked, Paused

LEMMA MaskKeeps ==
  ASSUME Inv, NEW p \in Procs, Mask(p)
  PROVE  Inv'
<1>1. /\ pc[p] = "mask" /\ pc' = [pc EXCEPT ![p] = "stop"] /\ masked' = Units
      /\ UNCHANGED <<todo, lock, passed, running, damage, cards, inUse, fixed>>
  BY DEF Mask, At, Proceed, Goto
<1>2. pc'[p] = "stop"
  BY <1>1 DEF Inv, TypeOK
<1>3. RunInv(p)'
  BY <1>1, <1>2, MarkedKnows DEF RunInv, Held, Decided, Marked, Paused, Trap, fixed
<1>4. QED
  BY <1>1, <1>3, MarkedKeeps DEF Inv, TypeOK, DriverInv, Marked, cards

LEMMA StopUdevKeeps ==
  ASSUME Inv, NEW p \in Procs, StopUdev(p)
  PROVE  Inv'
<1>1. /\ pc[p] = "stop" /\ pc' = [pc EXCEPT ![p] = "unbind"] /\ running' = {}
      /\ UNCHANGED <<todo, lock, passed, masked, damage, cards, inUse, fixed>>
  BY DEF StopUdev, At, Proceed, Goto
<1>2. pc'[p] = "unbind" /\ masked' = Units
  BY <1>1 DEF Inv, TypeOK, RunInv
<1>3. RunInv(p)'
  BY <1>1, <1>2, MarkedKnows DEF RunInv, Held, Decided, Marked, Paused, Trap, fixed
<1>4. QED
  BY <1>1, <1>3, MarkedKeeps DEF Inv, TypeOK, DriverInv, Marked, Paused, cards

LEMMA UnbindKeeps ==
  ASSUME Inv, NEW p \in Procs, Unbind(p)
  PROVE  Inv'
<1>1. /\ pc[p] = "unbind"
      /\ UNCHANGED <<todo, lock, passed, udev, module, gen2, large, inUse, fixed>>
  BY DEF Unbind, At, Proceed
<1>2. masked = Units /\ running = {}
  BY <1>1 DEF Inv, RunInv, Marked, Paused
<1>3. CASE bound = {} /\ Proceed(p, "unload") /\ UNCHANGED <<bound, ready>>
  <2>1. pc' = [pc EXCEPT ![p] = "unload"] /\ pc'[p] = "unload"
    BY <1>3 DEF Proceed, Goto, Inv, TypeOK
  <2>2. RunInv(p)'
    BY <1>1, <1>2, <1>3, <2>1, MarkedKnows
       DEF RunInv, Held, Decided, Marked, Paused, Trap, udev, fixed
  <2>3. QED
    BY <1>1, <1>3, <2>1, <2>2, MarkedKeeps DEF Inv, TypeOK, DriverInv, Marked, Paused, udev
<1>4. CASE /\ \E c \in bound : bound' = bound \ {c} /\ ready' = ready \ {c}
           /\ UNCHANGED <<pc, todo, lock>>
  <2>1. pc' = [pc EXCEPT ![p] = "unbind"] /\ pc'[p] = "unbind"
    BY <1>1, <1>4, MarkedKnows DEF Marked, Paused
  <2>2. RunInv(p)'
    BY <1>1, <1>2, <2>1, MarkedKnows
       DEF RunInv, Held, Decided, Marked, Paused, Trap, udev, fixed
  <2>3. bound' \subseteq Cards /\ ready' \subseteq bound' /\ DriverInv'
    BY <1>1, <1>4 DEF Inv, TypeOK, DriverInv
  <2>4. QED
    BY <1>1, <2>1, <2>2, <2>3, MarkedKeeps DEF Inv, TypeOK, Marked, Paused, udev
<1>5. QED
  BY <1>3, <1>4 DEF Unbind

LEMMA UnloadKeeps ==
  ASSUME Inv, NEW p \in Procs, Unload(p)
  PROVE  Inv'
<1>1. /\ pc[p] = "unload"
      /\ UNCHANGED <<passed, udev, bound, ready, gen2, large, inUse, fixed>>
  BY DEF Unload, At
<1>2. masked = Units /\ running = {} /\ bound = {}
  BY <1>1 DEF Inv, RunInv, Marked, Paused
<1>3. CASE /\ module' = FALSE /\ Goto(p, "reset")
           /\ LoopOver(p, Cards) /\ UNCHANGED lock
  <2>1. pc' = [pc EXCEPT ![p] = "reset"] /\ pc'[p] = "reset"
    BY <1>3 DEF Goto, Inv, TypeOK
  <2>2. RunInv(p)'
    BY <1>1, <1>2, <1>3, <2>1, MarkedKnows
       DEF RunInv, Held, Decided, Marked, Paused, Trap, udev, fixed
  <2>3. todo' \in [Procs -> SUBSET Cards]
    BY <1>3 DEF LoopOver, Inv, TypeOK
  <2>4. QED
    BY <1>1, <1>2, <1>3, <2>1, <2>2, <2>3, MarkedKeeps
       DEF Inv, TypeOK, DriverInv, Marked, Paused, udev
<1>4. CASE Exit(p) /\ UNCHANGED module
  BY <1>1, <1>4, ExitKeeps, PassKept DEF Body, Paused, cards
<1>5. QED
  BY <1>3, <1>4 DEF Unload

LEMMA ResetKeeps ==
  ASSUME Inv, NEW p \in Procs, Reset(p)
  PROVE  Inv'
<1>1. /\ pc[p] = "reset"
      /\ UNCHANGED <<passed, udev, module, bound, ready, gen2, inUse, fixed>>
  BY DEF Reset, At
<1>2. masked = Units /\ running = {} /\ bound = {} /\ ~ module
  BY <1>1 DEF Inv, RunInv, Marked, Paused
<1>3. CASE Proceed(p, "reload") /\ UNCHANGED large
  <2>1. /\ pc' = [pc EXCEPT ![p] = "reload"] /\ pc'[p] = "reload"
        /\ UNCHANGED <<todo, lock>>
    BY <1>3 DEF Proceed, Goto, Inv, TypeOK
  <2>2. RunInv(p)'
    BY <1>1, <1>2, <2>1, MarkedKnows
       DEF RunInv, Held, Decided, Marked, Paused, Trap, udev, fixed
  <2>3. QED
    BY <1>1, <1>3, <2>1, <2>2, MarkedKeeps
       DEF Inv, TypeOK, DriverInv, Marked, Paused, udev
<1>4. CASE /\ \E c \in todo[p] : large' = large \ {c} /\ LoopOver(p, todo[p] \ {c})
           /\ UNCHANGED <<pc, lock>>
  <2>1. pc' = [pc EXCEPT ![p] = "reset"] /\ pc'[p] = "reset"
    BY <1>1, <1>4, MarkedKnows DEF Marked, Paused
  <2>2. RunInv(p)'
    BY <1>1, <1>2, <1>4, <2>1, MarkedKnows
       DEF RunInv, Held, Decided, Marked, Paused, Trap, udev, fixed
  <2>3. large' \subseteq Cards /\ todo' \in [Procs -> SUBSET Cards]
    BY <1>4 DEF LoopOver, Inv, TypeOK
  <2>4. QED
    BY <1>1, <1>4, <2>1, <2>2, <2>3, MarkedKeeps
       DEF Inv, TypeOK, DriverInv, Marked, Paused, udev
<1>5. QED
  BY <1>3, <1>4 DEF Reset

LEMMA ReloadKeeps ==
  ASSUME Inv, NEW p \in Procs, Reload(p)
  PROVE  Inv'
<1>1. /\ pc[p] = "reload" /\ Modprobe /\ pc' = [pc EXCEPT ![p] = "rewait"]
      /\ UNCHANGED <<todo, lock, passed, udev, inUse, fixed>>
  BY DEF Reload, At, Proceed, Goto
<1>2. masked = Units /\ running = {} /\ pc'[p] = "rewait"
  BY <1>1 DEF Inv, TypeOK, RunInv, Marked, Paused
<1>3. RunInv(p)'
  BY <1>1, <1>2, MarkedKnows DEF RunInv, Held, Decided, Marked, Paused, Trap, udev, fixed
<1>4. QED
  BY <1>1, <1>3, MarkedKeeps, ModprobeKeeps DEF Inv, TypeOK, Marked, Paused, udev

LEMMA SecondWaitKeeps ==
  ASSUME Inv, NEW p \in Procs, SecondWait(p)
  PROVE  Inv'
<1>1. pc[p] = "rewait" /\ UNCHANGED <<passed, udev, cards, inUse, fixed>>
  BY DEF SecondWait, At
<1>2. masked = Units /\ running = {}
  BY <1>1 DEF Inv, RunInv, Marked, Paused
<1>3. CASE AllListed /\ Goto(p, "verify") /\ LoopOver(p, Cards) /\ UNCHANGED lock
  <2>1. /\ pc' = [pc EXCEPT ![p] = "verify"] /\ pc'[p] = "verify"
        /\ todo'[p] = Cards /\ todo' \in [Procs -> SUBSET Cards]
    BY <1>3 DEF Goto, LoopOver, Inv, TypeOK
  <2>2. RunInv(p)'
    BY <1>1, <1>2, <1>3, <2>1, MarkedKnows
       DEF RunInv, AllListed, Held, Decided, Marked, Paused, Trap, udev, cards, fixed
  <2>3. QED
    BY <1>1, <1>3, <2>1, <2>2, MarkedKeeps
       DEF Inv, TypeOK, DriverInv, Marked, Paused, udev, cards
<1>4. CASE Exit(p)
  BY <1>1, <1>4, ExitKeeps, PassKept DEF Body
<1>5. QED
  BY <1>3, <1>4 DEF SecondWait

LEMMA VerifyKeeps ==
  ASSUME Inv, NEW p \in Procs, Verify(p)
  PROVE  Inv'
<1>1. pc[p] = "verify" /\ UNCHANGED <<udev, cards, inUse, fixed>>
  BY DEF Verify, At
<1>2. /\ masked = Units /\ running = {} /\ ready = Cards
      /\ \A c \in Cards \ todo[p] : c \in gen2 /\ c \in large
  BY <1>1 DEF Inv, RunInv, Marked, Paused
<1>3. CASE todo[p] = {} /\ Exit(p) /\ passed' = [passed EXCEPT ![p] = TRUE]
  <2>1. gen2 = Cards /\ large = Cards
    BY <1>2, <1>3 DEF Inv, TypeOK
  <2>2. passed' \in [Procs -> BOOLEAN] /\ PassIsTrue'
    BY <1>1, <1>2, <1>3, <2>1 DEF Inv, TypeOK, PassIsTrue, cards
  <2>3. QED
    BY <1>1, <1>3, <2>2, ExitKeeps DEF Body, Held, Decided, Marked
<1>4. CASE UNCHANGED passed /\ Exit(p)
  BY <1>1, <1>4, ExitKeeps, PassKept DEF Body
<1>5. ASSUME NEW c \in todo[p], Verified(c), LoopOver(p, todo[p] \ {c}),
             UNCHANGED <<pc, lock, passed>>
      PROVE  Inv'
  <2>1. pc' = [pc EXCEPT ![p] = "verify"] /\ pc'[p] = "verify"
    BY <1>1, <1>5, MarkedKnows DEF Marked
  <2>2. todo'[p] = todo[p] \ {c} /\ todo' \in [Procs -> SUBSET Cards]
    BY <1>5 DEF LoopOver, Inv, TypeOK
  <2>3. RunInv(p)'
    BY <1>1, <1>2, <1>5, <2>1, <2>2, MarkedKnows
       DEF RunInv, Verified, Held, Decided, Marked, Paused, Trap, udev, cards, fixed
  <2>4. QED
    BY <1>1, <1>5, <2>1, <2>2, <2>3, MarkedKeeps
       DEF Inv, TypeOK, DriverInv, Marked, udev, cards
<1>6. QED
  BY <1>3, <1>4, <1>5 DEF Verify

LEMMA UnmaskKeeps ==
  ASSUME Inv, NEW p \in Procs, Unmask(p)
  PROVE  Inv'
<1>1. /\ pc[p] = "unmask" /\ masked' \subseteq masked
      /\ pc' = [pc EXCEPT ![p] = "start"] /\ damage' \in {damage, "failed"}
      /\ UNCHANGED <<todo, lock, passed, running, cards, inUse, fixed>>
  BY DEF Unmask, At, Proceed, Goto
<1>2. lock = p /\ policy = {}
  BY <1>1, Holds DEF Inv, RunInv, Held, Trap
<1>3. pc'[p] = "start"
  BY <1>1 DEF Inv, TypeOK
<1>4. TypeOK'
  BY <1>1 DEF Inv, TypeOK, Trap, cards, fixed
<1>5. RunInv(p)'
  BY <1>1, <1>2, <1>3 DEF RunInv, Held, Decided, Marked, Paused, Trap, fixed
<1>6. \A q \in Procs : RunInv(q)'
  BY <1>1, <1>2, <1>5, OthersIdle
<1>7. DriverInv' /\ PolicyKept' /\ PassIsTrue'
  BY <1>1, <1>2 DEF Inv, DriverInv, PolicyKept, PassIsTrue, cards, fixed
<1>8. UdevRestored'
  BY <1>1, <1>2, <1>3 DEF UdevRestored, Trap
<1>9. QED
  BY <1>4, <1>6, <1>7, <1>8 DEF Inv

LEMMA StartUdevKeeps ==
  ASSUME Inv, NEW p \in Procs, StartUdev(p)
  PROVE  Inv'
<1>1. /\ pc[p] = "start" /\ pc' = [pc EXCEPT ![p] = "idle"]
      /\ \E started \in SUBSET (Units \ masked) : running' = running \cup started
      /\ damage' = IF masked = {} /\ running' = Units THEN "none" ELSE "failed"
      /\ lock' = (IF lock = p THEN Free ELSE lock)
      /\ UNCHANGED <<todo, passed, masked, cards, inUse, fixed>>
  BY DEF StartUdev, At, Goto, Release
<1>2. lock = p /\ policy = {}
  BY <1>1, Holds DEF Inv, RunInv, Held, Trap
<1>3. pc'[p] = "idle"
  BY <1>1 DEF Inv, TypeOK
<1>4. TypeOK'
  BY <1>1 DEF Inv, TypeOK, cards, fixed
<1>5. RunInv(p)'
  BY <1>3 DEF RunInv, Held, Decided, Marked, Paused, Trap
<1>6. \A q \in Procs : RunInv(q)'
  BY <1>1, <1>2, <1>5, OthersIdle
<1>7. DriverInv' /\ PolicyKept' /\ PassIsTrue'
  BY <1>1, <1>2 DEF Inv, DriverInv, PolicyKept, PassIsTrue, cards, fixed
<1>8. UdevRestored'
  BY <1>1, <1>2 DEF UdevRestored, fixed
<1>9. QED
  BY <1>4, <1>6, <1>7, <1>8 DEF Inv

-----------------------------------------------------------------------------
(* Failures, signals and the rest of the host *)

\* Whatever part of a command was done, the driver and the owner's masks stand.
LEMMA PartlyKeeps ==
  ASSUME Inv, NEW p \in Procs, pc[p] \in Body \cup Trap, Partly(p)
  PROVE  /\ UNCHANGED <<inUse, fixed>>
         /\ masked' \subseteq Units /\ running' \subseteq Units
         /\ module' \in BOOLEAN /\ bound' \subseteq Cards /\ ready' \subseteq bound'
         /\ gen2' \subseteq Cards /\ large' \subseteq Cards
         /\ DriverInv' /\ PolicyKept'
         /\ \A q \in Procs : passed[q] => UNCHANGED cards
         /\ pc[p] \notin {"load", "reload"} => UNCHANGED cards
         /\ pc[p] \notin {"mask", "stop"} => UNCHANGED <<masked, running>>
<1>1. masked' \subseteq Units /\ running' \subseteq running
  BY DEF Partly, Inv, TypeOK
<1>2. pc[p] \notin {"mask", "stop"} => UNCHANGED <<masked, running>>
  BY DEF Partly
<1>3. pc[p] \notin {"load", "reload"} => UNCHANGED cards
  BY DEF Partly
<1>4. pc[p] \in {"mask", "stop"} => policy = {}
  BY DEF Inv, RunInv, Marked
<1>5. UNCHANGED <<inUse, fixed>>
  BY DEF Partly
<1>6. PolicyKept'
  BY <1>1, <1>2, <1>4, <1>5 DEF Inv, PolicyKept, fixed
<1>7. Modprobe \/ UNCHANGED cards
  BY DEF Partly
<1>8. QED
  BY <1>1, <1>2, <1>3, <1>5, <1>6, <1>7, ModprobeKeeps DEF Inv, TypeOK

\* A marked run leaves through the trap, which still has the lock; a run that
\* had not marked anything has left udev as it was.
LEMMA AbortsKeeps ==
  ASSUME Inv, NEW p \in Procs, Aborts(p)
  PROVE  Inv'
<1>1. pc[p] \in Body /\ Partly(p) /\ Exit(p) /\ UNCHANGED <<passed, damage>>
  BY DEF Aborts
<1>2. CASE pc[p] \in {"load", "reload", "mask", "stop"}
  <2>1. lock = p
    BY <1>2, Holds DEF Held, Decided, Marked, Paused
  <2>2. PICK label \in {"unmask", "idle"} :
          /\ pc' = [pc EXCEPT ![p] = label]
          /\ label = "unmask" => pc[p] \in Marked /\ lock' = p
          /\ label = "idle" => pc[p] \notin Marked /\ lock' \in Procs \cup {Free}
    BY <1>1, <2>1 DEF Exit, Goto, UdevStopped, Marked, Release
  <2>3. pc'[p] = label /\ pc[p] \notin Trap
    BY <1>2, <2>2 DEF Inv, TypeOK, Trap
  <2>4. TypeOK'
    <3>1. todo' \in [Procs -> SUBSET Cards] /\ lock' \in Procs \cup {Free}
      BY <1>1, <2>2 DEF Exit, LoopOver, Inv, TypeOK
    <3>2. pc' \in [Procs -> {"idle"} \cup Body \cup Trap]
      BY <2>2 DEF Inv, TypeOK, Trap
    <3>3. QED
      BY <1>1, <3>1, <3>2, PartlyKeeps DEF Inv, TypeOK, fixed
  <2>5. RunInv(p)'
    BY <1>1, <2>2, <2>3, PartlyKeeps, MarkedKnows
       DEF RunInv, Held, Decided, Marked, Paused, Trap, fixed
  <2>6. \A q \in Procs : RunInv(q)'
    BY <2>1, <2>2, <2>5, OthersIdle
  <2>7. DriverInv' /\ PolicyKept' /\ PassIsTrue'
    BY <1>1, PartlyKeeps DEF Inv, PassIsTrue, cards
  <2>8. UdevRestored'
    <3>1. CASE label = "unmask"
      BY <2>2, <2>3, <3>1 DEF UdevRestored, Trap
    <3>2. CASE label = "idle"
      <4>1. UNCHANGED <<masked, running, damage, policy>>
        BY <1>1, <2>2, <3>2, PartlyKeeps DEF Marked, fixed
      <4>2. damage = "none" => masked = policy /\ running = Units \ policy
        BY <2>1, <2>2, <2>3, <3>2 DEF Inv, UdevRestored, Marked
      <4>3. QED
        BY <4>1, <4>2 DEF UdevRestored
    <3>3. QED
      BY <3>1, <3>2
  <2>9. QED
    BY <2>4, <2>6, <2>7, <2>8 DEF Inv
<1>3. CASE pc[p] \notin {"load", "reload", "mask", "stop"}
  <2>1. UNCHANGED <<udev, cards, inUse, fixed>>
    BY <1>1, <1>3, PartlyKeeps DEF udev
  <2>2. QED
    BY <1>1, <2>1, ExitKeeps, PassKept
<1>4. QED
  BY <1>2, <1>3

\* A run that vanishes drops the lock and its PASS; one that had marked udev
\* is recorded as damage.
LEMMA VanishKeeps ==
  ASSUME Inv, NEW p \in Procs, pc[p] \in Body \cup Trap, Vanish(p), Partly(p),
         damage' \in {damage, "killed", "signalled"},
         pc[p] \in Marked \cup Trap => damage' # "none",
         pc[p] \notin Marked \cup Trap => damage' = damage
  PROVE  Inv'
<1>1. /\ pc' = [pc EXCEPT ![p] = "idle"] /\ todo' = [todo EXCEPT ![p] = {}]
      /\ passed' = [passed EXCEPT ![p] = FALSE]
      /\ lock' = (IF lock = p THEN Free ELSE lock)
  BY DEF Vanish, Goto, LoopOver, Release
<1>2. \A q \in Procs : passed'[q] => passed[q]
  BY <1>1 DEF Inv, TypeOK
<1>3. pc'[p] = "idle" /\ \A q \in Procs \ {p} : pc'[q] = pc[q]
  BY <1>1 DEF Inv, TypeOK
<1>4. TypeOK'
  BY <1>1, PartlyKeeps DEF Inv, TypeOK, fixed
<1>5. \A q \in Procs \ {p} : RunInv(q)'
  <2>1. CASE pc[p] \in Held
    BY <1>1, <2>1, Holds, OthersIdle
  <2>2. CASE pc[p] \notin Held
    <3>1. UNCHANGED <<udev, cards, fixed>>
      BY <2>2, PartlyKeeps DEF Held, Decided, Marked, Paused, udev
    <3>2. QED
      BY <1>1, <1>2, <3>1, OthersKept
  <2>3. QED
    BY <2>1, <2>2
<1>6. RunInv(p)'
  BY <1>3 DEF RunInv, Held, Decided, Marked, Paused, Trap
<1>7. DriverInv' /\ PolicyKept' /\ PassIsTrue'
  BY <1>2, PartlyKeeps DEF Inv, PassIsTrue, cards
<1>8. UdevRestored'
  <2>1. CASE pc[p] \in Marked \cup Trap
    BY <2>1 DEF UdevRestored
  <2>2. CASE pc[p] \notin Marked \cup Trap
    <3>1. UNCHANGED <<masked, running, damage, policy>>
      BY <2>2, PartlyKeeps DEF Marked, fixed
    <3>2. \A q \in Procs : lock = q /\ pc[q] \in Marked \cup Trap =>
                             lock' = q /\ pc'[q] = pc[q]
      BY <1>1, <1>3, <2>2
    <3>3. QED
      BY <3>1, <3>2 DEF Inv, UdevRestored, Marked
  <2>3. QED
    BY <2>1, <2>2
<1>9. QED
  BY <1>4, <1>5, <1>6, <1>7, <1>8 DEF Inv

LEMMA InterruptKeeps ==
  ASSUME Inv, NEW p \in Procs, Interrupt(p)
  PROVE  Inv'
<1>1. CASE Aborts(p)
  BY <1>1, AbortsKeeps
<1>2. CASE SignalledInTrap(p)
  <2>1. Partly(p)
    BY <1>2 DEF SignalledInTrap, Partly, Trap
  <2>2. QED
    BY <1>2, <2>1, VanishKeeps DEF SignalledInTrap
<1>3. CASE Killed(p)
  <2>1. pc[p] \in Marked \cup Trap <=> UdevStopped(p) \/ pc[p] \in Trap
    BY DEF Marked, UdevStopped
  <2>2. QED
    BY <1>3, <2>1, VanishKeeps DEF Killed
<1>4. QED
  BY <1>1, <1>2, <1>3 DEF Interrupt

LEMMA EnvironmentKeeps ==
  ASSUME Inv, Environment
  PROVE  Inv'
<1>1. UNCHANGED <<pc, todo, passed, lock, udev, fixed>>
  BY DEF Environment, UdevLoads, AppOpens, AppCloses, Initializes
<1>2. CASE AppOpens \/ AppCloses
  <2>1. UNCHANGED cards /\ inUse' \in BOOLEAN
    BY <1>2 DEF AppOpens, AppCloses
  <2>2. QED
    BY <1>1, <2>1 DEF Inv, TypeOK, RunInv, DriverInv, UdevRestored, PolicyKept,
                      PassIsTrue, udev, cards, fixed
<1>3. CASE UdevLoads
  <2>1. running # {} /\ ~ module /\ Modprobe /\ UNCHANGED inUse
    BY <1>3 DEF UdevLoads
  <2>2. ready = {} /\ \A q \in Procs : ~ passed[q]
    BY <2>1, CardsAssumption DEF Inv, DriverInv, TypeOK, PassIsTrue
  <2>3. \A q \in Procs : pc[q] \notin {"unload", "reset", "speed", "verify"}
    BY <2>1, <2>2, CardsAssumption DEF Inv, RunInv, Marked, Paused
  <2>4. \A q \in Procs : RunInv(q)'
    BY <1>1, <2>1, <2>3 DEF Inv, RunInv, udev, fixed
  <2>5. TypeOK' /\ DriverInv' /\ PassIsTrue'
    BY <1>1, <2>1, <2>2, ModprobeKeeps DEF Inv, TypeOK, PassIsTrue, udev, fixed
  <2>6. QED
    BY <1>1, <2>4, <2>5 DEF Inv, UdevRestored, PolicyKept, udev, fixed
<1>4. ASSUME NEW c \in Cards, Initializes(c)
      PROVE  Inv'
  <2>1. /\ c \in bound \ ready /\ ready' = ready \cup {c}
        /\ gen2' \in {gen2, gen2 \cup {c}} /\ UNCHANGED <<module, bound, large, inUse>>
    BY <1>4 DEF Initializes
  <2>2. ready # Cards
    BY <2>1
  <2>3. \A q \in Procs : pc[q] \notin {"speed", "verify"} /\ ~ passed[q]
    BY <2>2 DEF Inv, RunInv, PassIsTrue
  <2>4. \A q \in Procs : RunInv(q)'
    BY <1>1, <2>1, <2>3 DEF Inv, RunInv, udev, fixed
  <2>5. TypeOK' /\ DriverInv' /\ PassIsTrue'
    BY <1>1, <2>1, <2>3 DEF Inv, TypeOK, DriverInv, PassIsTrue, udev, fixed
  <2>6. QED
    BY <1>1, <2>4, <2>5 DEF Inv, UdevRestored, PolicyKept, udev, fixed
<1>5. QED
  BY <1>2, <1>3, <1>4 DEF Environment

-----------------------------------------------------------------------------
(* Theorems *)

\* The inductive invariant holds of every run of the model: where a run is in
\* the script says what it has made true, and the lock keeps it true.
THEOREM Invariance == Spec => []Inv
<1>1. Init => Inv
  <2>1. SUFFICES ASSUME Init PROVE Inv
    OBVIOUS
  <2>2. TypeOK
    BY <2>1 DEF Init, TypeOK
  <2>3. \A p \in Procs : RunInv(p)
    BY <2>1 DEF Init, RunInv, Held, Decided, Marked, Paused, Trap
  <2>4. DriverInv /\ UdevRestored /\ PolicyKept /\ PassIsTrue
    BY <2>1 DEF Init, DriverInv, UdevRestored, PolicyKept, PassIsTrue
  <2>5. QED
    BY <2>2, <2>3, <2>4 DEF Inv
<1>2. Inv /\ [Next]_vars => Inv'
  <2>1. SUFFICES ASSUME Inv, [Next]_vars PROVE Inv'
    OBVIOUS
  <2>2. ASSUME NEW p \in Procs, Step(p)
        PROVE  Inv'
    BY <2>1, <2>2, TakeLockKeeps, FirstLoadKeeps, FirstWaitKeeps, FirstPassKeeps,
       NeedsSecondPassKeeps, CheckKeeps, MaskKeeps, StopUdevKeeps, UnbindKeeps,
       UnloadKeeps, ResetKeeps, ReloadKeeps, SecondWaitKeeps, VerifyKeeps,
       UnmaskKeeps, StartUdevKeeps DEF Step
  <2>3. CASE UNCHANGED vars
    BY <2>1, <2>3 DEF Inv, TypeOK, RunInv, DriverInv, UdevRestored, PolicyKept,
                      PassIsTrue, vars, udev, cards, fixed
  <2>4. QED
    BY <2>1, <2>2, <2>3, BeginKeeps, InterruptKeeps, EnvironmentKeeps DEF Next
<1>3. QED
  BY <1>1, <1>2, PTL DEF Spec

\* Every variable of the second pass keeps its type.
THEOREM TypeCorrect == Spec => []TypeOK
BY Invariance, PTL DEF Inv

\* However many runs overlap and wherever a command fails or INT or TERM
\* arrives in the script, udev is paused only while a run is there to restore
\* it (restore_udev).
THEOREM UdevStaysRestored == Spec => []UdevRestored
BY Invariance, PTL DEF Inv

\* No run ever unmasks or starts a unit that the host's owner masked.
THEOREM PolicyStaysKept == Spec => []PolicyKept
BY Invariance, PTL DEF Inv

\* No run resets a card under a driver, nor can udev load one meanwhile.
THEOREM ResetStaysUndriven == Spec => []ResetUndriven
<1>1. Inv => ResetUndriven
  BY DEF Inv, RunInv, ResetUndriven, Marked, Paused
<1>2. QED
  BY <1>1, Invariance, PTL

\* PASS is true of every card for as long as it is the run's last word.
THEOREM PassStaysTrue == Spec => []PassIsTrue
BY Invariance, PTL DEF Inv

\* No step of any run unloads the driver, or unbinds a card, beside a GPU that
\* is not a CMP 50HX.
THEOREM ForeignStaysServed == Spec => ForeignServed
<1> DEFINE Served == foreign => (module => module') /\ bound \subseteq bound'
<1>1. ASSUME Inv, [Next]_vars
      PROVE  Served \/ UNCHANGED vars
  <2>1. SUFFICES ASSUME foreign, Next PROVE Served
    BY <1>1
  <2>2. \A p \in Procs : pc[p] \notin {"unbind", "unload"}
    BY <1>1, <2>1 DEF Inv, RunInv, Decided, Marked, Paused
  <2>3. Modprobe \/ UNCHANGED <<module, bound>>
    <3>1. ASSUME NEW p \in Procs, Step(p)
          PROVE  Modprobe \/ UNCHANGED <<module, bound>>
      BY <2>2, <3>1 DEF Step, TakeLock, FirstLoad, FirstWait, FirstPass, NeedsSecondPass,
         Check, Mask, StopUdev, Unbind, Unload, Reset, Reload, SecondWait, Verify,
         Unmask, StartUdev, At, cards
    <3>2. ASSUME NEW p \in Procs, Begin(p) \/ Interrupt(p)
          PROVE  Modprobe \/ UNCHANGED <<module, bound>>
      BY <3>2 DEF Begin, Interrupt, Aborts, SignalledInTrap, Killed, Partly, cards
    <3>3. Environment => Modprobe \/ UNCHANGED <<module, bound>>
      BY DEF Environment, UdevLoads, AppOpens, AppCloses, Initializes, cards
    <3>4. QED
      BY <2>1, <3>1, <3>2, <3>3 DEF Next
  <2>4. QED
    BY <1>1, <2>3, ModprobeKeeps DEF Modprobe, Inv, DriverInv, cards
<1>2. QED
  <2>1. Inv /\ [Next]_vars => [Served]_vars
    BY <1>1
  <2>2. QED
    BY <2>1, Invariance, PTL DEF Spec, ForeignServed

-----------------------------------------------------------------------------
(* A run only moves towards its end *)

\* A move to a label of lower rank is a move towards the end.
LEMMA Downwards ==
  ASSUME Inv, NEW p \in Procs, NEW label, pc' = [pc EXCEPT ![p] = label],
         Rank[label] < Rank[pc[p]]
  PROVE  Closer(p)
BY DEF Inv, TypeOK, Closer

LEMMA ExitCloser ==
  ASSUME Inv, NEW p \in Procs, pc[p] \in Body, Exit(p)
  PROVE  Closer(p)
<1>1. CASE UdevStopped(p)
  <2>1. pc' = [pc EXCEPT ![p] = "unmask"]
    BY <1>1 DEF Exit, Goto
  <2>2. Rank["unmask"] < Rank[pc[p]]
    BY <1>1 DEF UdevStopped, Paused, Rank
  <2>3. QED
    BY <2>1, <2>2, Downwards
<1>2. CASE ~ UdevStopped(p)
  <2>1. pc' = [pc EXCEPT ![p] = "idle"]
    BY <1>2 DEF Exit, Goto
  <2>2. Rank["idle"] < Rank[pc[p]]
    BY DEF Body, Harmless, Paused, Rank
  <2>3. QED
    BY <2>1, <2>2, Downwards
<1>3. QED
  BY <1>1, <1>2

LEMMA VanishCloser ==
  ASSUME Inv, NEW p \in Procs, pc[p] \in Body \cup Trap, Vanish(p)
  PROVE  Closer(p)
<1>1. pc' = [pc EXCEPT ![p] = "idle"]
  BY DEF Vanish, Goto
<1>2. Rank["idle"] < Rank[pc[p]]
  BY DEF Body, Harmless, Paused, Trap, Rank
<1>3. QED
  BY <1>1, <1>2, Downwards

\* A loop of the script drops the card it has dealt with.
LEMMA LoopCloser ==
  ASSUME Inv, NEW p \in Procs, pc[p] # "unbind", UNCHANGED pc,
         NEW c \in todo[p], LoopOver(p, todo[p] \ {c})
  PROVE  Closer(p)
BY DEF Inv, TypeOK, LoopOver, Ahead, Closer

LEMMA StepCloser ==
  ASSUME Inv, NEW p \in Procs, Step(p)
  PROVE  Closer(p)
<1>1. ASSUME NEW from, NEW to, pc[p] = from, Goto(p, to), Rank[to] < Rank[from]
      PROVE  Closer(p)
  BY <1>1, Downwards DEF Goto
<1>2. CASE TakeLock(p)
  BY <1>2, <1>1, ExitCloser DEF TakeLock, At, Body, Harmless, Rank
<1>3. CASE FirstLoad(p)
  BY <1>3, <1>1 DEF FirstLoad, At, Proceed, Rank
<1>4. CASE FirstWait(p)
  BY <1>4, <1>1, ExitCloser DEF FirstWait, At, Proceed, Body, Harmless, Rank
<1>5. CASE FirstPass(p)
  BY <1>5, ExitCloser DEF FirstPass, At, Body, Harmless
<1>6. CASE NeedsSecondPass(p)
  BY <1>6, <1>1 DEF NeedsSecondPass, At, Proceed, Rank
<1>7. CASE Check(p)
  <2>1. PICK label \in {"drivers", "apps", "policy"} :
          pc[p] = label /\ (Exit(p) \/ Goto(p, NextCheck[label]))
    BY <1>7 DEF Check, At, Proceed, NextCheck
  <2>2. Rank[NextCheck[label]] < Rank[label]
    BY DEF NextCheck, Rank
  <2>3. QED
    BY <1>1, <2>1, <2>2, ExitCloser DEF Body, Harmless
<1>8. CASE Mask(p) \/ StopUdev(p)
  BY <1>8, <1>1 DEF Mask, StopUdev, At, Proceed, Rank
<1>9. CASE Unbind(p)
  <2>1. CASE Goto(p, "unload")
    BY <1>9, <2>1, <1>1 DEF Unbind, At, Rank
  <2>2. ASSUME NEW c \in bound, bound' = bound \ {c}, UNCHANGED pc
        PROVE  Closer(p)
    BY <1>9, <2>2 DEF Unbind, At, Ahead, Closer
  <2>3. QED
    BY <1>9, <2>1, <2>2 DEF Unbind, Proceed
<1>10. CASE Unload(p)
  BY <1>10, <1>1, ExitCloser DEF Unload, At, Body, Paused, Rank
<1>11. CASE Reset(p)
  <2>1. pc[p] = "reset"
    BY <1>11 DEF Reset, At
  <2>2. CASE Goto(p, "reload")
    BY <2>1, <2>2, <1>1 DEF Rank
  <2>3. ASSUME NEW c \in todo[p], LoopOver(p, todo[p] \ {c}), UNCHANGED pc
        PROVE  Closer(p)
    BY <2>1, <2>3, LoopCloser
  <2>4. QED
    BY <1>11, <2>2, <2>3 DEF Reset, Proceed
<1>12. CASE Reload(p)
  BY <1>12, <1>1 DEF Reload, At, Proceed, Rank
<1>13. CASE SecondWait(p)
  BY <1>13, <1>1, ExitCloser DEF SecondWait, At, Body, Rank
<1>14. CASE Verify(p)
  BY <1>14, LoopCloser, ExitCloser DEF Verify, At, Body
<1>15. CASE Unmask(p) \/ StartUdev(p)
  BY <1>15, <1>1 DEF Unmask, StartUdev, At, Proceed, Rank
<1>16. QED
  BY <1>2, <1>3, <1>4, <1>5, <1>6, <1>7, <1>8, <1>9, <1>10, <1>11, <1>12, <1>13,
     <1>14, <1>15 DEF Step

LEMMA InterruptCloser ==
  ASSUME Inv, NEW p \in Procs, Interrupt(p)
  PROVE  Closer(p)
BY ExitCloser, VanishCloser DEF Interrupt, Aborts, SignalledInTrap, Killed

\* A step of one run leaves the place and the loop of every other alone.
LEMMA OthersStay ==
  ASSUME Inv, NEW p \in Procs, NEW q \in Procs \ {p},
         Begin(q) \/ Step(q) \/ Interrupt(q)
  PROVE  pc'[p] = pc[p] /\ todo'[p] = todo[p]
<1>1. (\E label : pc' = [pc EXCEPT ![q] = label]) \/ UNCHANGED pc
  BY DEF Begin, Step, Interrupt, TakeLock, FirstLoad, FirstWait, FirstPass, NeedsSecondPass,
     Check, Mask, StopUdev, Unbind, Unload, Reset, Reload, SecondWait, Verify, Unmask,
     StartUdev, Aborts, SignalledInTrap, Killed, Vanish, Exit, Proceed, Goto
<1>2. (\E left : todo' = [todo EXCEPT ![q] = left]) \/ UNCHANGED todo
  BY DEF Begin, Step, Interrupt, TakeLock, FirstLoad, FirstWait, FirstPass, NeedsSecondPass,
     Check, Mask, StopUdev, Unbind, Unload, Reset, Reload, SecondWait, Verify, Unmask,
     StartUdev, Aborts, SignalledInTrap, Killed, Vanish, Exit, Proceed, LoopOver
<1>3. QED
  BY <1>1, <1>2 DEF Inv, TypeOK

\* A run without the lock touches no card.
LEMMA OutsidersBindNothing ==
  ASSUME Inv, NEW q \in Procs, lock # q, Begin(q) \/ Step(q) \/ Interrupt(q)
  PROVE  bound' = bound
<1>1. pc[q] \notin Held
  BY DEF Inv, RunInv
<1>2. ~ Step(q) \/ TakeLock(q)
  BY <1>1 DEF Step, FirstLoad, FirstWait, FirstPass, NeedsSecondPass, Check, NextCheck, Mask,
     StopUdev, Unbind, Unload, Reset, Reload, SecondWait, Verify, Unmask, StartUdev, At,
     Held, Decided, Marked, Paused, Trap
<1>3. ~ Interrupt(q) \/ UNCHANGED cards
  BY <1>1 DEF Interrupt, Aborts, SignalledInTrap, Killed, Partly, Held, Decided, Marked, Paused
<1>4. QED
  BY <1>2, <1>3 DEF Begin, TakeLock, cards

\* While a run goes over its cards nobody gives it more to unbind: the other
\* runs wait for its lock and udev is stopped.
LEMMA NothingMoreAhead ==
  ASSUME Inv, NEW p \in Procs,
         \/ Environment
         \/ \E q \in Procs \ {p} : Begin(q) \/ Step(q) \/ Interrupt(q)
  PROVE  pc'[p] = pc[p] /\ Ahead(p)' \subseteq Ahead(p)
<1>1. pc'[p] = pc[p] /\ todo'[p] = todo[p]
  BY OthersStay DEF Environment, UdevLoads, AppOpens, AppCloses, Initializes
<1>2. ASSUME pc[p] = "unbind" PROVE bound' = bound
  <2>1. lock = p /\ running = {}
    BY <1>2 DEF Inv, RunInv, Held, Decided, Marked, Paused
  <2>2. Environment => bound' = bound
    BY <2>1 DEF Environment, UdevLoads, AppOpens, AppCloses, Initializes, cards
  <2>3. QED
    BY <2>1, <2>2, OutsidersBindNothing
<1>3. QED
  BY <1>1, <1>2 DEF Ahead

\* Each run comes closer to its end with every command and every signal, and
\* nothing else on the host moves it back, for any number of runs and cards:
\* the counting half of "every run ends", whose other half is fairness.
THEOREM RunsOnlyAdvance == Spec => RunsRunOut
<1> DEFINE Advance ==
      \A p \in Procs :
        /\ Step(p) \/ Interrupt(p) => Closer(p)
        /\ pc[p] # "idle" => Closer(p) \/ (pc'[p] = pc[p] /\ Ahead(p)' \subseteq Ahead(p))
<1>1. ASSUME Inv, Next, NEW p \in Procs
      PROVE  /\ Step(p) \/ Interrupt(p) => Closer(p)
             /\ pc[p] # "idle" =>
                  Closer(p) \/ (pc'[p] = pc[p] /\ Ahead(p)' \subseteq Ahead(p))
  <2>1. Step(p) \/ Interrupt(p) => Closer(p)
    BY <1>1, StepCloser, InterruptCloser
  <2>2. Begin(p) => pc[p] = "idle"
    BY DEF Begin
  <2>3. QED
    BY <1>1, <2>1, <2>2, NothingMoreAhead DEF Next
<1>2. Inv /\ [Next]_vars => [Advance]_vars
  BY <1>1
<1>3. QED
  BY <1>2, Invariance, PTL DEF Spec, RunsRunOut
=============================================================================
