------------------------ MODULE GovernorLeaseProofs ------------------------
(***************************************************************************)
(* The governor implements CardLease on every card whose own releasing     *)
(* calls work, for every number of cards, faults and kills.                *)
(***************************************************************************)
EXTENDS GovernorProofs

\* A card whose fan is forced is in P8.
Untorn(r) == r.fan # 0 => r.pstate = P8

LEMMA ReliableTrusted ==
  ASSUME NEW c \in Reliable
  PROVE  /\ c \in Cards /\ c \in Supported /\ c \notin Faulty
         /\ Trusted(c) /\ Trusted(c)'
BY SupportedAssumption DEF Reliable, Trusted

LEMMA ModeRange ==
  ASSUME NEW r, Untorn(r)
  PROVE  ModeOf(r) \in Lease!Modes
BY DEF ModeOf, Untorn, Lease!Modes

LEMMA BackModes == ModeOf(GivenBack) = "back" /\ ModeOf(BootHw) = "back"
BY DEF ModeOf, GivenBack, BootHw, P8, AutoPState

\* What a live daemon has made of a reliable card.
LEMMA ReliableKnown ==
  ASSUME Inv, svc \in {"starting", "running"}, NEW c \in Reliable
  PROVE  /\ Untorn(hw[c])
         /\ ~ Flagged(c) => hw[c] = GivenBack
         /\ ~ card[c].manualFan => hw[c].fan = 0
<1>1. Trusted(c) /\ c \in Supported
  BY ReliableTrusted
<1>2. hw[c] = IF card[c].lowPower
              THEN Asleep(IF card[c].manualFan THEN control.fan ELSE 0)
              ELSE GivenBack
  BY <1>1 DEF Inv, NothingForgotten
<1>3. Untorn(hw[c])
  BY <1>2 DEF Untorn, Asleep, GivenBack
<1>4. QED
  BY <1>1, <1>3, CardKnown

\* A service that is down has every reliable card back.
LEMMA DownBack ==
  ASSUME Inv, svc \in {"inactive", "auto-restart"}, NEW c \in Reliable
  PROVE  hw[c].fan = 0 /\ hw[c].pstate = AutoPState
BY ReliableTrusted DEF Inv, TypeOK, ReleasedWhenDown, Saving, Hw

\* Any prefix of a release takes a card some way back, and never leaves a
\* forced fan outside P8: the fan goes first.
LEMMA PrefixOnTheWay ==
  ASSUME NEW r \in Hw, Untorn(r), NEW calls \in Prefixes, NEW kept \in {Calls, Calls \ {"fan"}},
         kept = Calls \/ r.fan = 0
  PROVE  /\ Untorn(Restored(r, calls \cap kept))
         /\ ModeOf(Restored(r, calls \cap kept)) \in Lease!OnTheWayBack(ModeOf(r))
<1>1. "pstate" \in calls \cap kept => "fan" \in calls \cap kept \/ r.fan = 0
  BY DEF Prefixes, Calls
<1> DEFINE r2 == Restored(r, calls \cap kept)
<1>2. /\ r2.fan \in {0, r.fan} /\ r2.pstate \in {AutoPState, r.pstate}
      /\ r2.pstate # r.pstate => r2.fan = 0
  BY <1>1 DEF Restored
<1> HIDE DEF r2
<1>3. Untorn(r2)
  BY <1>2 DEF Untorn
<1>4. r.pstate \in {P8, AutoPState}
  BY DEF Hw
<1>5. ModeOf(r2) \in Lease!OnTheWayBack(ModeOf(r))
  BY <1>2, <1>4 DEF Untorn, ModeOf, Lease!OnTheWayBack, Lease!Modes, P8, AutoPState
<1>6. QED
  BY <1>3, <1>5 DEF r2

LEMMA StaysOnTheWay ==
  ASSUME NEW m \in Lease!Modes
  PROVE  m \in Lease!OnTheWayBack(m)
BY DEF Lease!Modes, Lease!OnTheWayBack

-----------------------------------------------------------------------------
(* Steps of the abstract governor *)

LEMMA AllBackMode ==
  ASSUME \A c \in Reliable : hw'[c].fan = 0 /\ hw'[c].pstate = AutoPState
  PROVE  ReliableModes' = Lease!AllBack
BY DEF ReliableModes, Lease!AllBack, ModeOf, P8, AutoPState

LEMMA SameModes ==
  ASSUME hw' = hw
  PROVE  ReliableModes' = ReliableModes
BY DEF ReliableModes

\* The daemon is inactive again, and every reliable card is given back.
LEMMA QuietGrant ==
  ASSUME Inv', svc \in {"starting", "running"}, svc' = "running", active' = FALSE
  PROVE  Lease!Grant
<1>1. \A c \in Reliable : hw'[c] = GivenBack
  <2>1. SUFFICES ASSUME NEW c \in Reliable PROVE hw'[c] = GivenBack
    OBVIOUS
  <2>2. Trusted(c)' /\ c \in Supported /\ c \in Cards
    BY ReliableTrusted
  <2>3. ~ card'[c].lowPower
    BY <2>2 DEF Inv, GovernedOnlyByProfile
  <2>4. QED
    BY <2>2, <2>3 DEF Inv, NothingForgotten
<1>2. ReliableModes' = Lease!AllBack
  BY <1>1, AllBackMode DEF GivenBack
<1>3. Leased' = {} /\ DaemonPhase = "up" /\ DaemonPhase' = "up"
  BY DEF Leased, DaemonPhase
<1>4. QED
  BY <1>2, <1>3 DEF Lease!Grant

LEMMA ControlTickLease ==
  ASSUME Inv, Inv', ControlTick
  PROVE  Lease!Next \/ UNCHANGED Lease!vars
<1>1. svc \in {"starting", "running"} /\ svc' = "running"
  BY DEF ControlTick, FirstSyncMissing, SyncWithdrawn, SyncRefused, SyncApplied, SyncUnpublished,
         Syncing
<1>2. CASE FirstSyncMissing
  <2>1. UNCHANGED <<Leased, ReliableModes, DaemonPhase>>
    BY <1>1, <1>2 DEF FirstSyncMissing, daemon, Leased, ReliableModes, DaemonPhase
  <2>2. QED
    BY <2>1 DEF Lease!vars
<1>3. CASE SyncWithdrawn
  BY <1>1, <1>3, QuietGrant DEF SyncWithdrawn, Disable, Lease!Next
<1>4. CASE SyncRefused
  BY <1>1, <1>4, QuietGrant DEF SyncRefused, Fail, Lease!Next
<1>5. CASE SyncUnpublished
  BY <1>1, <1>5, QuietGrant DEF SyncUnpublished, Fail, Lease!Next
<1>6. CASE SyncApplied
  <2>1. \A c \in Reliable : hw'[c] = GivenBack
    <3>1. SUFFICES ASSUME NEW c \in Reliable PROVE hw'[c] = GivenBack
      OBVIOUS
    <3>2. Trusted(c)' /\ c \in Supported /\ c \in Cards
      BY ReliableTrusted
    <3>3. ~ card'[c].lowPower
      BY <1>6, <3>2, ReleaseAllUnflags DEF SyncApplied
    <3>4. QED
      BY <1>1, <3>2, <3>3 DEF Inv, NothingForgotten
  <2>2. ReliableModes' = Lease!AllBack
    BY <2>1, AllBackMode DEF GivenBack
  <2>3. Leased' \in SUBSET Reliable /\ DaemonPhase = "up" /\ DaemonPhase' = "up"
    BY <1>1 DEF Leased, DaemonPhase
  <2>4. QED
    BY <2>2, <2>3 DEF Lease!Grant, Lease!Next
<1>7. QED
  BY <1>2, <1>3, <1>4, <1>5, <1>6 DEF ControlTick

\* A poll governs the card it looks at, if that one is reliable.
LEMMA PollLease ==
  ASSUME Inv, Inv', NEW c \in Cards, Poll(c)
  PROVE  Lease!Next \/ UNCHANGED Lease!vars
<1>1. Polling(c)
  BY DEF Poll, PollBusy, PollIdle, PollFails
<1>2. /\ c \in Supported /\ c < control.profile
      /\ svc = "running" /\ svc' = "running" /\ active /\ control' = control
  BY <1>1, PollFacts
<1>3. CASE PollFails(c)
  BY <1>2, <1>3, QuietGrant DEF PollFails, Fail, Lease!Next
<1>4. CASE PollBusy(c) \/ PollIdle(c)
  <2>1. active' = active
    BY <1>4 DEF PollBusy, PollIdle
  <2>2. PICK r : hw' = [hw EXCEPT ![c] = r]
    BY <1>4 DEF PollBusy, PollIdle
  <2>3. \A d \in Reliable : d # c => hw'[d] = hw[d]
    BY <2>2, ReliableTrusted DEF Inv, TypeOK
  <2>4. Leased' = Leased /\ DaemonPhase = "up" /\ DaemonPhase' = "up"
    BY <1>2, <2>1 DEF Leased, DaemonPhase
  <2>5. CASE c \notin Reliable
    <3>1. ReliableModes' = ReliableModes
      BY <2>3, <2>5 DEF ReliableModes
    <3>2. QED
      BY <2>4, <3>1 DEF Lease!vars
  <2>6. CASE c \in Reliable
    <3> DEFINE m == ModeOf(hw'[c])
    <3>1. Untorn(hw'[c])
      <4>1. hw'[c] = IF card'[c].lowPower
                     THEN Asleep(IF card'[c].manualFan THEN control'.fan ELSE 0)
                     ELSE GivenBack
        BY <1>2, <2>6, ReliableTrusted DEF Inv, NothingForgotten
      <4>2. QED
        BY <4>1 DEF Untorn, Asleep, GivenBack
    <3>2. m \in Lease!Modes
      BY <3>1, ModeRange
    <3>3. ReliableModes' = [ReliableModes EXCEPT ![c] = m]
      BY <2>3, <2>6 DEF ReliableModes
    <3>4. c \in Leased
      BY <1>2, <2>6 DEF Leased
    <3> HIDE DEF m
    <3>5. Lease!Govern(c)
      BY <2>4, <3>2, <3>3, <3>4 DEF Lease!Govern
    <3>6. QED
      BY <2>6, <3>5 DEF Lease!Next
  <2>7. QED
    BY <2>5, <2>6
<1>5. QED
  BY <1>3, <1>4 DEF Poll

\* Down, and so without a lease and with every reliable card back.
LEMMA DownState ==
  ASSUME Inv, svc \in {"inactive", "auto-restart"}
  PROVE  /\ DaemonPhase = "down" /\ Leased = {}
         /\ ReliableModes = Lease!AllBack
<1>1. DaemonPhase = "down" /\ Leased = {}
  BY QuietOutsideLoop DEF DaemonPhase, Leased
<1>2. ReliableModes = Lease!AllBack
  BY DownBack DEF ReliableModes, Lease!AllBack, ModeOf, P8, AutoPState
<1>3. QED
  BY <1>1, <1>2

LEMMA CleanupReliable ==
  ASSUME Inv, NEW done \in Outcomes, hw' = CleanupHw(hw, done), NEW c \in Reliable
  PROVE  hw'[c] = GivenBack
BY OutcomesTyped, ReliableTrusted, NoSupported, CleanupWhole

LEMMA ServiceLease ==
  ASSUME Inv, Inv', Service
  PROVE  Lease!Next \/ UNCHANGED Lease!vars
<1>1. CASE Start
  <2>1. ReliableModes' = Lease!AllBack
    BY <1>1, CleanupReliable, AllBackMode DEF Start, GivenBack
  <2>2. Leased' = Leased
    BY <1>1 DEF Start, daemon, Leased
  <2>3. DaemonPhase = "down" /\ DaemonPhase' = "up"
    BY <1>1 DEF Start, DaemonPhase
  <2>4. QED
    BY <2>1, <2>2, <2>3 DEF Lease!Start, Lease!Next
<1>2. CASE StartFails
  <2>1. ReliableModes' = ReliableModes /\ Leased' = Leased
    BY <1>2 DEF StartFails, daemon, Leased, ReliableModes
  <2>2. DaemonPhase = "down" /\ DaemonPhase' = "gone"
    BY <1>2 DEF StartFails, DaemonPhase
  <2>3. QED
    BY <2>1, <2>2 DEF Lease!NeverUp, Lease!Next
<1>3. CASE Stop
  <2>1. UNCHANGED <<Leased, ReliableModes, DaemonPhase>>
    BY <1>3 DEF Stop, daemon, Leased, ReliableModes, DaemonPhase
  <2>2. QED
    BY <2>1 DEF Lease!vars
<1>4. CASE Shutdown
  <2>1. ReliableModes' = Lease!AllBack
    BY <1>4, CleanupReliable, AllBackMode DEF Shutdown, GivenBack
  <2>2. Leased' = {}
    BY <1>4 DEF Shutdown, Forget, Leased
  <2>3. DaemonPhase = "up" /\ DaemonPhase' = "gone"
    BY <1>4 DEF Shutdown, DaemonPhase
  <2>4. \A c \in Reliable : ReliableModes[c] \in Lease!Modes
    BY <1>4, ReliableKnown, ModeRange DEF Shutdown, ReliableModes
  <2>5. \A c \in Reliable : ReliableModes'[c] \in Lease!OnTheWayBack(ReliableModes[c])
    BY <2>1, <2>4 DEF Lease!AllBack, Lease!OnTheWayBack, Lease!Modes
  <2>6. ReliableModes' \in [Reliable -> Lease!Modes]
    BY <2>1 DEF Lease!AllBack, Lease!Modes
  <2>7. Lease!Die
    BY <2>2, <2>3, <2>5, <2>6 DEF Lease!Die
  <2>8. QED
    BY <2>7 DEF Lease!Next
<1>5. CASE StopPost
  <2>1. ReliableModes' = Lease!AllBack
    BY <1>5, CleanupReliable, AllBackMode DEF StopPost, GivenBack
  <2>2. Leased' = Leased
    BY <1>5 DEF StopPost, daemon, Leased
  <2>3. DaemonPhase = "gone" /\ DaemonPhase' = "down"
    BY <1>5 DEF StopPost, DaemonPhase
  <2>4. QED
    BY <2>1, <2>2, <2>3 DEF Lease!Repair, Lease!Next
<1>6. QED
  BY <1>1, <1>2, <1>3, <1>4, <1>5 DEF Service

-----------------------------------------------------------------------------
(* SIGKILL *)

\* It is enough that one card at most, under the lease, is anywhere, and the
\* others are some way back.
LEMMA KilledDie ==
  ASSUME Inv, Killed, NEW governed \in SUBSET Leased, \A c, d \in governed : c = d,
         \A c \in Reliable : Untorn(hw'[c]),
         \A c \in Reliable \ governed : ModeOf(hw'[c]) \in Lease!OnTheWayBack(ModeOf(hw[c]))
  PROVE  Lease!Next
<1>1. Leased' = {} /\ DaemonPhase = "up" /\ DaemonPhase' = "gone"
  BY DEF Killed, Forget, Leased, DaemonPhase
<1>2. ReliableModes' \in [Reliable -> Lease!Modes]
  BY ModeRange DEF ReliableModes
<1>3. \A c \in Reliable \ governed : ReliableModes'[c] \in Lease!OnTheWayBack(ReliableModes[c])
  BY DEF ReliableModes
<1>4. Lease!Die
  BY <1>1, <1>2, <1>3 DEF Lease!Die
<1>5. QED
  BY <1>4 DEF Lease!Next

\* The same, from the card as it is: any of it undone in order, or nothing.
OnItsWay(h, c) == Untorn(h[c]) /\ ModeOf(h[c]) \in Lease!OnTheWayBack(ModeOf(hw[c]))

LEMMA UntouchedOnItsWay ==
  ASSUME Inv, svc \in {"starting", "running"}, NEW c \in Reliable
  PROVE  OnItsWay(hw, c)
BY ReliableKnown, ModeRange, StaysOnTheWay DEF OnItsWay

LEMMA WholeOnItsWay ==
  ASSUME Inv, svc \in {"starting", "running"}, NEW c \in Reliable, NEW h, h[c] = GivenBack
  PROVE  OnItsWay(h, c)
<1>1. Untorn(GivenBack) /\ ModeOf(GivenBack) = "back"
  BY BackModes DEF Untorn, GivenBack
<1>2. ModeOf(hw[c]) \in Lease!Modes
  BY ReliableKnown, ModeRange
<1>3. QED
  BY <1>1, <1>2 DEF OnItsWay, Lease!OnTheWayBack, Lease!Modes

LEMMA OnTheWayOnly ==
  ASSUME NEW a \in Lease!Modes, NEW b \in Lease!OnTheWayBack(a), NEW e \in Lease!OnTheWayBack(b)
  PROVE  e \in Lease!OnTheWayBack(a)
BY DEF Lease!Modes, Lease!OnTheWayBack

LEMMA CleanupOnItsWay ==
  ASSUME Inv, svc \in {"starting", "running"}, NEW c \in Reliable,
         NEW h, AllSound(h), OnItsWay(h, c), NEW done \in [Cards -> Prefixes]
  PROVE  OnItsWay(CleanupHw(h, done), c)
<1>1. c \in Cards /\ c \in Supported /\ h[c] \in Hw /\ done[c] \in Prefixes /\ done[c] \cap Calls = done[c]
  BY ReliableTrusted, PrefixesTyped DEF AllSound
<1>2. CleanupHw(h, done)[c] = Restored(h[c], done[c] \cap Calls)
  BY <1>1 DEF CleanupHw
<1>3. Untorn(h[c])
  BY DEF OnItsWay
<1>4. /\ Untorn(Restored(h[c], done[c] \cap Calls))
      /\ ModeOf(Restored(h[c], done[c] \cap Calls)) \in Lease!OnTheWayBack(ModeOf(h[c]))
  BY <1>1, <1>3, PrefixOnTheWay
<1>5. ModeOf(hw[c]) \in Lease!Modes /\ ModeOf(h[c]) \in Lease!OnTheWayBack(ModeOf(hw[c]))
  BY ReliableKnown, ModeRange DEF OnItsWay
<1>6. QED
  BY <1>2, <1>4, <1>5, OnTheWayOnly DEF OnItsWay

LEMMA ReleasedOnItsWay ==
  ASSUME Inv, svc \in {"starting", "running"}, NEW c \in Reliable, NEW calls \in Prefixes
  PROVE  /\ Untorn(ReleasedCard(c, calls))
         /\ ModeOf(ReleasedCard(c, calls)) \in Lease!OnTheWayBack(ModeOf(hw[c]))
<1>1. hw[c] \in Hw /\ Untorn(hw[c]) /\ (~ card[c].manualFan => hw[c].fan = 0)
  BY ReliableTrusted, ReliableKnown DEF Inv, TypeOK
<1>2. /\ ReleaseCalls(c) \in {Calls, Calls \ {"fan"}}
      /\ ReleaseCalls(c) = Calls \/ hw[c].fan = 0
  BY <1>1 DEF ReleaseCalls
<1>3. QED
  BY <1>1, <1>2, PrefixOnTheWay DEF ReleasedCard

LEMMA ReleaseAllOnItsWay ==
  ASSUME Inv, svc \in {"starting", "running"}, NEW c \in Reliable,
         NEW done \in [Cards -> Prefixes]
  PROVE  OnItsWay(ReleaseAllHw(done), c)
<1>1. c \in Cards /\ done[c] \in Prefixes
  BY ReliableTrusted
<1>2. ReleaseAllHw(done)[c] = IF Flagged(c) THEN ReleasedCard(c, done[c]) ELSE hw[c]
  BY <1>1 DEF ReleaseAllHw
<1>3. QED
  BY <1>1, <1>2, ReleasedOnItsWay, UntouchedOnItsWay DEF OnItsWay

\* A card being polled keeps its fan free until it is in P8.
LEMMA IdledUntorn ==
  ASSUME Inv, svc = "running", NEW c \in Reliable
  PROVE  /\ Sound(hw[c]) /\ Sound(Idled(c))
         /\ Untorn(Idled(c))
         /\ FanToManual(c) => Idled(c).pstate = P8
         /\ EntersLowPower(c) => hw[c].fan = 0
<1>1. c \in Cards /\ Sound(hw[c]) /\ Untorn(hw[c]) /\ (~ card[c].manualFan => hw[c].fan = 0)
  BY ReliableTrusted, ReliableKnown, NoSupported DEF AllSound
<1>2. Sound(Idled(c)) /\ (EntersLowPower(c) => Idled(c).pstate = P8)
  BY <1>1, LowPowerAsleep DEF Idled, Asleep
<1>3. card[c].manualFan => card[c].lowPower
  BY <1>1 DEF Inv, MemoryIsTrue
<1>4. card[c].lowPower => hw[c].pstate = P8
  BY <1>1 DEF Inv, MemoryIsTrue
<1>5. QED
  BY <1>1, <1>2, <1>3, <1>4 DEF Untorn, Idled, FanToManual, FanManaged, EntersLowPower

LEMMA PolledUntorn ==
  ASSUME Inv, svc = "running", NEW c \in Reliable, NEW h \in PolledHws(c)
  PROVE  Untorn(h[c]) /\ \A d \in Reliable \ {c} : h[d] = hw[d]
<1>1. PICK r \in PollFailures(c) : h = [hw EXCEPT ![c] = r]
  BY DEF PolledHws
<1>2. c \in Cards /\ c \notin Faulty /\ hw \in [Cards -> Hw]
  BY ReliableTrusted DEF Inv, TypeOK
<1>3. r \notin BusyFailures(c)
  BY <1>2, OutcomesTyped DEF BusyFailures, ReleaseFailed, ReleaseCalls
<1>4. ASSUME EntersLowPower(c), r \in LowPowerFailures(hw[c]) PROVE Untorn(r)
  BY <1>4, IdledUntorn DEF LowPowerFailures, Untorn
<1>5. ASSUME FanToManual(c), NEW f, r = [Idled(c) EXCEPT !.fan = f] PROVE Untorn(r)
  BY <1>5, IdledUntorn DEF Untorn, Sound, Hw
<1>6. Untorn(hw[c]) /\ Untorn(Idled(c))
  BY ReliableKnown, IdledUntorn
<1>7. Untorn(r)
  BY <1>3, <1>4, <1>5, <1>6 DEF PollFailures, IdleFailures
<1>8. QED
  BY <1>1, <1>2, <1>7, ReliableTrusted

LEMMA IdleStepsUntorn ==
  ASSUME Inv, svc = "running", NEW c \in Reliable, NEW r \in IdleSteps(c)
  PROVE  Untorn(r)
<1>1. Sound(hw[c]) /\ Untorn(hw[c]) /\ Sound(Idled(c)) /\ Untorn(Idled(c))
  BY ReliableKnown, IdledUntorn
<1>2. Untorn([hw[c] EXCEPT !.offset = IF HasOffset THEN "zero" ELSE @])
      /\ Untorn([[hw[c] EXCEPT !.offset = IF HasOffset THEN "zero" ELSE @] EXCEPT !.clock = "auto"])
  BY <1>1 DEF Untorn, Sound, Hw
<1>3. FanToManual(c) => Untorn([Idled(c) EXCEPT !.fan = control.fan])
  BY <1>1, IdledUntorn DEF Untorn, Sound, Hw
<1>4. Untorn([Idled(c) EXCEPT !.fan = 0])
  BY <1>1 DEF Untorn, Sound, Hw
<1>5. QED
  BY <1>1, <1>2, <1>3, <1>4 DEF IdleSteps

\* The card a poll has come to is one the applied control counts.
LEMMA CountedCard ==
  ASSUME Inv, active
  PROVE  svc = "running" /\ next < control.profile
<1>1. svc = "running" /\ control \in Controls /\ Valid(control)
  BY DEF Inv, LoopInv
<1>2. control.profile \in Nat \ {0}
  BY <1>1, ProfilesAssumption DEF Controls
<1>3. next < control.profile
  BY <1>2 DEF Inv, LoopInv
<1>4. QED
  BY <1>1, <1>3

\* The daemon dies with one card anywhere under P8 and its fan.
LEMMA KilledInOneCard ==
  ASSUME Inv, Killed, NEW c \in Cards, active, next = c, NEW r, hw' = [hw EXCEPT ![c] = r],
         c \in Reliable => Untorn(r)
  PROVE  Lease!Next
<1>1. svc = "running" /\ c < control.profile
  BY CountedCard
<1>2. \A d \in Reliable : hw'[d] = IF d = c THEN r ELSE hw[d]
  BY ReliableTrusted DEF Inv, TypeOK
<1>3. ASSUME NEW d \in Reliable
      PROVE  /\ Untorn(hw'[d])
             /\ d # c => ModeOf(hw'[d]) \in Lease!OnTheWayBack(ModeOf(hw[d]))
  BY <1>1, <1>2, UntouchedOnItsWay DEF OnItsWay
<1> DEFINE governed == {c} \cap Reliable
<1>4. governed \in SUBSET Leased
  BY <1>1 DEF Leased
<1>5. \A a, b \in governed : a = b
  OBVIOUS
<1>6. \A d \in Reliable \ governed : d # c
  OBVIOUS
<1> HIDE DEF governed
<1>7. QED
  BY <1>3, <1>4, <1>5, <1>6, KilledDie

\* The daemon dies with every reliable card on its way.
LEMMA KilledOnTheWay ==
  ASSUME Inv, Killed, \A c \in Reliable : OnItsWay(hw', c)
  PROVE  Lease!Next
<1>1. {} \in SUBSET Leased /\ \A c, d \in {} : c = d
  OBVIOUS
<1>2. \A c \in Reliable \ {} : ModeOf(hw'[c]) \in Lease!OnTheWayBack(ModeOf(hw[c]))
  BY DEF OnItsWay
<1>3. \A c \in Reliable : Untorn(hw'[c])
  BY DEF OnItsWay
<1> DEFINE governed == {}
<1>4. governed \in SUBSET Leased /\ (\A c, d \in governed : c = d)
      /\ \A c \in Reliable \ governed : ModeOf(hw'[c]) \in Lease!OnTheWayBack(ModeOf(hw[c]))
  BY <1>2
<1> HIDE DEF governed
<1>5. QED
  BY <1>3, <1>4, KilledDie

LEMMA KilledInFailLease ==
  ASSUME Inv, KilledInFail
  PROVE  Lease!Next
<1>1. Killed /\ svc \in {"starting", "running"}
  BY DEF KilledInFail, Killed
<1>2. PICK entry \in FailEntries :
        /\ Spend(entry.failed)
        /\ \/ hw' \in {CleanupHw(h, CutShort(k, calls)) :
                         h \in entry.hws, k \in Supported, calls \in Prefixes}
           \/ hw' \in {CleanupHw(h, AllDone) : h \in entry.hws}
  BY DEF KilledInFail
<1>3. AllDone \in [Cards -> Prefixes]
  BY DEF AllDone, Prefixes
<1>4. PICK h \in entry.hws, done \in [Cards -> Prefixes] : hw' = CleanupHw(h, done)
  BY <1>2, <1>3, CutShortTyped
<1>5. AllSound(h)
  BY <1>1, <1>2, EntryClear
<1>6. CASE h = hw
  <2>1. \A c \in Reliable : OnItsWay(hw', c)
    BY <1>1, <1>4, <1>5, <1>6, UntouchedOnItsWay, CleanupOnItsWay
  <2>2. QED
    BY <1>1, <2>1, KilledOnTheWay
<1>7. CASE h \in ReleasedHws
  <2>1. PICK out \in Outcomes : h = ReleaseAllHw(out)
    BY <1>7 DEF ReleasedHws
  <2>2. ASSUME NEW c \in Reliable PROVE OnItsWay(hw', c)
    <3>1. c \in Cards /\ out[c] = Calls /\ Calls \in Prefixes
      BY <2>2, ReliableTrusted, OutcomesTyped DEF Prefixes
    <3>2. h[c] = IF Flagged(c) THEN ReleasedCard(c, Calls) ELSE hw[c]
      BY <2>1, <3>1 DEF ReleaseAllHw
    <3>3. OnItsWay(h, c)
      BY <1>1, <3>1, <3>2, ReleasedOnItsWay, UntouchedOnItsWay DEF OnItsWay
    <3>4. QED
      BY <1>1, <1>4, <1>5, <3>3, CleanupOnItsWay
  <2>3. QED
    BY <1>1, <2>2, KilledOnTheWay
<1>8. CASE active /\ h \in PolledHws(next)
  <2>1. svc = "running" /\ next \in Cards /\ next < control.profile
    BY <1>8, CountedCard DEF Inv, TypeOK
  <2>2. PICK r : h = [hw EXCEPT ![next] = r]
    BY <1>8 DEF PolledHws
  <2>3. ASSUME NEW c \in Reliable, c # next PROVE OnItsWay(hw', c)
    <3>1. h[c] = hw[c]
      BY <2>2, <2>3, ReliableTrusted DEF Inv, TypeOK
    <3>2. OnItsWay(h, c)
      BY <1>1, <3>1, UntouchedOnItsWay DEF OnItsWay
    <3>3. QED
      BY <1>1, <1>4, <1>5, <3>2, CleanupOnItsWay
  <2>4. ASSUME next \in Reliable PROVE Untorn(hw'[next])
    <3>1. Untorn(h[next]) /\ h[next] \in Hw /\ next \in Supported
      BY <1>5, <1>8, <2>1, <2>4, PolledUntorn, ReliableTrusted DEF AllSound
    <3>2. done[next] \in Prefixes /\ done[next] \cap Calls = done[next]
      BY <2>1, PrefixesTyped
    <3>3. hw'[next] = Restored(h[next], done[next] \cap Calls)
      BY <1>4, <2>1, <3>1, <3>2 DEF CleanupHw
    <3>4. QED
      BY <3>1, <3>2, <3>3, PrefixOnTheWay
  <2> DEFINE governed == {next} \cap Reliable
  <2>5. governed \in SUBSET Leased
    BY <1>8, <2>1 DEF Leased
  <2>6. (\A a, b \in governed : a = b) /\ \A d \in Reliable \ governed : d # next
    OBVIOUS
  <2> HIDE DEF governed
  <2>7. \A c \in Reliable : Untorn(hw'[c])
    BY <2>3, <2>4 DEF OnItsWay
  <2>8. \A c \in Reliable \ governed : ModeOf(hw'[c]) \in Lease!OnTheWayBack(ModeOf(hw[c]))
    BY <2>3, <2>6 DEF OnItsWay
  <2>9. QED
    BY <1>1, <2>5, <2>6, <2>7, <2>8, KilledDie
<1>9. QED
  BY <1>2, <1>4, <1>6, <1>7, <1>8 DEF FailEntries

LEMMA KilledInStartLease ==
  ASSUME Inv, KilledInStart
  PROVE  Lease!Next
<1>1. svc \in {"inactive", "auto-restart"} /\ svc' = "stop-post" /\ UNCHANGED daemon
  BY DEF KilledInStart
<1>2. PICK k \in Supported, calls \in Prefixes : hw' = CleanupHw(hw, CutShort(k, calls))
  BY DEF KilledInStart
<1>3. \A c \in Reliable : hw'[c].fan = 0 /\ hw'[c].pstate = AutoPState
  BY <1>1, <1>2, DownBack, ReliableTrusted DEF CleanupHw, Restored
<1>4. ReliableModes = Lease!AllBack /\ ReliableModes' = Lease!AllBack
  BY <1>1, <1>3, DownState, AllBackMode
<1>5. DaemonPhase = "down" /\ DaemonPhase' = "gone" /\ Leased' = Leased
  BY <1>1 DEF DaemonPhase, Leased, daemon
<1>6. QED
  BY <1>4, <1>5 DEF Lease!NeverUp, Lease!Next

LEMMA KillLease ==
  ASSUME Inv, Kill
  PROVE  Lease!Next
<1>1. ASSUME Killed PROVE svc \in {"starting", "running"}
  BY <1>1 DEF Killed
<1>2. CASE KilledBetween
  <2>1. Killed /\ \A c \in Reliable : OnItsWay(hw', c)
    BY <1>1, <1>2, UntouchedOnItsWay DEF KilledBetween
  <2>2. QED
    BY <2>1, KilledOnTheWay
<1>3. CASE KilledInCleanup
  <2>1. PICK k \in Supported, calls \in Prefixes : hw' = CleanupHw(hw, CutShort(k, calls))
    BY <1>3 DEF KilledInCleanup
  <2>2. Killed
    BY <1>3 DEF KilledInCleanup
  <2>3. \A c \in Reliable : OnItsWay(hw', c)
    BY <1>1, <2>1, <2>2, NoSupported, CutShortTyped, UntouchedOnItsWay, CleanupOnItsWay
  <2>4. QED
    BY <2>2, <2>3, KilledOnTheWay
<1>4. CASE KilledInReleaseAll
  <2>1. Killed
    BY <1>4 DEF KilledInReleaseAll
  <2>2. PICK whole \in SUBSET Cards, c \in Cards, calls \in Prefixes :
          hw' = ReleaseAllHw([d \in Cards |-> IF d \in whole THEN Calls
                                              ELSE IF d = c THEN calls ELSE {}])
    BY <1>4 DEF KilledInReleaseAll
  <2> DEFINE done == [d \in Cards |-> IF d \in whole THEN Calls ELSE IF d = c THEN calls ELSE {}]
  <2>3. done \in [Cards -> Prefixes]
    BY DEF Prefixes
  <2> HIDE DEF done
  <2>4. hw' = ReleaseAllHw(done)
    BY <2>2 DEF done
  <2>5. \A d \in Reliable : OnItsWay(hw', d)
    BY <1>1, <2>1, <2>3, <2>4, ReleaseAllOnItsWay
  <2>6. QED
    BY <2>1, <2>5, KilledOnTheWay
<1>5. CASE KilledInStatus
  <2>1. Killed /\ hw' = ReleaseAllHw(AllDone)
    BY <1>5 DEF KilledInStatus
  <2>2. AllDone \in [Cards -> Prefixes]
    BY DEF AllDone, Prefixes
  <2>3. \A d \in Reliable : OnItsWay(hw', d)
    BY <1>1, <2>1, <2>2, ReleaseAllOnItsWay
  <2>4. QED
    BY <2>1, <2>3, KilledOnTheWay
<1>6. ASSUME NEW c \in Cards, KilledInPollBusy(c) PROVE Lease!Next
  <2>1. Killed /\ active /\ next = c /\ svc \in {"starting", "running"}
    BY <1>1, <1>6 DEF KilledInPollBusy
  <2>2. PICK calls \in Prefixes : hw' = [hw EXCEPT ![c] = ReleasedCard(c, calls)]
    BY <1>6 DEF KilledInPollBusy
  <2>3. c \in Reliable => Untorn(ReleasedCard(c, calls))
    BY <2>1, ReleasedOnItsWay
  <2>4. QED
    BY <2>1, <2>2, <2>3, KilledInOneCard
<1>7. ASSUME NEW c \in Cards, KilledInPollIdle(c) PROVE Lease!Next
  <2>1. Killed /\ active /\ next = c /\ svc = "running"
    BY <1>7 DEF KilledInPollIdle, Inv, LoopInv
  <2>2. PICK r \in IdleSteps(c) : hw' = [hw EXCEPT ![c] = r]
    BY <1>7 DEF KilledInPollIdle
  <2>3. c \in Reliable => Untorn(r)
    BY <2>1, IdleStepsUntorn
  <2>4. QED
    BY <2>1, <2>2, <2>3, KilledInOneCard
<1>8. QED
  BY <1>2, <1>3, <1>4, <1>5, <1>6, <1>7, KilledInFailLease, KilledInStartLease DEF Kill

-----------------------------------------------------------------------------
(* The whole *)

LEMMA WorldLease ==
  ASSUME World \/ UNCHANGED vars
  PROVE  UNCHANGED Lease!vars
<1>1. UNCHANGED <<hw, control, active, svc>>
  BY DEF World, PanelWrites, LoadChanges, TemperatureChanges, daemon, vars
<1>2. Leased' = Leased /\ ReliableModes' = ReliableModes /\ DaemonPhase' = DaemonPhase
  BY <1>1 DEF Leased, ReliableModes, DaemonPhase
<1>3. QED
  BY <1>2 DEF Lease!vars

LEMMA InitLease == Init => Lease!Init
<1> SUFFICES ASSUME Init PROVE Lease!Init
  OBVIOUS
<1>1. Leased = {} /\ DaemonPhase = "down"
  BY DEF Init, Leased, DaemonPhase
<1>2. \A c \in Reliable : hw[c] = BootHw
  BY ReliableTrusted DEF Init
<1>3. ReliableModes = Lease!AllBack
  BY <1>2, BackModes DEF ReliableModes, Lease!AllBack
<1>4. QED
  BY <1>1, <1>3 DEF Lease!Init

\* The governor implements CardLease: on every card whose own releasing calls
\* work, whatever other call fails and wherever SIGKILL lands, each step is one
\* the abstract governor may take, or leaves the cards and the lease alone.
THEOREM LeaseIsKept == Spec => LeaseKept
<1>1. Init => Lease!Init
  BY InitLease
<1>2. Inv /\ Inv' /\ [Next]_vars => [Lease!Next]_(Lease!vars)
  BY ControlTickLease, PollLease, ServiceLease, KillLease, WorldLease DEF Next
<1>3. QED
  BY <1>1, <1>2, Invariance, PTL DEF Spec, LeaseKept, Lease!Spec

\* So a card saves power under a live daemon only if the control being applied
\* counts it, and none does under a unit that is down.
THEOREM OnlyLeasedSave == Spec => []Lease!OnlyLeased
<1>1. Inv => /\ DaemonPhase = "up" => \A c \in Reliable \ Leased : ReliableModes[c] = "back"
             /\ DaemonPhase = "down" => Leased = {} /\ ReliableModes = Lease!AllBack
             /\ DaemonPhase = "gone" => Leased = {}
  <2> SUFFICES ASSUME Inv
               PROVE  /\ DaemonPhase = "up" => \A c \in Reliable \ Leased : ReliableModes[c] = "back"
                      /\ DaemonPhase = "down" => Leased = {} /\ ReliableModes = Lease!AllBack
                      /\ DaemonPhase = "gone" => Leased = {}
    OBVIOUS
  <2>1. svc \in Phases
    BY DEF Inv, TypeOK
  <2>2. CASE svc \in {"inactive", "auto-restart"}
    BY <2>2, DownState
  <2>3. CASE svc = "stop-post"
    BY <2>3, QuietOutsideLoop DEF DaemonPhase, Leased
  <2>4. CASE svc \in {"starting", "running"}
    <3>1. DaemonPhase = "up"
      BY <2>4 DEF DaemonPhase
    <3>2. ASSUME NEW c \in Reliable \ Leased PROVE ReliableModes[c] = "back"
      <4>1. ~ Flagged(c)
        BY <3>2, ReliableTrusted DEF Leased, Flagged, Inv, GovernedOnlyByProfile
      <4>2. hw[c] = GivenBack
        BY <2>4, <4>1, ReliableKnown
      <4>3. QED
        BY <4>2, BackModes DEF ReliableModes
    <3>3. QED
      BY <3>1, <3>2
  <2>5. QED
    BY <2>1, <2>2, <2>3, <2>4 DEF Phases
<1>2. Inv => Lease!OnlyLeased
  BY <1>1 DEF Lease!OnlyLeased
<1>3. QED
  BY <1>2, Invariance, PTL
=============================================================================
