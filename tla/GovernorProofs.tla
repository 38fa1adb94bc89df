--------------------------- MODULE GovernorProofs ---------------------------
(***************************************************************************)
(* The safety of the governor for every number of cards, every profile     *)
(* list, every configuration and every number of faults and kills.         *)
(***************************************************************************)
EXTENDS Governor, TLAPS

\* Where the loop is: a poll under way belongs to an active, valid control,
\* and a daemon that is not in its loop remembers nothing.
LoopInv ==
  /\ next # 0 => active /\ next < control.profile
  /\ active => svc = "running" /\ control \in Controls /\ Valid(control)
  /\ svc # "running" => \A c \in Cards : card[c] = Fresh

\* Without CMP_LOAD_CORE_OFFSET nobody writes the offset.
OffsetUnused == HasOffset \/ \A c \in Cards : hw[c].offset = "zero"

Inv ==
  /\ TypeOK
  /\ LoopInv
  /\ OffsetUnused
  /\ MemoryIsTrue
  /\ GovernedOnlyByProfile
  /\ PublishedIsApplied
  /\ ForeignUntouched
  /\ NothingForgotten
  /\ ReleasedWhenDown
  /\ NoOffsetInP8

-----------------------------------------------------------------------------
(* Calls on one card *)

\* A card whose settings no configuration contradicts.
Sound(r) == r \in Hw /\ (HasOffset \/ r.offset = "zero")

\* No core offset and no clock lock under P8.
Clear(r) == r.pstate = P8 => r.clock = "auto" /\ (HasOffset => r.offset = "zero")

\* Any part of a release leaves a sound card sound.
LEMMA RestoredSound ==
  ASSUME NEW r, Sound(r), NEW done
  PROVE  Sound(Restored(r, done))
BY FansAssumption, ConfigAssumption
   DEF Sound, Hw, Restored, LoadClock, AutoPState, P8

\* All of it gives the card back.
LEMMA RestoredWhole ==
  ASSUME NEW r, Sound(r)
  PROVE  Restored(r, Calls) = GivenBack
BY ConfigAssumption DEF Sound, Hw, Restored, LoadClock, GivenBack, Calls

\* Whatever prefix of it has been done, a card in P8 stays clear: the offset
\* and the clocks come after the P-state.
LEMMA RestoredClear ==
  ASSUME NEW r, Sound(r), Clear(r), NEW calls \in Prefixes, NEW kept \in {Calls, Calls \ {"fan"}}
  PROVE  Clear(Restored(r, calls \cap kept))
<1>1. "offset" \in calls \cap kept \/ "clock" \in calls \cap kept => "pstate" \in calls \cap kept
  BY DEF Prefixes, Calls
<1>2. QED
  BY <1>1, ConfigAssumption DEF Sound, Clear, Hw, Restored, AutoPState, P8

\* Going to sleep ends in the settings Asleep promises.
LEMMA LowPowerAsleep ==
  ASSUME NEW r, Sound(r)
  PROVE  /\ Sound(LowPower(r))
         /\ LowPower(r) = Asleep(r.fan)
         /\ LowPower(r).fan = r.fan
BY ConfigAssumption DEF Sound, Hw, LowPower, Asleep, P8, AutoPState

LEMMA FanSound ==
  ASSUME NEW r, Sound(r), NEW f \in Fans
  PROVE  /\ Sound([r EXCEPT !.fan = f])
         /\ [r EXCEPT !.fan = f] = [pstate |-> r.pstate, fan |-> f, clock |-> r.clock, offset |-> r.offset]
BY DEF Sound, Hw

LEMMA GivenBackSound == Sound(GivenBack)
BY FansAssumption, ConfigAssumption
   DEF Sound, Hw, GivenBack, LoadClock, AutoPState, P8

LEMMA OutcomesTyped ==
  ASSUME NEW done \in Outcomes
  PROVE  /\ done \in [Cards -> SUBSET Calls]
         /\ \A c \in Cards \ Faulty : done[c] = Calls
BY FaultyAssumption DEF Outcomes, AllDone

\* Faults are counted, never taken back: trust in a card is only lost.
LEMMA TrustLost ==
  ASSUME Inv, NEW failed \in BOOLEAN, Spend(failed)
  PROVE  /\ faults' \in 0 .. MaxFaults
         /\ faults' = 0 => faults = 0 /\ ~ failed
         /\ \A c \in Cards : Trusted(c)' => Trusted(c)
BY BoundsAssumption DEF Inv, TypeOK, Spend, Trusted

-----------------------------------------------------------------------------
(* Calls on all cards *)

AllSound(h) == h \in [Cards -> Hw] /\ \A c \in Cards : Sound(h[c])
Untouched(h) == \A c \in Cards \ Supported : h[c] = BootHw

LEMMA CleanupSound ==
  ASSUME NEW h, AllSound(h), Untouched(h), NEW done \in [Cards -> SUBSET Calls]
  PROVE  AllSound(CleanupHw(h, done)) /\ Untouched(CleanupHw(h, done))
<1>1. ASSUME NEW c \in Cards PROVE Sound(CleanupHw(h, done)[c])
  BY <1>1, RestoredSound DEF CleanupHw, AllSound
<1>2. QED
  BY <1>1 DEF AllSound, Untouched, CleanupHw, Sound

LEMMA CleanupWhole ==
  ASSUME NEW h, AllSound(h), NEW done \in [Cards -> SUBSET Calls], NEW c \in Supported,
         done[c] = Calls
  PROVE  CleanupHw(h, done)[c] = GivenBack
BY RestoredWhole, SupportedAssumption DEF CleanupHw, AllSound

-----------------------------------------------------------------------------
(* Families of actions *)

\* What the world and the counters have to do with it.
FrameTyped ==
  /\ control' \in Controls \cup {NoControl}
  /\ request' \in Requests
  /\ status' \in Statuses
  /\ load' \in [Cards -> BOOLEAN]
  /\ hot' \in [Cards -> BOOLEAN]
  /\ stopping' \in BOOLEAN
  /\ faults' \in 0 .. MaxFaults
  /\ kills' \in 0 .. MaxKills

LEMMA NoSupported == Inv => AllSound(hw) /\ Untouched(hw)
BY DEF Inv, TypeOK, OffsetUnused, ForeignUntouched, AllSound, Untouched, Sound

LEMMA FreshTyped == Fresh \in CardState
BY IdleAfterAssumption DEF Fresh, CardState

LEMMA ZeroIsCard == 0 \in Cards
BY NAssumption DEF Cards

\* The invariant holds wherever the daemon has no flags and is not active,
\* if the cards are as the phase of the service wants them.
LEMMA QuietInv ==
  ASSUME AllSound(hw'), Untouched(hw'), FrameTyped, svc' \in Phases,
         card' \in [Cards -> CardState], active' = FALSE, next' = 0,
         \A c \in Cards : ~ card'[c].lowPower /\ ~ card'[c].manualFan,
         svc' # "running" => \A c \in Cards : card'[c] = Fresh,
         svc' \in {"starting", "running"} =>
           \A c \in Supported : Trusted(c)' => hw'[c] = GivenBack,
         svc' \in {"inactive", "auto-restart"} =>
           \A c \in Cards : Trusted(c)' => ~ Saving(c)',
         \A c \in Cards : Trusted(c)' => Clear(hw'[c])
  PROVE  Inv'
<1>1. TypeOK'
  BY ZeroIsCard DEF TypeOK, FrameTyped, AllSound
<1>2. LoopInv' /\ OffsetUnused' /\ MemoryIsTrue' /\ GovernedOnlyByProfile' /\ PublishedIsApplied'
  BY DEF LoopInv, OffsetUnused, MemoryIsTrue, GovernedOnlyByProfile, PublishedIsApplied,
         Flagged, AllSound, Sound
<1>3. ForeignUntouched' /\ NothingForgotten' /\ ReleasedWhenDown' /\ NoOffsetInP8'
  BY SupportedAssumption
  DEF ForeignUntouched, NothingForgotten, ReleasedWhenDown, NoOffsetInP8, Untouched, Clear
<1>4. QED
  BY <1>1, <1>2, <1>3 DEF Inv

LEMMA GivenBackQuiet ==
  /\ Clear(GivenBack)
  /\ Clear(BootHw)
  /\ \A c \in Cards : hw'[c] \in {GivenBack, BootHw} => ~ Saving(c)'
BY DEF Clear, GivenBack, BootHw, Saving, P8, AutoPState

\* A Cleanup leaves every card it can be trusted with given back or untouched.
LEMMA CleanupQuiet ==
  ASSUME NEW h, AllSound(h), Untouched(h), NEW done \in Outcomes,
         faults' = 0 => ~ CleanupFailed(done), hw' = CleanupHw(h, done)
  PROVE  /\ \A c \in Cards : Trusted(c)' => ~ Saving(c)' /\ Clear(hw'[c])
         /\ \A c \in Supported : Trusted(c)' => hw'[c] = GivenBack
<1>1. done \in [Cards -> SUBSET Calls] /\ \A c \in Cards \ Faulty : done[c] = Calls
  BY OutcomesTyped
<1>2. ASSUME NEW c \in Supported, Trusted(c)' PROVE hw'[c] = GivenBack
  <2>1. done[c] = Calls
    BY <1>1, <1>2, SupportedAssumption DEF Trusted, CleanupFailed
  <2>2. QED
    BY <1>1, <2>1, CleanupWhole
<1>3. \A c \in Cards \ Supported : hw'[c] = BootHw
  BY <1>1, CleanupSound DEF Untouched
<1>4. \A c \in Cards : Trusted(c)' => hw'[c] \in {GivenBack, BootHw}
  BY <1>2, <1>3
<1>5. QED
  BY <1>2, <1>4, GivenBackQuiet

LEMMA StatusTyped ==
  ASSUME NEW s \in Statuses
  PROVE  /\ \A k \in 0 .. 2 : InactiveStatus(s, k) \in Statuses
         /\ \A k \in 0 .. 2, written \in BOOLEAN : ErrorStatus(s, k, written) \in Statuses
         /\ \A ctl \in Controls, k \in 0 .. 3 : ActiveStatus(s, ctl, k) \in Statuses
BY DEF Statuses, InactiveStatus, ErrorStatus, ActiveStatus, Controls

\* No poll reaches an unsupported card, so none is ever remembered as governed.
LEMMA UnsupportedUnflagged ==
  ASSUME Inv, NEW c \in Cards \ Supported
  PROVE  ~ card[c].lowPower /\ ~ card[c].manualFan
<1>1. ~ Flagged(c)
  <2>1. CASE active
    <3>1. control \in Controls /\ 0 .. control.profile - 1 \subseteq Supported
      BY <2>1 DEF Inv, LoopInv, Valid
    <3>2. control.profile \in Nat
      BY <3>1, ProfilesAssumption DEF Controls
    <3>3. ~ c < control.profile
      BY <3>1, <3>2, NAssumption DEF Cards
    <3>4. QED
      BY <3>3 DEF Inv, GovernedOnlyByProfile, Flagged
  <2>2. CASE ~ active
    BY <2>2 DEF Inv, GovernedOnlyByProfile, Flagged
  <2>3. QED
    BY <2>1, <2>2
<1>2. QED
  BY <1>1 DEF Flagged

\* fail() ends in a quiet daemon, whatever the handler had done before it.
LEMMA FailInv ==
  ASSUME Inv, svc' = "running",
         NEW hs, \A h \in hs : AllSound(h) /\ Untouched(h),
         NEW s \in Statuses, NEW failed \in BOOLEAN, Fail(hs, s, failed),
         UNCHANGED <<world, stopping, kills>>,
         control' \in Controls \cup {NoControl}
  PROVE  Inv'
<1>1. PICK end \in Cleaned(hs), k \in 0 .. 2, written \in BOOLEAN :
        /\ hw' = end.hw
        /\ card' = CleanupCards
        /\ status' = ErrorStatus(s, k, written)
        /\ Spend(failed \/ end.failed \/ k < 2 \/ ~ written)
        /\ active' = FALSE
        /\ next' = 0
  BY DEF Fail
<1>2. PICK h \in hs, done \in Outcomes :
        end = [hw |-> CleanupHw(h, done), failed |-> CleanupFailed(done)]
  BY DEF Cleaned
<1>3. done \in [Cards -> SUBSET Calls] /\ hw' = CleanupHw(h, done)
  BY <1>1, <1>2, OutcomesTyped
<1>4. AllSound(hw') /\ Untouched(hw')
  BY <1>3, CleanupSound
<1>5. (failed \/ end.failed \/ k < 2 \/ ~ written) \in BOOLEAN
  BY <1>2 DEF CleanupFailed
<1>6. faults' \in 0 .. MaxFaults /\ (faults' = 0 => ~ CleanupFailed(done))
  BY <1>1, <1>2, <1>5, TrustLost
<1>7. FrameTyped
  BY <1>1, <1>6, StatusTyped DEF FrameTyped, Inv, TypeOK, world
<1>8. card' \in [Cards -> CardState]
  BY <1>1, FreshTyped DEF CleanupCards, Inv, TypeOK
<1>9. \A c \in Cards : ~ card'[c].lowPower /\ ~ card'[c].manualFan
  BY <1>1, UnsupportedUnflagged DEF CleanupCards, Fresh
<1>10. /\ \A c \in Cards : Trusted(c)' => ~ Saving(c)' /\ Clear(hw'[c])
       /\ \A c \in Supported : Trusted(c)' => hw'[c] = GivenBack
  BY <1>3, <1>6, CleanupQuiet
<1>11. QED
  BY <1>1, <1>4, <1>7, <1>8, <1>9, <1>10, QuietInv DEF Phases

\* Any part of a releaseAll leaves sound cards sound.
LEMMA ReleaseAllSound ==
  ASSUME Inv, NEW done \in [Cards -> SUBSET Calls]
  PROVE  AllSound(ReleaseAllHw(done)) /\ Untouched(ReleaseAllHw(done))
<1>1. AllSound(hw) /\ Untouched(hw)
  BY NoSupported
<1>2. ASSUME NEW c \in Cards PROVE Sound(ReleaseAllHw(done)[c])
  BY <1>1, RestoredSound DEF ReleaseAllHw, ReleasedCard, AllSound
<1>3. \A c \in Cards \ Supported : ~ Flagged(c)
  BY UnsupportedUnflagged DEF Flagged
<1>4. Untouched(ReleaseAllHw(done))
  BY <1>1, <1>3 DEF ReleaseAllHw, Untouched
<1>5. AllSound(ReleaseAllHw(done))
  BY <1>2 DEF AllSound, ReleaseAllHw, Sound
<1>6. QED
  BY <1>4, <1>5

\* What a trusted card that the daemon knows to be asleep is.
LEMMA CardKnown ==
  ASSUME Inv, svc \in {"starting", "running"}, NEW c \in Supported, Trusted(c)
  PROVE  /\ ~ Flagged(c) => hw[c] = GivenBack
         /\ ~ card[c].manualFan => hw[c].fan = 0
         /\ Clear(hw[c])
<1>1. c \in Cards
  BY SupportedAssumption
<1>2. hw[c] = IF card[c].lowPower
              THEN Asleep(IF card[c].manualFan THEN control.fan ELSE 0)
              ELSE GivenBack
  BY DEF Inv, NothingForgotten
<1>3. card[c].manualFan => card[c].lowPower
  BY <1>1 DEF Inv, MemoryIsTrue
<1>4. GivenBack.fan = 0 /\ \A f : Asleep(f).fan = f /\ Clear(Asleep(f))
  BY DEF GivenBack, Asleep, Clear
<1>5. QED
  BY <1>2, <1>3, <1>4, GivenBackQuiet DEF Flagged

\* A complete release gives the card back, also where it skips the fan.
LEMMA ReleaseWhole ==
  ASSUME Inv, svc \in {"starting", "running"}, NEW c \in Supported, Trusted(c),
         NEW done, ~ ReleaseFailed(c, done), done \subseteq Calls
  PROVE  ReleasedCard(c, done) = GivenBack
<1>1. Sound(hw[c])
  BY NoSupported, SupportedAssumption DEF AllSound
<1>2. CASE card[c].manualFan
  <2>1. done = Calls
    BY <1>2 DEF ReleaseFailed, ReleaseCalls
  <2>2. QED
    BY <1>1, <1>2, <2>1, RestoredWhole DEF ReleasedCard, ReleaseCalls
<1>3. CASE ~ card[c].manualFan
  <2>1. done \cap ReleaseCalls(c) = Calls \ {"fan"}
    BY <1>3 DEF ReleaseFailed, ReleaseCalls
  <2>2. hw[c].fan = 0
    BY <1>3, CardKnown
  <2>3. Restored(hw[c], Calls \ {"fan"}) = Restored(hw[c], Calls)
    BY <2>2 DEF Restored, Calls
  <2>4. QED
    BY <1>1, <2>1, <2>3, RestoredWhole DEF ReleasedCard
<1>4. QED
  BY <1>2, <1>3

\* A releaseAll gives back every supported card it can be trusted with.
LEMMA ReleaseAllWhole ==
  ASSUME Inv, svc \in {"starting", "running"}, NEW done \in Outcomes,
         Spend(ReleaseAllFailed(done)) \/ \E k \in 0 .. 2 : Spend(ReleaseAllFailed(done) \/ k < 2)
  PROVE  /\ faults' \in 0 .. MaxFaults
         /\ \A c \in Supported : Trusted(c)' => ReleaseAllHw(done)[c] = GivenBack
<1>1. ReleaseAllFailed(done) \in BOOLEAN
  BY DEF ReleaseAllFailed
<1>2. /\ faults' \in 0 .. MaxFaults
      /\ faults' = 0 => ~ ReleaseAllFailed(done)
      /\ \A c \in Cards : Trusted(c)' => Trusted(c)
  BY <1>1, TrustLost
<1>3. ASSUME NEW c \in Supported, Trusted(c)' PROVE ReleaseAllHw(done)[c] = GivenBack
  <2>1. c \in Cards /\ Trusted(c) /\ done[c] \subseteq Calls
    BY <1>2, <1>3, SupportedAssumption, OutcomesTyped
  <2>2. CASE Flagged(c)
    <3>1. ~ ReleaseFailed(c, done[c])
      BY <1>2, <1>3, <2>1, <2>2, OutcomesTyped
      DEF Trusted, ReleaseAllFailed, ReleaseFailed, ReleaseCalls
    <3>2. QED
      BY <2>1, <2>2, <3>1, ReleaseWhole DEF ReleaseAllHw
  <2>3. CASE ~ Flagged(c)
    BY <2>1, <2>3, CardKnown DEF ReleaseAllHw
  <2>4. QED
    BY <2>2, <2>3
<1>4. QED
  BY <1>2, <1>3

LEMMA ReleaseAllUnflags ==
  ASSUME Inv
  PROVE  /\ ReleaseAllCards \in [Cards -> CardState]
         /\ \A c \in Cards : /\ ~ ReleaseAllCards[c].lowPower
                             /\ ~ ReleaseAllCards[c].manualFan
         /\ (\A c \in Cards : card[c] = Fresh) => ReleaseAllCards = card
BY FreshTyped DEF Inv, TypeOK, ReleaseAllCards, Flagged, Fresh

-----------------------------------------------------------------------------
(* syncControl *)

\* disable()
LEMMA WithdrawnInv == Inv /\ SyncWithdrawn => Inv'
<1> SUFFICES ASSUME Inv, SyncWithdrawn PROVE Inv'
  OBVIOUS
<1>1. PICK done \in Outcomes, k \in 0 .. 2 :
        /\ hw' = ReleaseAllHw(done)
        /\ card' = ReleaseAllCards
        /\ status' = InactiveStatus(status, k)
        /\ Spend(ReleaseAllFailed(done) \/ k < 2)
        /\ active' = FALSE
  BY DEF SyncWithdrawn, Disable
<1>2. /\ svc \in {"starting", "running"} /\ svc' = "running"
      /\ next' = 0 /\ UNCHANGED <<world, control, stopping, kills>>
  BY DEF SyncWithdrawn, Syncing
<1>3. done \in [Cards -> SUBSET Calls]
  BY OutcomesTyped
<1>4. AllSound(hw') /\ Untouched(hw')
  BY <1>1, <1>3, ReleaseAllSound
<1>5. /\ faults' \in 0 .. MaxFaults
      /\ \A c \in Supported : Trusted(c)' => hw'[c] = GivenBack
  BY <1>1, <1>2, ReleaseAllWhole
<1>6. FrameTyped
  BY <1>1, <1>2, <1>5, StatusTyped DEF FrameTyped, Inv, TypeOK, world
<1>7. \A c \in Cards : Trusted(c)' => Clear(hw'[c])
  BY <1>4, <1>5, GivenBackQuiet DEF Untouched
<1>8. QED
  BY <1>1, <1>2, <1>4, <1>5, <1>6, <1>7, ReleaseAllUnflags, QuietInv DEF Phases

\* A request that cannot be applied: fail() with the cards as they are.
LEMMA RefusedInv == Inv /\ SyncRefused => Inv'
<1> SUFFICES ASSUME Inv, SyncRefused PROVE Inv'
  OBVIOUS
<1>1. /\ svc' = "running" /\ UNCHANGED <<world, control, stopping, kills>>
      /\ Fail({hw}, status, FALSE)
  BY DEF SyncRefused, Syncing
<1>2. status \in Statuses /\ control \in Controls \cup {NoControl}
  BY DEF Inv, TypeOK
<1>3. QED
  BY <1>1, <1>2, NoSupported, FailInv

LEMMA EnabledControl ==
  ASSUME NEW r \in Requests, r.kind = "enabled"
  PROVE  r.control \in Controls
<1>1. ~ r \in [kind: {"missing", "invalid", "disabled"}, control: {NoControl}]
  OBVIOUS
<1>2. QED
  BY <1>1 DEF Requests

\* The new control is applied over cards that have all been given back.
LEMMA AppliedInv == Inv /\ SyncApplied => Inv'
<1> SUFFICES ASSUME Inv, SyncApplied PROVE Inv'
  OBVIOUS
<1>1. PICK done \in Outcomes : hw' = ReleaseAllHw(done) /\ Spend(ReleaseAllFailed(done))
  BY DEF SyncApplied
<1>2. /\ svc \in {"starting", "running"} /\ svc' = "running" /\ next = 0 /\ next' = 0
      /\ UNCHANGED <<world, stopping, kills>>
      /\ card' = ReleaseAllCards
      /\ status' = ActiveStatus(status, request.control, 3)
      /\ control' = request.control
      /\ active' = TRUE
      /\ Valid(request.control)
  BY DEF SyncApplied, Syncing, Applicable
<1>3. done \in [Cards -> SUBSET Calls]
  BY OutcomesTyped
<1>4. control' \in Controls
  <2>1. request.kind = "enabled"
    BY DEF SyncApplied, Applicable, NewControl
  <2>2. QED
    BY <1>2, <2>1, EnabledControl DEF Inv, TypeOK
<1>5. AllSound(hw') /\ Untouched(hw')
  BY <1>1, <1>3, ReleaseAllSound
<1>6. /\ faults' \in 0 .. MaxFaults
      /\ \A c \in Supported : Trusted(c)' => hw'[c] = GivenBack
  BY <1>1, <1>2, ReleaseAllWhole
<1>7. status' \in Statuses
  <2>1. status \in Statuses /\ 3 \in 0 .. 3
    BY DEF Inv, TypeOK
  <2>2. QED
    BY <1>2, <1>4, <2>1, StatusTyped
<1>8. TypeOK'
  BY <1>2, <1>4, <1>5, <1>6, <1>7, ZeroIsCard, ReleaseAllUnflags
  DEF TypeOK, Inv, AllSound, world, Phases
<1>9. LoopInv' /\ OffsetUnused' /\ PublishedIsApplied' /\ ForeignUntouched'
  BY <1>2, <1>4, <1>5
  DEF LoopInv, OffsetUnused, PublishedIsApplied, ForeignUntouched, ActiveStatus,
      Valid, AllSound, Untouched, Sound
<1>10. MemoryIsTrue' /\ GovernedOnlyByProfile' /\ ReleasedWhenDown'
  BY <1>2, ReleaseAllUnflags
  DEF MemoryIsTrue, GovernedOnlyByProfile, ReleasedWhenDown, Flagged
<1>11. NothingForgotten'
  BY <1>2, <1>6, SupportedAssumption, ReleaseAllUnflags DEF NothingForgotten
<1>12. NoOffsetInP8'
  BY <1>5, <1>6, GivenBackQuiet DEF NoOffsetInP8, Clear, Untouched
<1>13. QED
  BY <1>8, <1>9, <1>10, <1>11, <1>12 DEF Inv

LEMMA UnpublishedInv == Inv /\ SyncUnpublished => Inv'
<1> SUFFICES ASSUME Inv, SyncUnpublished PROVE Inv'
  OBVIOUS
<1>1. PICK k \in 0 .. 2 :
        Fail(ReleasedHws, ActiveStatus(status, request.control, k), TRUE)
  BY DEF SyncUnpublished
<1>2. /\ svc' = "running" /\ UNCHANGED <<world, stopping, kills>>
      /\ control' = request.control /\ Applicable
  BY DEF SyncUnpublished, Syncing
<1>3. request.control \in Controls
  BY <1>2, EnabledControl DEF Applicable, NewControl, Inv, TypeOK
<1>4. ActiveStatus(status, request.control, k) \in Statuses
  <2>1. status \in Statuses /\ k \in 0 .. 3
    BY DEF Inv, TypeOK
  <2>2. QED
    BY <1>3, <2>1, StatusTyped
<1>5. \A h \in ReleasedHws : AllSound(h) /\ Untouched(h)
  BY OutcomesTyped, ReleaseAllSound DEF ReleasedHws
<1>6. QED
  BY <1>1, <1>2, <1>3, <1>4, <1>5, FailInv

LEMMA FirstMissingInv == Inv /\ FirstSyncMissing => Inv'
<1> SUFFICES ASSUME Inv, FirstSyncMissing PROVE Inv'
  OBVIOUS
<1>1. /\ svc = "starting" /\ svc' = "running" /\ next = 0
      /\ UNCHANGED <<hw, daemon, status, world, stopping, faults, kills>>
  BY DEF FirstSyncMissing, Syncing
<1>2. ~ active
  BY <1>1 DEF Inv, LoopInv
<1>3. TypeOK' /\ LoopInv' /\ OffsetUnused'
  BY <1>1, <1>2 DEF Inv, TypeOK, LoopInv, OffsetUnused, daemon, world, Phases
<1>4. MemoryIsTrue' /\ GovernedOnlyByProfile' /\ PublishedIsApplied' /\ ForeignUntouched'
  BY <1>1, <1>2
  DEF Inv, MemoryIsTrue, GovernedOnlyByProfile, PublishedIsApplied, ForeignUntouched,
      Flagged, daemon
<1>5. NothingForgotten' /\ ReleasedWhenDown' /\ NoOffsetInP8'
  BY <1>1, <1>2 DEF Inv, NothingForgotten, ReleasedWhenDown, NoOffsetInP8, Trusted, daemon
<1>6. QED
  BY <1>3, <1>4, <1>5 DEF Inv

-----------------------------------------------------------------------------
(* poll *)

LEMMA PollFacts ==
  ASSUME Inv, NEW c \in Cards, Polling(c)
  PROVE  /\ c \in Supported
         /\ control \in Controls /\ control.profile \in Nat \ {0} /\ control.profile <= N
         /\ c < control.profile
         /\ svc' = "running" /\ svc = "running" /\ active /\ next = c
         /\ UNCHANGED <<world, control, svc, stopping, kills>>
<1>1. /\ svc' = "running" /\ svc = "running" /\ active /\ next = c
      /\ UNCHANGED <<world, control, svc, stopping, kills>>
  BY DEF Polling
<1>2. control \in Controls /\ Valid(control)
  BY <1>1 DEF Inv, LoopInv
<1>3. control.profile \in Nat \ {0} /\ control.profile <= N
  BY <1>2, ProfilesAssumption DEF Controls, Valid
<1>4. c < control.profile
  BY <1>1, <1>3 DEF Inv, LoopInv
<1>5. c \in 0 .. control.profile - 1
  BY <1>3, <1>4, NAssumption DEF Cards
<1>6. QED
  BY <1>1, <1>2, <1>3, <1>4, <1>5 DEF Valid

\* A poll that ends well replaces one card and what is remembered of it: it is
\* enough that the two agree.
LEMMA PollStep ==
  ASSUME Inv, NEW c \in Cards, Polling(c), PollNext(c), UNCHANGED <<active, status, faults>>,
         NEW r, Sound(r), hw' = [hw EXCEPT ![c] = r],
         NEW m \in CardState, card' = [card EXCEPT ![c] = m],
         m.lowPower => r.pstate = P8 /\ r.clock = "auto" /\ (HasOffset => r.offset = "zero"),
         m.manualFan => m.lowPower /\ control.fan > 0 /\ r.fan = control.fan,
         Trusted(c) => r = IF m.lowPower
                           THEN Asleep(IF m.manualFan THEN control.fan ELSE 0)
                           ELSE GivenBack
  PROVE  Inv'
<1>1. /\ c \in Supported
      /\ control \in Controls /\ control.profile \in Nat \ {0} /\ control.profile <= N
      /\ c < control.profile
      /\ svc' = "running" /\ svc = "running" /\ active /\ next = c
      /\ UNCHANGED <<world, control, svc, stopping, kills>>
  BY PollFacts
<1>2. next' \in Cards /\ (next' # 0 => next' < control.profile)
  BY <1>1, NAssumption DEF PollNext, Cards
<1>3. hw' \in [Cards -> Hw] /\ card' \in [Cards -> CardState]
  BY DEF Inv, TypeOK, Sound
<1>4. TypeOK'
  BY <1>1, <1>2, <1>3 DEF Inv, TypeOK, world
<1>5. LoopInv'
  BY <1>1, <1>2 DEF Inv, LoopInv, Valid
<1>6. \A d \in Cards : d # c => hw'[d] = hw[d] /\ card'[d] = card[d]
  BY DEF Inv, TypeOK
<1>7. hw'[c] = r /\ card'[c] = m
  BY DEF Inv, TypeOK
<1>8. OffsetUnused' /\ MemoryIsTrue'
  BY <1>1, <1>6, <1>7 DEF Inv, OffsetUnused, MemoryIsTrue, Sound
<1>9. GovernedOnlyByProfile' /\ PublishedIsApplied' /\ ForeignUntouched'
  BY <1>1, <1>6, <1>7
  DEF Inv, GovernedOnlyByProfile, PublishedIsApplied, ForeignUntouched, Flagged
<1>10. NothingForgotten' /\ ReleasedWhenDown'
  BY <1>1, <1>6, <1>7, SupportedAssumption
  DEF Inv, NothingForgotten, ReleasedWhenDown, Trusted
<1>11. NoOffsetInP8'
  <2>1. Trusted(c) => Clear(r)
    BY GivenBackQuiet DEF Clear, Asleep
  <2>2. QED
    BY <1>1, <1>6, <1>7, <2>1 DEF Inv, NoOffsetInP8, Clear, Trusted
<1>12. QED
  BY <1>4, <1>5, <1>8, <1>9, <1>10, <1>11 DEF Inv

LEMMA BusyInv == ASSUME Inv, NEW c \in Cards, PollBusy(c) PROVE Inv'
<1>1. /\ Polling(c) /\ PollNext(c) /\ UNCHANGED <<active, status, faults>>
      /\ hw' = [hw EXCEPT ![c] = IF Flagged(c) THEN ReleasedCard(c, Calls) ELSE @]
      /\ card' = [card EXCEPT ![c] = IF Flagged(c) THEN Fresh ELSE [@ EXCEPT !.idlePolls = 0]]
  BY DEF PollBusy
<1>2. c \in Supported /\ svc = "running"
  BY <1>1, PollFacts
<1>3. Sound(hw[c]) /\ card[c] \in CardState
  BY NoSupported DEF AllSound, Inv, TypeOK
<1>4. CASE Flagged(c)
  <2>1. hw' = [hw EXCEPT ![c] = ReleasedCard(c, Calls)] /\ card' = [card EXCEPT ![c] = Fresh]
    BY <1>1, <1>4
  <2>2. Sound(ReleasedCard(c, Calls))
    BY <1>3, RestoredSound DEF ReleasedCard
  <2>3. Trusted(c) => ReleasedCard(c, Calls) = GivenBack
    BY <1>2, ReleaseWhole DEF ReleaseFailed, ReleaseCalls
  <2>4. ~ Fresh.lowPower /\ ~ Fresh.manualFan
    BY DEF Fresh
  <2>5. QED
    BY <1>1, <2>1, <2>2, <2>3, <2>4, FreshTyped, PollStep
<1>5. CASE ~ Flagged(c)
  <2> DEFINE m == [card[c] EXCEPT !.idlePolls = 0]
  <2>1. hw' = [hw EXCEPT ![c] = hw[c]] /\ card' = [card EXCEPT ![c] = m]
    BY <1>1, <1>5
  <2>2. m \in CardState /\ ~ m.lowPower /\ ~ m.manualFan
    BY <1>3, <1>5, IdleAfterAssumption DEF CardState, Flagged
  <2>3. Trusted(c) => hw[c] = GivenBack
    BY <1>2, <1>5, CardKnown
  <2> HIDE DEF m
  <2>4. QED
    BY <1>1, <1>3, <2>1, <2>2, <2>3, PollStep
<1>6. QED
  BY <1>4, <1>5

LEMMA IdleInv == ASSUME Inv, NEW c \in Cards, PollIdle(c) PROVE Inv'
<1> DEFINE r == [Idled(c) EXCEPT !.fan = IF FanToAuto(c) THEN 0
                                        ELSE IF FanToManual(c) THEN control.fan ELSE @]
           m == [idlePolls |-> IdlePolls(c),
                 lowPower  |-> card[c].lowPower \/ EntersLowPower(c),
                 manualFan |-> (card[c].manualFan \/ FanToManual(c)) /\ ~ FanToAuto(c)]
<1>1. /\ Polling(c) /\ PollNext(c) /\ UNCHANGED <<active, status, faults>>
      /\ hw' = [hw EXCEPT ![c] = r]
      /\ card' = [card EXCEPT ![c] = m]
  BY DEF PollIdle
<1>2. c \in Supported /\ svc = "running" /\ control.fan \in Fans
  BY <1>1, PollFacts DEF Controls
<1>3. Sound(hw[c]) /\ card[c] \in CardState
  BY NoSupported DEF AllSound, Inv, TypeOK
<1>4. IdlePolls(c) \in 0 .. IdleAfter
  BY <1>3, IdleAfterAssumption DEF IdlePolls, CardState
<1>5. m \in CardState
  BY <1>3, <1>4 DEF CardState, EntersLowPower, FanToManual, FanToAuto
<1>6. Sound(Idled(c)) /\ Idled(c).fan = hw[c].fan
  BY <1>3, LowPowerAsleep DEF Idled
<1>7. Sound(r) /\ r.pstate = Idled(c).pstate /\ r.clock = Idled(c).clock /\ r.offset = Idled(c).offset
  <2> DEFINE f == IF FanToAuto(c) THEN 0 ELSE IF FanToManual(c) THEN control.fan ELSE Idled(c).fan
  <2>1. f \in Fans
    BY <1>2, <1>6, FansAssumption DEF Sound, Hw
  <2>2. r = [Idled(c) EXCEPT !.fan = f]
    OBVIOUS
  <2> HIDE DEF f, r
  <2>3. Sound(r) /\ r = [pstate |-> Idled(c).pstate, fan |-> f, clock |-> Idled(c).clock,
                         offset |-> Idled(c).offset]
    BY <1>6, <2>1, <2>2, FanSound
  <2>4. QED
    BY <2>3
<1>8. m.lowPower => Idled(c).pstate = P8 /\ Idled(c).clock = "auto" /\ (HasOffset => Idled(c).offset = "zero")
  <2>1. CASE EntersLowPower(c)
    BY <1>3, <2>1 DEF Idled, LowPower
  <2>2. CASE ~ EntersLowPower(c)
    BY <2>2 DEF Idled, Inv, MemoryIsTrue
  <2>3. QED
    BY <2>1, <2>2
<1>9. m.manualFan => m.lowPower /\ control.fan > 0 /\ r.fan = control.fan
  BY <1>6 DEF Inv, MemoryIsTrue, FanToManual, FanManaged, FanToAuto, Sound, Hw
<1>10. ASSUME Trusted(c)
       PROVE  r = IF m.lowPower THEN Asleep(IF m.manualFan THEN control.fan ELSE 0) ELSE GivenBack
  <2>1. hw[c] = IF card[c].lowPower
                THEN Asleep(IF card[c].manualFan THEN control.fan ELSE 0) ELSE GivenBack
    BY <1>2, <1>10 DEF Inv, NothingForgotten
  <2>2. card[c].manualFan => card[c].lowPower
    BY DEF Inv, MemoryIsTrue
  <2>3. CASE ~ m.lowPower
    <3>1. ~ FanToAuto(c) /\ ~ FanToManual(c) /\ Idled(c) = GivenBack
      BY <2>1, <2>3 DEF FanToAuto, FanToManual, FanManaged, Idled
    <3>2. QED
      BY <2>3, <3>1 DEF GivenBack
  <2>4. CASE m.lowPower
    <3> DEFINE f == IF card[c].manualFan THEN control.fan ELSE 0
    <3>1. hw[c].fan = f
      BY <2>1, <2>2 DEF Asleep, GivenBack
    <3>2. Idled(c) = Asleep(f)
      BY <1>3, <2>1, <2>4, <3>1, LowPowerAsleep DEF Idled
    <3>3. r = Asleep(IF FanToAuto(c) THEN 0 ELSE IF FanToManual(c) THEN control.fan ELSE f)
      BY <3>2 DEF Asleep
    <3>4. ~ (FanToAuto(c) /\ FanToManual(c))
      BY DEF FanToAuto, FanToManual
    <3>5. QED
      BY <2>4, <3>3, <3>4
  <2>5. QED
    BY <2>3, <2>4
<1> HIDE DEF r, m
<1>11. QED
  BY <1>1, <1>5, <1>7, <1>8, <1>9, <1>10, PollStep

\* One card of the poll replaced before fail() cleans up.
LEMMA ReplacedSound ==
  ASSUME Inv, NEW c \in Supported, NEW r, Sound(r)
  PROVE  AllSound([hw EXCEPT ![c] = r]) /\ Untouched([hw EXCEPT ![c] = r])
<1>1. AllSound(hw) /\ Untouched(hw)
  BY NoSupported
<1>2. QED
  BY <1>1 DEF AllSound, Untouched, Sound

\* What a release with failing calls leaves of a busy card.
LEMMA BusyFailuresSound ==
  ASSUME Inv, NEW c \in Cards, NEW r \in BusyFailures(c)
  PROVE  Sound(r)
<1>1. PICK done \in Outcomes : r = ReleasedCard(c, done[c])
  BY DEF BusyFailures
<1>2. QED
  BY <1>1, NoSupported, RestoredSound DEF AllSound, ReleasedCard

\* What an idle poll may leave behind when a call fails.
LEMMA IdleFailuresSound ==
  ASSUME Inv, NEW c \in Cards, NEW r \in IdleFailures(c)
  PROVE  Sound(r)
<1>1. Sound(hw[c]) /\ Sound(Idled(c))
  BY NoSupported, LowPowerAsleep DEF AllSound, Idled
<1>2. control.fan \in Fans
  BY FansAssumption DEF Inv, TypeOK, Controls, NoControl
<1>3. CASE r \in LowPowerFailures(hw[c])
  BY <1>1, <1>3, ConfigAssumption DEF LowPowerFailures, Sound, Hw, LoadClock
<1>4. CASE r = Idled(c)
  BY <1>1, <1>4
<1>5. CASE \E f \in {0, control.fan} : r = [Idled(c) EXCEPT !.fan = f]
  BY <1>1, <1>2, <1>5, FanSound, FansAssumption
<1>6. QED
  BY <1>3, <1>4, <1>5 DEF IdleFailures

LEMMA PolledSound ==
  ASSUME Inv, NEW c \in Supported, NEW h \in PolledHws(c)
  PROVE  AllSound(h) /\ Untouched(h)
<1>1. PICK r \in PollFailures(c) : h = [hw EXCEPT ![c] = r]
  BY DEF PolledHws
<1>2. c \in Cards
  BY SupportedAssumption
<1>3. Sound(r)
  BY <1>1, <1>2, NoSupported, BusyFailuresSound, IdleFailuresSound DEF PollFailures, AllSound
<1>4. QED
  BY <1>1, <1>3, ReplacedSound

LEMMA PollFailsInv == ASSUME Inv, NEW c \in Cards, PollFails(c) PROVE Inv'
<1>1. Polling(c) /\ Fail(PolledHws(c), status, TRUE)
  BY DEF PollFails
<1>2. c \in Supported /\ svc' = "running" /\ UNCHANGED <<world, control, stopping, kills>>
  BY <1>1, PollFacts
<1>3. status \in Statuses /\ control \in Controls \cup {NoControl}
  BY DEF Inv, TypeOK
<1>4. \A h \in PolledHws(c) : AllSound(h) /\ Untouched(h)
  BY <1>2, PolledSound
<1>5. QED
  BY <1>1, <1>2, <1>3, <1>4, FailInv

LEMMA PollInv == ASSUME Inv, NEW c \in Cards, Poll(c) PROVE Inv'
BY BusyInv, IdleInv, PollFailsInv DEF Poll

-----------------------------------------------------------------------------
(* The service *)

\* A phase that is reached through a Cleanup, from a quiet daemon or by
\* forgetting everything.
LEMMA CleanedInv ==
  ASSUME Inv, NEW done \in Outcomes,
         hw' = CleanupHw(hw, done), Spend(CleanupFailed(done)),
         UNCHANGED <<status, world, kills>>,
         svc' \in Phases \ {"running"}, stopping' \in BOOLEAN,
         \A c \in Cards : card'[c] = Fresh, card' \in [Cards -> CardState],
         active' = FALSE, next' = 0, control' \in Controls \cup {NoControl}
  PROVE  Inv'
<1>1. done \in [Cards -> SUBSET Calls] /\ CleanupFailed(done) \in BOOLEAN
  BY OutcomesTyped DEF CleanupFailed
<1>2. AllSound(hw') /\ Untouched(hw')
  BY <1>1, NoSupported, CleanupSound
<1>3. faults' \in 0 .. MaxFaults /\ (faults' = 0 => ~ CleanupFailed(done))
  BY <1>1, TrustLost
<1>4. FrameTyped
  BY <1>3 DEF FrameTyped, Inv, TypeOK, world
<1>5. /\ \A c \in Cards : Trusted(c)' => ~ Saving(c)' /\ Clear(hw'[c])
      /\ \A c \in Supported : Trusted(c)' => hw'[c] = GivenBack
  BY <1>3, NoSupported, CleanupQuiet
<1>6. \A c \in Cards : ~ card'[c].lowPower /\ ~ card'[c].manualFan
  BY DEF Fresh
<1>7. QED
  BY <1>2, <1>4, <1>5, <1>6, QuietInv

LEMMA QuietOutsideLoop ==
  ASSUME Inv, svc # "running"
  PROVE  active = FALSE /\ next = 0 /\ \A c \in Cards : card[c] = Fresh
BY DEF Inv, LoopInv, TypeOK

LEMMA ForgetTyped ==
  ASSUME Forget
  PROVE  /\ card' \in [Cards -> CardState] /\ \A c \in Cards : card'[c] = Fresh
         /\ active' = FALSE /\ next' = 0 /\ control' \in Controls \cup {NoControl}
BY FreshTyped DEF Forget

LEMMA StartInv == Inv /\ Start => Inv'
<1> SUFFICES ASSUME Inv, Start PROVE Inv'
  OBVIOUS
<1>1. PICK done \in Outcomes : hw' = CleanupHw(hw, done) /\ Spend(CleanupFailed(done))
  BY DEF Start
<1>2. /\ svc \in {"inactive", "auto-restart"} /\ svc' = "starting"
      /\ UNCHANGED <<daemon, status, world, stopping, kills>>
  BY DEF Start
<1>3. card' = card /\ active' = active /\ next' = next /\ control' = control
  BY <1>2 DEF daemon
<1>4. QED
  BY <1>1, <1>2, <1>3, QuietOutsideLoop, CleanedInv DEF Phases, Inv, TypeOK

LEMMA ShutdownInv == Inv /\ Shutdown => Inv'
<1> SUFFICES ASSUME Inv, Shutdown PROVE Inv'
  OBVIOUS
<1>1. PICK done \in Outcomes : hw' = CleanupHw(hw, done) /\ Spend(CleanupFailed(done))
  BY DEF Shutdown
<1>2. svc' = "stop-post" /\ Forget /\ UNCHANGED <<status, world, stopping, kills>>
  BY DEF Shutdown
<1>3. QED
  BY <1>1, <1>2, ForgetTyped, CleanedInv DEF Phases, Inv, TypeOK

LEMMA StopPostInv == Inv /\ StopPost => Inv'
<1> SUFFICES ASSUME Inv, StopPost PROVE Inv'
  OBVIOUS
<1>1. PICK done \in Outcomes : hw' = CleanupHw(hw, done) /\ Spend(CleanupFailed(done))
  BY DEF StopPost
<1>2. /\ svc = "stop-post" /\ svc' \in {"inactive", "auto-restart"} /\ stopping' = FALSE
      /\ UNCHANGED <<daemon, status, world, kills>>
  BY DEF StopPost
<1>3. card' = card /\ active' = active /\ next' = next /\ control' = control
  BY <1>2 DEF daemon
<1>4. QED
  BY <1>1, <1>2, <1>3, QuietOutsideLoop, CleanedInv DEF Phases, Inv, TypeOK

\* What the kills and the failed start rest on: cards in P8 are clear.
LEMMA NowClear == Inv => \A c \in Cards : Trusted(c) => Clear(hw[c])
BY DEF Inv, NoOffsetInP8, Clear

LEMMA StartFailsInv == Inv /\ StartFails => Inv'
<1> SUFFICES ASSUME Inv, StartFails PROVE Inv'
  OBVIOUS
<1>1. /\ svc \in {"inactive", "auto-restart"} /\ svc' = "stop-post" /\ Spend(TRUE)
      /\ UNCHANGED <<hw, daemon, status, world, stopping, kills>>
  BY DEF StartFails
<1>2. faults' \in 0 .. MaxFaults /\ \A c \in Cards : Trusted(c)' => Trusted(c)
  BY <1>1, TrustLost
<1>3. FrameTyped
  <2>1. control' = control /\ status' = status /\ request' = request /\ load' = load
        /\ hot' = hot /\ stopping' = stopping /\ kills' = kills
    BY <1>1 DEF world, daemon
  <2>2. QED
    BY <1>2, <2>1 DEF FrameTyped, Inv, TypeOK
<1>4. card' = card /\ active' = active /\ next' = next
  BY <1>1 DEF daemon
<1>5. \A c \in Cards : card'[c] = Fresh /\ ~ card'[c].lowPower /\ ~ card'[c].manualFan
  <2>1. \A c \in Cards : card'[c] = Fresh
    BY <1>1, <1>4, QuietOutsideLoop
  <2>2. QED
    BY <2>1 DEF Fresh
<1>6. \A c \in Cards : Trusted(c)' => Clear(hw'[c])
  BY <1>1, <1>2, NowClear
<1>7. AllSound(hw') /\ Untouched(hw')
  BY <1>1, NoSupported
<1>8. active' = FALSE /\ next' = 0 /\ card' \in [Cards -> CardState]
  BY <1>1, <1>4, QuietOutsideLoop DEF Inv, TypeOK
<1>9. QED
  BY <1>1, <1>3, <1>5, <1>6, <1>7, <1>8, QuietInv DEF Phases

LEMMA StopInv == Inv /\ Stop => Inv'
<1> SUFFICES ASSUME Inv, Stop PROVE Inv'
  OBVIOUS
<1>1. /\ stopping' \in BOOLEAN
      /\ svc' = IF svc = "auto-restart" THEN "inactive" ELSE svc
      /\ UNCHANGED <<hw, daemon, status, world, faults, kills>>
  BY DEF Stop
<1>2. TypeOK' /\ LoopInv' /\ OffsetUnused'
  BY <1>1 DEF Inv, TypeOK, LoopInv, OffsetUnused, daemon, world, Phases
<1>3. MemoryIsTrue' /\ GovernedOnlyByProfile' /\ PublishedIsApplied' /\ ForeignUntouched'
  BY <1>1, QuietOutsideLoop
  DEF Inv, MemoryIsTrue, GovernedOnlyByProfile, PublishedIsApplied, ForeignUntouched,
      Flagged, daemon
<1>4. NothingForgotten' /\ ReleasedWhenDown' /\ NoOffsetInP8'
  BY <1>1 DEF Inv, NothingForgotten, ReleasedWhenDown, NoOffsetInP8, Saving, Trusted, daemon
<1>5. QED
  BY <1>2, <1>3, <1>4 DEF Inv

-----------------------------------------------------------------------------
(* SIGKILL *)

\* A kill may leave any card anywhere on its way, as long as a card in P8 is
\* clear: the --release that follows does the rest.
LEMMA KillInv ==
  ASSUME Inv, AllSound(hw'), Untouched(hw'), svc' = "stop-post",
         card' \in [Cards -> CardState], \A c \in Cards : card'[c] = Fresh,
         active' = FALSE, next' = 0, control' \in Controls \cup {NoControl},
         status' \in Statuses, faults' \in 0 .. MaxFaults, kills' \in 0 .. MaxKills,
         UNCHANGED <<world, stopping>>,
         \A c \in Cards : Trusted(c)' => Clear(hw'[c])
  PROVE  Inv'
<1>1. FrameTyped
  BY DEF FrameTyped, Inv, TypeOK, world
<1>2. \A c \in Cards : ~ card'[c].lowPower /\ ~ card'[c].manualFan
  BY DEF Fresh
<1>3. QED
  BY <1>1, <1>2, QuietInv DEF Phases

LEMMA KilledFacts ==
  ASSUME Inv, Killed
  PROVE  /\ svc' = "stop-post" /\ kills' \in 0 .. MaxKills /\ UNCHANGED <<world, stopping>>
         /\ card' \in [Cards -> CardState] /\ \A c \in Cards : card'[c] = Fresh
         /\ active' = FALSE /\ next' = 0 /\ control' \in Controls \cup {NoControl}
BY ForgetTyped, BoundsAssumption DEF Killed, Inv, TypeOK

LEMMA KilledBetweenInv == Inv /\ KilledBetween => Inv'
<1> SUFFICES ASSUME Inv, KilledBetween PROVE Inv'
  OBVIOUS
<1>1. Killed /\ hw' = hw /\ status' = status /\ faults' = faults
  BY DEF KilledBetween
<1>2. status' \in Statuses /\ faults' \in 0 .. MaxFaults
  BY <1>1 DEF Inv, TypeOK
<1>3. \A c \in Cards : Trusted(c)' => Clear(hw'[c])
  BY <1>1, NowClear DEF Trusted
<1>4. QED
  BY <1>1, <1>2, <1>3, KilledFacts, NoSupported, KillInv

LEMMA CutShortTyped ==
  ASSUME NEW k, NEW calls \in Prefixes
  PROVE  CutShort(k, calls) \in [Cards -> Prefixes]
BY DEF CutShort, Prefixes

LEMMA PrefixesTyped == Prefixes \subseteq SUBSET Calls
BY DEF Prefixes, Calls

\* A Cleanup that is cut short keeps the cards clear that were.
LEMMA CleanupCut ==
  ASSUME Inv, NEW h, AllSound(h), Untouched(h), \A c \in Cards : Trusted(c)' => Clear(h[c]),
         NEW done \in [Cards -> Prefixes], hw' = CleanupHw(h, done)
  PROVE  /\ AllSound(hw') /\ Untouched(hw')
         /\ \A c \in Cards : Trusted(c)' => Clear(hw'[c])
<1>1. done \in [Cards -> SUBSET Calls]
  BY PrefixesTyped
<1>2. AllSound(hw') /\ Untouched(hw')
  BY <1>1, CleanupSound
<1>3. ASSUME NEW c \in Cards, Trusted(c)' PROVE Clear(hw'[c])
  <2>1. Sound(h[c]) /\ Clear(h[c]) /\ done[c] \in Prefixes /\ done[c] \cap Calls = done[c]
    BY <1>3, <1>1 DEF AllSound
  <2>2. Clear(Restored(h[c], done[c]))
    BY <2>1, RestoredClear
  <2>3. QED
    BY <2>1, <2>2 DEF CleanupHw
<1>4. QED
  BY <1>2, <1>3

\* A releaseAll that is cut short.
LEMMA ReleaseAllCut ==
  ASSUME Inv, NEW done \in [Cards -> Prefixes], hw' = ReleaseAllHw(done)
  PROVE  /\ AllSound(hw') /\ Untouched(hw')
         /\ \A c \in Cards : Trusted(c) => Clear(hw'[c])
<1>1. done \in [Cards -> SUBSET Calls]
  BY PrefixesTyped
<1>2. AllSound(hw') /\ Untouched(hw')
  BY <1>1, ReleaseAllSound
<1>3. ASSUME NEW c \in Cards, Trusted(c) PROVE Clear(hw'[c])
  <2>1. Sound(hw[c]) /\ Clear(hw[c]) /\ done[c] \in Prefixes
    BY <1>3, NoSupported, NowClear DEF AllSound
  <2>2. ReleaseCalls(c) \in {Calls, Calls \ {"fan"}}
    BY DEF ReleaseCalls
  <2>3. Clear(ReleasedCard(c, done[c]))
    BY <2>1, <2>2, RestoredClear DEF ReleasedCard
  <2>4. QED
    BY <2>1, <2>3 DEF ReleaseAllHw
<1>4. QED
  BY <1>2, <1>3

LEMMA KilledInStartInv == Inv /\ KilledInStart => Inv'
<1> SUFFICES ASSUME Inv, KilledInStart PROVE Inv'
  OBVIOUS
<1>1. PICK k \in Supported, calls \in Prefixes : hw' = CleanupHw(hw, CutShort(k, calls))
  BY DEF KilledInStart
<1>2. /\ svc \in {"inactive", "auto-restart"} /\ svc' = "stop-post"
      /\ kills < MaxKills /\ kills' = kills + 1
      /\ UNCHANGED <<daemon, status, world, stopping, faults>>
  BY DEF KilledInStart
<1>3. card' = card /\ active' = active /\ next' = next /\ control' = control
  BY <1>2 DEF daemon
<1>4. status' \in Statuses /\ faults' \in 0 .. MaxFaults /\ kills' \in 0 .. MaxKills
  BY <1>2, BoundsAssumption DEF Inv, TypeOK
<1>5. card' \in [Cards -> CardState] /\ control' \in Controls \cup {NoControl}
  BY <1>3 DEF Inv, TypeOK
<1>6. /\ AllSound(hw') /\ Untouched(hw')
      /\ \A c \in Cards : Trusted(c)' => Clear(hw'[c])
  BY <1>1, <1>2, NoSupported, NowClear, CutShortTyped, CleanupCut DEF Trusted
<1>7. active' = FALSE /\ next' = 0 /\ \A c \in Cards : card'[c] = Fresh
  BY <1>2, <1>3, QuietOutsideLoop
<1>8. QED
  BY <1>2, <1>4, <1>5, <1>6, <1>7, KillInv

LEMMA KilledInCleanupInv == Inv /\ KilledInCleanup => Inv'
<1> SUFFICES ASSUME Inv, KilledInCleanup PROVE Inv'
  OBVIOUS
<1>1. PICK k \in Supported, calls \in Prefixes : hw' = CleanupHw(hw, CutShort(k, calls))
  BY DEF KilledInCleanup
<1>2. Killed /\ status' = status /\ faults' = faults
  BY DEF KilledInCleanup
<1>3. status' \in Statuses /\ faults' \in 0 .. MaxFaults
  BY <1>2 DEF Inv, TypeOK
<1>4. /\ AllSound(hw') /\ Untouched(hw')
      /\ \A c \in Cards : Trusted(c)' => Clear(hw'[c])
  BY <1>1, <1>2, NoSupported, NowClear, CutShortTyped, CleanupCut DEF Trusted
<1>5. QED
  BY <1>2, <1>3, <1>4, KilledFacts, KillInv

LEMMA KilledInReleaseAllInv == Inv /\ KilledInReleaseAll => Inv'
<1> SUFFICES ASSUME Inv, KilledInReleaseAll PROVE Inv'
  OBVIOUS
<1>1. PICK whole \in SUBSET Cards, c \in Cards, calls \in Prefixes :
        hw' = ReleaseAllHw([d \in Cards |-> IF d \in whole THEN Calls
                                            ELSE IF d = c THEN calls ELSE {}])
  BY DEF KilledInReleaseAll
<1> DEFINE done == [d \in Cards |-> IF d \in whole THEN Calls ELSE IF d = c THEN calls ELSE {}]
<1>2. Killed /\ status' = status /\ faults' = faults
  BY DEF KilledInReleaseAll
<1>3. status' \in Statuses /\ faults' \in 0 .. MaxFaults
  BY <1>2 DEF Inv, TypeOK
<1>4. done \in [Cards -> Prefixes]
  BY DEF Prefixes
<1> HIDE DEF done
<1>5. hw' = ReleaseAllHw(done)
  BY <1>1 DEF done
<1>6. /\ AllSound(hw') /\ Untouched(hw')
      /\ \A d \in Cards : Trusted(d)' => Clear(hw'[d])
  BY <1>2, <1>4, <1>5, ReleaseAllCut DEF Trusted
<1>7. QED
  BY <1>2, <1>3, <1>6, KilledFacts, KillInv

LEMMA KilledInStatusInv == Inv /\ KilledInStatus => Inv'
<1> SUFFICES ASSUME Inv, KilledInStatus PROVE Inv'
  OBVIOUS
<1>1. Killed /\ faults' = faults /\ faults' \in 0 .. MaxFaults
  BY DEF KilledInStatus, Inv, TypeOK
<1>2. AllDone \in [Cards -> Prefixes]
  BY DEF AllDone, Prefixes
<1>3. hw' = ReleaseAllHw(AllDone)
  BY DEF KilledInStatus
<1>4. /\ AllSound(hw') /\ Untouched(hw')
      /\ \A c \in Cards : Trusted(c)' => Clear(hw'[c])
  BY <1>1, <1>2, <1>3, ReleaseAllCut DEF Trusted
<1>5. status \in Statuses /\ request \in Requests
  BY DEF Inv, TypeOK
<1>6. CASE Applicable /\ \E k \in 1 .. 3 : status' = ActiveStatus(status, request.control, k)
  <2>1. request.control \in Controls
    BY <1>5, <1>6, EnabledControl DEF Applicable, NewControl
  <2>2. status' \in Statuses
    BY <1>5, <1>6, <2>1, StatusTyped
  <2>3. QED
    BY <1>1, <1>4, <2>2, KilledFacts, KillInv
<1>7. CASE \E k \in 1 .. 2 : status' = InactiveStatus(status, k)
  <2>1. status' \in Statuses
    BY <1>5, <1>7, StatusTyped
  <2>2. QED
    BY <1>1, <1>4, <2>1, KilledFacts, KillInv
<1>8. QED
  BY <1>6, <1>7 DEF KilledInStatus

\* A kill in the poll of one card leaves that card somewhere on its way.
LEMMA KilledInPollInv ==
  ASSUME Inv, Killed, NEW c \in Supported, NEW r, Sound(r), Trusted(c) => Clear(r),
         hw' = [hw EXCEPT ![c] = r], UNCHANGED <<status, faults>>
  PROVE  Inv'
<1>1. AllSound(hw') /\ Untouched(hw')
  BY ReplacedSound
<1>2. \A d \in Cards : Trusted(d)' => Clear(hw'[d])
  BY NowClear, SupportedAssumption DEF Inv, TypeOK, Trusted
<1>3. status' \in Statuses /\ faults' \in 0 .. MaxFaults
  BY DEF Inv, TypeOK
<1>4. QED
  BY <1>1, <1>2, <1>3, KilledFacts, KillInv

LEMMA ActiveCardSupported ==
  ASSUME Inv, NEW c \in Cards, active, next = c
  PROVE  c \in Supported
<1>1. control \in Controls /\ Valid(control)
  BY DEF Inv, LoopInv
<1>2. control.profile \in Nat \ {0}
  BY <1>1, ProfilesAssumption DEF Controls
<1>3. c < control.profile
  BY <1>2 DEF Inv, LoopInv
<1>4. c \in 0 .. control.profile - 1
  BY <1>2, <1>3, NAssumption DEF Cards
<1>5. QED
  BY <1>1, <1>4 DEF Valid

LEMMA KilledInPollBusyInv == ASSUME Inv, NEW c \in Cards, KilledInPollBusy(c) PROVE Inv'
<1>1. PICK calls \in Prefixes : hw' = [hw EXCEPT ![c] = ReleasedCard(c, calls)]
  BY DEF KilledInPollBusy
<1>2. Killed /\ active /\ next = c /\ UNCHANGED <<status, faults>>
  BY DEF KilledInPollBusy
<1>3. c \in Supported
  BY <1>2, ActiveCardSupported
<1>4. Sound(ReleasedCard(c, calls))
  BY NoSupported, RestoredSound DEF AllSound, ReleasedCard
<1>5. Trusted(c) => Clear(ReleasedCard(c, calls))
  BY NoSupported, NowClear, RestoredClear DEF AllSound, ReleasedCard, ReleaseCalls
<1>6. QED
  BY <1>1, <1>2, <1>3, <1>4, <1>5, KilledInPollInv

\* What an idle poll has done to a card after each of its calls.
LEMMA IdleStepsClear ==
  ASSUME Inv, NEW c \in Cards, NEW r \in IdleSteps(c)
  PROVE  Sound(r) /\ (Trusted(c) => Clear(r))
<1> DEFINE zeroed == [hw[c] EXCEPT !.offset = IF HasOffset THEN "zero" ELSE @]
           unlocked == [zeroed EXCEPT !.clock = "auto"]
<1>1. Sound(hw[c]) /\ (Trusted(c) => Clear(hw[c]))
  BY NoSupported, NowClear DEF AllSound
<1>2. Sound(zeroed) /\ (Trusted(c) => Clear(zeroed))
  BY <1>1 DEF Sound, Hw, Clear
<1>3. Sound(unlocked) /\ (Trusted(c) => Clear(unlocked))
  BY <1>1 DEF Sound, Hw, Clear
<1>4. Sound(Idled(c)) /\ (Trusted(c) => Clear(Idled(c)))
  BY <1>1, LowPowerAsleep DEF Idled, Asleep, Clear
<1>5. ASSUME NEW f \in Fans
      PROVE  Sound([Idled(c) EXCEPT !.fan = f]) /\ (Trusted(c) => Clear([Idled(c) EXCEPT !.fan = f]))
  <2>1. [Idled(c) EXCEPT !.fan = f] =
          [pstate |-> Idled(c).pstate, fan |-> f, clock |-> Idled(c).clock, offset |-> Idled(c).offset]
    BY <1>4, FanSound
  <2>2. QED
    BY <1>4, <2>1, FanSound DEF Clear
<1>6. control.fan \in Fans /\ 0 \in Fans
  BY FansAssumption DEF Inv, TypeOK, Controls, NoControl
<1>7. r \in {zeroed, unlocked, Idled(c), [Idled(c) EXCEPT !.fan = control.fan],
             [Idled(c) EXCEPT !.fan = 0]}
  BY DEF IdleSteps
<1> HIDE DEF zeroed, unlocked
<1>8. QED
  BY <1>2, <1>3, <1>4, <1>5, <1>6, <1>7

LEMMA KilledInPollIdleInv == ASSUME Inv, NEW c \in Cards, KilledInPollIdle(c) PROVE Inv'
<1>1. PICK r \in IdleSteps(c) : hw' = [hw EXCEPT ![c] = r]
  BY DEF KilledInPollIdle
<1>2. Killed /\ active /\ next = c /\ UNCHANGED <<status, faults>>
  BY DEF KilledInPollIdle
<1>3. c \in Supported
  BY <1>2, ActiveCardSupported
<1>4. QED
  BY <1>1, <1>2, <1>3, IdleStepsClear, KilledInPollInv

\* A card on which no releasing call can fail is clear when a poll calls
\* fail(), whichever call of it has failed.
LEMMA PolledClear ==
  ASSUME Inv, NEW c \in Supported, svc = "running", NEW h \in PolledHws(c),
         NEW d \in Cards \ Faulty
  PROVE  Clear(h[d])
<1>1. PICK r \in PollFailures(c) : h = [hw EXCEPT ![c] = r]
  BY DEF PolledHws
<1>2. c \in Cards /\ Trusted(d) /\ hw \in [Cards -> Hw]
  BY SupportedAssumption DEF Trusted, Inv, TypeOK
<1>3. CASE d # c
  BY <1>1, <1>2, <1>3, NowClear
<1>4. CASE d = c
  <2>1. Sound(hw[c]) /\ Clear(hw[c])
    BY <1>2, <1>4, NoSupported, NowClear DEF AllSound
  <2>2. ~ r \in BusyFailures(c)
    BY <1>4, OutcomesTyped DEF BusyFailures, ReleaseFailed, ReleaseCalls
  <2>3. ASSUME r \in IdleFailures(c) PROVE Clear(r)
    <3>1. Sound(Idled(c)) /\ Clear(Idled(c))
      BY <2>1, LowPowerAsleep DEF Idled, Asleep, Clear
    <3>2. ASSUME EntersLowPower(c), r \in LowPowerFailures(hw[c]) PROVE Clear(r)
      <4>1. hw[c].pstate = AutoPState
        BY <1>2, <1>4, <3>2 DEF EntersLowPower, Inv, NothingForgotten, GivenBack
      <4>2. QED
        BY <3>2, <4>1 DEF LowPowerFailures, Clear, AutoPState, P8
    <3>3. ASSUME NEW f \in {0, control.fan}, r = [Idled(c) EXCEPT !.fan = f] PROVE Clear(r)
      BY <3>1, <3>3 DEF Clear, Sound, Hw
    <3>4. QED
      BY <2>3, <3>1, <3>2, <3>3 DEF IdleFailures
  <2>4. Clear(r)
    BY <2>1, <2>2, <2>3 DEF PollFailures
  <2>5. QED
    BY <1>1, <1>2, <1>4, <2>4
<1>5. QED
  BY <1>3, <1>4

\* The same of a releaseAll that has been given a chance on every card.
LEMMA ReleasedClear ==
  ASSUME Inv, svc \in {"starting", "running"}, NEW h \in ReleasedHws, NEW d \in Cards \ Faulty
  PROVE  Clear(h[d])
<1>1. PICK done \in Outcomes : h = ReleaseAllHw(done)
  BY DEF ReleasedHws
<1>2. done[d] = Calls /\ Trusted(d) /\ Clear(hw[d])
  BY OutcomesTyped, NowClear DEF Trusted
<1>3. CASE ~ Flagged(d)
  BY <1>1, <1>2, <1>3 DEF ReleaseAllHw
<1>4. CASE Flagged(d)
  <2>1. d \in Supported
    BY <1>4, UnsupportedUnflagged DEF Flagged
  <2>2. ReleasedCard(d, done[d]) = GivenBack
    BY <1>2, <2>1, ReleaseWhole DEF ReleaseFailed, ReleaseCalls
  <2>3. QED
    BY <1>1, <1>4, <2>2, GivenBackQuiet DEF ReleaseAllHw
<1>5. QED
  BY <1>3, <1>4

\* However a handler comes to call fail(), the cards are sound and those that
\* can be trusted are clear.
LEMMA EntryClear ==
  ASSUME Inv, svc \in {"starting", "running"}, NEW entry \in FailEntries, Spend(entry.failed),
         NEW h \in entry.hws
  PROVE  /\ AllSound(h) /\ Untouched(h)
         /\ \A c \in Cards : Trusted(c)' => Clear(h[c])
         /\ entry.status \in Statuses
         /\ faults' \in 0 .. MaxFaults
<1>1. status \in Statuses /\ request \in Requests /\ next \in Cards
  BY DEF Inv, TypeOK
<1>2. CASE entry = [hws |-> {hw}, status |-> status, failed |-> FALSE]
  <2>1. faults' = faults /\ faults' \in 0 .. MaxFaults
    BY <1>2 DEF Spend, Inv, TypeOK
  <2>2. h = hw
    BY <1>2
  <2>3. QED
    BY <1>1, <1>2, <2>1, <2>2, NoSupported, NowClear DEF Trusted
<1>3. ASSUME entry.failed = TRUE PROVE faults' \in 0 .. MaxFaults /\ \A c \in Cards : Trusted(c)' => c \notin Faulty
  BY <1>3, TrustLost DEF Trusted
<1>4. ASSUME Applicable, NEW k \in 0 .. 2,
             entry = [hws |-> ReleasedHws, failed |-> TRUE,
                      status |-> ActiveStatus(status, request.control, k)]
      PROVE  /\ AllSound(h) /\ Untouched(h)
             /\ \A c \in Cards : Trusted(c)' => Clear(h[c])
             /\ entry.status \in Statuses
             /\ faults' \in 0 .. MaxFaults
  <2>1. request.control \in Controls
    BY <1>1, <1>4, EnabledControl DEF Applicable, NewControl
  <2>2. entry.status \in Statuses
    BY <1>1, <1>4, <2>1, StatusTyped
  <2>3. h \in ReleasedHws
    BY <1>4
  <2>4. AllSound(h) /\ Untouched(h)
    BY <2>3, OutcomesTyped, ReleaseAllSound DEF ReleasedHws
  <2>5. QED
    BY <1>3, <1>4, <2>2, <2>3, <2>4, ReleasedClear
<1>5. ASSUME active, entry = [hws |-> PolledHws(next), status |-> status, failed |-> TRUE]
      PROVE  /\ AllSound(h) /\ Untouched(h)
             /\ \A c \in Cards : Trusted(c)' => Clear(h[c])
             /\ entry.status \in Statuses
             /\ faults' \in 0 .. MaxFaults
  <2>1. next \in Supported /\ svc = "running"
    BY <1>1, <1>5, ActiveCardSupported DEF Inv, LoopInv
  <2>2. h \in PolledHws(next)
    BY <1>5
  <2>3. QED
    BY <1>1, <1>3, <1>5, <2>1, <2>2, PolledSound, PolledClear
<1>6. QED
  BY <1>2, <1>4, <1>5 DEF FailEntries

LEMMA KilledInFailInv == Inv /\ KilledInFail => Inv'
<1> SUFFICES ASSUME Inv, KilledInFail PROVE Inv'
  OBVIOUS
<1>1. Killed /\ svc \in {"starting", "running"}
  BY DEF KilledInFail, Killed
<1>2. PICK entry \in FailEntries :
        /\ Spend(entry.failed)
        /\ \/ /\ hw' \in {CleanupHw(h, CutShort(k, calls)) :
                            h \in entry.hws, k \in Supported, calls \in Prefixes}
              /\ status' = entry.status
           \/ /\ hw' \in {CleanupHw(h, AllDone) : h \in entry.hws}
              /\ \E k \in 1 .. 2 : status' = InactiveStatus(entry.status, k)
  BY DEF KilledInFail
<1>3. AllDone \in [Cards -> Prefixes]
  BY DEF AllDone, Prefixes
<1>4. PICK h \in entry.hws, done \in [Cards -> Prefixes] : hw' = CleanupHw(h, done)
  BY <1>2, <1>3, CutShortTyped
<1>5. /\ AllSound(h) /\ Untouched(h)
      /\ \A c \in Cards : Trusted(c)' => Clear(h[c])
      /\ entry.status \in Statuses
      /\ faults' \in 0 .. MaxFaults
  BY <1>1, <1>2, EntryClear
<1>6. status' \in Statuses
  <2>1. \A k \in 1 .. 2 : InactiveStatus(entry.status, k) \in Statuses
    BY <1>5, StatusTyped
  <2>2. QED
    BY <1>2, <1>5, <2>1
<1>7. /\ AllSound(hw') /\ Untouched(hw')
      /\ \A c \in Cards : Trusted(c)' => Clear(hw'[c])
  BY <1>4, <1>5, CleanupCut
<1>8. QED
  BY <1>1, <1>5, <1>6, <1>7, KilledFacts, KillInv

-----------------------------------------------------------------------------
(* The whole *)

LEMMA WorldInv == Inv /\ World => Inv'
<1> SUFFICES ASSUME Inv, World PROVE Inv'
  OBVIOUS
<1>1. /\ request' \in Requests /\ load' \in [Cards -> BOOLEAN] /\ hot' \in [Cards -> BOOLEAN]
      /\ UNCHANGED <<hw, daemon, status, svc, stopping, faults, kills>>
  BY DEF World, PanelWrites, LoadChanges, TemperatureChanges, Inv, TypeOK
<1>2. TypeOK' /\ LoopInv' /\ OffsetUnused'
  BY <1>1 DEF Inv, TypeOK, LoopInv, OffsetUnused, daemon
<1>3. MemoryIsTrue' /\ GovernedOnlyByProfile' /\ PublishedIsApplied' /\ ForeignUntouched'
  BY <1>1
  DEF Inv, MemoryIsTrue, GovernedOnlyByProfile, PublishedIsApplied, ForeignUntouched,
      Flagged, daemon
<1>4. NothingForgotten' /\ ReleasedWhenDown' /\ NoOffsetInP8'
  BY <1>1 DEF Inv, NothingForgotten, ReleasedWhenDown, NoOffsetInP8, Saving, Trusted, daemon
<1>5. QED
  BY <1>2, <1>3, <1>4 DEF Inv

LEMMA StutterInv == Inv /\ UNCHANGED vars => Inv'
BY DEF Inv, TypeOK, LoopInv, OffsetUnused, MemoryIsTrue, GovernedOnlyByProfile, PublishedIsApplied,
       ForeignUntouched, NothingForgotten, ReleasedWhenDown, NoOffsetInP8, Flagged, Saving, Trusted,
       vars

LEMMA InitInv == Init => Inv
<1> SUFFICES ASSUME Init PROVE Inv
  OBVIOUS
<1>1. BootHw \in Hw
  BY FansAssumption DEF BootHw, Hw, AutoPState, P8
<1>2. [kind |-> "missing", control |-> NoControl] \in Requests
  BY DEF Requests
<1>3. TypeOK
  <2>1. NoStatus \in Statuses
    BY DEF Statuses, NoStatus
  <2>2. 0 \in 0 .. MaxFaults /\ 0 \in 0 .. MaxKills
    BY BoundsAssumption
  <2>3. QED
    BY <1>1, <1>2, <2>1, <2>2, FreshTyped, ZeroIsCard DEF Init, TypeOK, Phases
<1>4. LoopInv /\ OffsetUnused /\ ForeignUntouched
  BY SupportedAssumption DEF Init, LoopInv, OffsetUnused, ForeignUntouched, BootHw
<1>5. MemoryIsTrue /\ GovernedOnlyByProfile /\ PublishedIsApplied
  BY DEF Init, MemoryIsTrue, GovernedOnlyByProfile, PublishedIsApplied, Flagged, Fresh
<1>6. NothingForgotten /\ ReleasedWhenDown /\ NoOffsetInP8
  BY DEF Init, NothingForgotten, ReleasedWhenDown, NoOffsetInP8, Saving, BootHw, P8, AutoPState
<1>7. QED
  BY <1>3, <1>4, <1>5, <1>6 DEF Inv

LEMMA NextInv == Inv /\ [Next]_vars => Inv'
<1> SUFFICES ASSUME Inv, [Next]_vars PROVE Inv'
  OBVIOUS
<1>1. CASE ControlTick
  BY <1>1, FirstMissingInv, WithdrawnInv, RefusedInv, AppliedInv, UnpublishedInv DEF ControlTick
<1>2. CASE \E c \in Cards : Poll(c)
  BY <1>2, PollInv
<1>3. CASE Service
  BY <1>3, StartInv, StartFailsInv, StopInv, ShutdownInv, StopPostInv DEF Service
<1>4. CASE Kill
  BY <1>4, KilledBetweenInv, KilledInStartInv, KilledInCleanupInv, KilledInReleaseAllInv,
     KilledInFailInv, KilledInStatusInv, KilledInPollBusyInv, KilledInPollIdleInv DEF Kill
<1>5. CASE World
  BY <1>5, WorldInv
<1>6. CASE UNCHANGED vars
  BY <1>6, StutterInv
<1>7. QED
  BY <1>1, <1>2, <1>3, <1>4, <1>5, <1>6 DEF Next

\* The inductive invariant holds in every reachable state, for every number of
\* cards, configuration, and number of faults and kills.
THEOREM Invariance == Spec => []Inv
<1>1. Init => Inv
  BY InitInv
<1>2. Inv /\ [Next]_vars => Inv'
  BY NextInv
<1>3. QED
  BY <1>1, <1>2, PTL DEF Spec

\* Every variable keeps its type: the counters stop at their bounds, the poll
\* index stays within the cards, the files hold values a panel understands.
THEOREM TypeCorrect == Spec => []TypeOK
<1>1. Inv => TypeOK
  BY DEF Inv
<1>2. QED
  BY <1>1, Invariance, PTL

\* Whatever calls fail and wherever the daemon is killed, what it remembers of a
\* card is true of the card (poll, release, Cleanup, fail).
THEOREM MemoryStaysTrue == Spec => []MemoryIsTrue
<1>1. Inv => MemoryIsTrue
  BY DEF Inv
<1>2. QED
  BY <1>1, Invariance, PTL

\* No handler forgets a card it leaves governed: only the cards of the active
\* profile are ever remembered as low-power or with a manual fan.
THEOREM GovernedStaysInProfile == Spec => []GovernedOnlyByProfile
<1>1. Inv => GovernedOnlyByProfile
  BY DEF Inv
<1>2. QED
  BY <1>1, Invariance, PTL

\* While a control is applied the files name it: syncControl publishes or fails.
THEOREM PublishedStaysApplied == Spec => []PublishedIsApplied
<1>1. Inv => PublishedIsApplied
  BY DEF Inv
<1>2. QED
  BY <1>1, Invariance, PTL

\* No call ever changes a card that is not a supported 20 GB CMP 50HX: validate
\* guards the polls, and Cleanup tests each card itself.
THEOREM ForeignStaysUntouched == Spec => []ForeignUntouched
<1>1. Inv => ForeignUntouched
  BY DEF Inv
<1>2. QED
  BY <1>1, Invariance, PTL

\* Neither kills nor failures elsewhere make a live daemon wrong about a supported
\* card whose own releasing calls work: the next Cleanup gives it back first.
THEOREM NothingStaysForgotten == Spec => []NothingForgotten
<1>1. Inv => NothingForgotten
  BY DEF Inv
<1>2. QED
  BY <1>1, Invariance, PTL

\* Neither kills nor failures elsewhere leave such a card asleep once ExecStopPost
\* has run.
THEOREM DownStaysReleased == Spec => []ReleasedWhenDown
<1>1. Inv => ReleasedWhenDown
  BY DEF Inv
<1>2. QED
  BY <1>1, Invariance, PTL

\* Neither do they leave such a card in P8 with a clock lock or a core offset:
\* every prefix of the entry and of the release keeps the order of the calls.
THEOREM OffsetStaysOutOfP8 == Spec => []NoOffsetInP8
<1>1. Inv => NoOffsetInP8
  BY DEF Inv
<1>2. QED
  BY <1>1, Invariance, PTL

-----------------------------------------------------------------------------
(* Fans *)

\* The fan of the card in r is as it is now, or automatic.
FanKeptIn(r, c) == hw[c].fan # 0 => r.fan \in {0, hw[c].fan}

LEMMA RestoredFan ==
  ASSUME NEW r, NEW done, NEW c, FanKeptIn(r, c)
  PROVE  FanKeptIn(Restored(r, done), c)
BY DEF FanKeptIn, Restored

LEMMA ReleaseAllFan ==
  ASSUME NEW done, NEW c \in Cards
  PROVE  FanKeptIn(ReleaseAllHw(done)[c], c)
BY RestoredFan DEF FanKeptIn, ReleaseAllHw, ReleasedCard

LEMMA CleanupFan ==
  ASSUME NEW h, NEW done, NEW c \in Cards, FanKeptIn(h[c], c)
  PROVE  FanKeptIn(CleanupHw(h, done)[c], c)
BY RestoredFan DEF CleanupHw

\* A trusted card whose fan is forced is not given a new speed by a poll.
LEMMA ForcedFanStays ==
  ASSUME Inv, svc = "running", NEW c \in Supported, Trusted(c), hw[c].fan # 0
  PROVE  ~ FanToManual(c)
BY CardKnown DEF FanToManual

LEMMA IdledFan ==
  ASSUME Inv, svc = "running", NEW c \in Supported, Trusted(c), NEW f \in {0, control.fan},
         FanToManual(c) \/ f = 0
  PROVE  FanKeptIn(Idled(c), c) /\ FanKeptIn([Idled(c) EXCEPT !.fan = f], c)
<1>1. Sound(hw[c]) /\ Sound(Idled(c)) /\ Idled(c).fan = hw[c].fan
  BY SupportedAssumption, NoSupported, LowPowerAsleep DEF AllSound, Idled
<1>2. QED
  BY <1>1, ForcedFanStays DEF FanKeptIn, Sound, Hw

LEMMA PolledFan ==
  ASSUME Inv, svc = "running", NEW c \in Supported, NEW h \in PolledHws(c),
         NEW d \in Cards, Trusted(d)
  PROVE  FanKeptIn(h[d], d)
<1>1. PICK r \in PollFailures(c) : h = [hw EXCEPT ![c] = r]
  BY DEF PolledHws
<1>2. c \in Cards /\ hw \in [Cards -> Hw]
  BY SupportedAssumption DEF Inv, TypeOK
<1>3. FanKeptIn(hw[d], d)
  BY DEF FanKeptIn
<1>4. CASE d = c
  <2>1. ASSUME r \in BusyFailures(c) PROVE FanKeptIn(r, c)
    BY <1>3, <1>4, <2>1, RestoredFan DEF BusyFailures, ReleasedCard
  <2>2. ASSUME r \in LowPowerFailures(hw[c]) PROVE FanKeptIn(r, c)
    BY <2>2 DEF LowPowerFailures, FanKeptIn
  <2>3. FanKeptIn(Idled(c), c)
    BY <1>4, IdledFan
  <2>4. ASSUME FanToManual(c), NEW f \in {0, control.fan}, r = [Idled(c) EXCEPT !.fan = f]
        PROVE  FanKeptIn(r, c)
    BY <1>4, <2>4, IdledFan
  <2>5. FanKeptIn(r, c)
    BY <1>3, <1>4, <2>1, <2>2, <2>3, <2>4 DEF PollFailures, IdleFailures
  <2>6. QED
    BY <1>1, <1>2, <1>4, <2>5
<1>5. QED
  BY <1>1, <1>2, <1>3, <1>4

LEMMA FailFan ==
  ASSUME NEW hs, NEW s, NEW failed, Fail(hs, s, failed), NEW c \in Cards,
         \A h \in hs : FanKeptIn(h[c], c)
  PROVE  FanKeptIn(hw'[c], c)
<1>1. PICK h \in hs, done \in Outcomes : hw' = CleanupHw(h, done)
  BY DEF Fail, Cleaned
<1>2. QED
  BY <1>1, CleanupFan

LEMMA EntryFan ==
  ASSUME Inv, NEW entry \in FailEntries, NEW h \in entry.hws, NEW c \in Cards, Trusted(c)
  PROVE  FanKeptIn(h[c], c)
<1>1. CASE h = hw
  BY <1>1 DEF FanKeptIn
<1>2. CASE h \in ReleasedHws
  BY <1>2, ReleaseAllFan DEF ReleasedHws
<1>3. CASE active /\ h \in PolledHws(next)
  <2>1. next \in Supported /\ svc = "running"
    BY <1>3, ActiveCardSupported DEF Inv, LoopInv, TypeOK
  <2>2. QED
    BY <1>3, <2>1, PolledFan
<1>4. QED
  BY <1>1, <1>2, <1>3 DEF FailEntries

\* No step takes a fault back, so a card that is trusted after it was before.
LEMMA TrustedBefore ==
  ASSUME Inv, [Next]_vars, NEW c \in Cards, Trusted(c)'
  PROVE  Trusted(c)
<1>1. ASSUME NEW b \in BOOLEAN, Spend(b) PROVE Trusted(c)
  BY <1>1, TrustLost
<1>2. CASE faults' = faults
  BY <1>2 DEF Trusted
<1>3. ASSUME NEW hs, NEW s, NEW b \in BOOLEAN, Fail(hs, s, b) PROVE Trusted(c)
  <2>1. PICK end \in Cleaned(hs), k \in 0 .. 2, written \in BOOLEAN :
          Spend(b \/ end.failed \/ k < 2 \/ ~ written)
    BY <1>3 DEF Fail
  <2>2. QED
    BY <1>1, <2>1
<1>4. CASE ControlTick
  <2>1. CASE FirstSyncMissing
    BY <1>2, <2>1 DEF FirstSyncMissing
  <2>2. CASE SyncWithdrawn
    BY <1>1, <2>2 DEF SyncWithdrawn, Disable, ReleaseAllFailed
  <2>3. CASE SyncRefused
    BY <1>3, <2>3 DEF SyncRefused
  <2>4. CASE SyncApplied
    BY <1>1, <2>4 DEF SyncApplied, ReleaseAllFailed
  <2>5. CASE SyncUnpublished
    BY <1>3, <2>5 DEF SyncUnpublished
  <2>6. QED
    BY <1>4, <2>1, <2>2, <2>3, <2>4, <2>5 DEF ControlTick
<1>5. ASSUME NEW d \in Cards, Poll(d) PROVE Trusted(c)
  BY <1>2, <1>3, <1>5 DEF Poll, PollBusy, PollIdle, PollFails
<1>6. CASE Service
  BY <1>1, <1>2, <1>6 DEF Service, Start, StartFails, Stop, Shutdown, StopPost, CleanupFailed
<1>7. CASE KilledInFail
  <2>1. PICK entry \in FailEntries : Spend(entry.failed)
    BY <1>7 DEF KilledInFail
  <2>2. CASE entry = [hws |-> {hw}, status |-> status, failed |-> FALSE]
    BY <1>1, <2>1, <2>2
  <2>3. CASE \E k \in 0 .. 2 :
               entry = [hws |-> ReleasedHws, failed |-> TRUE,
                        status |-> ActiveStatus(status, request.control, k)]
    <3>1. PICK k \in 0 .. 2 :
            entry = [hws |-> ReleasedHws, failed |-> TRUE,
                     status |-> ActiveStatus(status, request.control, k)]
      BY <2>3, Zenon
    <3>2. entry.failed = TRUE
      BY <3>1
    <3>3. QED
      BY <1>1, <2>1, <3>2
  <2>4. CASE entry = [hws |-> PolledHws(next), status |-> status, failed |-> TRUE]
    BY <1>1, <2>1, <2>4
  <2>5. \/ entry = [hws |-> {hw}, status |-> status, failed |-> FALSE]
        \/ \E k \in 0 .. 2 :
             entry = [hws |-> ReleasedHws, failed |-> TRUE,
                      status |-> ActiveStatus(status, request.control, k)]
        \/ entry = [hws |-> PolledHws(next), status |-> status, failed |-> TRUE]
    BY Zenon DEF FailEntries
  <2>6. QED
    BY <2>2, <2>3, <2>4, <2>5
<1>8. CASE Kill
  BY <1>2, <1>7, <1>8
  DEF Kill, KilledBetween, KilledInStart, KilledInCleanup, KilledInReleaseAll, KilledInStatus,
      KilledInPollBusy, KilledInPollIdle
<1>9. CASE World \/ UNCHANGED vars
  BY <1>2, <1>9 DEF World, PanelWrites, LoadChanges, TemperatureChanges, vars
<1>10. QED
  BY <1>4, <1>5, <1>6, <1>8, <1>9 DEF Next

\* One card replaced by r, in a poll or in a kill during one.
LEMMA OneCardFan ==
  ASSUME Inv, NEW d \in Cards, NEW r, hw' = [hw EXCEPT ![d] = r],
         NEW c \in Cards, c = d => FanKeptIn(r, d)
  PROVE  FanKeptIn(hw'[c], c)
<1>1. hw'[c] = IF c = d THEN r ELSE hw[c]
  BY DEF Inv, TypeOK
<1>2. QED
  BY <1>1 DEF FanKeptIn

LEMMA FanStep ==
  ASSUME Inv, [Next]_vars, NEW c \in Cards, Trusted(c)'
  PROVE  FanKeptIn(hw'[c], c)
<1>1. Trusted(c)
  BY TrustedBefore
<1>2. CASE UNCHANGED hw
  BY <1>2 DEF FanKeptIn
<1>3. FanKeptIn(hw[c], c)
  BY DEF FanKeptIn
<1>4. CASE ControlTick
  <2>1. CASE FirstSyncMissing
    BY <2>1, <1>2 DEF FirstSyncMissing
  <2>2. CASE SyncWithdrawn
    BY <2>2, ReleaseAllFan DEF SyncWithdrawn, Disable
  <2>3. CASE SyncRefused
    <3> DEFINE hs == {hw}
    <3>1. Fail(hs, status, FALSE) /\ \A h \in hs : FanKeptIn(h[c], c)
      BY <1>3, <2>3 DEF SyncRefused
    <3> HIDE DEF hs
    <3>2. QED
      BY <3>1, FailFan
  <2>4. CASE SyncApplied
    BY <2>4, ReleaseAllFan DEF SyncApplied
  <2>5. CASE SyncUnpublished
    <3>1. \A h \in ReleasedHws : FanKeptIn(h[c], c)
      BY ReleaseAllFan DEF ReleasedHws
    <3>2. PICK k \in 0 .. 2 :
            Fail(ReleasedHws, ActiveStatus(status, request.control, k), TRUE)
      BY <2>5, Zenon DEF SyncUnpublished
    <3>3. QED
      BY <3>1, <3>2, FailFan
  <2>6. QED
    BY <1>4, <2>1, <2>2, <2>3, <2>4, <2>5 DEF ControlTick
<1>5. ASSUME NEW d \in Cards, Poll(d) PROVE FanKeptIn(hw'[c], c)
  <2>1. d \in Supported /\ svc = "running"
    BY <1>5, PollFacts DEF Poll, PollBusy, PollIdle, PollFails
  <2>2. CASE PollFails(d)
    BY <1>1, <2>1, <2>2, PolledFan, FailFan DEF PollFails
  <2>3. CASE PollBusy(d)
    <3>1. hw' = [hw EXCEPT ![d] = IF Flagged(d) THEN ReleasedCard(d, Calls) ELSE hw[d]]
      BY <2>3 DEF PollBusy
    <3>2. FanKeptIn(hw[d], d) /\ FanKeptIn(ReleasedCard(d, Calls), d)
      BY RestoredFan DEF FanKeptIn, ReleasedCard
    <3>3. QED
      BY <3>1, <3>2, OneCardFan
  <2>4. CASE PollIdle(d)
    <3> DEFINE r == [Idled(d) EXCEPT !.fan = IF FanToAuto(d) THEN 0
                                             ELSE IF FanToManual(d) THEN control.fan ELSE @]
    <3>1. hw' = [hw EXCEPT ![d] = r]
      BY <2>4 DEF PollIdle
    <3>2. ASSUME c = d PROVE FanKeptIn(r, d)
      <4>1. Sound(Idled(d))
        BY NoSupported, LowPowerAsleep DEF AllSound, Idled
      <4>2. [Idled(d) EXCEPT !.fan = @] = Idled(d)
        BY <4>1 DEF Sound, Hw
      <4>3. QED
        BY <1>1, <2>1, <3>2, <4>2, IdledFan
    <3> HIDE DEF r
    <3>3. QED
      BY <3>1, <3>2, OneCardFan
  <2>5. QED
    BY <1>5, <2>2, <2>3, <2>4 DEF Poll
<1>6. CASE Service
  BY <1>2, <1>3, <1>6, CleanupFan DEF Service, Start, StartFails, Stop, Shutdown, StopPost
<1>7. CASE KilledInFail
  <2>1. PICK entry \in FailEntries :
          \E h \in entry.hws : \E done : hw' = CleanupHw(h, done)
    BY <1>7 DEF KilledInFail
  <2>2. PICK h \in entry.hws : \E done : hw' = CleanupHw(h, done)
    BY <2>1
  <2>3. QED
    BY <1>1, <2>2, EntryFan, CleanupFan
<1>8. CASE KilledBetween \/ KilledInStart \/ KilledInCleanup \/ KilledInReleaseAll \/ KilledInStatus
  BY <1>2, <1>3, <1>8, CleanupFan, ReleaseAllFan
  DEF KilledBetween, KilledInStart, KilledInCleanup, KilledInReleaseAll, KilledInStatus
<1>9. ASSUME NEW d \in Cards, KilledInPollBusy(d) PROVE FanKeptIn(hw'[c], c)
  <2>1. PICK calls \in Prefixes : hw' = [hw EXCEPT ![d] = ReleasedCard(d, calls)]
    BY <1>9 DEF KilledInPollBusy
  <2>2. FanKeptIn(ReleasedCard(d, calls), d)
    BY RestoredFan DEF FanKeptIn, ReleasedCard
  <2>3. QED
    BY <2>1, <2>2, OneCardFan
<1>10. ASSUME NEW d \in Cards, KilledInPollIdle(d) PROVE FanKeptIn(hw'[c], c)
  <2>1. PICK r \in IdleSteps(d) : hw' = [hw EXCEPT ![d] = r]
    BY <1>10 DEF KilledInPollIdle
  <2>2. d \in Supported /\ svc = "running"
    BY <1>10, ActiveCardSupported DEF KilledInPollIdle, Inv, LoopInv
  <2>3. ASSUME c = d PROVE FanKeptIn(r, d)
    <3>1. Sound(hw[d])
      BY NoSupported DEF AllSound
    <3>2. FanKeptIn(Idled(d), d)
      BY <1>1, <2>2, <2>3, IdledFan
    <3>3. ASSUME FanToManual(d) PROVE FanKeptIn([Idled(d) EXCEPT !.fan = control.fan], d)
      BY <1>1, <2>2, <2>3, <3>3, IdledFan
    <3>4. FanKeptIn([Idled(d) EXCEPT !.fan = 0], d)
      BY <1>1, <2>2, <2>3, IdledFan
    <3>5. FanKeptIn([hw[d] EXCEPT !.offset = IF HasOffset THEN "zero" ELSE @], d)
          /\ FanKeptIn([[hw[d] EXCEPT !.offset = IF HasOffset THEN "zero" ELSE @]
                          EXCEPT !.clock = "auto"], d)
      BY <3>1 DEF FanKeptIn, Sound, Hw
    <3>6. QED
      BY <3>2, <3>3, <3>4, <3>5 DEF IdleSteps
  <2>4. QED
    BY <2>1, <2>3, OneCardFan
<1>11. CASE World
  BY <1>2, <1>11 DEF World, PanelWrites, LoadChanges, TemperatureChanges
<1>12. CASE UNCHANGED vars
  BY <1>2, <1>12 DEF vars
<1>13. QED
  BY <1>4, <1>5, <1>6, <1>7, <1>8, <1>9, <1>10, <1>11, <1>12 DEF Next, Kill

\* No step changes one forced fan speed to another on a card whose own
\* releasing calls have worked, whatever has failed elsewhere.
THEOREM FansChangeThroughAuto == Spec => FanThroughAuto
<1>1. Inv /\ [Next]_vars =>
        [\A c \in Cards :
           Trusted(c)' /\ hw[c].fan # 0 /\ hw'[c].fan # 0 => hw'[c].fan = hw[c].fan]_vars
  BY FanStep DEF FanKeptIn
<1>2. QED
  BY <1>1, Invariance, PTL DEF Spec, FanThroughAuto
=============================================================================
