------------------------------ MODULE Governor ------------------------------
(***************************************************************************)
(* The idle governor: src/idle-governor/internal/governor, the daemon that *)
(* forces P8 and a fixed fan speed on idle CMP 50HX cards and gives them   *)
(* back on load, together with the systemd unit that starts, kills and     *)
(* cleans up after it, the panel that rewrites control.json, and the cards *)
(* themselves.                                                             *)
(*                                                                         *)
(* The daemon is one goroutine: between two receives of the select in Run  *)
(* a handler runs to its end.  A handler is one action here, except that a *)
(* poll is one action per card, because load, temperature and the request  *)
(* change while it walks the cards.  A hardware or file call may fail, and *)
(* SIGKILL may land between any two calls of a handler.                    *)
(***************************************************************************)
EXTENDS Integers

CONSTANTS
  N,          \* GPUs the driver enumerates; indices are 0 .. N-1
  Supported,  \* the 20 GB CMP 50HX cards among them
  Profiles,   \* card counts of the profiles control.json may name
  Fans,       \* idle_fan_percent values; 0 is automatic
  IdleAfter,  \* CMP_IDLE_AFTER
  HasClock,   \* CMP_LOAD_CLOCK is configured
  HasOffset,  \* CMP_LOAD_CORE_OFFSET is configured
  Faulty,     \* the cards on which a releasing call may fail
  MaxFaults,  \* bound: handlers in which a call fails
  MaxKills    \* bound: SIGKILLs of the daemon

Cards == 0 .. N - 1

ASSUME NAssumption == N \in Nat \ {0}
ASSUME SupportedAssumption == Supported \subseteq Cards
ASSUME ProfilesAssumption == Profiles \subseteq Nat \ {0}
ASSUME FansAssumption == Fans \subseteq Nat /\ 0 \in Fans
ASSUME IdleAfterAssumption == IdleAfter \in Nat \ {0}
ASSUME FaultyAssumption == Faulty \subseteq Cards
ASSUME ConfigAssumption == HasClock \in BOOLEAN /\ HasOffset \in BOOLEAN
ASSUME BoundsAssumption == MaxFaults \in Nat /\ MaxKills \in Nat

VARIABLES
  hw,       \* what each card is really set to
  card,     \* g.states: what the daemon remembers of each card
  control,  \* g.control
  active,   \* g.active
  next,     \* the card poll() looks at next; 0 is the select of Run
  request,  \* control.json, as LoadControl would read it now
  status,   \* the files the daemon publishes beside control.json
  load,     \* per card: utilization is above the threshold
  hot,      \* per card: temperature has reached FanAutoTemp
  svc,      \* where systemd has the unit
  stopping, \* systemctl stop was asked for: SIGTERM is pending or served
  faults,   \* handlers that have had a failed call
  kills     \* SIGKILLs delivered

vars == <<hw, card, control, active, next, request, status, load, hot, svc,
          stopping, faults, kills>>
daemon == <<card, control, active, next>>
world == <<request, load, hot>>

-----------------------------------------------------------------------------
(* State *)

P8 == 8
AutoPState == 16
Absent == -1

Controls == [profile: Profiles, fan: Fans]
NoControl == [profile |-> 0, fan |-> 0]

\* A fan is 0 while every fan of the card is automatic, else the percentage
\* some fan of the card is forced to.
Hw == [pstate: {P8, AutoPState}, fan: Fans, offset: {"zero", "load"},
       clock: {"auto", "load"}]
BootHw == [pstate |-> AutoPState, fan |-> 0, offset |-> "zero", clock |-> "auto"]

CardState == [idlePolls: 0 .. IdleAfter, lowPower: BOOLEAN, manualFan: BOOLEAN]
Fresh == [idlePolls |-> 0, lowPower |-> FALSE, manualFan |-> FALSE]

Requests ==
  [kind: {"missing", "invalid", "disabled"}, control: {NoControl}]
  \cup [kind: {"enabled"}, control: Controls]
Statuses == [profile: Profiles \cup {Absent}, fan: Fans \cup {Absent},
             error: BOOLEAN]
NoStatus == [profile |-> Absent, fan |-> Absent, error |-> FALSE]

Phases == {"inactive", "starting", "running", "stop-post", "auto-restart"}

TypeOK ==
  /\ hw \in [Cards -> Hw]
  /\ card \in [Cards -> CardState]
  /\ control \in Controls \cup {NoControl}
  /\ active \in BOOLEAN
  /\ next \in Cards
  /\ request \in Requests
  /\ status \in Statuses
  /\ load \in [Cards -> BOOLEAN]
  /\ hot \in [Cards -> BOOLEAN]
  /\ svc \in Phases
  /\ stopping \in BOOLEAN
  /\ faults \in 0 .. MaxFaults
  /\ kills \in 0 .. MaxKills

Init ==
  /\ hw = [c \in Cards |-> BootHw]
  /\ card = [c \in Cards |-> Fresh]
  /\ control = NoControl
  /\ active = FALSE
  /\ next = 0
  /\ request = [kind |-> "missing", control |-> NoControl]
  /\ status = NoStatus
  /\ load = [c \in Cards |-> FALSE]
  /\ hot = [c \in Cards |-> FALSE]
  /\ svc = "inactive"
  /\ stopping = FALSE
  /\ faults = 0
  /\ kills = 0

-----------------------------------------------------------------------------
(* Calls on a card *)

\* The four calls that give a card back, in the order Cleanup and release
\* make them.  A set of them stands for the calls that took effect.
Calls == {"fan", "pstate", "offset", "clock"}
AllDone == [c \in Cards |-> Calls]

\* What each card's calls achieve: everything, unless a call may still fail.
Outcomes ==
  IF faults = MaxFaults THEN {AllDone}
  ELSE {[c \in Cards |-> IF c \in Faulty THEN done[c] ELSE Calls] :
           done \in [Faulty -> SUBSET Calls]}

\* The calls made when SIGKILL lands between two of them.
PrefixesOffsetFirst ==
  {{}, {"fan"}, {"fan", "offset"}, {"fan", "offset", "pstate"}, Calls}
PrefixesFanLast ==
  {{}, {"pstate"}, {"pstate", "offset"}, {"pstate", "offset", "clock"}, Calls}
Prefixes == {{}, {"fan"}, {"fan", "pstate"}, {"fan", "pstate", "offset"}, Calls}

Spend(failed) ==
  /\ faults' = IF failed THEN faults + 1 ELSE faults
  /\ faults' <= MaxFaults

\* restoreClocks(): the configured lock, or none.
LoadClock == IF HasClock THEN "load" ELSE "auto"

Restored(r, done) ==
  [fan    |-> IF "fan" \in done THEN 0 ELSE r.fan,
   pstate |-> IF "pstate" \in done THEN AutoPState ELSE r.pstate,
   offset |-> IF "offset" \in done /\ HasOffset THEN "load" ELSE r.offset,
   clock  |-> IF "clock" \in done THEN LoadClock ELSE r.clock]

FlaggedByFan(c) == card[c].manualFan
Flagged(c) == card[c].lowPower \/ card[c].manualFan

ReleaseCallsWithoutFan(c) == Calls \ {"fan"}
\* release() leaves the fan alone when the daemon did not force it.
ReleaseCalls(c) == IF card[c].manualFan THEN Calls ELSE Calls \ {"fan"}

ReleasedCard(c, done) == Restored(hw[c], done \cap ReleaseCalls(c))

ReleaseFailed(c, done) == ~ (ReleaseCalls(c) \subseteq done)

\* releaseAll(): every flagged card, errors logged and forgotten.
ReleaseAllHw(done) ==
  [c \in Cards |-> IF Flagged(c) THEN ReleasedCard(c, done[c]) ELSE hw[c]]
ReleaseAllCardsKeepsFlags == card
ReleaseAllCards == [c \in Cards |-> IF Flagged(c) THEN Fresh ELSE card[c]]
ReleaseAllFailed(done) == \E c \in Cards : Flagged(c) /\ ReleaseFailed(c, done[c])

CleanupHwByFlags(h, done) ==
  [c \in Cards |-> IF Flagged(c) THEN Restored(h[c], done[c]) ELSE h[c]]
CleanupHwEveryCard(h, done) == [c \in Cards |-> Restored(h[c], done[c])]
\* Cleanup(): every supported card, whatever the flags say.
CleanupHw(h, done) ==
  [c \in Cards |-> IF c \in Supported THEN Restored(h[c], done[c]) ELSE h[c]]
CleanupCards == [c \in Cards |-> IF c \in Supported THEN Fresh ELSE card[c]]
CleanupFailed(done) == \E c \in Supported : done[c] # Calls

\* A Cleanup cut short: the cards before k are done, k is being done.
CutShort(k, calls) ==
  [c \in Cards |-> IF c < k THEN Calls ELSE IF c = k THEN calls ELSE {}]

-----------------------------------------------------------------------------
(* Status files *)

ActiveStatusKeepsError(s, ctl, k) ==
  [profile |-> IF k >= 1 THEN ctl.profile ELSE s.profile,
   fan     |-> IF k >= 2 THEN ctl.fan ELSE s.fan,
   error   |-> s.error]

\* Active(): the first k of its three steps took effect.
ActiveStatus(s, ctl, k) ==
  [profile |-> IF k >= 1 THEN ctl.profile ELSE s.profile,
   fan     |-> IF k >= 2 THEN ctl.fan ELSE s.fan,
   error   |-> IF k = 3 THEN FALSE ELSE s.error]

\* Inactive(): the first k of its two removals took effect.
InactiveStatus(s, k) ==
  [s EXCEPT !.profile = IF k >= 1 THEN Absent ELSE @,
            !.fan     = IF k = 2 THEN Absent ELSE @]

\* Error(): Inactive, whatever comes of it, then the message.
ErrorStatus(s, k, written) ==
  [InactiveStatus(s, k) EXCEPT !.error = written \/ @]

-----------------------------------------------------------------------------
(* disable() and fail() *)

Disable ==
  \E done \in Outcomes, k \in 0 .. 2 :
    /\ hw' = ReleaseAllHw(done)
    /\ card' = ReleaseAllCards
    /\ status' = InactiveStatus(status, k)
    /\ Spend(ReleaseAllFailed(done) \/ k < 2)
    /\ active' = FALSE

Cleaned(hs) ==
  {[hw |-> CleanupHw(h, done), failed |-> CleanupFailed(done)] :
     h \in hs, done \in Outcomes}

\* The cards are as in one of hs and the files as in s when the error is
\* reported; failed says whether the error was a call that failed.
Fail(hs, s, failed) ==
  \E end \in Cleaned(hs), k \in 0 .. 2, written \in BOOLEAN :
    /\ hw' = end.hw
    /\ card' = CleanupCards
    /\ status' = ErrorStatus(s, k, written)
    /\ Spend(failed \/ end.failed \/ k < 2 \/ ~written)
    /\ active' = FALSE
    /\ next' = 0

-----------------------------------------------------------------------------
(* syncControl(): the first one runs before the select, the others on the  *)
(* control ticker.                                                         *)

Valid(ctl) == ctl.profile <= N /\ 0 .. ctl.profile - 1 \subseteq Supported

Syncing ==
  /\ svc \in {"starting", "running"}
  /\ next = 0
  /\ svc' = "running"
  /\ UNCHANGED <<world, stopping, kills>>

NewControlOnlyAtFirst == request.kind = "enabled" /\ ~ active

NewControl ==
  /\ request.kind = "enabled"
  /\ ~ (active /\ request.control = control)

Applicable == NewControl /\ Valid(request.control)

Refused ==
  \/ request.kind = "invalid"
  \/ NewControl /\ ~ Valid(request.control)

WithdrawnOnlyByPanel == request.kind = "disabled"

\* Only the ticker disables on a missing file: Run ignores the first one.
Withdrawn ==
  \/ request.kind = "disabled"
  \/ request.kind = "missing" /\ svc = "running"

SyncWithdrawn ==
  /\ Withdrawn
  /\ Syncing
  /\ Disable
  /\ UNCHANGED <<control, next>>

FirstSyncMissing ==
  /\ svc = "starting"
  /\ request.kind = "missing"
  /\ Syncing
  /\ UNCHANGED <<hw, daemon, status, faults>>

SyncRefused ==
  /\ Refused
  /\ Syncing
  /\ Fail({hw}, status, FALSE)
  /\ UNCHANGED control

SyncApplied ==
  /\ Applicable
  /\ Syncing
  /\ \E done \in Outcomes :
       /\ hw' = ReleaseAllHw(done)
       /\ Spend(ReleaseAllFailed(done))
  /\ card' = ReleaseAllCards
  /\ status' = ActiveStatus(status, request.control, 3)
  /\ control' = request.control
  /\ active' = TRUE
  /\ UNCHANGED next

ReleasedHws == {ReleaseAllHw(done) : done \in Outcomes}

\* status.Active fails at one of its steps: the governor fails as well.
SyncUnpublished ==
  /\ Applicable
  /\ Syncing
  /\ \E k \in 0 .. 2 :
       Fail(ReleasedHws, ActiveStatus(status, request.control, k), TRUE)
  /\ control' = request.control

-----------------------------------------------------------------------------
(* poll(), one card at a time *)

Polling(c) ==
  /\ svc = "running"
  /\ active
  /\ next = c
  /\ UNCHANGED <<world, control, svc, stopping, kills>>

PollNextPastEnd(c) == next' = IF c + 1 <= control.profile THEN c + 1 ELSE 0
PollNextFirstOnly(c) == next' = 0
PollNext(c) == next' = IF c + 1 < control.profile THEN c + 1 ELSE 0

PollBusy(c) ==
  /\ Polling(c)
  /\ load[c]
  /\ hw' = [hw EXCEPT ![c] = IF Flagged(c) THEN ReleasedCard(c, Calls) ELSE @]
  /\ card' = [card EXCEPT ![c] = IF Flagged(c) THEN Fresh
                                 ELSE [@ EXCEPT !.idlePolls = 0]]
  /\ PollNext(c)
  /\ UNCHANGED <<active, status, faults>>

\* The counter is only ever compared with IdleAfter, so it stops there.
IdlePolls(c) ==
  IF card[c].idlePolls < IdleAfter THEN card[c].idlePolls + 1 ELSE IdleAfter

EntersLowPower(c) == ~ card[c].lowPower /\ IdlePolls(c) >= IdleAfter

LowPower(r) ==
  [pstate |-> P8, fan |-> r.fan, clock |-> "auto",
   offset |-> IF HasOffset THEN "zero" ELSE r.offset]

\* What a failed entry leaves: the step before it is restored, or is not.
LowPowerFailures(r) ==
  [pstate: {r.pstate}, fan: {r.fan}, clock: {r.clock, "auto", LoadClock},
   offset: IF HasOffset THEN {"zero", "load"} ELSE {r.offset}]

\* The card once the P8 part of the idle branch is done.
Idled(c) == IF EntersLowPower(c) THEN LowPower(hw[c]) ELSE hw[c]

FanManaged(c) == (card[c].lowPower \/ EntersLowPower(c)) /\ control.fan > 0
FanToAutoSwapped(c) == FanManaged(c) /\ hot[c] /\ ~ card[c].manualFan
FanToAuto(c) == FanManaged(c) /\ hot[c] /\ card[c].manualFan
FanToManual(c) == FanManaged(c) /\ ~ hot[c] /\ ~ card[c].manualFan

PollIdle(c) ==
  /\ Polling(c)
  /\ ~ load[c]
  /\ hw' = [hw EXCEPT ![c] =
              [Idled(c) EXCEPT !.fan = IF FanToAuto(c) THEN 0
                                       ELSE IF FanToManual(c) THEN control.fan
                                       ELSE @]]
  /\ card' = [card EXCEPT ![c] =
                [idlePolls |-> IdlePolls(c),
                 lowPower  |-> card[c].lowPower \/ EntersLowPower(c),
                 manualFan |-> (card[c].manualFan \/ FanToManual(c))
                               /\ ~ FanToAuto(c)]]
  /\ PollNext(c)
  /\ UNCHANGED <<active, status, faults>>

\* A call of the idle branch fails: on the way into P8, reading the
\* temperature, or setting the fan, where some fans of the card may be set.
IdleFailures(c) ==
  (IF EntersLowPower(c) THEN LowPowerFailures(hw[c]) ELSE {})
  \cup (IF FanManaged(c) THEN {Idled(c)} ELSE {})
  \cup (IF FanToManual(c)
        THEN {[Idled(c) EXCEPT !.fan = f] : f \in {0, control.fan}} ELSE {})

BusyFailures(c) ==
  {ReleasedCard(c, done[c]) :
     done \in {d \in Outcomes : Flagged(c) /\ ReleaseFailed(c, d[c])}}

\* What a poll has made of the card by the time one of its calls fails, the
\* reading of the utilization included.
PollFailures(c) ==
  {hw[c]} \cup (IF load[c] THEN BusyFailures(c) ELSE IdleFailures(c))
PolledHws(c) == {[hw EXCEPT ![c] = r] : r \in PollFailures(c)}

PollFails(c) ==
  /\ Polling(c)
  /\ Fail(PolledHws(c), status, TRUE)

-----------------------------------------------------------------------------
(* The service: cmp-idle-governor.service and main() *)

\* The process is gone, and with it everything it remembered.
Forget ==
  /\ card' = [c \in Cards |-> Fresh]
  /\ control' = NoControl
  /\ active' = FALSE
  /\ next' = 0

\* Run up to its first syncControl: Cleanup, whose errors are only logged.
Start ==
  /\ svc \in {"inactive", "auto-restart"}
  /\ svc' = "starting"
  /\ \E done \in Outcomes :
       /\ hw' = CleanupHw(hw, done)
       /\ Spend(CleanupFailed(done))
  /\ UNCHANGED <<daemon, status, world, stopping, kills>>

\* ExecStartPre, nvidia.Open or governor.New fails before any call is made.
StartFails ==
  /\ svc \in {"inactive", "auto-restart"}
  /\ svc' = "stop-post"
  /\ Spend(TRUE)
  /\ UNCHANGED <<hw, daemon, status, world, stopping, kills>>

\* systemctl stop: SIGTERM to a daemon, which only the select notices.
Stop ==
  /\ svc # "inactive"
  /\ ~ stopping
  /\ stopping' = (svc # "auto-restart")
  /\ svc' = IF svc = "auto-restart" THEN "inactive" ELSE svc
  /\ UNCHANGED <<hw, daemon, status, world, faults, kills>>

\* The select receives ctx.Done: the deferred Cleanup, then exit.
Shutdown ==
  /\ svc = "running"
  /\ stopping
  /\ next = 0
  /\ svc' = "stop-post"
  /\ \E done \in Outcomes :
       /\ hw' = CleanupHw(hw, done)
       /\ Spend(CleanupFailed(done))
  /\ Forget
  /\ UNCHANGED <<status, world, stopping, kills>>

\* ExecStopPost runs --release in a process of its own; then the unit is
\* down for good if a stop was asked for, and restarts otherwise.
StopPost ==
  /\ svc = "stop-post"
  /\ svc' = IF stopping THEN "inactive" ELSE "auto-restart"
  /\ stopping' = FALSE
  /\ \E done \in Outcomes :
       /\ hw' = CleanupHw(hw, done)
       /\ Spend(CleanupFailed(done))
  /\ UNCHANGED <<daemon, status, world, kills>>

\* SIGKILL (the OOM killer, TimeoutStopSec, an operator) between two calls.
Killed ==
  /\ svc \in {"starting", "running"}
  /\ kills < MaxKills
  /\ kills' = kills + 1
  /\ svc' = "stop-post"
  /\ Forget
  /\ UNCHANGED <<world, stopping>>

\* ... in the select, or between two cards of a poll
KilledBetween == Killed /\ UNCHANGED <<hw, status, faults>>

\* ... in the Cleanup of the start
KilledInStart ==
  /\ svc \in {"inactive", "auto-restart"}
  /\ kills < MaxKills
  /\ kills' = kills + 1
  /\ svc' = "stop-post"
  /\ \E k \in Supported, calls \in Prefixes : hw' = CleanupHw(hw, CutShort(k, calls))
  /\ UNCHANGED <<daemon, status, world, stopping, faults>>

\* ... in the Cleanup of a shutdown
KilledInCleanup ==
  /\ Killed
  /\ svc = "running" /\ stopping /\ next = 0
  /\ \E k \in Supported, calls \in Prefixes : hw' = CleanupHw(hw, CutShort(k, calls))
  /\ UNCHANGED <<status, faults>>

\* What the handlers that end in fail() may have done to the cards and the
\* files when they call it, and whether that took a failed call.
FailEntries ==
  (IF next = 0 /\ Refused
   THEN {[hws |-> {hw}, status |-> status, failed |-> FALSE]} ELSE {})
  \cup (IF next = 0 /\ Applicable
        THEN {[hws |-> ReleasedHws, failed |-> TRUE,
               status |-> ActiveStatus(status, request.control, k)] : k \in 0 .. 2}
        ELSE {})
  \cup (IF active
        THEN {[hws |-> PolledHws(next), status |-> status, failed |-> TRUE]}
        ELSE {})

\* ... in fail(): in its Cleanup, or while the old files are taken back
KilledInFail ==
  /\ Killed
  /\ \E entry \in FailEntries :
       /\ Spend(entry.failed)
       /\ \/ /\ hw' \in {CleanupHw(h, CutShort(k, calls)) :
                           h \in entry.hws, k \in Supported, calls \in Prefixes}
             /\ status' = entry.status
          \/ /\ hw' \in {CleanupHw(h, AllDone) : h \in entry.hws}
             /\ \E k \in 1 .. 2 : status' = InactiveStatus(entry.status, k)

\* ... in releaseAll, which takes the cards in no order
KilledInReleaseAll ==
  /\ Killed
  /\ next = 0
  /\ Withdrawn \/ Applicable
  /\ \E whole \in SUBSET Cards, c \in Cards, calls \in Prefixes :
       hw' = ReleaseAllHw([d \in Cards |-> IF d \in whole THEN Calls
                                           ELSE IF d = c THEN calls ELSE {}])
  /\ UNCHANGED <<status, faults>>

\* ... while the new control is being published, or the old one taken back
KilledInStatus ==
  /\ Killed
  /\ next = 0
  /\ hw' = ReleaseAllHw(AllDone)
  /\ \/ /\ Applicable
        /\ \E k \in 1 .. 3 : status' = ActiveStatus(status, request.control, k)
     \/ /\ Withdrawn
        /\ \E k \in 1 .. 2 : status' = InactiveStatus(status, k)
  /\ UNCHANGED faults

\* ... while a busy card is being released
KilledInPollBusy(c) ==
  /\ Killed
  /\ active /\ next = c
  /\ load[c] /\ Flagged(c)
  /\ \E calls \in Prefixes : hw' = [hw EXCEPT ![c] = ReleasedCard(c, calls)]
  /\ UNCHANGED <<status, faults>>

\* What an idle poll has done to the card after each of its calls.
IdleSteps(c) ==
  LET zeroed == [hw[c] EXCEPT !.offset = IF HasOffset THEN "zero" ELSE @]
      unlocked == [zeroed EXCEPT !.clock = "auto"]
  IN (IF EntersLowPower(c) THEN {zeroed, unlocked, Idled(c)} ELSE {})
     \cup (IF FanToManual(c) THEN {[Idled(c) EXCEPT !.fan = control.fan]} ELSE {})
     \cup (IF FanToAuto(c) THEN {[Idled(c) EXCEPT !.fan = 0]} ELSE {})

\* ... while an idle card is being put to sleep
KilledInPollIdle(c) ==
  /\ Killed
  /\ active /\ next = c
  /\ ~ load[c]
  /\ \E r \in IdleSteps(c) : hw' = [hw EXCEPT ![c] = r]
  /\ UNCHANGED <<status, faults>>

-----------------------------------------------------------------------------
(* The world: the panel, the workload and the weather *)

PanelWrites ==
  /\ request' \in Requests
  /\ UNCHANGED <<hw, daemon, status, load, hot, svc, stopping, faults, kills>>

LoadChanges(c) ==
  /\ load' = [load EXCEPT ![c] = ~ @]
  /\ UNCHANGED <<hw, daemon, status, request, hot, svc, stopping, faults, kills>>

TemperatureChanges(c) ==
  /\ hot' = [hot EXCEPT ![c] = ~ @]
  /\ UNCHANGED <<hw, daemon, status, request, load, svc, stopping, faults, kills>>

-----------------------------------------------------------------------------
(* Specification *)

ControlTick ==
  FirstSyncMissing \/ SyncWithdrawn \/ SyncRefused \/ SyncApplied \/ SyncUnpublished

Poll(c) == PollBusy(c) \/ PollIdle(c) \/ PollFails(c)

Service == Start \/ StartFails \/ Stop \/ Shutdown \/ StopPost

Kill ==
  \/ KilledBetween \/ KilledInStart \/ KilledInCleanup \/ KilledInFail
  \/ KilledInReleaseAll \/ KilledInStatus
  \/ \E c \in Cards : KilledInPollBusy(c) \/ KilledInPollIdle(c)

World ==
  \/ PanelWrites
  \/ \E c \in Cards : LoadChanges(c) \/ TemperatureChanges(c)

Next ==
  \/ ControlTick
  \/ \E c \in Cards : Poll(c)
  \/ Service
  \/ Kill
  \/ World

Spec == Init /\ [][Next]_vars

\* The tickers never stop, and select picks fairly among what is ready: a
\* control tick or a SIGTERM that is pending at every pass through the select
\* is served, whatever the polls in between.  systemd runs ExecStopPost and,
\* after RestartSec, the daemon again.
Fairness ==
  /\ SF_vars(ControlTick)
  /\ \A c \in Cards : WF_vars(Poll(c))
  /\ SF_vars(Shutdown)
  /\ WF_vars(StopPost)
  /\ WF_vars(svc = "auto-restart" /\ Start)

FairSpec == Spec /\ Fairness

-----------------------------------------------------------------------------
(* Safety *)

Saving(c) == hw[c].pstate = P8 \/ hw[c].fan # 0

\* Whatever calls have failed, what the daemon remembers of a card is never
\* more than what the card does: a card it calls low-power is in P8 with its
\* clock lock and core offset cleared, and a fan it calls manual runs at the
\* percentage of the control it has applied (poll, release, Cleanup, fail).
MemoryIsTrue ==
  \A c \in Cards :
    /\ card[c].lowPower => /\ hw[c].pstate = P8
                           /\ hw[c].clock = "auto"
                           /\ HasOffset => hw[c].offset = "zero"
    /\ card[c].manualFan => /\ card[c].lowPower
                            /\ control.fan > 0
                            /\ hw[c].fan = control.fan

\* A card is remembered as governed only under an active control whose profile
\* counts it: changing profile, disabling or failing never forgets a card it
\* leaves in P8 (syncControl releases everything before it applies).
GovernedOnlyByProfile ==
  \A c \in Cards :
    card[c].lowPower \/ card[c].manualFan => active /\ c < control.profile

\* The files the panel reads name exactly the control being applied whenever
\* the daemon applies one, through every failed write and every restart.
PublishedIsApplied ==
  active => /\ status.profile = control.profile
            /\ status.fan = control.fan
            /\ ~ status.error
            /\ svc = "running"

\* A card that is not a supported 20 GB CMP 50HX is never touched: not by the
\* polls, whose profile validate() has checked, and not by Cleanup.
ForeignUntouched == \A c \in Cards \ Supported : hw[c] = BootHw

\* The settings of a card that is given back, and of one put to sleep.
GivenBack == [pstate |-> AutoPState, fan |-> 0, clock |-> LoadClock,
              offset |-> IF HasOffset THEN "load" ELSE "zero"]
Asleep(fan) == [pstate |-> P8, fan |-> fan, clock |-> "auto", offset |-> "zero"]

\* A card on which no releasing call has failed: the failures of every other
\* call, on every other card and of every file do not count against it.
Trusted(c) == faults = 0 \/ c \notin Faulty

\* What a live daemon remembers of such a card determines the card: nothing a
\* killed process, an older control, another profile or a failing neighbour did
\* to it is left over (Cleanup at the start and in fail, releaseAll, release).
NothingForgotten ==
  svc \in {"starting", "running"} =>
    \A c \in Supported :
      Trusted(c) =>
        hw[c] = IF card[c].lowPower
                THEN Asleep(IF card[c].manualFan THEN control.fan ELSE 0)
                ELSE GivenBack

\* No such card is left saving power by a service that is down or waiting to
\* restart, wherever the daemon was killed and whatever failed: ExecStopPost.
ReleasedWhenDown ==
  svc \in {"inactive", "auto-restart"} =>
    \A c \in Cards : Trusted(c) => ~ Saving(c)

\* No such card is ever in P8 with a core offset or a clock lock applied, even
\* when the daemon is killed in mid-sequence: the entry clears them before it
\* forces P8, the release restores them after.
NoOffsetInP8 ==
  \A c \in Cards :
    Trusted(c) /\ hw[c].pstate = P8 =>
      hw[c].clock = "auto" /\ (HasOffset => hw[c].offset = "zero")

(* What a step may never do *)

\* The fan of such a card goes from one forced speed to another only through
\* automatic control: a new control releases the cards first.
FanThroughAuto ==
  [][\A c \in Cards :
       Trusted(c)' /\ hw[c].fan # 0 /\ hw'[c].fan # 0 => hw'[c].fan = hw[c].fan]_vars

(* What the governor promises *)

Reliable == Supported \ Faulty

ModeOf(r) ==
  IF r.pstate = P8 THEN IF r.fan = 0 THEN "asleep" ELSE "quiet"
  ELSE IF r.fan = 0 THEN "back" ELSE "torn"

Leased == IF active THEN {c \in Reliable : c < control.profile} ELSE {}
ReliableModes == [c \in Reliable |-> ModeOf(hw[c])]
DaemonPhase ==
  CASE svc \in {"starting", "running"}      -> "up"
    [] svc = "stop-post"                    -> "gone"
    [] svc \in {"inactive", "auto-restart"} -> "down"

Lease == INSTANCE CardLease WITH
  Cards <- Reliable, lease <- Leased, mode <- ReliableModes, phase <- DaemonPhase

\* The governor implements CardLease on every card whose own releasing calls
\* work, through every failure of anything else and every kill: it is governed
\* only under a control that counts it, is back whenever the control changes,
\* and never has a forced fan outside P8.
LeaseKept == Lease!Spec

(* Liveness *)

\* A card that stays loaded is given back, clocks and core offset included, by
\* a service that keeps running or keeps being restarted; one that is down for
\* good does not leave it asleep either.
LoadedIsReleased ==
  \A c \in Supported :
    <>[]load[c] => /\ <>[]~ Saving(c)
                   /\ []<>(svc = "running") => <>[](hw[c] = GivenBack)

\* A card that stays hot gets its automatic fan back.
HotIsCooled ==
  \A c \in Cards : <>[]hot[c] => <>[](hw[c].fan = 0)

\* A request that is withdrawn or broken for good ends with every card given
\* back and, while the daemon lives, with no profile published.
WithdrawnIsReleased ==
  <>[](request.kind # "enabled") =>
    /\ \A c \in Cards : <>[]~ Saving(c)
    /\ <>[](svc = "running") => <>[](status.profile = Absent /\ status.fan = Absent)

Asked(ctl) ==
  /\ svc = "running"
  /\ request = [kind |-> "enabled", control |-> ctl]
  /\ Valid(ctl)

\* A valid request that stays is in the end applied by a daemon that lives,
\* whatever has failed before: a failed sync or poll is not the last word.
RequestIsApplied ==
  \A ctl \in Controls : <>[]Asked(ctl) => <>[](active /\ control = ctl)

\* ... and the cards of its profile that stay idle end in P8.
IdleIsSaved ==
  \A ctl \in {k \in Controls : Valid(k)} : \A c \in 0 .. ctl.profile - 1 :
    <>[](Asked(ctl) /\ ~ load[c]) => <>[](hw[c].pstate = P8)
=============================================================================
