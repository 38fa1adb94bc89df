------------------------------ MODULE Retrain -------------------------------
(***************************************************************************)
(* 04-cmp50-pcie-gen2.patch: nv_cmp50hx_retrain_gen2, called when the      *)
(* first client opens the card and RM has been initialized. It asks for    *)
(* Recovery at both ends of the link, looks for two seconds, asks once     *)
(* more, looks again, and goes on whatever it saw. Of Link Control only    *)
(* the Retrain bit is kept: the rest is written back as it was read.       *)
(***************************************************************************)
EXTENDS Board

CONSTANT MaxErrors \* bound: config-space accesses that fail until power comes

ASSUME ErrorsAssumption == MaxErrors \in Nat

VARIABLES
  step,      \* where nv_start_device is
  window,    \* which of the two looks
  outcome,   \* what the function logs
  saved_rl,  \* ends whose Retrain bit was read as set
  errors,    \* accesses that failed since power came
  unsettled  \* ghost: ends whose Link Control could not be written back

retrain == <<step, window, outcome, saved_rl, errors, unsettled>>

\* The labels of the function, each with its second write.
Restoring == {"restore_ctl", "restore_ctl_upstream",
              "restore_ctl_unmap", "restore_ctl_unmap_gpu"}
Starting == {"policy", "save", "target_gpu", "target_upstream",
             "check_targets", "rate", "ask_gpu", "ask_upstream", "poll"}
            \cup Restoring
Steps == {"closed", "open"} \cup Starting

GoesOn(from, to) == step = from /\ step' = to

\* First open: RM starts, and its firmware sets the policy, or does not.
StartDevice ==
  /\ GoesOn("closed", "policy")
  /\ pl' \in Policies \cup {pl}
  /\ UNCHANGED <<bar, link_rate, link, window, outcome, saved_rl, errors,
                 unsettled>>

\* Of the two policy bits only 18 is set.
PolicySet(value) == value \cap {17, 18} = {18}

\* No bridge above the card, no mapping, another of the three registers wrong,
\* or this one: the link is left as it is.
CheckPolicy ==
  /\ step = "policy"
  /\ step' \in {"open"} \cup (IF PolicySet(Seen(pl, Bits)) THEN {"save"} ELSE {})
  /\ UNCHANGED <<board, window, outcome, saved_rl, errors, unsettled>>

\* Link Control and Link Control 2 of both ends.
SaveControls ==
  /\ GoesOn("save", "target_gpu")
  /\ saved_rl' = rl
  /\ UNCHANGED <<board, window, outcome, errors, unsettled>>

\* An end takes a write if it is there.
Takes(end) == end = "upstream" \/ alive

Aim(end) ==
  /\ target' = IF Takes(end) THEN [target EXCEPT ![end] = "gen2"] ELSE target
  /\ UNCHANGED <<bar, pl, link_rate, rl, window, outcome, saved_rl,
                 errors, unsettled>>

TargetGpu == GoesOn("target_gpu", "target_upstream") /\ Aim("gpu")
TargetUpstream == GoesOn("target_upstream", "check_targets") /\ Aim("upstream")

\* A card that is gone reads as ones, no speed.
TargetsTaken == alive /\ \A end \in Ends : target[end] = "gen2"

CheckTargets ==
  /\ step = "check_targets"
  /\ step' = IF TargetsTaken THEN "rate" ELSE "restore_ctl_unmap"
  /\ UNCHANGED <<board, window, outcome, saved_rl, errors, unsettled>>

WriteRate ==
  /\ GoesOn("rate", "ask_gpu")
  /\ link_rate' = Written(link_rate, 6)
  /\ UNCHANGED <<bar, pl, link, window, outcome, saved_rl, errors,
                 unsettled>>

Ask(end) ==
  /\ rl' = IF Takes(end) THEN rl \cup {end} ELSE rl
  /\ UNCHANGED <<bar, pl, link_rate, target, window, outcome, saved_rl,
                 errors, unsettled>>

AskGpu == GoesOn("ask_gpu", "ask_upstream") /\ Ask("gpu")
AskUpstream == GoesOn("ask_upstream", "poll") /\ Ask("upstream")

\* An access fails: nothing to write back yet, or both ends.
AccessFails ==
  /\ errors < MaxErrors /\ errors' = errors + 1
  /\ \/ GoesOn("save", "open")
     \/ /\ step \in {"target_gpu", "target_upstream", "check_targets"}
        /\ step' = "restore_ctl_unmap"
     \/ step \in {"ask_gpu", "ask_upstream"} /\ step' = "restore_ctl"
  /\ UNCHANGED <<board, window, outcome, saved_rl, unsettled>>

\* A look sees 5 GT/s or more. It may at any time: the link answers when it
\* likes, and a card that is gone reads as ones.
PassAndGo ==
  /\ GoesOn("poll", "open")
  /\ outcome' = "pass"
  /\ UNCHANGED <<board, window, saved_rl, errors, unsettled>>

Pass ==
  /\ GoesOn("poll", "restore_ctl")
  /\ outcome' = "pass"
  /\ UNCHANGED <<board, window, saved_rl, errors, unsettled>>

\* 200 looks are over.
AlwaysRetry == TRUE
MayRetry == window = 1

RetryUncounted ==
  /\ GoesOn("poll", "ask_gpu") /\ MayRetry
  /\ UNCHANGED <<board, window, outcome, saved_rl, errors, unsettled>>

Retry ==
  /\ GoesOn("poll", "ask_gpu") /\ MayRetry
  /\ window' = window + 1
  /\ UNCHANGED <<board, outcome, saved_rl, errors, unsettled>>

GiveUp ==
  /\ GoesOn("poll", "restore_ctl") /\ ~ MayRetry
  /\ outcome' = "fail"
  /\ UNCHANGED <<board, window, saved_rl, errors, unsettled>>

\* Link Control of an end is written as it was read. An error is ignored.
WriteBack(from, end, to, works) ==
  /\ GoesOn(from, to)
  /\ rl' = CASE ~ (works /\ Takes(end)) -> rl
             [] end \in saved_rl -> rl \cup {end}
             [] OTHER -> rl \ {end}
  /\ IF works THEN UNCHANGED <<errors, unsettled>>
              ELSE /\ errors < MaxErrors /\ errors' = errors + 1
                   /\ unsettled' = unsettled \cup {end}
  /\ UNCHANGED <<bar, pl, link_rate, target, window, outcome, saved_rl>>

Restore(works) ==
  \/ WriteBack("restore_ctl", "gpu", "restore_ctl_upstream", works)
  \/ WriteBack("restore_ctl_upstream", "upstream", "open", works)
  \/ WriteBack("restore_ctl_unmap", "upstream", "restore_ctl_unmap_gpu", works)
  \/ WriteBack("restore_ctl_unmap_gpu", "gpu", "open", works)

\* The last client closes the card.
StopDevice ==
  /\ GoesOn("open", "closed")
  /\ window' = 1 /\ outcome' = "none" /\ saved_rl' = {}
  /\ UNCHANGED <<board, errors, unsettled>>

RetrainStep ==
  \/ CheckPolicy \/ SaveControls \/ TargetGpu \/ TargetUpstream \/ CheckTargets
  \/ WriteRate \/ AskGpu \/ AskUpstream \/ AccessFails \/ Pass \/ Retry
  \/ GiveUp \/ \E works \in BOOLEAN : Restore(works)

RetrainInit ==
  /\ step = "closed" /\ window = 1 /\ outcome = "none"
  /\ saved_rl = {} /\ errors = 0 /\ unsettled = {}

RetrainTypeOK ==
  /\ step \in Steps /\ window \in {1, 2}
  /\ outcome \in {"none", "pass", "fail"}
  /\ saved_rl \subseteq Ends
  /\ errors \in 0 .. MaxErrors /\ unsettled \subseteq Ends
=============================================================================
