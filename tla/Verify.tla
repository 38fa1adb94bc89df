------------------------------- MODULE Verify -------------------------------
(***************************************************************************)
(* verify-live.sh: it lists the CMP cards with nvidia-smi, probes RM and   *)
(* runs verify/verify.py for each of them, and then looks at memory, BAR1  *)
(* and the link. Under set -e any command that fails ends it. It calls     *)
(* cards by nvidia-smi's index, and hands that index to the probe, which   *)
(* takes it for a minor number.                                            *)
(***************************************************************************)
EXTENDS Probe, FiniteSets

CONSTANTS
  Cmp,         \* the cards that are CMP 50HX
  Bus,         \* Bus[c]: place of the card on the PCI bus
  Rounds       \* looks at the links; 15 in the script

ASSUME CmpAssumption == Cmp \subseteq Cards /\ IsFiniteSet(Cards)
ASSUME BusAssumption ==
  Bus \in [Cards -> Nat] /\ \A c, d \in Cards : Bus[c] = Bus[d] => c = d
ASSUME RoundsAssumption == Rounds \in Nat \ {0}

\* No other GPU reports both a CMP SKU and the counts of this one.
ASSUME ForeignAssumption ==
  \A c \in Cards \ Cmp : \A a \in Answers[c] : ~ Unlocked(a)

VARIABLES
  stage,       \* place in the script
  gpu_indices, \* what nvidia-smi listed
  todo,        \* the indices whose probe has not ended
  second_pass, \* what systemctl said of the second-pass unit
  cmp_bdfs,    \* what lspci listed
  left,        \* the links still to be read in this round
  all_gen2,    \* the script's variable
  round,       \* rounds begun
  listed,      \* ghost: the CMP cards those indices stood for
  unlocked,    \* ghost: the cards whose answers verify.py has accepted
  sample       \* ghost: the speed last read of each link

script == <<stage, gpu_indices, todo, second_pass, cmp_bdfs, left, all_gen2,
            round, listed, unlocked, sample>>
vars == <<host, probe, script>>

Stages == {"list", "next", "probe", "vram", "unit", "bar1", "round",
           "links", "passed", "failed"}

\* The index of nvidia-smi counts the cards it sees in the order of the bus.
Index(c) == Cardinality({d \in Attached : Bus[d] < Bus[c]})

-----------------------------------------------------------------------------
(* RM and memory. *)

Goto(from, to) == stage = from /\ stage' = to

\* No index found, no nvidia-smi, no artifact of the probe: exit 1.
List ==
  /\ stage = "list"
  /\ listed' = Attached \cap Cmp
  /\ gpu_indices' = {Index(c) : c \in listed'}
  /\ todo' = gpu_indices'
  /\ stage' \in IF gpu_indices' = {} THEN {"failed"} ELSE {"next", "failed"}
  /\ UNCHANGED <<host, probe, second_pass, cmp_bdfs, left, all_gen2, round,
                 unlocked, sample>>

\* The loop over gpu_indices.
StartProbe ==
  /\ Goto("next", "probe")
  /\ \E i \in todo : (\A j \in todo : i <= j) /\ Start(i)
  /\ UNCHANGED <<gpu_indices, todo, second_pass, cmp_bdfs, left, all_gen2,
                 round, listed, unlocked, sample>>

AllProbed ==
  /\ Goto("next", "vram")
  /\ todo = {}
  /\ UNCHANGED <<host, probe, gpu_indices, todo, second_pass, cmp_bdfs, left,
                 all_gen2, round, listed, unlocked, sample>>

\* The probe's exit status, then verify.py.
Accepts == result = 0 /\ report # None /\ verify_py(report)

Accept ==
  /\ Goto("probe", "next")
  /\ pc = "exited" /\ Accepts
  /\ todo' = todo \ {device_index}
  /\ unlocked' = unlocked \cup {origin}
  /\ UNCHANGED <<host, probe, gpu_indices, second_pass, cmp_bdfs, left,
                 all_gen2, round, listed, sample>>

Reject ==
  /\ Goto("probe", "failed")
  /\ pc = "exited" /\ ~ Accepts
  /\ UNCHANGED <<host, probe, gpu_indices, todo, second_pass, cmp_bdfs, left,
                 all_gen2, round, listed, unlocked, sample>>

-----------------------------------------------------------------------------
(* Memory, the unit, BAR1 and lspci: one command each. A total that is     *)
(* missing or too small ends the script.                                   *)

Look(from, to) ==
  /\ stage = from /\ stage' \in {to, "failed"}
  /\ UNCHANGED <<host, probe, gpu_indices, todo, second_pass, left, all_gen2,
                 round, listed, unlocked, sample>>

CheckVram ==
  Look("vram", "unit") /\ UNCHANGED cmp_bdfs

CheckUnit ==
  /\ stage = "unit"
  /\ second_pass' \in {"disabled", "failed", "active"}
  /\ stage' = CASE second_pass' = "disabled" -> "passed"
                [] second_pass' = "failed" -> "failed"
                [] OTHER -> "bar1"
  /\ UNCHANGED <<host, probe, gpu_indices, todo, cmp_bdfs, left, all_gen2,
                 round, listed, unlocked, sample>>

\* The cards on the bus, attached or not. mapfile does not see lspci fail.
CheckBar1 ==
  /\ Look("bar1", "round")
  /\ cmp_bdfs' \in {Cmp, {}}

-----------------------------------------------------------------------------
(* The links: up to Rounds looks at all of them, a second apart.           *)

BeginUncounted ==
  /\ Goto("round", "links")
  /\ left' = cmp_bdfs /\ all_gen2' = TRUE /\ round' = 1
  /\ UNCHANGED <<host, probe, gpu_indices, todo, second_pass, cmp_bdfs, listed,
                 unlocked, sample>>

BeginRound ==
  /\ Goto("round", "links")
  /\ left' = cmp_bdfs /\ all_gen2' = TRUE /\ round' = round + 1
  /\ UNCHANGED <<host, probe, gpu_indices, todo, second_pass, cmp_bdfs, listed,
                 unlocked, sample>>

\* The verdict of a round after a link was read at this speed.
LastIsGen2(speed) == speed = "gen2"
StillGen2(speed) == all_gen2 /\ speed = "gen2"

ReadLink ==
  /\ stage = "links" /\ UNCHANGED stage
  /\ \E c \in left :
       /\ \A d \in left : Bus[c] <= Bus[d]
       /\ left' = left \ {c}
       /\ \E speed \in {"gen1", "gen2"} :
            /\ sample' = [sample EXCEPT ![c] = speed]
            /\ all_gen2' = StillGen2(speed)
  /\ UNCHANGED <<host, probe, gpu_indices, todo, second_pass, cmp_bdfs, round,
                 listed, unlocked>>

\* The file of a card that is gone cannot be read.
ReadFails ==
  /\ Goto("links", "failed") /\ left # {}
  /\ UNCHANGED <<host, probe, gpu_indices, todo, second_pass, cmp_bdfs, left,
                 all_gen2, round, listed, unlocked, sample>>

LastRound == round >= Rounds

EndRound ==
  /\ stage = "links" /\ left = {}
  /\ stage' = CASE all_gen2 -> "passed"
                [] ~all_gen2 /\ LastRound -> "failed"
                [] OTHER -> "round"
  /\ UNCHANGED <<host, probe, gpu_indices, todo, second_pass, cmp_bdfs, left,
                 all_gen2, round, listed, unlocked, sample>>

-----------------------------------------------------------------------------
ScriptStep ==
  \/ List \/ StartProbe \/ AllProbed \/ Accept \/ Reject
  \/ CheckVram \/ CheckUnit \/ CheckBar1
  \/ BeginRound \/ ReadLink \/ ReadFails \/ EndRound

Step == ScriptStep \/ (ProbeStep /\ UNCHANGED script)

Init ==
  /\ ProbeInit
  /\ stage = "list" /\ gpu_indices = {} /\ todo = {}
  /\ second_pass = "unknown" /\ cmp_bdfs = {} /\ left = {} /\ all_gen2 = FALSE
  /\ round = 0 /\ listed = {} /\ unlocked = {}
  /\ sample = [c \in Cards |-> "none"]

Next ==
  \/ Step
  \/ Killed /\ UNCHANGED script
  \/ HostStep /\ UNCHANGED script
  \/ stage \in {"passed", "failed"} /\ UNCHANGED vars

\* The script and the probe are processes; RM answers every call.
Spec == Init /\ [][Next]_vars /\ WF_vars(Step)

-----------------------------------------------------------------------------
TypeOK ==
  /\ ProbeTypeOK
  /\ stage \in Stages
  /\ gpu_indices \subseteq Nat /\ todo \subseteq gpu_indices
  /\ second_pass \in {"unknown", "disabled", "failed", "active"}
  /\ cmp_bdfs \subseteq Cmp /\ left \subseteq cmp_bdfs
  /\ all_gen2 \in BOOLEAN /\ round \in 0 .. Rounds /\ listed \subseteq Cmp
  /\ unlocked \subseteq Cards
  /\ sample \in [Cards -> {"none", "gen1", "gen2"}]

\* PASS_CMP50_LIVE after nvidia-smi has listed all CMP cards means that RM of
\* every one of them has answered as verify.py wants, although the probes went
\* to the cards whose minor numbers were the listed indices, whatever was
\* unbound, bound or started again between them.
PassIsComplete ==
  stage = "passed" /\ listed = Cmp => unlocked = Cmp

\* PASS_CMP50_LIVE beside an enabled second pass means that each link that
\* lspci listed was at Gen2 when it was last read.
PassIsGen2 ==
  stage = "passed" /\ second_pass = "active" =>
    \A c \in cmp_bdfs : sample[c] = "gen2"

\* The abstract probe: at the moment of printing, one card, the asked one.
Atomic == INSTANCE AtomicProbe
  WITH asked <- IF pc \in Ended THEN None ELSE device_index

AtomicReports == Atomic!Spec

\* A verification ends, whatever the driver answers.
VerificationEnds == <>(stage \in {"passed", "failed"})
=============================================================================
