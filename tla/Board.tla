------------------------------- MODULE Board --------------------------------
(***************************************************************************)
(* A CMP 50HX and the port above it, as far as the driver patches and the  *)
(* BAR0 tools touch them. All of it is external: it is what their reads,   *)
(* writes and comments take for granted.                                   *)
(***************************************************************************)
EXTENDS Naturals

CONSTANTS
  Sizes,     \* BAR1 sizes, in the encoding of the ReBAR capability
  Selectors, \* values of cmp50_rebar_size a driver is loaded with
  Policies,  \* what firmware leaves in PL_LINK_RATE
  Ones       \* a register that nobody answers for

\* The encoding an FLR leaves: 256 MiB.
FlrSize == 8
\* The bits of PL_LINK_RATE the code tells apart, and one for the rest.
Bits == {17, 18, 20, 31}
\* The two ends of the link.
Ends == {"gpu", "upstream"}

ASSUME SizesAssumption == Sizes \subseteq Nat /\ FlrSize \in Sizes
ASSUME SelectorsAssumption ==
  Selectors \subseteq Nat /\ \A s \in Selectors \cap (1 .. 8) : s + 6 \in Sizes
ASSUME PoliciesAssumption == Policies \subseteq SUBSET Bits /\ Policies # {}
ASSUME OnesAssumption == Ones \notin Nat \cup {"locked", "unlock"}

VARIABLES
  alive,     \* the card answers on the bus
  decode,    \* its memory decoding is on
  cya, cfg,  \* the two XVE registers; cfg has effect as a size selector
  control,   \* the size in its physical ReBAR control register
  resource,  \* the size Linux has given its BAR1
  pl,        \* PL_LINK_RATE, as the set of its bits
  link_rate, \* the internal command register
  target,    \* target speed of each end
  rl         \* ends whose Retrain bit is set

bar == <<alive, decode, cya, cfg, control, resource>>
link == <<target, rl>>
board == <<bar, pl, link_rate, link>>

\* BAR0 is reached only with decoding on; other reads give ones, writes are lost.
Reached == alive /\ decode
Seen(value, ones) == IF Reached THEN value ELSE ones

Written(old, new) == IF Reached THEN new ELSE old

BoardTypeOK ==
  /\ alive \in BOOLEAN /\ decode \in BOOLEAN
  /\ cya \in {"locked", "unlock"} /\ cfg \in Nat
  /\ control \in Sizes /\ resource \in Sizes
  /\ pl \subseteq Bits /\ link_rate \in {0, 6}
  /\ target \in [Ends -> {"gen1", "gen2"}] /\ rl \subseteq Ends

BoardInit ==
  /\ alive = TRUE /\ decode = TRUE
  /\ cya = "locked" /\ cfg = 0
  /\ control = FlrSize /\ resource = FlrSize
  /\ pl \in Policies /\ link_rate = 0
  /\ target = [end \in Ends |-> "gen1"] /\ rl = {}

\* Power comes: firmware has sized BAR1 and left a policy.
PoweredOn ==
  /\ alive' = TRUE /\ decode' = TRUE
  /\ cya' = "locked" /\ cfg' = 0
  /\ control' = FlrSize /\ resource' = FlrSize
  /\ pl' \in Policies /\ link_rate' = 0
  /\ target' = [end \in Ends |-> "gen1"] /\ rl' = {}

\* The card no longer answers; only power helps (docs/20GB_RU.md:182-187).
Dies ==
  /\ alive /\ alive' = FALSE
  /\ UNCHANGED <<decode, cya, cfg, control, resource, pl, link_rate, link>>

\* FLR: the physical BAR1 register goes back to 256 MiB, Linux keeps its
\* resource. The XVE registers and the internal ones may keep their values.
Flr ==
  /\ alive
  /\ control' = FlrSize
  /\ \/ cya' = "locked" /\ cfg' = 0 /\ pl' \in Policies /\ link_rate' = 0
     \/ UNCHANGED <<cya, cfg, pl, link_rate>>
  /\ UNCHANGED <<alive, decode, resource, link>>
=============================================================================
