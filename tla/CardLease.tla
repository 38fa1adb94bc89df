------------------------------ MODULE CardLease ------------------------------
(***************************************************************************)
(* What the idle governor promises about every card whose own releasing    *)
(* calls work, whatever fails or is killed elsewhere: the card saves power *)
(* only under a lease the panel has granted on it; every change of leases  *)
(* passes through a moment in which all cards are back; and a daemon that  *)
(* dies leaves cards on their way back only until the unit has repaired    *)
(* them.  Governor.tla implements it.                                      *)
(***************************************************************************)
CONSTANT Cards

VARIABLES
  lease,  \* the cards of the control being applied, none without one
  mode,   \* how much of the card is forced
  phase   \* the daemon is down, up, or gone and not cleaned up after

vars == <<lease, mode, phase>>

\* A card at its ease, in P8, and in P8 with a forced fan: a fan is never
\* forced on a card that may run at full power.
Modes == {"back", "asleep", "quiet"}
AllBack == [c \in Cards |-> "back"]

TypeOK ==
  /\ lease \subseteq Cards
  /\ mode \in [Cards -> Modes]
  /\ phase \in {"down", "up", "gone"}

Init ==
  /\ lease = {}
  /\ mode = AllBack
  /\ phase = "down"

-----------------------------------------------------------------------------
Start ==
  /\ phase = "down"
  /\ phase' = "up"
  /\ mode' = AllBack
  /\ UNCHANGED lease

\* A new lease, another one, or none at all.
Grant ==
  /\ phase = "up"
  /\ lease' \in SUBSET Cards
  /\ mode' = AllBack
  /\ UNCHANGED phase

Govern(c) ==
  /\ phase = "up"
  /\ c \in lease
  /\ mode' \in {[mode EXCEPT ![c] = m] : m \in Modes}
  /\ UNCHANGED <<lease, phase>>

\* How far a release that is cut short may leave a card in mode m.
OnTheWayBack(m) ==
  CASE m = "back"   -> {"back"}
    [] m = "asleep" -> {"back", "asleep"}
    [] m = "quiet"  -> Modes

\* The daemon ends anywhere: in a release, or while it governs one card.
Die ==
  /\ phase = "up"
  /\ phase' = "gone"
  /\ lease' = {}
  /\ mode' \in [Cards -> Modes]
  /\ \E governed \in SUBSET lease :
       /\ \A c, d \in governed : c = d
       /\ \A c \in Cards \ governed : mode'[c] \in OnTheWayBack(mode[c])

NeverUp ==
  /\ phase = "down"
  /\ phase' = "gone"
  /\ UNCHANGED <<lease, mode>>

Repair ==
  /\ phase = "gone"
  /\ phase' = "down"
  /\ mode' = AllBack
  /\ UNCHANGED lease

Next == Start \/ Grant \/ (\E c \in Cards : Govern(c)) \/ Die \/ NeverUp \/ Repair

Spec == Init /\ [][Next]_vars

-----------------------------------------------------------------------------
\* Only a leased card saves power under a live daemon, and none under a unit
\* that is down.
OnlyLeased ==
  /\ phase = "up" => \A c \in Cards \ lease : mode[c] = "back"
  /\ phase = "down" => lease = {} /\ mode = AllBack
  /\ phase = "gone" => lease = {}
=============================================================================
