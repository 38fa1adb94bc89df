----------------------------- MODULE MCGovernor -----------------------------
(***************************************************************************)
(* What idle-governor/README.md says of the governor and the code does not *)
(* do, stated over the model of Governor.tla.                              *)
(***************************************************************************)
EXTENDS Governor

\* "The daemon writes active-profile, active-fan-percent, or last-error beside
\* the control file so the panel shows the real host state": a service that is
\* down, with nothing forced on any card, publishes no profile.
PanelSeesRealState == svc = "inactive" => status.profile = Absent

\* "Restore NVIDIA automatic fan control on load, overheat, invalid
\* configuration, service stop, or error": a card that stays hot under a
\* daemon that stays active ends with its automatic fan.
HotIsCooledAfterError ==
  \A c \in Cards :
    <>[](hot[c] /\ active /\ svc = "running") => <>[](hw[c].fan = 0)
=============================================================================
