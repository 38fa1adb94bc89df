---------------------------- MODULE MCSecondPass ----------------------------
(***************************************************************************)
(* What the README says of the second pass and the script does not do,     *)
(* stated over the model of SecondPass.tla.                                *)
(***************************************************************************)
EXTENDS SecondPass

\* "udev is restored after partial failures and termination": as long as the
\* commands of restore_udev work and nobody sends SIGKILL, the udev units are
\* off only while a run is there that will restore them.
UdevRestoredAfterTermination ==
  damage \in {"none", "signalled"} =>
    \/ masked = policy /\ running = Units \ policy
    \/ \E p \in Procs : Restoring(p)

\* "The helper refuses a module-wide second pass while NVIDIA device files are
\* in use": no card is unbound while an application holds one open.
RunningAppUndisturbed == [][inUse => bound \subseteq bound']_vars
=============================================================================
