----------------------------- MODULE MCInstall -----------------------------
(***************************************************************************)
(* The staging tools on a small host, and a claim of the documents that    *)
(* they do not keep.                                                       *)
(***************************************************************************)
EXTENDS Install, TLC

\* Backups differ only by the time they were taken at.
BackupSymmetry == Permutations(Backups)

\* "The rollback restores the previous nouveau policy" (README.md:127-128): it
\* does so only for the backups of installs that were given --disable-nouveau.
PreviousPolicyRestored ==
  pc = "rolledback" => blacklist = before[slot].image.blacklist
=============================================================================
