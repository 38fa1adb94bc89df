----------------------------- MODULE Bar0Tools ------------------------------
(***************************************************************************)
(* tools/cmp50-bar0-link-rate.c and tools/cmp50-bar0-gen2-prepare.c: each  *)
(* reads one BAR0 register of a card, writes it, reads it again and says   *)
(* by its exit status whether the register holds what was written. They    *)
(* are run by hand, one at a time, at any moment of the driver's life.     *)
(***************************************************************************)
EXTENDS Board

Tools == {"link_rate", "gen2_prepare"}

VARIABLES
  tool,     \* the one that runs or ran last
  at,       \* where it is
  before,   \* what gen2-prepare read first
  status    \* its exit status, 128 while it runs and after a signal

tools == <<tool, at, before, status>>

AllOnes == [link_rate |-> Ones, gen2_prepare |-> Bits]
Register == IF tool = "link_rate" THEN link_rate ELSE pl
Read == Seen(Register, AllOnes[tool])

\* PL_LINK_RATE_POLICY_MASK and PL_LINK_RATE_GEN2.
DesiredUnmasked == IF tool = "link_rate" THEN 6 ELSE before \cup {18}
Desired == IF tool = "link_rate" THEN 6 ELSE (before \ {17, 18, 20}) \cup {18}

ExitsWith(code) ==
  at' = "exited" /\ status' = code /\ before' = {}

\* The arguments, the IDs of the device they name, and its resource0: exit 2,
\* 3 or 4, or on with the card's BAR0.
Run(t) ==
  /\ at = "exited" /\ tool' = t
  /\ \/ at' = "read" /\ status' = 128 /\ UNCHANGED before
     \/ \E code \in {2, 3, 4} : ExitsWith(code)
  /\ UNCHANGED board

ReadBefore ==
  /\ at = "read"
  /\ IF Read = AllOnes[tool]
     THEN ExitsWith(5)
     ELSE /\ at' = "write" /\ UNCHANGED status
          /\ before' = IF tool = "link_rate" THEN {} ELSE Read
  /\ UNCHANGED <<board, tool>>

WriteDesired ==
  /\ at = "write" /\ at' = "readback"
  /\ IF tool = "link_rate"
     THEN link_rate' = Written(link_rate, Desired) /\ UNCHANGED pl
     ELSE pl' = Written(pl, Desired) /\ UNCHANGED link_rate
  /\ UNCHANGED <<bar, link, tool, before, status>>

\* Exit 0 or 5.
ReadAfter ==
  /\ at = "readback"
  /\ ExitsWith(IF Read = Desired THEN 0 ELSE 5)
  /\ UNCHANGED <<board, tool>>

ToolStep == ReadBefore \/ WriteDesired \/ ReadAfter

\* A signal.
ToolKilled ==
  /\ at # "exited" /\ ExitsWith(128)
  /\ UNCHANGED <<board, tool>>

ToolsInit ==
  /\ tool \in Tools /\ at = "exited" /\ before = {}
  /\ status = 128

ToolsTypeOK ==
  /\ tool \in Tools /\ at \in {"exited", "read", "write", "readback"}
  /\ before \subseteq Bits
  /\ status \in {0, 2, 3, 4, 5, 128}
=============================================================================
