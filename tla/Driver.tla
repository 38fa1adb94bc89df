------------------------------- MODULE Driver -------------------------------
(***************************************************************************)
(* The patched driver's life with one CMP 50HX: the module is loaded, the  *)
(* card probed (Rebar), opened (Retrain), closed, removed, reset and       *)
(* probed again, while the BAR0 tools run, the link answers when it likes, *)
(* and the card may drop off the bus.                                      *)
(***************************************************************************)
EXTENDS Rebar, Retrain, Bar0Tools

vars == <<board, rebar, retrain, tools>>

\* The PCI core runs one of probe, remove and reset at a time; a client opens
\* a bound card.
ModuleStep ==
  /\ \/ \E s \in Selectors : Load(s)
     \/ Unload
     \/ step = "closed" /\ Remove
  /\ UNCHANGED <<retrain, tools>>

Reset ==
  /\ place \in {"unloaded", "idle"}
  /\ Flr
  /\ UNCHANGED <<rebar, retrain, tools>>

Client ==
  /\ \/ place = "bound" /\ StartDevice
     \/ StopDevice
  /\ UNCHANGED <<rebar, tools>>

Probe == ProbeStep /\ UNCHANGED <<retrain, tools>>
Start == RetrainStep /\ UNCHANGED <<rebar, tools>>
Tool == ToolStep /\ UNCHANGED <<rebar, retrain>>

RunTool ==
  /\ (\E t \in Tools : Run(t)) \/ ToolKilled
  /\ UNCHANGED <<rebar, retrain>>

Hardware ==
  /\ Dies
  /\ UNCHANGED <<rebar, retrain, tools>>

\* The host loses its power.
Boot ==
  /\ PoweredOn
  /\ place' = "unloaded" /\ Unloaded /\ Forget
  /\ step' = "closed" /\ window' = 1 /\ outcome' = "none"
  /\ saved_rl' = {} /\ errors' = 0 /\ unsettled' = {}
  /\ at' = "exited" /\ status' = 128
  /\ before' = {}
  /\ UNCHANGED tool

Init == BoardInit /\ RebarInit /\ RetrainInit /\ ToolsInit

Next ==
  \/ ModuleStep \/ Reset \/ Client \/ Probe \/ Start \/ Tool \/ RunTool
  \/ Hardware \/ Boot

\* Kernel threads run on; so does a tool.
Spec ==
  Init /\ [][Next]_vars /\ WF_vars(Probe) /\ WF_vars(Start) /\ WF_vars(Tool)

-----------------------------------------------------------------------------
TypeOK == BoardTypeOK /\ RebarTypeOK /\ RetrainTypeOK /\ ToolsTypeOK

\* nv_cmp50_unlock_bar1_resize gives an answering card back: with an error it
\* leaves both XVE registers as it found them, and memory decoding, which it
\* turns off to re-arm BAR1, is on again on every path before anything else
\* of the card is touched.
CardGivenBack ==
  alive => /\ decode \/ place \in Window
           /\ place = "failed" => [cya |-> cya, cfg |-> cfg] = found

\* A card the driver is bound to decodes as much of BAR1 as Linux has given
\* it, if that is the size that was asked for, after any sequence of loads,
\* resets and probes: the register is re-armed and the write was checked.
BoundIsBacked ==
  place = "bound" /\ selector \in 1 .. 8 /\ resource = requested_size =>
    control = resource

\* Once nv_start_device has returned, no end still holds the Retrain bit
\* unless writing it back failed, and a RETRAIN_PASS of an answering card
\* means that both ends aimed at Gen2.
StartSettles ==
  step = "open" /\ alive =>
    /\ rl \subseteq unsettled
    /\ outcome = "pass" => \A end \in Ends : target[end] = "gen2"

\* A BAR0 tool exits with 0 only at a moment when the register holds what it
\* wrote, with the card reset, gone or its decoding turned off anywhere in
\* between; gen2-prepare's value is one the driver's policy check accepts.
ZeroMeansHeld ==
  [][status # 0 /\ status' = 0 =>
       /\ Reached /\ Register = Desired
       /\ tool = "gen2_prepare" => PolicySet(pl)]_vars

\* Neither a probe nor a first open of the card hangs, whether the link or the
\* card answers or not.
CallsReturn ==
  /\ place \in Probing ~> place \notin Probing
  /\ step \in Starting ~> step \notin Starting
=============================================================================
