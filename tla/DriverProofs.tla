---------------------------- MODULE DriverProofs ----------------------------
(***************************************************************************)
(* The safety of probing, starting and poking a card, for every set of     *)
(* sizes, selectors and firmware policies and any number of failures.      *)
(***************************************************************************)
EXTENDS Driver, TLAPS

\* The probe after it has read the XVE registers, and where it has made cfg
\* writable.
HasSaved == {"cya", "cfg", "check_cfg", "check_sizes", "find_entry",
             "decode_off", "restore_cfg", "restore_cya"} \cup Window
Unlocked == HasSaved \ {"cya", "restore_cya"}

\* What an error path needs to give an answering card back.
Restorable ==
  alive =>
    /\ decode \/ place \in Window
    /\ place \in HasSaved => saved = found
    /\ place \in {"save", "cya", "failed"} => cya = found.cya
    /\ place \in {"save", "cya", "restore_cya", "failed"} => cfg = found.cfg
    /\ place \in Unlocked => cya = "unlock"

\* From the check of the entry on the register has the size, if Linux has.
Sized ==
  /\ place \in HasSaved \cup {"save", "enable"} => selector \in 1 .. 8
  /\ place \in {"enable", "resize", "bound"} /\ selector \in 1 .. 8 =>
       (resource = requested_size => control = requested_size)
  /\ place = "decode_on" /\ rearmed => control = requested_size

\* Retrain bits are asked for only here, and here an end is still to be
\* written back.
Asking == {"ask_gpu", "ask_upstream", "poll"}
ToWriteBack ==
  CASE step \in Asking \cup {"restore_ctl", "restore_ctl_unmap"} -> Ends
    [] step = "restore_ctl_upstream" -> {"upstream"}
    [] step = "restore_ctl_unmap_gpu" -> {"gpu"}
    [] OTHER -> {}

\* What makes a start settle.
Settling ==
  alive =>
    /\ rl \subseteq unsettled \cup ToWriteBack
    /\ saved_rl \subseteq unsettled
    /\ step \in Asking \cup {"rate"} \/ outcome = "pass" =>
         \A end \in Ends : target[end] = "gen2"

Inv == TypeOK /\ Restorable /\ Sized /\ Settling

-----------------------------------------------------------------------------
(* Types. *)

LEMMA ProbeTypes ==
  ASSUME BoardTypeOK, RebarTypeOK, Restorable, Sized, ProbeStep
  PROVE  BoardTypeOK' /\ RebarTypeOK'
<1> USE SizesAssumption, SelectorsAssumption
    DEF BoardTypeOK, RebarTypeOK, Goes, board, bar, link, module
<1>1. CASE BeginProbe
  BY <1>1 DEF BeginProbe, Places, Probing
<1>2. CASE Save
  BY <1>2 DEF Save, Seen, Places, Probing
<1>3. CASE UnlockCya
  BY <1>3 DEF UnlockCya, Written, Places, Probing
<1>4. CASE WriteCfg
  BY <1>4 DEF WriteCfg, Written, Places, Probing
<1>5. CASE CheckCfg
  BY <1>5 DEF CheckCfg, Places, Probing
<1>6. CASE CheckSizes
  BY <1>6 DEF CheckSizes, Places, Probing
<1>7. CASE FindEntry
  BY <1>7 DEF FindEntry, Places, Probing
<1>8. CASE DecodeOff
  BY <1>8 DEF DecodeOff, SetDecode, Places, Probing, Window
<1>9. CASE WriteControl
  BY <1>9 DEF WriteControl, Sized, HasSaved, requested_size, Places, Probing, Window
<1>10. CASE ReadControl
  BY <1>10 DEF ReadControl, Places, Probing, Window
<1>11. CASE DecodeOn
  BY <1>11 DEF DecodeOn, SetDecode, Places, Probing
<1>12. CASE RestoreCfg
  BY <1>12 DEF RestoreCfg, Restorable, HasSaved, Reached, Written, Places, Probing
<1>13. CASE RestoreCya
  BY <1>13 DEF RestoreCya, Restorable, HasSaved, Reached, Written, Places, Probing
<1>14. CASE Enable
  BY <1>14 DEF Enable, Forget, NotRead, Places, Probing
<1>15. CASE Resize
  BY <1>15 DEF Resize, Places, Probing
<1>16. CASE Returns
  BY <1>16 DEF Returns, Forget, NotRead, Places, Probing
<1>17. QED
  BY <1>1, <1>2, <1>3, <1>4, <1>5, <1>6, <1>7, <1>8, <1>9, <1>10, <1>11, <1>12,
     <1>13, <1>14, <1>15, <1>16 DEF ProbeStep

LEMMA StartTypes ==
  ASSUME BoardTypeOK, RetrainTypeOK, RetrainStep
  PROVE  BoardTypeOK' /\ RetrainTypeOK'
<1> USE ErrorsAssumption
    DEF BoardTypeOK, RetrainTypeOK, GoesOn, board, bar, link, Steps, Starting,
        Restoring
<1>1. CASE CheckPolicy
  BY <1>1 DEF CheckPolicy
<1>2. CASE SaveControls
  BY <1>2 DEF SaveControls
<1>3. CASE TargetGpu
  BY <1>3 DEF TargetGpu, Aim, Ends
<1>4. CASE TargetUpstream
  BY <1>4 DEF TargetUpstream, Aim, Ends
<1>5. CASE CheckTargets
  BY <1>5 DEF CheckTargets
<1>6. CASE WriteRate
  BY <1>6 DEF WriteRate, Written
<1>7. CASE AskGpu
  BY <1>7 DEF AskGpu, Ask, Ends
<1>8. CASE AskUpstream
  BY <1>8 DEF AskUpstream, Ask, Ends
<1>9. CASE AccessFails
  BY <1>9 DEF AccessFails
<1>10. CASE Pass
  BY <1>10 DEF Pass
<1>11. CASE Retry
  BY <1>11 DEF Retry, MayRetry
<1>12. CASE GiveUp
  BY <1>12 DEF GiveUp
<1>13. ASSUME NEW works \in BOOLEAN, Restore(works)
       PROVE  BoardTypeOK' /\ RetrainTypeOK'
  <2>1. ASSUME NEW from \in Steps, NEW end \in Ends, NEW to \in Steps,
               WriteBack(from, end, to, works)
        PROVE  BoardTypeOK' /\ RetrainTypeOK'
    BY <2>1 DEF WriteBack
  <2>2. QED
    BY <1>13, <2>1 DEF Restore, Ends
<1>14. QED
  BY <1>1, <1>2, <1>3, <1>4, <1>5, <1>6, <1>7, <1>8, <1>9, <1>10, <1>11, <1>12,
     <1>13 DEF RetrainStep

LEMMA ToolTypes ==
  ASSUME BoardTypeOK, ToolsTypeOK,
         ToolStep \/ (\E t \in Tools : Run(t)) \/ ToolKilled
  PROVE  BoardTypeOK' /\ ToolsTypeOK'
<1> USE DEF BoardTypeOK, ToolsTypeOK, ExitsWith, board, bar, link
<1>1. CASE ReadBefore
  BY <1>1 DEF ReadBefore, Read, Register, Seen
<1>2. CASE WriteDesired
  <2>1. ASSUME tool = "link_rate"
        PROVE  pl' \subseteq Bits /\ link_rate' \in {0, 6}
    BY <1>2, <2>1 DEF WriteDesired, Desired, Written
  <2>2. ASSUME tool # "link_rate"
        PROVE  pl' \subseteq Bits /\ link_rate' \in {0, 6}
    <3>1. Desired \subseteq Bits
      BY <2>2 DEF Desired, Bits
    <3>2. QED
      BY <1>2, <2>2, <3>1 DEF WriteDesired, Written
  <2>3. QED
    BY <1>2, <2>1, <2>2 DEF WriteDesired
<1>3. CASE ReadAfter
  BY <1>3 DEF ReadAfter
<1>4. CASE \E t \in Tools : Run(t)
  BY <1>4 DEF Run
<1>5. CASE ToolKilled
  BY <1>5 DEF ToolKilled
<1>6. QED
  BY <1>1, <1>2, <1>3, <1>4, <1>5 DEF ToolStep

LEMMA TypesKept ==
  ASSUME Inv, [Next]_vars
  PROVE  TypeOK'
<1> USE DEF Inv, TypeOK
<1>1. CASE ModuleStep
  <2>1. RebarTypeOK'
    BY <1>1, SelectorsAssumption
    DEF ModuleStep, Load, Unload, Unloaded, Remove, Goes, RebarTypeOK, Places, module
  <2>2. BoardTypeOK'
    BY <1>1 DEF ModuleStep, Load, Unload, Remove, BoardTypeOK, board, bar, link
  <2>3. QED
    BY <1>1, <2>1, <2>2 DEF ModuleStep, RetrainTypeOK, ToolsTypeOK, retrain, tools
<1>2. CASE Reset
  BY <1>2, SizesAssumption, PoliciesAssumption
  DEF Reset, Flr, BoardTypeOK, RebarTypeOK, RetrainTypeOK, ToolsTypeOK, link,
      rebar, module, retrain, tools
<1>3. CASE Client
  BY <1>3, PoliciesAssumption
  DEF Client, StartDevice, StopDevice, GoesOn, BoardTypeOK, RebarTypeOK,
      RetrainTypeOK, ToolsTypeOK, Steps, Starting, board, bar, link, rebar, module,
      tools
<1>4. CASE Probe
  BY <1>4, ProbeTypes DEF Probe, RetrainTypeOK, ToolsTypeOK, retrain, tools
<1>5. CASE Start
  BY <1>5, StartTypes DEF Start, RebarTypeOK, ToolsTypeOK, rebar, module, tools
<1>6. CASE Tool
  BY <1>6, ToolTypes DEF Tool, RebarTypeOK, RetrainTypeOK, rebar, module, retrain
<1>7. CASE RunTool
  BY <1>7, ToolTypes DEF RunTool, RebarTypeOK, RetrainTypeOK, rebar, module, retrain
<1>8. CASE Hardware
  <2>1. BoardTypeOK'
    BY <1>8 DEF Hardware, Dies, BoardTypeOK, link
  <2>2. QED
    BY <1>8, <2>1 DEF Hardware, RebarTypeOK, RetrainTypeOK, ToolsTypeOK, rebar,
                      module, retrain, tools
<1>9. CASE Boot
  <2>1. BoardTypeOK'
    BY <1>9, SizesAssumption, PoliciesAssumption DEF Boot, PoweredOn, BoardTypeOK
  <2>2. RebarTypeOK'
    BY <1>9 DEF Boot, Unloaded, Forget, NotRead, RebarTypeOK, Places
  <2>3. RetrainTypeOK' /\ ToolsTypeOK'
    BY <1>9, ErrorsAssumption DEF Boot, RetrainTypeOK, ToolsTypeOK, Steps
  <2>4. QED
    BY <2>1, <2>2, <2>3
<1>10. CASE UNCHANGED vars
  BY <1>10 DEF vars, BoardTypeOK, RebarTypeOK, RetrainTypeOK, ToolsTypeOK, board,
               bar, link, rebar, module, retrain, tools
<1>11. QED
  BY <1>1, <1>2, <1>3, <1>4, <1>5, <1>6, <1>7, <1>8, <1>9, <1>10 DEF Next

-----------------------------------------------------------------------------
(* The probe. *)

\* Nobody else touches what it works with.
LEMMA ProbeAlone ==
  ASSUME Client \/ Start \/ Tool \/ RunTool \/ UNCHANGED vars
  PROVE  /\ UNCHANGED <<alive, decode, cya, cfg, control, resource>>
         /\ UNCHANGED <<place, selector, saved, rearmed, found>>
<1> USE DEF board, bar, link, rebar, module
<1>1. CASE Client
  BY <1>1 DEF Client, StartDevice, StopDevice
<1>2. CASE Start
  BY <1>2 DEF Start, RetrainStep, CheckPolicy, SaveControls, TargetGpu,
              TargetUpstream, Aim, CheckTargets, WriteRate, AskGpu, AskUpstream, Ask,
              AccessFails, Pass, Retry, GiveUp, Restore, WriteBack
<1>3. CASE Tool
  BY <1>3 DEF Tool, ToolStep, ReadBefore, WriteDesired, ReadAfter
<1>4. CASE RunTool
  BY <1>4 DEF RunTool, Run, ToolKilled
<1>5. CASE UNCHANGED vars
  BY <1>5 DEF vars
<1>6. QED
  BY <1>1, <1>2, <1>3, <1>4, <1>5

LEMMA ProbeRestorable ==
  ASSUME BoardTypeOK, RebarTypeOK, Restorable, ProbeStep
  PROVE  Restorable'
<1> USE DEF Restorable, RebarTypeOK, HasSaved, Unlocked, Window, Goes, board, bar,
            link, module
<1>1. CASE BeginProbe
  BY <1>1 DEF BeginProbe
<1>2. CASE Save
  BY <1>2 DEF Save, Seen, Reached
<1>3. CASE UnlockCya
  BY <1>3 DEF UnlockCya, Written, Reached
<1>4. CASE WriteCfg
  BY <1>4 DEF WriteCfg
<1>5. CASE CheckCfg
  BY <1>5 DEF CheckCfg
<1>6. CASE CheckSizes
  BY <1>6 DEF CheckSizes
<1>7. CASE FindEntry
  BY <1>7 DEF FindEntry
<1>8. CASE DecodeOff
  BY <1>8 DEF DecodeOff, SetDecode
<1>9. CASE WriteControl
  BY <1>9 DEF WriteControl
<1>10. CASE ReadControl
  BY <1>10 DEF ReadControl
<1>11. CASE DecodeOn
  BY <1>11 DEF DecodeOn, SetDecode
<1>12. CASE RestoreCfg
  BY <1>12 DEF RestoreCfg, Written, Reached
<1>13. CASE RestoreCya
  BY <1>13 DEF RestoreCya, Written, Reached
<1>14. CASE Enable
  BY <1>14 DEF Enable
<1>15. CASE Resize
  BY <1>15 DEF Resize
<1>16. CASE Returns
  BY <1>16 DEF Returns
<1>17. QED
  BY <1>1, <1>2, <1>3, <1>4, <1>5, <1>6, <1>7, <1>8, <1>9, <1>10, <1>11, <1>12,
     <1>13, <1>14, <1>15, <1>16 DEF ProbeStep

LEMMA ProbeSized ==
  ASSUME BoardTypeOK, RebarTypeOK, Sized, ProbeStep
  PROVE  Sized'
<1> USE SizesAssumption, SelectorsAssumption
    DEF Sized, BoardTypeOK, RebarTypeOK, HasSaved, Window, Goes, requested_size,
        board, bar, link, module
<1>1. CASE BeginProbe
  BY <1>1 DEF BeginProbe
<1>2. CASE Save
  BY <1>2 DEF Save
<1>3. CASE UnlockCya
  BY <1>3 DEF UnlockCya
<1>4. CASE WriteCfg
  BY <1>4 DEF WriteCfg
<1>5. CASE CheckCfg
  BY <1>5 DEF CheckCfg
<1>6. CASE CheckSizes
  BY <1>6 DEF CheckSizes
<1>7. CASE FindEntry
  BY <1>7 DEF FindEntry, NeedsRearm
<1>8. CASE DecodeOff
  BY <1>8 DEF DecodeOff, SetDecode
<1>9. CASE WriteControl
  BY <1>9 DEF WriteControl
<1>10. CASE ReadControl
  BY <1>10 DEF ReadControl
<1>11. CASE DecodeOn
  BY <1>11 DEF DecodeOn, SetDecode
<1>12. CASE RestoreCfg
  BY <1>12 DEF RestoreCfg
<1>13. CASE RestoreCya
  BY <1>13 DEF RestoreCya
<1>14. CASE Enable
  BY <1>14 DEF Enable
<1>15. CASE Resize
  BY <1>15 DEF Resize
<1>16. CASE Returns
  BY <1>16 DEF Returns
<1>17. QED
  BY <1>1, <1>2, <1>3, <1>4, <1>5, <1>6, <1>7, <1>8, <1>9, <1>10, <1>11, <1>12,
     <1>13, <1>14, <1>15, <1>16 DEF ProbeStep

LEMMA ProbeKept ==
  ASSUME Inv, [Next]_vars
  PROVE  Restorable' /\ Sized'
<1> USE DEF Inv, TypeOK
<1>1. CASE ModuleStep
  BY <1>1 DEF ModuleStep, Load, Unload, Remove, Goes, Restorable, Sized, HasSaved,
              Unlocked, Window, board, bar, link
<1>2. CASE Reset
  <2>1. Restorable'
    BY <1>2 DEF Reset, Flr, Restorable, HasSaved, Unlocked, Window, link, rebar, module
  <2>2. Sized'
    BY <1>2 DEF Reset, Sized, HasSaved, Window, rebar, module
  <2>3. QED
    BY <2>1, <2>2
<1>3. CASE Probe
  BY <1>3, ProbeRestorable, ProbeSized DEF Probe
<1>4. CASE Client \/ Start \/ Tool \/ RunTool \/ UNCHANGED vars
  BY <1>4, ProbeAlone DEF Restorable, Sized, requested_size
<1>5. CASE Hardware
  BY <1>5 DEF Hardware, Dies, Restorable, Sized, requested_size, rebar, module
<1>6. CASE Boot
  BY <1>6 DEF Boot, PoweredOn, Restorable, Sized, HasSaved, Unlocked, Window
<1>7. QED
  BY <1>1, <1>2, <1>3, <1>4, <1>5, <1>6 DEF Next

-----------------------------------------------------------------------------
(* The start. *)

LEMMA StartAlone ==
  ASSUME ModuleStep \/ Reset \/ Probe \/ Tool \/ RunTool \/ UNCHANGED vars
  PROVE  UNCHANGED <<target, rl, alive, step, outcome, saved_rl, unsettled>>
<1> USE DEF board, bar, link, retrain
<1>1. CASE ModuleStep
  BY <1>1 DEF ModuleStep, Load, Unload, Remove
<1>2. CASE Reset
  BY <1>2 DEF Reset, Flr
<1>3. CASE Probe
  BY <1>3 DEF Probe, ProbeStep, BeginProbe, Save, UnlockCya, WriteCfg, CheckCfg,
              CheckSizes, FindEntry, DecodeOff, SetDecode, WriteControl,
              ReadControl, DecodeOn, RestoreCfg, RestoreCya, Enable, Resize, Returns
<1>4. CASE Tool
  BY <1>4 DEF Tool, ToolStep, ReadBefore, WriteDesired, ReadAfter
<1>5. CASE RunTool
  BY <1>5 DEF RunTool, Run, ToolKilled
<1>6. CASE UNCHANGED vars
  BY <1>6 DEF vars
<1>7. QED
  BY <1>1, <1>2, <1>3, <1>4, <1>5, <1>6

\* Writing an end back takes its bit away, or is the ghost's business.
LEMMA WriteBackSettles ==
  ASSUME Settling, NEW from \in Restoring, NEW end \in Ends, NEW to \in Steps,
         NEW works \in BOOLEAN, WriteBack(from, end, to, works), alive
  PROVE  /\ rl' \subseteq unsettled' \cup (ToWriteBack \ {end})
         /\ saved_rl' \subseteq unsettled'
         /\ UNCHANGED <<target, outcome, alive>> /\ step = from /\ step' = to
<1>1. CASE works
  BY <1>1 DEF WriteBack, Settling, Takes, GoesOn, bar
<1>2. CASE ~ works
  BY <1>2 DEF WriteBack, Settling, GoesOn, bar
<1>3. QED
  BY <1>1, <1>2

LEMMA StartSettling ==
  ASSUME BoardTypeOK, RetrainTypeOK, Settling, RetrainStep
  PROVE  Settling'
<1> USE DEF Settling, ToWriteBack, Asking, GoesOn, board, bar, link
<1>1. CASE CheckPolicy
  BY <1>1 DEF CheckPolicy
<1>2. CASE SaveControls
  BY <1>2 DEF SaveControls
<1>3. CASE TargetGpu
  BY <1>3 DEF TargetGpu, Aim, BoardTypeOK
<1>4. CASE TargetUpstream
  BY <1>4 DEF TargetUpstream, Aim, BoardTypeOK
<1>5. CASE CheckTargets
  BY <1>5 DEF CheckTargets, TargetsTaken
<1>6. CASE WriteRate
  BY <1>6 DEF WriteRate
<1>7. CASE AskGpu
  BY <1>7 DEF AskGpu, Ask, Ends
<1>8. CASE AskUpstream
  BY <1>8 DEF AskUpstream, Ask, Ends
<1>9. CASE AccessFails
  BY <1>9 DEF AccessFails
<1>10. CASE Pass
  BY <1>10 DEF Pass
<1>11. CASE Retry
  BY <1>11 DEF Retry
<1>12. CASE GiveUp
  BY <1>12 DEF GiveUp
<1>13. ASSUME NEW works \in BOOLEAN, Restore(works)
       PROVE  Settling'
  BY <1>13, WriteBackSettles
  DEF Restore, Restoring, Steps, Starting, Ends, WriteBack
<1>14. QED
  BY <1>1, <1>2, <1>3, <1>4, <1>5, <1>6, <1>7, <1>8, <1>9, <1>10, <1>11, <1>12,
     <1>13 DEF RetrainStep

LEMMA SettlingKept ==
  ASSUME Inv, [Next]_vars
  PROVE  Settling'
<1>1. CASE ModuleStep \/ Reset \/ Probe \/ Tool \/ RunTool \/ UNCHANGED vars
  BY <1>1, StartAlone DEF Inv, Settling, ToWriteBack
<1>2. CASE Client
  BY <1>2 DEF Inv, Client, StartDevice, StopDevice, GoesOn, Settling, ToWriteBack,
              Asking, board, bar, link
<1>3. CASE Start
  BY <1>3, StartSettling DEF Inv, TypeOK, Start
<1>4. CASE Hardware
  BY <1>4 DEF Hardware, Dies, Settling
<1>5. CASE Boot
  BY <1>5 DEF Boot, PoweredOn, Settling, Asking
<1>6. QED
  BY <1>1, <1>2, <1>3, <1>4, <1>5 DEF Next

-----------------------------------------------------------------------------
(* The results. *)

LEMMA InitInv == Init => Inv
<1> SUFFICES ASSUME Init PROVE Inv
  OBVIOUS
<1> USE DEF Init, BoardInit, RebarInit, RetrainInit, ToolsInit
<1>1. BoardTypeOK
  BY SizesAssumption, PoliciesAssumption DEF BoardTypeOK
<1>2. RebarTypeOK
  BY DEF RebarTypeOK, Places, NotRead
<1>3. RetrainTypeOK /\ ToolsTypeOK
  BY ErrorsAssumption DEF RetrainTypeOK, ToolsTypeOK, Steps
<1>4. Restorable
  BY DEF Restorable, HasSaved, Unlocked, Window
<1>5. Sized
  BY DEF Sized, HasSaved, Window
<1>6. Settling
  BY DEF Settling, Asking
<1>7. QED
  BY <1>1, <1>2, <1>3, <1>4, <1>5, <1>6 DEF Inv, TypeOK

\* The inductive invariant of a card's life under the patched driver.
THEOREM Invariance == Spec => []Inv
<1>1. Inv /\ [Next]_vars => Inv'
  BY TypesKept, ProbeKept, SettlingKept DEF Inv
<1>2. QED
  BY <1>1, InitInv, PTL DEF Spec

\* Every variable keeps its type.
THEOREM TypeCorrect == Spec => []TypeOK
<1>1. Inv => TypeOK
  BY DEF Inv
<1>2. QED
  BY <1>1, Invariance, PTL

\* A probe gives an answering card back: decoding on, and with an error both
\* XVE registers as they were.
THEOREM CardStaysGivenBack == Spec => []CardGivenBack
<1>1. Inv => CardGivenBack
  <2>1. RebarTypeOK => found = [cya |-> found.cya, cfg |-> found.cfg]
    BY DEF RebarTypeOK
  <2>2. QED
    BY <2>1 DEF Inv, TypeOK, Restorable, CardGivenBack
<1>2. QED
  BY <1>1, Invariance, PTL

\* Whatever loads, resets and probes came before, a bound card decodes the
\* size Linux believes in.
THEOREM BoundStaysBacked == Spec => []BoundIsBacked
<1>1. Inv => BoundIsBacked
  BY DEF Inv, Sized, BoundIsBacked
<1>2. QED
  BY <1>1, Invariance, PTL

\* After every start the Retrain bits are back, and a pass had both targets.
THEOREM StartsSettle == Spec => []StartSettles
<1>1. Inv => StartSettles
  BY DEF Inv, Settling, ToWriteBack, Asking, StartSettles
<1>2. QED
  BY <1>1, Invariance, PTL

\* Only ReadAfter exits with 0, and neither desired value looks like a
\* register that nobody answers for.
THEOREM ZeroStaysHeld == Spec => ZeroMeansHeld
<1>1. ASSUME Inv, [Next]_vars, status # 0, status' = 0
      PROVE  /\ Reached /\ Register = Desired
             /\ tool = "gen2_prepare" => PolicySet(pl)
  <2>1. ReadAfter
    <3>1. CASE ModuleStep \/ Reset \/ Client \/ Probe \/ Start \/ Hardware \/ UNCHANGED vars
      BY <1>1, <3>1 DEF ModuleStep, Reset, Client, Probe, Start, Hardware, vars, tools
    <3>2. CASE RunTool
      BY <1>1, <3>2 DEF RunTool, Run, ToolKilled, ExitsWith
    <3>3. CASE Boot
      BY <1>1, <3>3 DEF Boot
    <3>4. CASE Tool
      BY <1>1, <3>4 DEF Tool, ToolStep, ReadBefore, WriteDesired, ExitsWith
    <3>5. QED
      BY <1>1, <3>1, <3>2, <3>3, <3>4 DEF Next
  <2>2. Read = Desired
    BY <1>1, <2>1 DEF ReadAfter, ExitsWith
  <2>3. CASE tool = "link_rate"
    BY <2>2, <2>3, OnesAssumption DEF Read, Seen, Register, Desired, AllOnes
  <2>4. CASE tool = "gen2_prepare"
    <3>1. 17 \notin Desired /\ 18 \in Desired /\ 17 \in Bits
      BY <2>4 DEF Desired, Bits
    <3>2. Reached /\ pl = Desired
      BY <2>2, <2>4, <3>1 DEF Read, Seen, Register, AllOnes
    <3>3. QED
      BY <2>4, <3>1, <3>2 DEF Register, PolicySet
  <2>5. QED
    BY <1>1, <2>3, <2>4 DEF Inv, TypeOK, ToolsTypeOK, Tools
<1>2. QED
  BY <1>1, Invariance, PTL DEF Spec, ZeroMeansHeld

-----------------------------------------------------------------------------
(* A probe and a start only move towards their return. *)

PlaceRank ==
  [unloaded |-> 0, idle |-> 0, bound |-> 0, failed |-> 1, restore_cya |-> 2,
   restore_cfg |-> 3, resize |-> 4, enable |-> 5, decode_on |-> 6, readback |-> 7,
   rearm |-> 8, decode_off |-> 9, find_entry |-> 10, check_sizes |-> 11,
   check_cfg |-> 12, cfg |-> 13, cya |-> 14, save |-> 15]
ProbeCloser == PlaceRank[place'] < PlaceRank[place]

\* From its last look a start may go back, once.
StepRank ==
  [closed |-> 0, open |-> 0, restore_ctl_upstream |-> 1, restore_ctl_unmap_gpu |-> 1,
   restore_ctl |-> 2, restore_ctl_unmap |-> 2, poll |-> 3, ask_upstream |-> 4,
   ask_gpu |-> 5, rate |-> 6, check_targets |-> 7, target_upstream |-> 8,
   target_gpu |-> 9, save |-> 10, policy |-> 11]
StartCloser ==
  \/ StepRank[step'] < StepRank[step]
  \/ window = 1 /\ window' = 2 /\ step' \in Starting

\* Each access of a probe or a start brings it closer to its return, and
\* nothing else moves it back: not the link, a tool, a reset, a card that dies
\* or the power.
CallsOnlyAdvance ==
  [][/\ place \in Probing => ProbeCloser \/ (place' = place /\ ~ Probe)
     /\ step \in Starting =>
          StartCloser \/ (step' = step /\ window' = window /\ ~ Start)]_vars

LEMMA ProbeStepCloser ==
  ASSUME place \in Probing, ProbeStep
  PROVE  ProbeCloser
<1> USE DEF ProbeCloser, PlaceRank, Goes
<1>1. CASE Save \/ UnlockCya \/ WriteCfg
  BY <1>1 DEF Save, UnlockCya, WriteCfg
<1>2. CASE CheckCfg \/ CheckSizes \/ FindEntry
  BY <1>2 DEF CheckCfg, CheckSizes, FindEntry
<1>3. CASE DecodeOff \/ WriteControl \/ ReadControl
  <2>1. \/ place = "decode_off" /\ place' = "rearm"
        \/ place = "rearm" /\ place' = "readback"
        \/ place = "readback" /\ place' = "decode_on"
    BY <1>3 DEF DecodeOff, SetDecode, WriteControl, ReadControl
  <2>2. QED
    BY <2>1
<1>4. CASE DecodeOn
  <2>1. place = "decode_on" /\ place' \in {"enable", "restore_cfg"}
    BY <1>4 DEF DecodeOn
  <2>2. QED
    BY <2>1
<1>5. CASE RestoreCfg \/ RestoreCya \/ Enable \/ Resize
  BY <1>5 DEF RestoreCfg, RestoreCya, Enable, Resize
<1>6. CASE BeginProbe \/ Returns
  BY <1>6 DEF BeginProbe, Returns, Probing, Window
<1>7. QED
  BY <1>1, <1>2, <1>3, <1>4, <1>5, <1>6 DEF ProbeStep

LEMMA StartStepCloser ==
  ASSUME RetrainTypeOK, RetrainStep
  PROVE  StartCloser
<1> USE DEF StartCloser, StepRank, GoesOn
<1>1. CASE CheckPolicy \/ SaveControls \/ TargetGpu \/ TargetUpstream
  BY <1>1 DEF CheckPolicy, SaveControls, TargetGpu, TargetUpstream
<1>2. CASE CheckTargets \/ WriteRate \/ AskGpu \/ AskUpstream
  BY <1>2 DEF CheckTargets, WriteRate, AskGpu, AskUpstream
<1>3. CASE AccessFails \/ Pass \/ GiveUp
  BY <1>3 DEF AccessFails, Pass, GiveUp
<1>4. CASE Retry
  BY <1>4 DEF Retry, MayRetry, Starting
<1>5. ASSUME NEW works \in BOOLEAN, Restore(works)
      PROVE  StartCloser
  BY <1>5 DEF Restore, WriteBack
<1>6. QED
  BY <1>1, <1>2, <1>3, <1>4, <1>5 DEF RetrainStep

\* No access of a probe or a start is ever made again, but for one retry: the
\* counting half of "a call returns", whose other half is that threads run on.
THEOREM CallsAdvance == Spec => CallsOnlyAdvance
<1> DEFINE Advance ==
      /\ place \in Probing => ProbeCloser \/ (place' = place /\ ~ Probe)
      /\ step \in Starting =>
           StartCloser \/ (step' = step /\ window' = window /\ ~ Start)
<1>1. ASSUME Inv, Next
      PROVE  Advance
  <2>1. ASSUME place \in Probing
        PROVE  ProbeCloser \/ (place' = place /\ ~ Probe)
    <3>1. CASE Probe
      BY <2>1, <3>1, ProbeStepCloser DEF Probe
    <3>2. CASE Boot
      BY <2>1, <3>2 DEF Boot, ProbeCloser, PlaceRank, Probing, Window
    <3>3. CASE ModuleStep
      BY <2>1, <3>3 DEF ModuleStep, Load, Unload, Remove, Goes, Probing, Window
    <3>4. CASE ~ Probe /\ ~ Boot /\ ~ ModuleStep
      BY <1>1, <3>4 DEF Next, Reset, Client, Start, Tool, RunTool, Hardware, rebar
    <3>5. QED
      BY <3>1, <3>2, <3>3, <3>4
  <2>2. ASSUME step \in Starting
        PROVE  StartCloser \/ (step' = step /\ window' = window /\ ~ Start)
    <3>1. CASE Start
      BY <1>1, <3>1, StartStepCloser DEF Start, Inv, TypeOK
    <3>2. CASE Boot
      BY <2>2, <3>2 DEF Boot, StartCloser, StepRank, Starting, Restoring
    <3>3. CASE Client
      BY <2>2, <3>3 DEF Client, StartDevice, StopDevice, GoesOn, Starting, Restoring
    <3>4. CASE ~ Start /\ ~ Boot /\ ~ Client
      BY <1>1, <3>4 DEF Next, ModuleStep, Reset, Probe, Tool, RunTool, Hardware, retrain
    <3>5. QED
      BY <3>1, <3>2, <3>3, <3>4
  <2>3. QED
    BY <2>1, <2>2
<1>2. Inv /\ [Next]_vars => [Advance]_vars
  BY <1>1
<1>3. QED
  BY <1>2, Invariance, PTL DEF Spec, CallsOnlyAdvance
=============================================================================
