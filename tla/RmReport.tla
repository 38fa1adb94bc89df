------------------------------ MODULE RmReport ------------------------------
(***************************************************************************)
(* The controls verify/rm_issue_rate.c asks RM for, what it prints of      *)
(* them, and when verify/verify.py accepts what was printed.               *)
(*                                                                         *)
(* A reply keeps what the checks tell apart: how many entries the driver   *)
(* says it returned, and raw: 0 when every value is the 0 a cleared buffer *)
(* also holds, 1 when the values are those verify.py expects of gpu_info   *)
(* and gr_info, 2 when they are neither.                                   *)
(***************************************************************************)
EXTENDS Naturals, Sequences

\* The GETs of run_probe in its order. The 26 context buffers and the four
\* engine classes are loops over one control each.
Order == <<"v1", "v2", "gpu_info", "gr_info", "constructed_falcons",
           "engines_v2", "gr_context_buffers", "fifo_device_info",
           "engine_classes">>
Controls == {Order[i] : i \in 1 .. Len(Order)}

\* Entries in a control's buffer.
Capacity ==
  [v1 |-> 9, v2 |-> 255, gpu_info |-> 4, gr_info |-> 4,
   constructed_falcons |-> 64, engines_v2 |-> 84, gr_context_buffers |-> 26,
   fifo_device_info |-> 32, engine_classes |-> 200]

\* Controls that return as many entries as were asked for, and say no number.
FixedLength == {"v1", "gpu_info", "gr_info", "gr_context_buffers"}

Reply == [n : Nat, raw : 0 .. 2]
Cleared == [n |-> 0, raw |-> 0]

\* rm_control: the ioctl failed, RM refused, or both were fine. A failed
\* ioctl leaves the status of the zeroed request, which reads as success.
Outcomes == {"ok", "os_error", "rm_error"}
rm_ok(outcome) == outcome = "ok"

\* Entries printed for a control. Context buffers are printed whatever became
\* of their GET.
Printed(ctl, outcome, reply) ==
  CASE ctl = "gr_context_buffers" -> Capacity[ctl]
    [] ctl # "gr_context_buffers" /\ ~rm_ok(outcome) -> 0
    [] OTHER -> IF ctl \in FixedLength \/ reply.n > Capacity[ctl]
                THEN Capacity[ctl] ELSE reply.n

\* One member of "controls" in the JSON the probe prints.
Line(ctl, outcome, reply) ==
  LET n == Printed(ctl, outcome, reply)
  IN [status |-> IF outcome = "rm_error" THEN "error" ELSE "0x00000000",
      n |-> n, raw |-> IF n = 0 THEN 0 ELSE reply.raw]

Lines == [status : {"0x00000000", "error"}, n : Nat, raw : 0 .. 2]

\* verify.py, main: what is wanted of the four controls it looks at. A name
\* that was not printed is not the expected number.
AcceptsRates(report) ==
  /\ \A ctl \in {"v1", "v2"} :
       report[ctl].status = "0x00000000" /\ report[ctl].raw = 0
  /\ report["v1"].n = 9 /\ report["v2"].n = 8

verify_py(report) ==
  /\ \A ctl \in {"v1", "v2"} :
       report[ctl].status = "0x00000000" /\ report[ctl].raw = 0
  /\ report["v1"].n = 9 /\ report["v2"].n = 8
  /\ \A ctl \in {"gpu_info", "gr_info"} :
       report[ctl].n > 0 /\ report[ctl].raw = 1

\* A card that answers like this is a working CMP 50HX.
Unlocked(answer) ==
  /\ answer["v1"].raw = 0
  /\ answer["v2"].n = 8 /\ answer["v2"].raw = 0
  /\ answer["gpu_info"].raw = 1 /\ answer["gr_info"].raw = 1
=============================================================================
