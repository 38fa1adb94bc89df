---------------------------- MODULE AtomicProbe -----------------------------
(***************************************************************************)
(* What a user of the RM probe may rely on: the report is about the card   *)
(* whose device file was named, and it is as if all of it had been read at *)
(* one moment. Controls may be missing from it, and there may be no report *)
(* at all.                                                                 *)
(***************************************************************************)
EXTENDS RmReport

CONSTANTS
  Cards,       \* the GPUs of the host
  None         \* no file asked for, no report

VARIABLES
  minor_number, \* minor_number[c]: the N of the card's /dev/nvidiaN
  answer,       \* answer[c][ctl]: what RM replies for the card
  asked,        \* the N a probe has been started for
  report        \* what the last probe printed

vars == <<minor_number, answer, asked, report>>

\* The report says nothing but what one card answers now.
IsOf(r, c) ==
  \A ctl \in Controls :
    \/ r[ctl] = Line(ctl, "ok", answer[c][ctl])
    \/ \E outcome \in Outcomes \ {"ok"} : r[ctl] = Line(ctl, outcome, Cleared)

Init ==
  asked = None /\ report = None

\* A probe is started; the file it will write to is emptied.
Ask ==
  /\ asked = None
  /\ report' = None
  /\ UNCHANGED <<minor_number, answer>>

\* All of the report is read from the card that was asked for.
Answer ==
  /\ asked # None /\ report = None
  /\ report' # None
  /\ \E c \in Cards : minor_number[c] = asked /\ IsOf(report', c)
  /\ UNCHANGED <<minor_number, answer, asked>>

\* The probe ends, with or without having given a report.
End ==
  /\ asked # None /\ asked' = None
  /\ report' \in {report, None}
  /\ UNCHANGED <<minor_number, answer>>

\* What cards answer changes whenever it likes; the device files stay.
Change ==
  UNCHANGED <<minor_number, asked, report>>

Next == Ask \/ Answer \/ End \/ Change

Spec == Init /\ [][Next]_vars
=============================================================================
