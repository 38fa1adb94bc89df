---------------------------- MODULE VerifyProofs ----------------------------
(***************************************************************************)
(* What a pass of verify-live.sh means and what a report of the RM probe   *)
(* is, for every number of cards, numbering of device files, set of        *)
(* answers, number of failing calls and number of looks at the links.      *)
(***************************************************************************)
EXTENDS Verify, FiniteSetTheorems, FunctionTheorems, TLAPS

-----------------------------------------------------------------------------
(* The tables. *)

LEMMA OrderIs ==
  /\ Len(Order) = 9
  /\ Order[1] = "v1" /\ Order[2] = "v2" /\ Order[3] = "gpu_info"
  /\ Order[4] = "gr_info" /\ Order[5] = "constructed_falcons"
  /\ Order[6] = "engines_v2" /\ Order[7] = "gr_context_buffers"
  /\ Order[8] = "fifo_device_info" /\ Order[9] = "engine_classes"
  BY DEF Order

LEMMA OrderOnce ==
  \A i, j \in 1 .. 9 : Order[i] = Order[j] => i = j
  BY OrderIs

LEMMA ControlsAre ==
  /\ Controls = {Order[i] : i \in 1 .. 9}
  /\ {"v1", "v2", "gpu_info", "gr_info"} \subseteq Controls
<1>1. Controls = {Order[i] : i \in 1 .. 9}
  BY OrderIs DEF Controls
<1>2. Order[1] \in Controls /\ Order[2] \in Controls
      /\ Order[3] \in Controls /\ Order[4] \in Controls
  BY <1>1
<1>3. QED
  BY <1>1, <1>2, OrderIs

LEMMA CapacityIs ==
  /\ Capacity["v1"] = 9 /\ Capacity["v2"] = 255
  /\ Capacity["gpu_info"] = 4 /\ Capacity["gr_info"] = 4
  /\ \A ctl \in Controls : Capacity[ctl] \in Nat
<1>1. \A i \in 1 .. 9 : Capacity[Order[i]] \in Nat
  BY OrderIs DEF Capacity
<1>2. QED
  BY <1>1, ControlsAre DEF Capacity

\* A line has one of the forms verify.py reads.
LEMMA LineType ==
  ASSUME NEW ctl \in Controls, NEW outcome \in Outcomes, NEW reply \in Reply
  PROVE  Line(ctl, outcome, reply) \in Lines
<1>1. Printed(ctl, outcome, reply) \in Nat
  BY CapacityIs DEF Printed, Reply
<1>2. QED
  BY <1>1 DEF Line, Lines, Reply, Outcomes

\* Only a control that was read has as many entries as verify.py wants: the
\* status of a failed ioctl reads as success, the empty list does not.
LEMMA AcceptedIsRead ==
  ASSUME NEW outcomes \in [Controls -> Outcomes], NEW replies \in [Controls -> Reply],
         NEW a \in [Controls -> Reply],
         \A ctl \in Controls : outcomes[ctl] = "ok" => replies[ctl] = a[ctl],
         verify_py([ctl \in Controls |-> Line(ctl, outcomes[ctl], replies[ctl])])
  PROVE  Unlocked(a)
<1> DEFINE r == [ctl \in Controls |-> Line(ctl, outcomes[ctl], replies[ctl])]
           n(ctl) == Printed(ctl, outcomes[ctl], replies[ctl])
<1>1. \A ctl \in {"v1", "v2", "gpu_info", "gr_info"} :
        /\ r[ctl].n = n(ctl)
        /\ n(ctl) > 0 => r[ctl].raw = replies[ctl].raw
        /\ n(ctl) > 0 => outcomes[ctl] = "ok"
  <2>1. SUFFICES ASSUME NEW ctl \in {"v1", "v2", "gpu_info", "gr_info"}
                 PROVE  /\ r[ctl].n = n(ctl)
                        /\ n(ctl) > 0 => r[ctl].raw = replies[ctl].raw
                        /\ n(ctl) > 0 => outcomes[ctl] = "ok"
    OBVIOUS
  <2>2. r[ctl] = Line(ctl, outcomes[ctl], replies[ctl])
    BY ControlsAre
  <2>3. n(ctl) > 0 => outcomes[ctl] = "ok"
    BY DEF Printed, rm_ok
  <2>4. QED
    BY <2>2, <2>3 DEF Line
<1>2. /\ r["v1"].n = 9 /\ r["v2"].n = 8
      /\ r["v1"].raw = 0 /\ r["v2"].raw = 0
      /\ r["gpu_info"].n > 0 /\ r["gpu_info"].raw = 1
      /\ r["gr_info"].n > 0 /\ r["gr_info"].raw = 1
  BY DEF verify_py
<1>3. \A ctl \in {"v1", "v2", "gpu_info", "gr_info"} :
        replies[ctl] = a[ctl] /\ r[ctl].raw = a[ctl].raw
  <2> HIDE DEF r, n
  <2>1. \A ctl \in {"v1", "v2", "gpu_info", "gr_info"} : r[ctl].n > 0
    BY <1>2
  <2>2. QED
    BY <1>1, <2>1, ControlsAre
<1>4. a["v2"].n = 8
  <2>1. n("v2") = 8 /\ outcomes["v2"] = "ok"
    BY <1>1, <1>2
  <2>2. Printed("v2", "ok", replies["v2"])
          = IF replies["v2"].n > 255 THEN 255 ELSE replies["v2"].n
    BY CapacityIs DEF Printed, rm_ok, FixedLength
  <2>3. QED
    BY <2>1, <2>2, <1>3, ControlsAre DEF Reply
<1>5. QED
  BY <1>2, <1>3, <1>4 DEF Unlocked

-----------------------------------------------------------------------------
(* The probe's invariant. *)

HasObject == {"subdevice", "get", "print"}
HasInstance == {"device"} \cup HasObject
HasCard == {"id_info"} \cup HasInstance
HasFile == {"register", "client", "card_info", "close_card"} \cup HasCard

\* No two cards share an instance, and a card answers what it may.
HostOK ==
  /\ \A c, d \in Attached : instance[c] = instance[d] => c = d
  /\ \A c \in Cards : answer[c] \in Answers[c]

\* Everything the program holds is the card it was asked for: its file is open
\* and keeps it attached, so the instance stays the one RM named.
HoldsOne ==
  /\ pc \in HasFile => Named(nvidia_fd)
  /\ pc \in HasCard => gpu_id = nvidia_fd
  /\ pc \in HasInstance => device_instance = instance[nvidia_fd]
  /\ pc \in HasObject => subdevice = nvidia_fd

\* What a control's place holds before its GET, and after it.
Unread(ctl) == results[ctl] = "ok" /\ params[ctl] = Cleared
WasRead(ctl) ==
  IF results[ctl] = "ok" THEN params[ctl] = answer[nvidia_fd][ctl]
                         ELSE params[ctl] = Cleared

Gathered ==
  /\ pc \in {"get", "print"} =>
       \A i \in 1 .. 9 :
         IF i < at \/ pc = "print" THEN WasRead(Order[i]) ELSE Unread(Order[i])
  /\ pc \notin {"get", "print", "close_card", "close_ctl"} =>
       at = 1 /\ \A ctl \in Controls : Unread(ctl)

\* A report is of the card whose minor number was asked for, and accepted only
\* of a CMP card.
Reported ==
  report # None =>
    /\ pc \in {"close_card", "close_ctl"} \cup Ended
    /\ origin \in Cards /\ minor_number[origin] = device_index
    /\ verify_py(report) => origin \in Cmp

ProbeInv == ProbeTypeOK /\ HostOK /\ HoldsOne /\ Gathered /\ Reported

LEMMA HostKept ==
  ASSUME ProbeInv, HostStep
  PROVE  ProbeInv'
<1> SUFFICES ASSUME NEW c \in Cards, Detach(c) \/ Attach(c) \/ Restart(c)
             PROVE  ProbeInv'
  BY DEF HostStep
<1> USE DEF ProbeInv, probe, program
<1>1. CASE Detach(c)
  <2>1. ProbeTypeOK'
    BY <1>1 DEF Detach, ProbeTypeOK
  <2>2. HostOK'
    BY <1>1, NoneAssumption DEF Detach, HostOK, Attached, ProbeTypeOK
  <2>3. HoldsOne'
    BY <1>1 DEF Detach, HoldsOne, Named, Attached, ProbeTypeOK, HasFile, HasCard,
                HasInstance, HasObject
  <2>4. Gathered' /\ Reported'
    BY <1>1 DEF Detach, Gathered, Unread, WasRead, Reported
  <2>5. QED
    BY <2>1, <2>2, <2>3, <2>4
<1>2. CASE Attach(c)
  <2>1. ProbeTypeOK'
    BY <1>2 DEF Attach, ProbeTypeOK
  <2>2. HostOK'
    BY <1>2, NoneAssumption DEF Attach, HostOK, Attached, ProbeTypeOK
  <2>3. HoldsOne'
    BY <1>2, NoneAssumption
    DEF Attach, HoldsOne, Named, Attached, ProbeTypeOK, HasFile, HasCard,
        HasInstance, HasObject
  <2>4. Gathered' /\ Reported'
    BY <1>2 DEF Attach, Gathered, Unread, WasRead, Reported
  <2>5. QED
    BY <2>1, <2>2, <2>3, <2>4
<1>3. CASE Restart(c)
  <2>1. ProbeTypeOK'
    BY <1>3, AnswersAssumption DEF Restart, ProbeTypeOK
  <2>2. HostOK'
    BY <1>3 DEF Restart, HostOK, Attached, ProbeTypeOK
  <2>3. HoldsOne' /\ Reported'
    BY <1>3 DEF Restart, HoldsOne, Named, Attached, Reported
  <2>4. Gathered'
    BY <1>3 DEF Restart, Gathered, Unread, WasRead, HoldsOne, Named, Attached,
                ProbeTypeOK, HasFile, HasCard, HasInstance, HasObject
  <2>5. QED
    BY <2>1, <2>2, <2>3, <2>4
<1>4. QED
  BY <1>1, <1>2, <1>3

\* Program steps that hold on to what they hold, and to what was gathered.
Quiet ==
  /\ UNCHANGED <<host, device_index, nvidia_fd, at, results, params, report,
                 result, origin>>
  /\ gpu_id' \in Cards \cup {None} /\ subdevice' \in Cards \cup {None}
  /\ device_instance' \in Instances \cup {None}
  /\ faults' \in 0 .. MaxFaults
  /\ pc \notin {"get", "print", "close_card", "close_ctl"} \cup Ended
  /\ pc' \in {"open_card", "client", "card_info", "id_info", "device", "subdevice",
              "close_card", "close_ctl"}

LEMMA QuietKept ==
  ASSUME ProbeInv, Quiet
  PROVE  ProbeTypeOK' /\ HostOK' /\ Gathered' /\ Reported'
<1> USE DEF ProbeInv, Quiet, host
<1>1. ProbeTypeOK'
  BY DEF ProbeTypeOK, Places, Calls
<1>2. HostOK' /\ Reported'
  BY DEF HostOK, Attached, Reported, Ended
<1>3. Gathered'
  BY DEF Gathered, Unread
<1>4. QED
  BY <1>1, <1>2, <1>3

\* Finding the card: each call names the one whose file is open.
LEMMA FindingKept ==
  ASSUME ProbeInv,
         \/ OpenCtl \/ OpenCard \/ OpenCardFails \/ RegisterFd \/ AllocClient
         \/ CardInfo \/ IdInfo \/ AllocDevice \/ AllocSubdevice \/ CallFails
  PROVE  ProbeInv'
<1> USE DEF ProbeInv, Goes, HoldsOne, HasFile, HasCard, HasInstance, HasObject, host
<1>1. CASE OpenCtl \/ OpenCardFails \/ RegisterFd \/ AllocClient
  <2>1. Quiet
    BY <1>1 DEF OpenCtl, OpenCardFails, RegisterFd, AllocClient, Quiet, program,
                ProbeTypeOK, Ended
  <2>2. HoldsOne'
    BY <1>1 DEF OpenCtl, OpenCardFails, RegisterFd, AllocClient, program, Named,
                Attached
  <2>3. QED
    BY <2>1, <2>2, QuietKept
<1>2. CASE OpenCard
  <2>1. ProbeTypeOK'
    BY <1>2 DEF OpenCard, ProbeTypeOK, Places, Calls
  <2>2. HostOK' /\ Reported'
    BY <1>2 DEF OpenCard, HostOK, Attached, Reported, Ended
  <2>3. Gathered'
    BY <1>2 DEF OpenCard, Gathered, Unread
  <2>4. HoldsOne'
    BY <1>2 DEF OpenCard, Named, Attached
  <2>5. QED
    BY <2>1, <2>2, <2>3, <2>4
<1>3. CASE CardInfo
  <2>1. Quiet
    BY <1>3 DEF CardInfo, Quiet, ProbeTypeOK, Ended
  <2>2. gpu_id' = nvidia_fd
    BY <1>3, MinorsAssumption DEF CardInfo, Named, Attached, ProbeTypeOK
  <2>3. HoldsOne'
    BY <1>3, <2>2 DEF CardInfo, Named, Attached
  <2>4. QED
    BY <2>1, <2>3, QuietKept
<1>4. CASE IdInfo
  <2>1. Quiet
    BY <1>4 DEF IdInfo, Quiet, ProbeTypeOK, Ended, Named, Attached
  <2>2. HoldsOne'
    BY <1>4 DEF IdInfo, Named, Attached
  <2>3. QED
    BY <2>1, <2>2, QuietKept
<1>5. CASE AllocDevice
  <2>1. Quiet
    BY <1>5 DEF AllocDevice, Quiet, ProbeTypeOK, Ended, Attached
  <2>2. subdevice' = nvidia_fd
    BY <1>5 DEF AllocDevice, DeviceId, HostOK, Named, Attached
  <2>3. HoldsOne'
    BY <1>5, <2>2 DEF AllocDevice, Named, Attached
  <2>4. QED
    BY <2>1, <2>3, QuietKept
<1>6. CASE AllocSubdevice
  <2>1. ProbeTypeOK'
    BY <1>6 DEF AllocSubdevice, program, ProbeTypeOK, Places, Calls
  <2>2. HostOK' /\ Reported'
    BY <1>6 DEF AllocSubdevice, program, HostOK, Attached, Reported, Ended
  <2>3. Gathered'
    BY <1>6, ControlsAre DEF AllocSubdevice, program, Gathered, Unread
  <2>4. HoldsOne'
    BY <1>6 DEF AllocSubdevice, program, Named, Attached
  <2>5. QED
    BY <2>1, <2>2, <2>3, <2>4
<1>7. CASE CallFails
  <2>1. Quiet
    BY <1>7, FaultsAssumption DEF CallFails, Calls, Quiet, ProbeTypeOK, Ended
  <2>2. HoldsOne'
    BY <1>7 DEF CallFails, Calls, Named, Attached
  <2>3. QED
    BY <2>1, <2>2, QuietKept
<1>8. QED
  BY <1>1, <1>2, <1>3, <1>4, <1>5, <1>6, <1>7

\* One GET puts its outcome and reply into its own place.
LEMMA GotKept ==
  ASSUME ProbeInv, NEW outcome \in Outcomes, NEW reply \in Reply,
         Got(outcome, reply), faults' \in 0 .. MaxFaults,
         IF outcome = "ok" THEN reply = answer[nvidia_fd][Order[at]]
                           ELSE reply = Cleared
  PROVE  ProbeInv'
<1> USE DEF ProbeInv, Got, Goes, host
<1>1. at \in 1 .. 9 /\ Order[at] \in Controls
      /\ \A i \in 1 .. 9 : Order[i] \in Controls
  BY OrderIs, ControlsAre DEF ProbeTypeOK
<1>2. ProbeTypeOK'
  <2>1. at' \in 1 .. Len(Order) /\ pc' \in Places
    BY <1>1, OrderIs DEF LastGet, Places, Calls
  <2>2. results' \in [Controls -> Outcomes] /\ params' \in [Controls -> Reply]
    BY <1>1 DEF ProbeTypeOK
  <2>3. QED
    BY <2>1, <2>2 DEF ProbeTypeOK
<1>3. HostOK' /\ Reported'
  BY DEF HostOK, Attached, Reported, Ended
<1>4. HoldsOne'
  BY DEF HoldsOne, HasFile, HasCard, HasInstance, HasObject, Named, Attached
<1>5. Gathered'
  <2>. PICK k \in 1 .. 9 : k = at
    BY <1>1
  <2>1. /\ results'[Order[k]] = outcome /\ params'[Order[k]] = reply
        /\ \A i \in 1 .. 9 : i # k => /\ results'[Order[i]] = results[Order[i]]
                                     /\ params'[Order[i]] = params[Order[i]]
    BY <1>1, OrderOnce DEF ProbeTypeOK
  <2>2. WasRead(Order[k])'
    BY <2>1 DEF WasRead
  <2>3. \A i \in 1 .. 9 : i # k =>
          /\ WasRead(Order[i])' <=> WasRead(Order[i])
          /\ Unread(Order[i])' <=> Unread(Order[i])
    BY <2>1 DEF WasRead, Unread
  <2>4. \A i \in 1 .. 9 :
          IF i < at' \/ pc' = "print" THEN WasRead(Order[i])' ELSE Unread(Order[i])'
    BY <1>1, <2>2, <2>3, OrderIs DEF Gathered, LastGet
  <2>5. QED
    BY <2>4 DEF Gathered
<1>6. QED
  BY <1>2, <1>3, <1>4, <1>5

LEMMA GetKept ==
  ASSUME ProbeInv, Get \/ \E outcome \in Outcomes \ {"ok"} : GetFails(outcome)
  PROVE  ProbeInv'
<1>1. at \in 1 .. 9 /\ Order[at] \in Controls
  BY OrderIs, ControlsAre DEF ProbeInv, ProbeTypeOK
<1>2. CASE Get
  <2>1. subdevice = nvidia_fd /\ nvidia_fd \in Cards
    BY <1>2 DEF Get, ProbeInv, HoldsOne, HasFile, HasCard, HasInstance, HasObject,
                Named, Attached
  <2>2. answer[nvidia_fd][Order[at]] \in Reply
    BY <1>1, <2>1 DEF ProbeInv, ProbeTypeOK
  <2>3. faults' \in 0 .. MaxFaults
    BY <1>2 DEF Get, ProbeInv, ProbeTypeOK
  <2>4. QED
    BY <1>2, <2>1, <2>2, <2>3, GotKept DEF Get, Outcomes
<1>3. ASSUME NEW outcome \in Outcomes \ {"ok"}, GetFails(outcome)
      PROVE  ProbeInv'
  <2>1. params[Order[at]] = Cleared
    BY <1>1, <1>3 DEF GetFails, ProbeInv, Gathered, Unread
  <2>2. params[Order[at]] \in Reply
    BY <1>1 DEF ProbeInv, ProbeTypeOK
  <2>3. faults' \in 0 .. MaxFaults
    BY <1>3, FaultsAssumption DEF GetFails, ProbeInv, ProbeTypeOK
  <2>4. QED
    BY <1>3, <2>1, <2>2, <2>3, GotKept DEF GetFails
<1>4. QED
  BY <1>2, <1>3

\* What is printed is of the card held, and accepted only of a CMP card.
LEMMA PrintKept ==
  ASSUME ProbeInv, PrintReport
  PROVE  ProbeInv'
<1> USE DEF ProbeInv, PrintReport, Goes, host
<1>1. subdevice = nvidia_fd /\ Named(nvidia_fd) /\ nvidia_fd \in Cards
  BY DEF HoldsOne, HasFile, HasCard, HasInstance, HasObject, Named, Attached
<1>2. \A ctl \in Controls :
        results[ctl] = "ok" => params[ctl] = answer[nvidia_fd][ctl]
  BY ControlsAre DEF Gathered, WasRead
<1>3. ProbeTypeOK'
  <2>1. report' \in [Controls -> Lines]
    BY LineType DEF ProbeTypeOK
  <2>2. QED
    BY <1>1, <2>1 DEF ProbeTypeOK, Places
<1>4. verify_py(report') => nvidia_fd \in Cmp
  <2>1. SUFFICES ASSUME verify_py(report') PROVE nvidia_fd \in Cmp
    OBVIOUS
  <2>2. Unlocked(answer[nvidia_fd])
    BY <1>1, <1>2, <2>1, AcceptedIsRead DEF ProbeTypeOK
  <2>3. QED
    BY <1>1, <2>2, ForeignAssumption DEF HostOK
<1>5. HostOK' /\ Reported'
  BY <1>1, <1>4 DEF HostOK, Attached, Reported, Named
<1>6. HoldsOne' /\ Gathered'
  BY DEF HoldsOne, HasFile, HasCard, HasInstance, HasObject, Named, Attached, Gathered
<1>7. QED
  BY <1>3, <1>5, <1>6

\* An end gives up everything but the report.
LEMMA ExitsKept ==
  ASSUME ProbeInv, NEW status \in 0 .. 2, NEW printed \in {report, None},
         Exits(status, printed), printed = None \/ pc = "close_ctl"
  PROVE  ProbeInv'
<1> USE DEF ProbeInv, Exits, Fresh, host
<1>1. ProbeTypeOK'
  BY OrderIs, FaultsAssumption
  DEF ProbeTypeOK, Places, Ended, Outcomes, Cleared, Reply
<1>2. HostOK' /\ HoldsOne' /\ Reported'
  BY DEF HostOK, Attached, HoldsOne, HasFile, HasCard, HasInstance, HasObject,
         Reported, Ended
<1>3. Gathered'
  BY DEF Gathered, Unread
<1>4. QED
  BY <1>1, <1>2, <1>3

LEMMA EndsKept ==
  ASSUME ProbeInv, OpenCtlFails \/ CloseCard \/ CloseCtl \/ Killed
  PROVE  ProbeInv'
<1>1. CASE OpenCtlFails
  BY <1>1, ExitsKept DEF OpenCtlFails
<1>2. CASE Killed
  BY <1>2, ExitsKept DEF Killed
<1>3. CASE CloseCtl
  BY <1>3, ExitsKept DEF CloseCtl, ProbeInv, ProbeTypeOK
<1>4. CASE CloseCard
  <2> USE <1>4 DEF CloseCard, Goes, ProbeInv, host
  <2>1. ProbeTypeOK'
    BY DEF ProbeTypeOK, Places
  <2>2. HostOK' /\ HoldsOne' /\ Reported' /\ Gathered'
    BY DEF HostOK, Attached, HoldsOne, HasFile, HasCard, HasInstance, HasObject,
           Reported, Gathered
  <2>3. QED
    BY <2>1, <2>2
<1>5. QED
  BY <1>1, <1>2, <1>3, <1>4

LEMMA StartKept ==
  ASSUME ProbeInv, NEW text \in Nat, Start(text)
  PROVE  ProbeInv'
<1> USE DEF ProbeInv, Start, host
<1>1. ProbeTypeOK'
  BY DEF ProbeTypeOK, Places, Calls, Ended
<1>2. HostOK' /\ HoldsOne' /\ Reported'
  BY DEF HostOK, Attached, HoldsOne, HasFile, HasCard, HasInstance, HasObject, Reported
<1>3. Gathered'
  BY DEF Gathered, Unread, Ended
<1>4. QED
  BY <1>1, <1>2, <1>3

LEMMA ProbeKept ==
  ASSUME ProbeInv, ProbeStep \/ Killed \/ HostStep
  PROVE  ProbeInv'
<1>1. CASE ProbeStep
  BY <1>1, FindingKept, GetKept, PrintKept, EndsKept DEF ProbeStep
<1>2. QED
  BY <1>1, EndsKept, HostKept

-----------------------------------------------------------------------------
(* The abstract probe: its tables are these, printing is its answer, an end  *)
(* its end, and all other steps of probe and host are its change.            *)

LEMMA SameTables ==
  /\ Atomic!Controls = Controls /\ Atomic!Outcomes = Outcomes
  /\ Atomic!Cleared = Cleared
  /\ \A ctl, outcome, reply :
       Atomic!Line(ctl, outcome, reply) = Line(ctl, outcome, reply)
<1>1. Atomic!Controls = Controls /\ Atomic!Outcomes = Outcomes
      /\ Atomic!Cleared = Cleared
  BY DEF Atomic!Controls, Controls, Atomic!Order, Order, Atomic!Outcomes, Outcomes,
         Atomic!Cleared, Cleared
<1>2. Atomic!Capacity = Capacity /\ Atomic!FixedLength = FixedLength
  BY DEF Atomic!Capacity, Capacity, Atomic!FixedLength, FixedLength
<1>3. \A ctl, outcome, reply :
        Atomic!Printed(ctl, outcome, reply) = Printed(ctl, outcome, reply)
  BY <1>2 DEF Atomic!Printed, Printed, Atomic!rm_ok, rm_ok
<1>4. \A ctl, outcome, reply :
        Atomic!Line(ctl, outcome, reply) = Line(ctl, outcome, reply)
  BY <1>3 DEF Atomic!Line, Line
<1>5. QED
  BY <1>1, <1>4

Asked == IF pc \in Ended THEN None ELSE device_index

LEMMA PrintAnswers ==
  ASSUME ProbeInv, PrintReport
  PROVE  Atomic!Answer
<1> USE DEF ProbeInv, PrintReport, Goes, host
<1>1. subdevice = nvidia_fd /\ Named(nvidia_fd) /\ nvidia_fd \in Cards
  BY DEF HoldsOne, HasFile, HasCard, HasInstance, HasObject, Named, Attached
<1>2. Asked = device_index /\ Asked' = device_index
  BY DEF Asked, Ended
<1>3. Asked # None /\ report = None /\ report' # None
  <2>1. report' \in [Controls -> Lines]
    BY LineType DEF ProbeTypeOK
  <2>2. report' # None
    BY <2>1, NoneAssumption
  <2>3. report = None
    BY DEF Reported, Ended
  <2>4. device_index # None
    BY NoneAssumption DEF ProbeTypeOK
  <2>5. QED
    BY <1>2, <2>2, <2>3, <2>4
<1>4. Atomic!IsOf(report', nvidia_fd)
  <2>1. ASSUME NEW ctl \in Controls
        PROVE  \/ report'[ctl] = Line(ctl, "ok", answer[nvidia_fd][ctl])
               \/ \E outcome \in Outcomes \ {"ok"} :
                    report'[ctl] = Line(ctl, outcome, Cleared)
    <3>1. WasRead(ctl)
      BY ControlsAre DEF Gathered
    <3>2. QED
      BY <3>1 DEF WasRead, ProbeTypeOK
  <2>2. QED
    BY <2>1, SameTables DEF Atomic!IsOf
<1>5. QED
  BY <1>1, <1>2, <1>3, <1>4 DEF Atomic!Answer, Asked, Named

LEMMA ProbeImplements ==
  ASSUME ProbeInv, ProbeStep \/ Killed \/ HostStep \/ \E text \in Nat : Start(text)
  PROVE  Atomic!Next
<1> USE DEF Ended, host
<1>1. CASE PrintReport
  BY <1>1, PrintAnswers DEF Atomic!Next
<1>2. ASSUME NEW status, NEW printed \in {report, None}, Exits(status, printed),
             pc \notin Ended
      PROVE  Atomic!Next
  BY <1>2, NoneAssumption
  DEF Exits, ProbeInv, ProbeTypeOK, Atomic!Next, Atomic!End
<1>3. CASE OpenCtlFails \/ CloseCtl \/ Killed
  BY <1>2, <1>3 DEF OpenCtlFails, CloseCtl, Killed
<1>4. ASSUME NEW text \in Nat, Start(text)
      PROVE  Atomic!Next
  BY <1>4 DEF Start, Atomic!Next, Atomic!Ask
<1>5. CASE HostStep
  BY <1>5 DEF HostStep, Detach, Attach, Restart, probe, program, Atomic!Next,
              Atomic!Change
<1>6. ASSUME pc \notin Ended, pc' \notin Ended,
             UNCHANGED <<minor_number, device_index, report>>
      PROVE  Atomic!Next
  BY <1>6 DEF Atomic!Next, Atomic!Change
<1>7. CASE OpenCtl \/ OpenCard \/ OpenCardFails \/ RegisterFd \/ AllocClient
           \/ CardInfo \/ IdInfo \/ AllocDevice \/ AllocSubdevice \/ CloseCard
           \/ CallFails
  BY <1>6, <1>7
  DEF OpenCtl, OpenCard, OpenCardFails, RegisterFd, AllocClient, CardInfo, IdInfo,
      AllocDevice, AllocSubdevice, CloseCard, CallFails, Calls, Goes, program
<1>8. CASE Get \/ \E outcome \in Outcomes \ {"ok"} : GetFails(outcome)
  BY <1>6, <1>8 DEF Get, GetFails, Got, Goes
<1>9. QED
  BY <1>1, <1>3, <1>4, <1>5, <1>7, <1>8 DEF ProbeStep

-----------------------------------------------------------------------------
(* Indices. *)

LEMMA AttachedFinite ==
  ASSUME NEW S, S \subseteq Cards
  PROVE  IsFiniteSet(S) /\ Cardinality(S) \in Nat
<1>1. IsFiniteSet(S)
  BY CmpAssumption, FS_Subset
<1>2. QED
  BY <1>1, FS_CardinalityType

\* A card further up the bus has more cards below it.
LEMMA IndexOnce ==
  ASSUME NEW c \in Attached, NEW d \in Attached
  PROVE  Index(c) \in Nat /\ (Index(c) = Index(d) => c = d)
<1> DEFINE below(e) == {x \in Attached : Bus[x] < Bus[e]}
<1>1. \A e \in Attached : below(e) \subseteq Cards
  BY DEF Attached
<1>2. \A e, x \in Attached : Bus[e] < Bus[x] => Cardinality(below(e)) # Cardinality(below(x))
  <2>1. SUFFICES ASSUME NEW e \in Attached, NEW x \in Attached, Bus[e] < Bus[x]
                 PROVE  Cardinality(below(e)) # Cardinality(below(x))
    OBVIOUS
  <2>2. \A y \in Attached : Bus[y] \in Nat
    BY BusAssumption DEF Attached
  <2>3. below(e) \subseteq below(x)
    BY <2>1, <2>2
  <2>4. e \in below(x) /\ e \notin below(e)
    BY <2>1, <2>2
  <2>5. IsFiniteSet(below(x))
    BY <1>1, AttachedFinite
  <2>6. QED
    BY <2>3, <2>4, <2>5, FS_Subset
<1>3. \A e \in Attached : Index(e) = Cardinality(below(e))
  BY DEF Index
<1>4. Index(c) \in Nat
  BY <1>1, <1>3, AttachedFinite
<1>5. Index(c) = Index(d) => ~ (Bus[c] < Bus[d]) /\ ~ (Bus[d] < Bus[c])
  BY <1>2, <1>3
<1>6. QED
  BY <1>4, <1>5, BusAssumption DEF Attached

LEMMA IndicesCount ==
  ASSUME NEW S, S \subseteq Attached
  PROVE  /\ {Index(c) : c \in S} \subseteq Nat
         /\ IsFiniteSet({Index(c) : c \in S})
         /\ Cardinality({Index(c) : c \in S}) = Cardinality(S)
<1> DEFINE I == {Index(c) : c \in S}
           f == [c \in S |-> Index(c)]
<1>1. \A c, d \in S : Index(c) \in Nat /\ (Index(c) = Index(d) => c = d)
  BY IndexOnce
<1>2. IsFiniteSet(S)
  BY AttachedFinite DEF Attached
<1>3. f \in Surjection(S, I)
  BY DEF Surjection
<1>4. f \in Injection(S, I)
  <2>1. f \in [S -> I] /\ \A c, d \in S : f[c] = f[d] => c = d
    BY <1>1
  <2>2. QED
    BY <2>1, Fun_IsInj
<1>5. IsFiniteSet(I) /\ Cardinality(I) = Cardinality(S)
  BY <1>2, <1>3, <1>4, FS_Surjection
<1>6. QED
  BY <1>1, <1>5

\* As many cards were accepted as were listed, if each index has its card.
LEMMA AcceptedCount ==
  ASSUME NEW I, IsFiniteSet(I), NEW U, U \subseteq Cards,
         \A i \in I : \E c \in U : minor_number[c] = i
  PROVE  Cardinality(I) <= Cardinality(U)
<1> DEFINE M == {minor_number[c] : c \in U}
           f == [c \in U |-> minor_number[c]]
<1>1. IsFiniteSet(U) /\ Cardinality(U) \in Nat
  BY AttachedFinite
<1>2. f \in Surjection(U, M)
  BY DEF Surjection
<1>3. IsFiniteSet(M) /\ Cardinality(M) <= Cardinality(U)
  BY <1>1, <1>2, FS_Surjection
<1>4. I \subseteq M
  OBVIOUS
<1>5. Cardinality(I) <= Cardinality(M)
  BY <1>3, <1>4, FS_Subset
<1>6. Cardinality(I) \in Nat /\ Cardinality(M) \in Nat
  BY <1>3, FS_CardinalityType
<1>7. QED
  BY <1>1, <1>3, <1>5, <1>6

-----------------------------------------------------------------------------
(* The script's invariant. *)

\* The accepted cards have the minor numbers that are no longer to do, and
\* there are as many indices as listed cards.
Counted ==
  /\ IsFiniteSet(gpu_indices) /\ Cardinality(gpu_indices) = Cardinality(listed)
  /\ unlocked \subseteq Cmp
  /\ \A i \in gpu_indices \ todo : \E c \in unlocked : minor_number[c] = i
  /\ stage = "probe" => device_index \in todo
  /\ stage \in {"vram", "unit", "bar1", "round", "links", "passed"} => todo = {}

\* A round is still to come where one begins, and a verdict that stands is
\* about every link read in this round.
Looked ==
  /\ stage \in {"list", "next", "probe", "vram", "unit", "bar1"} => round = 0 /\ left = {}
  /\ stage = "round" => round < Rounds
  /\ stage = "links" /\ all_gen2 => \A c \in cmp_bdfs \ left : sample[c] = "gen2"
  /\ PassIsGen2

Inv == ProbeInv /\ TypeOK /\ Counted /\ Looked

LEMMA InitInv == Init => Inv
<1> SUFFICES ASSUME Init PROVE Inv
  OBVIOUS
<1> USE DEF Init, ProbeInit
<1>1. ProbeTypeOK
  <2>1. answer \in [Cards -> [Controls -> Reply]]
    BY AnswersAssumption
  <2>2. results \in [Controls -> Outcomes] /\ params \in [Controls -> Reply]
    BY DEF Outcomes, Cleared, Reply
  <2>3. QED
    BY <2>1, <2>2, OrderIs, FaultsAssumption DEF ProbeTypeOK, Places, Ended
<1>2. HostOK /\ HoldsOne /\ Reported
  BY DEF HostOK, Attached, HoldsOne, HasFile, HasCard, HasInstance, HasObject, Reported
<1>3. Gathered
  BY DEF Gathered, Unread
<1>4. TypeOK
  <2>1. stage \in Stages /\ 0 \in 0 .. Rounds
    BY RoundsAssumption DEF Stages
  <2>2. gpu_indices \subseteq Nat /\ todo \subseteq gpu_indices /\ listed \subseteq Cmp
        /\ cmp_bdfs \subseteq Cmp /\ left \subseteq cmp_bdfs /\ unlocked \subseteq Cards
    OBVIOUS
  <2>3. sample \in [Cards -> {"none", "gen1", "gen2"}]
    OBVIOUS
  <2>4. all_gen2 \in BOOLEAN /\ second_pass \in {"unknown", "disabled", "failed", "active"}
    OBVIOUS
  <2>5. QED
    BY <1>1, <2>1, <2>2, <2>3, <2>4 DEF TypeOK
<1>5. Counted
  BY FS_EmptySet DEF Counted
<1>6. Looked
  BY DEF Looked, PassIsGen2
<1>7. QED
  BY <1>1, <1>2, <1>3, <1>4, <1>5, <1>6 DEF Inv, ProbeInv

LEMMA ProbeStays ==
  ASSUME ProbeInv, UNCHANGED <<host, probe>>
  PROVE  ProbeInv'
<1> USE DEF ProbeInv, host, probe, program
<1>1. ProbeTypeOK' /\ HostOK'
  BY DEF ProbeTypeOK, HostOK, Attached
<1>2. HoldsOne'
  BY DEF HoldsOne, Named, Attached
<1>3. Gathered' /\ Reported'
  BY DEF Gathered, Unread, WasRead, Reported
<1>4. QED
  BY <1>1, <1>2, <1>3

LEMMA ScriptStays ==
  ASSUME Inv, ProbeTypeOK', UNCHANGED <<minor_number, device_index, script>>
  PROVE  TypeOK' /\ Counted' /\ Looked'
<1> USE DEF Inv, script
<1>1. TypeOK'
  BY DEF TypeOK
<1>2. Counted' /\ Looked'
  BY DEF Counted, Looked, PassIsGen2
<1>3. QED
  BY <1>1, <1>2

LEMMA ProbeKeepsInv ==
  ASSUME Inv, UNCHANGED script, ProbeStep \/ Killed \/ HostStep
  PROVE  Inv'
<1>1. ProbeInv'
  BY ProbeKept DEF Inv
<1>2. UNCHANGED <<minor_number, device_index>>
  <2> USE DEF host, probe, program, Goes
  <2>1. CASE HostStep
    BY <2>1 DEF HostStep, Detach, Attach, Restart
  <2>2. CASE Killed \/ OpenCtlFails \/ CloseCtl
    BY <2>2 DEF Killed, OpenCtlFails, CloseCtl, Exits
  <2>3. CASE OpenCtl \/ OpenCard \/ OpenCardFails \/ RegisterFd \/ AllocClient
             \/ CardInfo \/ IdInfo \/ AllocDevice \/ AllocSubdevice \/ CallFails
    BY <2>3 DEF OpenCtl, OpenCard, OpenCardFails, RegisterFd, AllocClient, CardInfo,
                IdInfo, AllocDevice, AllocSubdevice, CallFails
  <2>4. CASE PrintReport \/ CloseCard \/ Get
             \/ \E outcome \in Outcomes \ {"ok"} : GetFails(outcome)
    BY <2>4 DEF PrintReport, CloseCard, Get, GetFails, Got
  <2>5. QED
    BY <2>1, <2>2, <2>3, <2>4 DEF ProbeStep
<1>3. QED
  BY <1>1, <1>2, ScriptStays DEF Inv, ProbeInv

\* The loop over the cards.
LEMMA LoopKept ==
  ASSUME Inv, List \/ StartProbe \/ AllProbed \/ Accept \/ Reject
  PROVE  Inv'
<1> USE DEF Inv, Goto, host
<1>1. CASE List
  <2>1. ProbeInv'
    BY <1>1, ProbeStays DEF List
  <2>2. /\ gpu_indices' = {Index(c) : c \in Attached \cap Cmp}
        /\ listed' = Attached \cap Cmp /\ todo' = gpu_indices'
    BY <1>1 DEF List
  <2>3. stage' \in {"next", "failed"}
    BY <1>1 DEF List
  <2>4. /\ gpu_indices' \subseteq Nat /\ IsFiniteSet(gpu_indices')
        /\ Cardinality(gpu_indices') = Cardinality(listed')
    BY <2>2, IndicesCount
  <2>5. TypeOK'
    BY <1>1, <2>1, <2>2, <2>3, <2>4 DEF List, TypeOK, Stages, ProbeInv
  <2>6. Counted'
    BY <1>1, <2>2, <2>3, <2>4 DEF List, Counted
  <2>7. Looked'
    BY <1>1, <2>3 DEF List, Looked, PassIsGen2
  <2>8. QED
    BY <2>1, <2>5, <2>6, <2>7
<1>2. CASE StartProbe
  <2>1. PICK i \in todo : Start(i)
    BY <1>2 DEF StartProbe
  <2>2. i \in Nat
    BY DEF TypeOK
  <2>3. ProbeInv'
    BY <2>1, <2>2, StartKept
  <2>4. TypeOK'
    BY <1>2, <2>3 DEF StartProbe, TypeOK, Stages, ProbeInv
  <2>5. Counted' /\ Looked'
    BY <1>2, <2>1 DEF StartProbe, Start, Counted, Looked, PassIsGen2
  <2>6. QED
    BY <2>3, <2>4, <2>5
<1>3. CASE AllProbed
  <2>1. ProbeInv'
    BY <1>3, ProbeStays DEF AllProbed
  <2>2. TypeOK' /\ Counted' /\ Looked'
    BY <1>3, <2>1
    DEF AllProbed, TypeOK, Stages, ProbeInv, Counted, Looked, PassIsGen2
  <2>3. QED
    BY <2>1, <2>2
<1>4. CASE Accept
  <2>1. ProbeInv'
    BY <1>4, ProbeStays DEF Accept
  <2>2. origin \in Cmp /\ origin \in Cards /\ minor_number[origin] = device_index
    BY <1>4 DEF Accept, Accepts, ProbeInv, Reported
  <2>3. TypeOK'
    BY <1>4, <2>1, <2>2 DEF Accept, TypeOK, Stages, ProbeInv
  <2>4. Counted'
    BY <1>4, <2>2 DEF Accept, Counted
  <2>5. Looked'
    BY <1>4 DEF Accept, Looked, PassIsGen2
  <2>6. QED
    BY <2>1, <2>3, <2>4, <2>5
<1>5. CASE Reject
  <2>1. ProbeInv'
    BY <1>5, ProbeStays DEF Reject
  <2>2. TypeOK' /\ Counted' /\ Looked'
    BY <1>5, <2>1 DEF Reject, TypeOK, Stages, ProbeInv, Counted, Looked, PassIsGen2
  <2>3. QED
    BY <2>1, <2>2
<1>6. QED
  BY <1>1, <1>2, <1>3, <1>4, <1>5

\* Memory, the unit, BAR1, and the rounds over the links.
LEMMA LooksKept ==
  ASSUME Inv,
         \/ CheckVram \/ CheckUnit \/ CheckBar1 \/ BeginRound \/ ReadLink
         \/ ReadFails \/ EndRound
  PROVE  Inv'
<1> USE DEF Inv, Goto, host
<1>1. ProbeInv'
  BY ProbeStays
  DEF CheckVram, CheckUnit, CheckBar1, Look, BeginRound, ReadLink, ReadFails, EndRound
<1>2. Counted'
  BY <1>1 DEF CheckVram, CheckUnit, CheckBar1, Look, BeginRound, ReadLink, ReadFails,
              EndRound, Counted, probe, program
<1>3. CASE CheckVram \/ CheckUnit \/ ReadFails
  <2>1. TypeOK'
    BY <1>1, <1>3 DEF CheckVram, CheckUnit, ReadFails, Look, TypeOK, Stages, ProbeInv
  <2>2. Looked'
    BY <1>3 DEF CheckVram, CheckUnit, ReadFails, Look, Looked, PassIsGen2
  <2>3. QED
    BY <1>1, <1>2, <2>1, <2>2
<1>4. CASE CheckBar1
  <2>1. TypeOK'
    BY <1>1, <1>4 DEF CheckBar1, Look, Looked, TypeOK, Stages, ProbeInv
  <2>2. Looked'
    BY <1>4, RoundsAssumption DEF CheckBar1, Look, Looked, PassIsGen2
  <2>3. QED
    BY <1>1, <1>2, <2>1, <2>2
<1>5. CASE BeginRound
  <2>1. round' \in 0 .. Rounds
    BY <1>5, RoundsAssumption DEF BeginRound, Looked, TypeOK
  <2>2. TypeOK'
    BY <1>1, <1>5, <2>1 DEF BeginRound, TypeOK, Stages, ProbeInv
  <2>3. Looked'
    BY <1>5 DEF BeginRound, Looked, PassIsGen2
  <2>4. QED
    BY <1>1, <1>2, <2>2, <2>3
<1>6. CASE ReadLink
  <2>1. PICK c \in left, speed \in {"gen1", "gen2"} :
          /\ left' = left \ {c} /\ sample' = [sample EXCEPT ![c] = speed]
          /\ all_gen2' = StillGen2(speed)
    BY <1>6 DEF ReadLink
  <2>2. c \in Cards
    BY CmpAssumption DEF TypeOK
  <2>3. TypeOK'
    BY <1>1, <1>6, <2>1, <2>2 DEF ReadLink, StillGen2, TypeOK, Stages, ProbeInv
  <2>4. Looked'
    BY <1>6, <2>1, <2>2, CmpAssumption
    DEF ReadLink, StillGen2, Looked, PassIsGen2, TypeOK
  <2>5. QED
    BY <1>1, <1>2, <2>3, <2>4
<1>7. CASE EndRound
  <2>1. TypeOK'
    BY <1>1, <1>7 DEF EndRound, TypeOK, Stages, ProbeInv
  <2>2. Looked'
    BY <1>7, RoundsAssumption DEF EndRound, LastRound, Looked, PassIsGen2, TypeOK
  <2>3. QED
    BY <1>1, <1>2, <2>1, <2>2
<1>8. QED
  BY <1>3, <1>4, <1>5, <1>6, <1>7

-----------------------------------------------------------------------------
(* The results. *)

\* The inductive invariant of script, probe and host together.
THEOREM Invariance == Spec => []Inv
<1>1. ASSUME Inv, [Next]_vars
      PROVE  Inv'
  <2>1. CASE Step
    BY <1>1, <2>1, ProbeKeepsInv, LoopKept, LooksKept DEF Step, ScriptStep
  <2>2. CASE (Killed \/ HostStep) /\ UNCHANGED script
    BY <1>1, <2>2, ProbeKeepsInv
  <2>3. CASE UNCHANGED vars
    <3>1. UNCHANGED <<host, probe>> /\ UNCHANGED <<minor_number, device_index, script>>
      BY <2>3 DEF vars, host, probe, program
    <3>2. ProbeInv'
      BY <1>1, <3>1, ProbeStays DEF Inv
    <3>3. QED
      BY <1>1, <3>1, <3>2, ScriptStays DEF Inv, ProbeInv
  <2>4. QED
    BY <1>1, <2>1, <2>2, <2>3 DEF Next
<1>2. QED
  BY <1>1, InitInv, PTL DEF Spec

\* Every variable of the verification keeps its type.
THEOREM TypeCorrect == Spec => []TypeOK
<1>1. Inv => TypeOK
  BY DEF Inv
<1>2. QED
  BY <1>1, Invariance, PTL

\* A pass after all CMP cards were listed has had every one of them accepted,
\* whatever the numbering: there were as many indices as cards, and each was
\* answered for by a different one.
THEOREM PassStaysComplete == Spec => []PassIsComplete
<1>1. ASSUME Inv, stage = "passed", listed = Cmp
      PROVE  unlocked = Cmp
  <2>1. \A i \in gpu_indices : \E c \in unlocked : minor_number[c] = i
    BY <1>1 DEF Inv, Counted
  <2>2. unlocked \subseteq Cmp /\ Cmp \subseteq Cards
    BY <1>1, CmpAssumption DEF Inv, Counted
  <2>3. Cardinality(Cmp) <= Cardinality(unlocked)
    BY <1>1, <2>1, <2>2, AcceptedCount DEF Inv, Counted
  <2>4. IsFiniteSet(Cmp) /\ Cardinality(Cmp) \in Nat /\ Cardinality(unlocked) \in Nat
    BY <2>2, AttachedFinite
  <2>5. Cardinality(unlocked) <= Cardinality(Cmp)
        /\ (Cardinality(Cmp) = Cardinality(unlocked) => Cmp = unlocked)
    BY <2>2, <2>4, FS_Subset
  <2>6. QED
    BY <2>3, <2>4, <2>5
<1>2. Inv => PassIsComplete
  BY <1>1 DEF PassIsComplete
<1>3. QED
  BY <1>2, Invariance, PTL

\* A pass beside an active second pass saw every listed link at Gen2.
THEOREM PassStaysGen2 == Spec => []PassIsGen2
<1>1. Inv => PassIsGen2
  BY DEF Inv, Looked
<1>2. QED
  BY <1>1, Invariance, PTL

\* The probe, with the script that starts it and a host that changes between
\* its calls, implements the one that reads its card at one moment.
THEOREM ImplementsAtomicProbe == Spec => AtomicReports
<1>1. Init => Atomic!Init
  BY DEF Init, ProbeInit, Atomic!Init, Ended
<1>2. ASSUME Inv, [Next]_vars
      PROVE  [Atomic!Next]_Atomic!vars
  <2>1. CASE ProbeStep \/ Killed \/ HostStep
    BY <1>2, <2>1, ProbeImplements DEF Inv
  <2>2. CASE StartProbe
    <3>1. PICK i \in todo : Start(i)
      BY <2>2 DEF StartProbe
    <3>2. i \in Nat
      BY <1>2 DEF Inv, TypeOK
    <3>3. QED
      BY <1>2, <3>1, <3>2, ProbeImplements DEF Inv
  <2>3. CASE UNCHANGED <<host, probe>>
    BY <2>3 DEF host, probe, program, Atomic!vars
  <2>4. CASE \/ List \/ AllProbed \/ Accept \/ Reject \/ CheckVram \/ CheckUnit
             \/ CheckBar1 \/ BeginRound \/ ReadLink \/ ReadFails \/ EndRound
    BY <2>3, <2>4
    DEF List, AllProbed, Accept, Reject, CheckVram, CheckUnit, CheckBar1, Look,
        BeginRound, ReadLink, ReadFails, EndRound
  <2>5. CASE UNCHANGED vars
    BY <2>3, <2>5 DEF vars
  <2>6. QED
    BY <1>2, <2>1, <2>2, <2>4, <2>5 DEF Next, Step, ScriptStep
<1>3. QED
  BY <1>1, <1>2, Invariance, PTL DEF Spec, AtomicReports, Atomic!Spec

-----------------------------------------------------------------------------
(* A verification only moves towards its end. *)

PcRank ==
  [idle |-> 0, exited |-> 0, close_ctl |-> 1, close_card |-> 2, print |-> 3,
   get |-> 4, subdevice |-> 5, device |-> 6, id_info |-> 7, card_info |-> 8,
   client |-> 9, register |-> 10, open_card |-> 11, open_ctl |-> 12]
ProbeCloser ==
  \/ PcRank[pc'] < PcRank[pc]
  \/ pc = "get" /\ pc' = "get" /\ at < at' /\ at' <= Len(Order)

StageRank ==
  [passed |-> 0, failed |-> 0, links |-> 1, round |-> 1, bar1 |-> 2, unit |-> 3,
   vram |-> 4, probe |-> 5, next |-> 5, list |-> 6]

\* One index less to go through, one link less to read, one look less to make.
Fewer(set) == set' \subseteq set /\ set' # set

ScriptCloser ==
  \/ StageRank[stage'] < StageRank[stage]
  \/ stage = "next" /\ stage' = "probe" /\ todo' = todo
  \/ stage = "probe" /\ stage' = "next" /\ Fewer(todo)
  \/ stage = "round" /\ stage' = "links" /\ round < round' /\ round' <= Rounds
  \/ stage = "links" /\ stage' = "links" /\ round' = round /\ Fewer(left)
  \/ stage = "links" /\ stage' = "round" /\ round' = round /\ round < Rounds

Progress == <<stage, todo, left, round, pc, at>>

\* Every step of the script, and every call of a probe it runs, failing or
\* not, brings the verification closer to its end, and nothing else moves it
\* back: not the cards, the driver or a signal to the probe.
OnlyAdvances ==
  [][\/ ScriptCloser
     \/ UNCHANGED script /\ ProbeCloser
     \/ UNCHANGED Progress /\ ~ Step]_vars

LEMMA ProbeStepCloser ==
  ASSUME ProbeTypeOK, ProbeStep
  PROVE  ProbeCloser
<1> USE DEF ProbeCloser, PcRank, Goes
<1>1. CASE OpenCtl \/ OpenCard \/ OpenCardFails \/ RegisterFd \/ AllocClient
  BY <1>1 DEF OpenCtl, OpenCard, OpenCardFails, RegisterFd, AllocClient
<1>2. CASE CardInfo \/ IdInfo \/ AllocDevice \/ AllocSubdevice
  BY <1>2 DEF CardInfo, IdInfo, AllocDevice, AllocSubdevice
<1>3. CASE PrintReport \/ CloseCard \/ CloseCtl \/ OpenCtlFails
  BY <1>3 DEF PrintReport, CloseCard, CloseCtl, OpenCtlFails, Exits
<1>4. CASE CallFails
  BY <1>4 DEF CallFails, Calls
<1>5. ASSUME NEW outcome, NEW reply, Got(outcome, reply)
      PROVE  ProbeCloser
  <2>1. pc = "get" /\ at \in 1 .. 9 /\ Len(Order) = 9
    BY <1>5, OrderIs DEF Got, ProbeTypeOK
  <2>2. CASE LastGet
    BY <1>5, <2>1, <2>2 DEF Got
  <2>3. CASE ~ LastGet
    <3>1. pc' = "get" /\ at' = at + 1 /\ at # 9
      BY <1>5, <2>1, <2>3 DEF Got, LastGet
    <3>2. QED
      BY <2>1, <3>1
  <2>4. QED
    BY <2>2, <2>3
<1>6. QED
  BY <1>1, <1>2, <1>3, <1>4, <1>5 DEF ProbeStep, Get, GetFails

LEMMA ScriptStepCloser ==
  ASSUME Inv, ScriptStep
  PROVE  ScriptCloser
<1> USE DEF ScriptCloser, StageRank, Goto, Fewer
<1>1. CASE List \/ StartProbe \/ AllProbed \/ Reject
  BY <1>1 DEF List, StartProbe, AllProbed, Reject
<1>2. CASE Accept
  BY <1>2 DEF Accept, Inv, Counted
<1>3. CASE CheckVram \/ CheckUnit \/ CheckBar1 \/ ReadFails
  BY <1>3 DEF CheckVram, CheckUnit, CheckBar1, Look, ReadFails
<1>4. CASE BeginRound
  <2>1. round \in Nat /\ Rounds \in Nat /\ round < Rounds
    BY <1>4, RoundsAssumption DEF BeginRound, Inv, TypeOK, Looked
  <2>2. QED
    BY <1>4, <2>1 DEF BeginRound
<1>5. CASE ReadLink
  BY <1>5 DEF ReadLink
<1>6. CASE EndRound
  BY <1>6, RoundsAssumption DEF EndRound, LastRound, Inv, TypeOK
<1>7. QED
  BY <1>1, <1>2, <1>3, <1>4, <1>5, <1>6 DEF ScriptStep

\* No step of a verification is ever made again: the counting half of "it
\* ends", whose other half is that script and probe run on.
THEOREM VerificationAdvances == Spec => OnlyAdvances
<1> DEFINE Advance ==
      \/ ScriptCloser
      \/ UNCHANGED script /\ ProbeCloser
      \/ UNCHANGED Progress /\ ~ Step
<1>1. ASSUME Inv, Next
      PROVE  Advance \/ UNCHANGED vars
  <2>1. CASE Step
    BY <1>1, <2>1, ProbeStepCloser, ScriptStepCloser DEF Step, Inv, TypeOK
  <2>2. CASE Killed /\ UNCHANGED script
    BY <1>1, <2>2 DEF Killed, Exits, Ended, ProbeCloser, PcRank, Inv, TypeOK, ProbeTypeOK,
                      Places, Calls
  <2>3. CASE HostStep /\ UNCHANGED script /\ ~ Step
    BY <2>3 DEF HostStep, Detach, Attach, Restart, Progress, script, probe, program
  <2>4. QED
    BY <1>1, <2>1, <2>2, <2>3 DEF Next
<1>2. Inv /\ [Next]_vars => [Advance]_vars
  BY <1>1
<1>3. QED
  BY <1>2, Invariance, PTL DEF Spec, OnlyAdvances
=============================================================================
