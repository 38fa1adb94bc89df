------------------------------- MODULE Probe --------------------------------
(***************************************************************************)
(* verify/rm_issue_rate.c: one run of the program, call by call, on a host *)
(* whose cards are unbound and bound again meanwhile. A card has a minor   *)
(* number that stays and an RM device instance that may be another one     *)
(* after every probe of the driver; the program is given the first and     *)
(* must pass RM the second.                                                *)
(***************************************************************************)
EXTENDS RmReport

CONSTANTS
  Cards,       \* the GPUs of the host
  Minors,      \* the numberings of device files the host may have
  Instances,   \* RM device instances
  Answers,     \* Answers[c]: what card c may answer, chosen at its start
  MaxFaults,   \* bound: calls of the driver that fail in one run
  None         \* no card, no report, not attached

ASSUME NoneAssumption ==
  None \notin Cards \cup Instances \cup Nat /\ None \notin [Controls -> Lines]
ASSUME MinorsAssumption ==
  \A m \in Minors : /\ m \in [Cards -> Nat]
                     /\ \A c, d \in Cards : m[c] = m[d] => c = d
ASSUME InstancesAssumption == Instances \subseteq Nat
ASSUME AnswersAssumption == Answers \in [Cards -> SUBSET [Controls -> Reply]]
ASSUME FaultsAssumption == MaxFaults \in Nat

VARIABLES
  minor_number,    \* minor_number[c]: the N of /dev/nvidiaN
  instance,        \* instance[c]: RM device instance, None when unbound
  answer,          \* answer[c]: its replies since the last start
  pc,              \* the next call of the program
  device_index,    \* its argument
  nvidia_fd,       \* the card whose device file it holds open
  gpu_id,          \* the card it found in the table of cards
  device_instance, \* the instance RM named for that card
  subdevice,       \* the card its RM object stands for
  at,              \* place in Order of the next GET
  results, params, \* per control: outcome, and the buffer afterwards
  report, result,  \* what was printed, the exit status
  origin,          \* ghost: the card whose values were printed
  faults           \* calls that failed in this run

host == <<minor_number, instance, answer>>
program == <<device_index, nvidia_fd, gpu_id, device_instance, subdevice, at,
             results, params, report, result, origin, faults>>
probe == <<pc, program>>

\* Places where a call of the driver comes next.
Calls == {"open_ctl", "open_card", "register", "client", "card_info",
          "id_info", "device", "subdevice", "get"}
Ended == {"idle", "exited"}
Places == Calls \cup {"print", "close_card", "close_ctl"} \cup Ended

Attached == {c \in Cards : instance[c] # None}

-----------------------------------------------------------------------------
(* main. *)

\* A process that ends takes its memory and its open files with it, and with
\* the control file RM frees the client and its objects.
Fresh ==
  /\ nvidia_fd' = None /\ gpu_id' = None
  /\ device_instance' = None /\ subdevice' = None
  /\ at' = 1 /\ faults' = 0
  /\ results' = [ctl \in Controls |-> "ok"]
  /\ params' = [ctl \in Controls |-> Cleared]

Exits(status, printed) ==
  /\ pc' = "exited" /\ result' = status /\ report' = printed
  /\ Fresh
  /\ UNCHANGED <<host, device_index, origin>>

\* The output file is emptied. parse_device_index takes 0 to 127; main returns
\* 2 for anything else.
Start(text) ==
  /\ pc \in Ended
  /\ device_index' = text
  /\ pc' = IF text \in 0 .. 127 THEN "open_ctl" ELSE "exited"
  /\ result' = IF text \in 0 .. 127 THEN 1 ELSE 2
  /\ report' = None
  /\ UNCHANGED <<host, nvidia_fd, gpu_id, device_instance, subdevice, at,
                 results, params, origin, faults>>

\* A call fails, or succeeds and RM reports a status: goto cleanup, which
\* closes what is open.
OpenCtlFails ==
  /\ pc = "open_ctl" /\ faults < MaxFaults
  /\ Exits(1, None)

CallFails ==
  /\ pc \in Calls \ {"open_ctl", "get"}
  /\ faults < MaxFaults
  /\ faults' = faults + 1
  /\ pc' = IF pc = "open_card" THEN "close_ctl" ELSE "close_card"
  /\ UNCHANGED <<host, device_index, nvidia_fd, gpu_id, device_instance,
                 subdevice, at, results, params, report, result, origin>>

Goes(from, to) ==
  pc = from /\ pc' = to /\ UNCHANGED host

OpenCtl ==
  Goes("open_ctl", "open_card") /\ UNCHANGED program

\* The card that /dev/nvidia<device_index> stands for, if a driver has it.
Named(c) == c \in Attached /\ minor_number[c] = device_index

OpenCard ==
  /\ Goes("open_card", "register")
  /\ \E c \in Cards : Named(c) /\ nvidia_fd' = c
  /\ UNCHANGED <<device_index, gpu_id, device_instance, subdevice, at,
                 results, params, report, result, origin, faults>>

\* The file has no card behind it.
OpenCardFails ==
  /\ Goes("open_card", "close_ctl")
  /\ ~ \E c \in Cards : Named(c)
  /\ UNCHANGED program

RegisterFd ==
  Goes("register", "client") /\ UNCHANGED program

AllocClient ==
  Goes("client", "card_info") /\ UNCHANGED program

-----------------------------------------------------------------------------
(* resolve_device_instances: two calls, with the host free to change in    *)
(* between.                                                                *)

\* The entry of the table whose minor number is the argument.
CardInfo ==
  /\ Goes("card_info", "id_info")
  /\ \E c \in Cards : Named(c) /\ gpu_id' = c
  /\ UNCHANGED <<device_index, nvidia_fd, device_instance, subdevice, at,
                 results, params, report, result, origin, faults>>

IdInfo ==
  /\ Goes("id_info", "device")
  /\ instance[gpu_id] # None
  /\ device_instance' = instance[gpu_id]
  /\ UNCHANGED <<device_index, nvidia_fd, gpu_id, subdevice, at,
                 results, params, report, result, origin, faults>>

\* alloc_device: RM looks the card up by its instance, now.
DeviceIdIsMinor == device_index
DeviceId == device_instance

AllocDevice ==
  /\ Goes("device", "subdevice")
  /\ \E c \in Attached : instance[c] = DeviceId /\ subdevice' = c
  /\ UNCHANGED <<device_index, nvidia_fd, gpu_id, device_instance, at,
                 results, params, report, result, origin, faults>>

AllocSubdevice ==
  Goes("subdevice", "get") /\ UNCHANGED program

-----------------------------------------------------------------------------
(* run_probe. *)

LastGetLate == at > Len(Order)
LastGet == at = Len(Order)

\* The bookkeeping of rm_control for one GET of the sequence.
Got(outcome, reply) ==
  /\ Goes("get", IF LastGet THEN "print" ELSE "get")
  /\ results' = [results EXCEPT ![Order[at]] = outcome]
  /\ params' = [params EXCEPT ![Order[at]] = reply]
  /\ at' = IF LastGet THEN at ELSE at + 1
  /\ UNCHANGED <<device_index, nvidia_fd, gpu_id, device_instance, subdevice,
                 report, result, origin>>

Get ==
  /\ pc = "get" /\ instance[subdevice] # None
  /\ Got("ok", answer[subdevice][Order[at]])
  /\ UNCHANGED faults

\* An error of the ioctl or of RM: the next GET is made all the same.
GetFails(outcome) ==
  /\ pc = "get" /\ faults < MaxFaults
  /\ Got(outcome, params[Order[at]])
  /\ faults' = faults + 1

\* print_v1 to print_engine_classes, and the value run_probe returns.
PrintReport ==
  /\ Goes("print", "close_card")
  /\ report' = [ctl \in Controls |-> Line(ctl, results[ctl], params[ctl])]
  /\ result' = IF rm_ok(results["v1"]) \/ rm_ok(results["v2"]) THEN 0 ELSE 1
  /\ origin' = subdevice
  /\ UNCHANGED <<device_index, nvidia_fd, gpu_id, device_instance, subdevice,
                 at, results, params, faults>>

CloseCard ==
  /\ Goes("close_card", "close_ctl")
  /\ nvidia_fd' = None
  /\ UNCHANGED <<device_index, gpu_id, device_instance, subdevice, at,
                 results, params, report, result, origin, faults>>

CloseCtl ==
  /\ pc = "close_ctl"
  /\ Exits(result, report)

\* A signal ends the program. What it had printed is no JSON document.
Killed ==
  /\ pc \notin Ended
  /\ Exits(1, None)

ProbeStep ==
  \/ OpenCtl \/ OpenCard \/ OpenCardFails \/ RegisterFd \/ AllocClient
  \/ CardInfo \/ IdInfo \/ AllocDevice \/ AllocSubdevice
  \/ Get \/ PrintReport \/ CloseCard \/ CloseCtl
  \/ OpenCtlFails \/ CallFails
  \/ \E outcome \in Outcomes \ {"ok"} : GetFails(outcome)

-----------------------------------------------------------------------------
(* The host. The driver keeps a card attached while its file is open, and  *)
(* initializes it at the first opening.                                    *)

Detach(c) ==
  /\ instance[c] # None /\ nvidia_fd # c
  /\ instance' = [instance EXCEPT ![c] = None]
  /\ UNCHANGED <<minor_number, answer, probe>>

Attach(c) ==
  /\ instance[c] = None
  /\ \E i \in Instances :
       /\ \A d \in Cards : instance[d] # i
       /\ instance' = [instance EXCEPT ![c] = i]
  /\ UNCHANGED <<minor_number, answer, probe>>

\* A start of the card by another client.
Restart(c) ==
  /\ nvidia_fd # c
  /\ \E a \in Answers[c] : answer' = [answer EXCEPT ![c] = a]
  /\ UNCHANGED <<minor_number, instance, probe>>

HostStep == \E c \in Cards : Detach(c) \/ Attach(c) \/ Restart(c)

\* A running host: every card is bound to the driver.
ProbeInit ==
  /\ minor_number \in Minors
  /\ instance \in [Cards -> Instances]
  /\ \A c, d \in Cards : instance[c] = instance[d] => c = d
  /\ answer \in [Cards -> UNION {Answers[c] : c \in Cards}]
  /\ \A c \in Cards : answer[c] \in Answers[c]
  /\ pc = "idle" /\ device_index = 0
  /\ nvidia_fd = None /\ gpu_id = None
  /\ device_instance = None /\ subdevice = None /\ at = 1
  /\ results = [ctl \in Controls |-> "ok"]
  /\ params = [ctl \in Controls |-> Cleared]
  /\ report = None /\ result = 0 /\ origin = None /\ faults = 0

-----------------------------------------------------------------------------
(* Safety. *)

ProbeTypeOK ==
  /\ minor_number \in Minors
  /\ instance \in [Cards -> Instances \cup {None}]
  /\ answer \in [Cards -> [Controls -> Reply]]
  /\ pc \in Places /\ device_index \in Nat
  /\ {nvidia_fd, gpu_id, subdevice, origin} \subseteq Cards \cup {None}
  /\ device_instance \in Instances \cup {None}
  /\ at \in 1 .. Len(Order)
  /\ results \in [Controls -> Outcomes]
  /\ params \in [Controls -> Reply]
  /\ report \in [Controls -> Lines] \cup {None}
  /\ result \in 0 .. 2 /\ faults \in 0 .. MaxFaults
=============================================================================
