----------------------------- MODULE VirtualBMC -----------------------------
(***************************************************************************)
(* One virtual BMC at work: class VirtualBMC (vbmc.py) with the helpers it *)
(* uses (utils.py), between an IPMI client and vSphere.                    *)
(*                                                                         *)
(* A BMC handles one request at a time.  Every handler opens a connection  *)
(* to the server, looks the VM up, reads what it needs, calls at most one  *)
(* method of the VM and disconnects; each of these is a call over the      *)
(* network, may fail, and leaves time for others to act.  What it calls    *)
(* starts a task, and nobody waits for a task: the answer to the client    *)
(* says that the task was started.                                         *)
(***************************************************************************)
EXTENDS Naturals, Sequences

CONSTANTS
    Has,         \* the kinds of bootable device the VM has
    None,        \* "nothing"
    MaxTasks,    \* bound: tasks that may be pending
    FaultKinds,  \* what may go wrong
    MaxFaults    \* bound: how often in one behaviour

Device == {"floppy", "disk", "cdrom", "ethernet"}

ASSUME BmcAssumption ==
    /\ Has \subseteq Device
    /\ None \notin Device
    /\ MaxTasks \in Nat \ {0} /\ MaxFaults \in Nat

VARIABLES
    vm,      \* the VM: its power state, first boot device, guest shutdown
    tasks,   \* the tasks vSphere has accepted for it, oldest first
    job,     \* the request the BMC is at
    answer,  \* the answer to the last request
    asked,   \* history: the device of the last bootdev that went through
    faults   \* number of faults so far

vars == <<vm, tasks, job, answer, asked, faults>>

-----------------------------------------------------------------------------
(* The boot devices an IPMI client may name, with the selector of each, and *)
(* what pyghmi knows besides.                                               *)

Selector == [network |-> 1, hd |-> 2, optical |-> 5, floppy |-> 15]
Bootdev  == DOMAIN Selector \cup {"setup"}

SetMap == [network |-> "ethernet", hd |-> "disk",
           optical |-> "cdrom", floppy |-> "floppy"]

(* Mutant: the selectors themselves, not shifted into the answer's field.   *)
MutGetMap(d) == CASE d = "ethernet" -> 1 [] d = "disk" -> 2 [] d = "cdrom" -> 5
                  [] d = "floppy" -> 15 [] OTHER -> 0

GetMap(d) == CASE d = "ethernet" -> 4 [] d = "disk" -> 8 [] d = "cdrom" -> 20
               [] d = "floppy" -> 60 [] OTHER -> 0

Ok      == 0
Busy    == 192
Invalid == 204
Failed  == 255

PowerCmd == {"power_on", "power_off", "power_shutdown", "power_reset"}
GetCmd   == {"get_power_state", "get_boot_device"}
Cmd      == PowerCmd \cup GetCmd \cup {"set_boot_device", "pulse_diag"}

Power == {"poweredOn", "poweredOff", "suspended"}

NoJob     == [cmd |-> None, arg |-> None, st |-> "idle", seen |-> None]
NoAnswer  == [cmd |-> None, code |-> Ok, data |-> 0]

Init ==
    /\ vm \in [power : Power, boot : Has \cup {None}, halting : {FALSE}]
    /\ tasks = <<>>
    /\ job = NoJob
    /\ answer = NoAnswer
    /\ asked = None
    /\ faults = 0

Fault(kind) ==
    /\ kind \in FaultKinds
    /\ faults < MaxFaults
    /\ faults' = faults + 1

-----------------------------------------------------------------------------
(* The handlers.                                                            *)

Request(cmd, arg) ==
    /\ job = NoJob
    /\ IF cmd = "set_boot_device" THEN arg \in Bootdev ELSE arg = None
    /\ IF cmd = "set_boot_device" /\ arg \notin DOMAIN SetMap
       THEN /\ answer' = [cmd |-> cmd, code |-> Invalid, data |-> 0]
            /\ UNCHANGED job
       ELSE /\ job' = [cmd |-> cmd, arg |-> arg, st |-> "connect", seen |-> None]
            /\ answer' = NoAnswer
    /\ UNCHANGED <<vm, tasks, asked, faults>>

(* What the last bootdev that went through named, after this command.       *)
Asked(boot) == IF job.cmd = "set_boot_device" THEN boot ELSE asked

(* An exception anywhere: a getter raises it again and the dispatcher sends *)
(* 0xFF, all others ask the client to retry.  What was done stays done, and *)
(* the client has to ask again.                                             *)
Fails(kind) ==
    /\ Fault(kind)
    /\ answer' = [cmd |-> job.cmd, data |-> 0,
                  code |-> IF job.cmd \in GetCmd THEN Failed ELSE Busy]
    /\ asked' = Asked(None)
    /\ job' = NoJob
    /\ UNCHANGED <<vm, tasks>>

Connect ==
    /\ job.st = "connect"
    /\ job' = [job EXCEPT !.st = "look"]
    /\ UNCHANGED <<vm, tasks, answer, asked, faults>>

(* The VM is looked up by its UUID or its name, then read.                  *)
Look ==
    /\ job.st = "look"
    /\ job' = [job EXCEPT
          !.st = IF job.cmd \in GetCmd THEN "close" ELSE "call",
          !.seen = IF job.cmd = "get_boot_device" THEN vm.boot
                   ELSE IF job.cmd \in PowerCmd \cup {"get_power_state"}
                   THEN vm.power ELSE None]
    /\ UNCHANGED <<vm, tasks, answer, asked, faults>>

(* Mutant: only a VM that is off is powered on.                             *)
MutActs(cmd, seen) ==
    IF cmd = "power_on" THEN seen = "poweredOff" ELSE seen = "poweredOn"

(* Whether a power command finds something to do.                           *)
Acts(cmd, seen) ==
    IF cmd = "power_on" THEN seen # "poweredOn" ELSE seen = "poweredOn"

TaskOf == [power_on |-> "on", power_off |-> "off", power_reset |-> "reset"]

(* The task a handler starts, if any: the boot order of a VM without the    *)
(* device is set to an empty list.                                          *)
Calls(cmd, arg, seen) ==
    CASE cmd \in DOMAIN TaskOf ->
            IF Acts(cmd, seen) THEN <<[kind |-> TaskOf[cmd], dev |-> None]>> ELSE <<>>
      [] cmd = "set_boot_device" ->
            LET d == SetMap[arg]
            IN <<[kind |-> "boot", dev |-> IF d \in Has THEN d ELSE None]>>
      [] OTHER -> <<>>

Call ==
    /\ job.st = "call"
    /\ Len(tasks) < MaxTasks
    /\ tasks' = tasks \o Calls(job.cmd, job.arg, job.seen)
    /\ vm' = IF job.cmd = "power_shutdown" /\ Acts(job.cmd, job.seen)
             THEN [vm EXCEPT !.halting = (vm.power = "poweredOn")] ELSE vm
    /\ asked' = Asked(job.arg)
    /\ job' = [job EXCEPT !.st = "close"]
    /\ UNCHANGED <<answer, faults>>

Data ==
    CASE job.cmd = "get_boot_device" -> GetMap(job.seen)
      [] job.cmd = "get_power_state" -> IF job.seen = "poweredOn" THEN 1 ELSE 0
      [] OTHER                       -> 0

Close ==
    /\ job.st = "close"
    /\ answer' = [cmd |-> job.cmd, code |-> Ok, data |-> Data]
    /\ job' = NoJob
    /\ UNCHANGED <<vm, tasks, asked, faults>>

Errors ==
    \E st \in {"connect", "look", "call", "close"} : job.st = st /\ Fails(st)

Handler == Connect \/ Look \/ Call \/ Close

-----------------------------------------------------------------------------
(* vSphere runs the tasks of one VM one after the other.  A task that does  *)
(* not fit the power state the VM has by then fails.                        *)

Off(m) == [m EXCEPT !.power = "poweredOff", !.halting = FALSE]
On(m)  == [m EXCEPT !.power = "poweredOn", !.halting = FALSE]

Outcomes(t) ==
    CASE t.kind = "on"    -> {IF vm.power # "poweredOn" THEN On(vm) ELSE vm}
      [] t.kind = "off"   -> {IF vm.power = "poweredOn" THEN Off(vm) ELSE vm}
      [] t.kind = "reset" -> {IF vm.power = "poweredOn" THEN On(vm) ELSE vm}
      [] t.kind = "boot"  ->
            {[vm EXCEPT !.boot = d] :
                d \in IF t.dev = None THEN {None, vm.boot} ELSE {t.dev}}

RunTask ==
    /\ tasks # <<>>
    /\ vm' \in Outcomes(Head(tasks))
    /\ tasks' = Tail(tasks)
    /\ UNCHANGED <<job, answer, asked, faults>>

(* The guest has shut itself down.                                          *)
GuestHalts ==
    /\ vm.halting
    /\ vm' = Off(vm)
    /\ UNCHANGED <<tasks, job, answer, asked, faults>>

(* Somebody else uses vSphere: what the client asked for no longer binds.   *)
User ==
    /\ Fault("user")
    /\ \E p \in Power, d \in Has \cup {None} :
          vm' = [power |-> p, boot |-> d, halting |-> FALSE]
    /\ asked' = None
    /\ UNCHANGED <<tasks, job, answer>>

Next ==
    \/ \E cmd \in Cmd, arg \in Bootdev \cup {None} : Request(cmd, arg)
    \/ Handler
    \/ Errors
    \/ RunTask
    \/ GuestHalts
    \/ User

Spec == Init /\ [][Next]_vars

(* A handler that was called runs to its end, and so does a task.           *)
FairSpec == Spec /\ WF_vars(Handler) /\ WF_vars(RunTask)

-----------------------------------------------------------------------------
(* Every variable keeps its type, and only a running guest is halting.      *)
TypeOK ==
    /\ vm \in [power : Power, boot : Device \cup {None}, halting : BOOLEAN]
    /\ vm.halting => vm.power = "poweredOn"
    /\ tasks \in Seq([kind : {"on", "off", "reset", "boot"}, dev : Device \cup {None}])
    /\ Len(tasks) <= MaxTasks
    /\ job \in {NoJob} \cup
          [cmd : Cmd, arg : DOMAIN SetMap \cup {None},
           st : {"connect", "look", "call", "close"}, seen : Power \cup Device \cup {None}]
    /\ answer \in {NoAnswer} \cup
          [cmd : Cmd, code : {Ok, Busy, Invalid, Failed}, data : {0, 1, 4, 8, 20, 60}]
    /\ asked \in DOMAIN SetMap \cup {None}
    /\ faults \in 0 .. MaxFaults

AtRest == tasks = <<>> /\ job = NoJob /\ ~vm.halting

(* "chassis bootparam get 5" names the device the last accepted "chassis    *)
(* bootdev" named, once the tasks are through, if the VM has such a device: *)
(* the selector, shifted into its place.                                    *)
BootSticks ==
    AtRest /\ asked # None /\ SetMap[asked] \in Has
        => GetMap(vm.boot) = 4 * Selector[asked]

(* A client that asks for one power state again and again, and for no other *)
(* any more, gets it: neither tasks of earlier commands nor a suspended VM  *)
(* can keep it from that.                                                   *)
Insists(cmd) ==
    /\ <>[](job.cmd \notin PowerCmd \ {cmd})
    /\ []<><<Close /\ job.cmd = cmd>>_vars
PowerWins ==
    /\ Insists("power_on")  => <>[](vm.power = "poweredOn")
    /\ Insists("power_off") => <>[](vm.power # "poweredOn")

=============================================================================
