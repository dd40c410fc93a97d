-------------------------- MODULE VirtualBMCProofs --------------------------
(***************************************************************************)
(* Proofs about module VirtualBMC, for any VM, any number of pending tasks  *)
(* and any faults.                                                         *)
(***************************************************************************)
EXTENDS VirtualBMC, TLAPS

(* Tasks, one by one.                                                       *)
Task == [kind : {"on", "off", "reset", "boot"}, dev : Device \cup {None}]

(* The queue keeps its members' type: what is put in, and what is left.     *)
LEMMA CallsTyped ==
    ASSUME NEW cmd \in Cmd, NEW arg \in DOMAIN SetMap \cup {None}, NEW seen,
           cmd = "set_boot_device" => arg \in DOMAIN SetMap
    PROVE  /\ Calls(cmd, arg, seen) \in Seq(Task)
           /\ Len(Calls(cmd, arg, seen)) <= 1
<1>1. /\ DOMAIN TaskOf = {"power_on", "power_off", "power_reset"}
      /\ \A c \in DOMAIN TaskOf : TaskOf[c] \in {"on", "off", "reset"}
  BY DEF TaskOf
<1>2. CASE cmd \in DOMAIN TaskOf
  <2> DEFINE t == [kind |-> TaskOf[cmd], dev |-> None]
  <2>1. t \in Task
    BY <1>1, <1>2 DEF Task
  <2>2. cmd # "set_boot_device"
    BY <1>1, <1>2
  <2>3. CASE Acts(cmd, seen)
    <3>1. Calls(cmd, arg, seen) = <<t>>
      BY <1>2, <2>2, <2>3 DEF Calls
    <3> HIDE DEF t
    <3>2. QED
      BY <2>1, <3>1
  <2>4. CASE ~Acts(cmd, seen)
    <3>1. Calls(cmd, arg, seen) = <<>>
      BY <1>2, <2>2, <2>4 DEF Calls
    <3>2. QED
      BY <3>1
  <2>5. QED
    BY <2>3, <2>4
<1>3. CASE cmd = "set_boot_device"
  <2> DEFINE t == [kind |-> "boot", dev |-> IF SetMap[arg] \in Has THEN SetMap[arg] ELSE None]
  <2>1. SetMap[arg] \in Device
    BY <1>3 DEF SetMap, Device
  <2>2. t \in Task
    BY <2>1 DEF Task
  <2>3. Calls(cmd, arg, seen) = <<t>>
    BY <1>1, <1>3 DEF Calls
  <2> HIDE DEF t
  <2>4. QED
    BY <2>2, <2>3
<1>4. CASE cmd \notin DOMAIN TaskOf /\ cmd # "set_boot_device"
  <2>1. Calls(cmd, arg, seen) = <<>>
    BY <1>4 DEF Calls
  <2>2. QED
    BY <2>1
<1>5. QED
  BY <1>2, <1>3, <1>4

(* The request at hand names a device exactly if it is a bootdev.           *)
ArgFits == job # NoJob /\ job.cmd = "set_boot_device" => job.arg \in DOMAIN SetMap

Typed == TypeOK /\ ArgFits

Jobs == [cmd : Cmd, arg : DOMAIN SetMap \cup {None},
         st : {"connect", "look", "call", "close"}, seen : Power \cup Device \cup {None}]

LEMMA AtWork ==
    ASSUME Typed, job.st # "idle"
    PROVE  /\ job \in Jobs /\ job # NoJob
           /\ job.cmd \in Cmd /\ job.arg \in DOMAIN SetMap \cup {None}
           /\ job.cmd = "set_boot_device" => job.arg \in DOMAIN SetMap
BY DEF Typed, TypeOK, ArgFits, Jobs, NoJob

LEMMA OutcomeTyped ==
    ASSUME Typed, tasks # <<>>, NEW m \in Outcomes(Head(tasks))
    PROVE  /\ m \in [power : Power, boot : Device \cup {None}, halting : BOOLEAN]
           /\ m.halting => m.power = "poweredOn"
<1> DEFINE t == Head(tasks)
           Good(x) == /\ x \in [power : Power, boot : Device \cup {None}, halting : BOOLEAN]
                      /\ x.halting => x.power = "poweredOn"
<1>1. t \in Task /\ Good(vm)
  <2>1. Good(vm) /\ tasks \in Seq(Task)
    BY DEF Typed, TypeOK, Task
  <2>2. QED
    BY <2>1
<1>2. Good(On(vm)) /\ Good(Off(vm))
  BY <1>1 DEF On, Off, Power
<1>3. CASE t.kind = "boot"
  <2>1. PICK d \in IF t.dev = None THEN {None, vm.boot} ELSE {t.dev} : m = [vm EXCEPT !.boot = d]
    BY <1>3 DEF Outcomes
  <2>2. d \in Device \cup {None}
    BY <1>1, <2>1 DEF Task
  <2>3. QED
    BY <1>1, <2>1, <2>2
<1>4. CASE t.kind # "boot"
  <2>1. m \in {On(vm), Off(vm), vm}
    BY <1>1, <1>4 DEF Outcomes, Task
  <2>2. QED
    BY <1>1, <1>2, <2>1
<1>5. QED
  BY <1>3, <1>4

LEMMA TypedInit == Init => Typed
<1> SUFFICES ASSUME Init PROVE Typed
  OBVIOUS
<1>1. /\ vm \in [power : Power, boot : Device \cup {None}, halting : BOOLEAN]
      /\ ~vm.halting
  BY BmcAssumption DEF Init
<1>2. tasks \in Seq(Task) /\ Len(tasks) = 0
  BY DEF Init
<1>3. job = NoJob
  BY DEF Init, NoJob
<1>4. QED
  BY <1>1, <1>2, <1>3, BmcAssumption DEF Init, Typed, TypeOK, ArgFits, Task

LEMMA TypedKept == ASSUME Typed, [Next]_vars PROVE Typed'
<1> USE BmcAssumption DEF Typed, TypeOK, ArgFits
<1>1. ASSUME NEW cmd \in Cmd, NEW arg \in Bootdev \cup {None}, Request(cmd, arg)
      PROVE  Typed'
  <2>1. CASE cmd = "set_boot_device" /\ arg \notin DOMAIN SetMap
    BY <1>1, <2>1 DEF Request, Invalid, NoJob
  <2>2. CASE cmd = "set_boot_device" /\ arg \in DOMAIN SetMap
    BY <1>1, <2>2 DEF Request
  <2>3. CASE cmd # "set_boot_device"
    BY <1>1, <2>3 DEF Request
  <2>4. QED
    BY <2>1, <2>2, <2>3
<1>2. CASE Connect
  BY <1>2 DEF Connect, NoJob
<1>3. CASE Look
  <2>1. job \in Jobs /\ (job.cmd = "set_boot_device" => job.arg \in DOMAIN SetMap)
    BY <1>3, AtWork DEF Look
  <2>2. job' \in Jobs /\ job'.cmd = job.cmd /\ job'.arg = job.arg
    BY <1>3, <2>1 DEF Look, Jobs
  <2>3. QED
    BY <1>3, <2>1, <2>2 DEF Look, Jobs
<1>4. CASE Call
  <2>1. /\ job \in Jobs
        /\ job.cmd \in Cmd /\ job.arg \in DOMAIN SetMap \cup {None}
        /\ job.cmd = "set_boot_device" => job.arg \in DOMAIN SetMap
    BY <1>4, AtWork DEF Call
  <2>2. /\ Calls(job.cmd, job.arg, job.seen) \in Seq(Task)
        /\ Len(Calls(job.cmd, job.arg, job.seen)) <= 1
    BY <2>1, CallsTyped
  <2>3. tasks' \in Seq(Task) /\ Len(tasks') <= MaxTasks
    BY <1>4, <2>2 DEF Call, Task
  <2>4. /\ vm' \in [power : Power, boot : Device \cup {None}, halting : BOOLEAN]
        /\ vm'.halting => vm'.power = "poweredOn"
    BY <1>4 DEF Call
  <2>5. asked' \in DOMAIN SetMap \cup {None}
    BY <1>4, <2>1 DEF Call, Asked
  <2>6. job' \in Jobs /\ job'.cmd = job.cmd /\ job'.arg = job.arg
    BY <1>4, <2>1 DEF Call, Jobs
  <2>7. QED
    BY <1>4, <2>1, <2>3, <2>4, <2>5, <2>6 DEF Call, Task, Jobs
<1>5. CASE Close
  <2>1. Data \in {0, 1, 4, 8, 20, 60}
    BY DEF Data, GetMap
  <2>2. job.cmd \in Cmd
    BY <1>5, AtWork DEF Close
  <2>3. answer' \in [cmd : Cmd, code : {Ok, Busy, Invalid, Failed}, data : {0, 1, 4, 8, 20, 60}]
    BY <1>5, <2>1, <2>2 DEF Close
  <2>4. job' = NoJob /\ UNCHANGED <<vm, tasks, asked, faults>>
    BY <1>5 DEF Close, NoJob
  <2>5. QED
    BY <2>3, <2>4
<1>6. CASE Errors
  <2>1. job.cmd \in Cmd
    BY <1>6 DEF Errors, NoJob
  <2>2. /\ answer' \in [cmd : Cmd, code : {Ok, Busy, Invalid, Failed}, data : {0, 1, 4, 8, 20, 60}]
        /\ asked' \in DOMAIN SetMap \cup {None}
        /\ faults' \in 0 .. MaxFaults
    BY <1>6, <2>1 DEF Errors, Fails, Fault, Asked
  <2>3. job' = NoJob /\ UNCHANGED <<vm, tasks>>
    BY <1>6 DEF Errors, Fails, NoJob
  <2>4. QED
    BY <2>2, <2>3
<1>7. CASE RunTask
  <2>1. /\ vm' \in [power : Power, boot : Device \cup {None}, halting : BOOLEAN]
        /\ vm'.halting => vm'.power = "poweredOn"
    BY <1>7, OutcomeTyped DEF RunTask
  <2>2. tasks' \in Seq(Task) /\ Len(tasks') <= MaxTasks
    BY <1>7 DEF RunTask, Task
  <2>3. QED
    BY <1>7, <2>1, <2>2 DEF RunTask, Task
<1>8. CASE GuestHalts
  <2>1. /\ vm' \in [power : Power, boot : Device \cup {None}, halting : BOOLEAN]
        /\ ~vm'.halting
    BY <1>8 DEF GuestHalts, Off, Power
  <2>2. QED
    BY <1>8, <2>1 DEF GuestHalts
<1>9. CASE User
  BY <1>9 DEF User, Fault
<1>10. CASE UNCHANGED vars
  BY <1>10 DEF vars
<1>11. QED
  BY <1>1, <1>2, <1>3, <1>4, <1>5, <1>6, <1>7, <1>8, <1>9, <1>10 DEF Next, Handler

LEMMA AlwaysTyped == Spec => []Typed
BY TypedInit, TypedKept, PTL DEF Spec

(* The variables keep their types (vbmc.py: the handlers and their codes).  *)
THEOREM TypeCorrect == Spec => []TypeOK
<1>1. Typed => TypeOK
  BY DEF Typed
<1>2. QED
  BY <1>1, AlwaysTyped, PTL

-----------------------------------------------------------------------------
(* A device set is the device got.                                          *)

(* The last change of the boot device that is still to come.                *)
IsBoot(q, i)   == q[i].kind = "boot"
LastBoot(q, i) == IsBoot(q, i) /\ \A j \in 1 .. Len(q) : j > i => ~IsBoot(q, j)

(* What the last accepted bootdev named, if the VM has it, is what the last *)
(* task will set; without such a task it is set.                            *)
Binds == asked # None /\ SetMap[asked] \in Has
Lasting ==
    Binds => /\ \A i \in 1 .. Len(tasks) : LastBoot(tasks, i) => tasks[i].dev = SetMap[asked]
             /\ (\A i \in 1 .. Len(tasks) : ~IsBoot(tasks, i)) => vm.boot = SetMap[asked]

(* What one call puts into the queue.                                       *)
LEMMA CallsBoot ==
    ASSUME NEW arg, NEW seen
    PROVE  Calls("set_boot_device", arg, seen) =
              <<[kind |-> "boot", dev |-> IF SetMap[arg] \in Has THEN SetMap[arg] ELSE None]>>
BY DEF Calls, TaskOf

LEMMA CallsNoBoot ==
    ASSUME NEW cmd \in Cmd \ {"set_boot_device"}, NEW arg, NEW seen
    PROVE  \/ Calls(cmd, arg, seen) = <<>>
           \/ \E t : Calls(cmd, arg, seen) = <<t>> /\ t.kind # "boot"
<1>1. /\ DOMAIN TaskOf = {"power_on", "power_off", "power_reset"}
      /\ \A c \in DOMAIN TaskOf : TaskOf[c] # "boot"
  BY DEF TaskOf
<1>2. CASE cmd \notin DOMAIN TaskOf
  BY <1>2 DEF Calls
<1>3. CASE cmd \in DOMAIN TaskOf /\ ~Acts(cmd, seen)
  BY <1>3 DEF Calls
<1>4. CASE cmd \in DOMAIN TaskOf /\ Acts(cmd, seen)
  <2> DEFINE t == [kind |-> TaskOf[cmd], dev |-> None]
  <2>1. Calls(cmd, arg, seen) = <<t>>
    BY <1>4 DEF Calls
  <2>2. t.kind # "boot"
    BY <1>1, <1>4
  <2>3. QED
    BY <2>1, <2>2
<1>5. QED
  BY <1>2, <1>3, <1>4

LEMMA RunTaskLasts == ASSUME Typed, Lasting, RunTask PROVE Lasting'
<1> SUFFICES ASSUME Binds PROVE Lasting'
  BY DEF RunTask, Lasting, Binds
<1> DEFINE t == Head(tasks)
<1>1. /\ tasks \in Seq(Task) /\ tasks # <<>>
      /\ tasks' = Tail(tasks) /\ asked' = asked /\ vm' \in Outcomes(t)
      /\ vm \in [power : Power, boot : Device \cup {None}, halting : BOOLEAN]
  BY DEF RunTask, Typed, TypeOK, Task
<1>2. /\ Len(tasks) \in Nat \ {0} /\ Len(tasks') = Len(tasks) - 1
      /\ \A i \in 1 .. Len(tasks') : tasks'[i] = tasks[i + 1]
      /\ t = tasks[1] /\ t \in Task
  BY <1>1
<1>3. ASSUME NEW i \in 1 .. Len(tasks'), LastBoot(tasks', i)
      PROVE  tasks'[i].dev = SetMap[asked]
  <2>1. i + 1 \in 1 .. Len(tasks) /\ IsBoot(tasks, i + 1)
    BY <1>2, <1>3 DEF LastBoot, IsBoot
  <2>2. ASSUME NEW j \in 1 .. Len(tasks), j > i + 1 PROVE ~IsBoot(tasks, j)
    <3>1. j - 1 \in 1 .. Len(tasks') /\ j - 1 > i
      BY <1>2, <2>2
    <3>2. tasks'[j - 1] = tasks[j]
      BY <1>2, <3>1
    <3>3. QED
      BY <1>3, <3>1, <3>2 DEF LastBoot, IsBoot
  <2>3. QED
    BY <1>2, <2>1, <2>2 DEF Lasting, LastBoot
<1>4. ASSUME \A i \in 1 .. Len(tasks') : ~IsBoot(tasks', i)
      PROVE  vm'.boot = SetMap[asked]
  <2>1. ASSUME NEW j \in 1 .. Len(tasks), j > 1 PROVE ~IsBoot(tasks, j)
    <3>1. j - 1 \in 1 .. Len(tasks') /\ tasks'[j - 1] = tasks[j]
      BY <1>2, <2>1
    <3>2. QED
      BY <1>4, <3>1 DEF IsBoot
  <2>2. CASE t.kind = "boot"
    <3>1. t.dev = SetMap[asked]
      BY <1>2, <2>1, <2>2 DEF Lasting, LastBoot, IsBoot
    <3>2. t.dev # None
      BY <3>1, BmcAssumption DEF Binds
    <3>3. vm' = [vm EXCEPT !.boot = t.dev]
      BY <1>1, <2>2, <3>2 DEF Outcomes
    <3>4. QED
      BY <1>1, <3>1, <3>3
  <2>3. CASE t.kind # "boot"
    <3>1. \A i \in 1 .. Len(tasks) : ~IsBoot(tasks, i)
      BY <1>2, <2>1, <2>3 DEF IsBoot
    <3>2. vm.boot = SetMap[asked]
      BY <3>1 DEF Lasting
    <3>3. vm' \in {On(vm), Off(vm), vm}
      BY <1>1, <1>2, <2>3 DEF Outcomes, Task
    <3>4. QED
      BY <1>1, <3>2, <3>3 DEF On, Off
  <2>4. QED
    BY <2>2, <2>3
<1>5. QED
  BY <1>1, <1>3, <1>4 DEF Lasting, Binds

LEMMA CallLasts == ASSUME Typed, Lasting, Call PROVE Lasting'
<1>1. /\ tasks \in Seq(Task) /\ job.cmd \in Cmd
      /\ tasks' = tasks \o Calls(job.cmd, job.arg, job.seen)
      /\ vm \in [power : Power, boot : Device \cup {None}, halting : BOOLEAN]
  BY AtWork DEF Call, Typed, TypeOK, Task
<1>2. vm'.boot = vm.boot
  BY <1>1 DEF Call
<1>3. CASE job.cmd = "set_boot_device"
  <2> DEFINE t == [kind |-> "boot",
                   dev |-> IF SetMap[job.arg] \in Has THEN SetMap[job.arg] ELSE None]
  <2>1. Calls(job.cmd, job.arg, job.seen) = <<t>>
    BY <1>3, CallsBoot
  <2>2. t.kind = "boot" /\ (SetMap[job.arg] \in Has => t.dev = SetMap[job.arg])
    OBVIOUS
  <2> HIDE DEF t
  <2>3. /\ Len(tasks') = Len(tasks) + 1 /\ tasks'[Len(tasks) + 1] = t
        /\ Len(tasks) \in Nat
    BY <1>1, <2>1
  <2>4. \A i \in 1 .. Len(tasks') : LastBoot(tasks', i) => i = Len(tasks) + 1
    BY <2>2, <2>3 DEF LastBoot, IsBoot
  <2>5. asked' = job.arg
    BY <1>3 DEF Call, Asked
  <2>6. QED
    BY <2>2, <2>3, <2>4, <2>5 DEF Lasting, Binds, IsBoot
<1>4. CASE job.cmd # "set_boot_device"
  <2>1. asked' = asked
    BY <1>4 DEF Call, Asked
  <2>2. CASE Calls(job.cmd, job.arg, job.seen) = <<>>
    <3>1. tasks' = tasks
      BY <1>1, <2>2
    <3>2. QED
      BY <1>2, <2>1, <3>1 DEF Lasting, Binds
  <2>3. ASSUME NEW t, Calls(job.cmd, job.arg, job.seen) = <<t>>, t.kind # "boot"
        PROVE  Lasting'
    <3>1. /\ Len(tasks') = Len(tasks) + 1 /\ Len(tasks) \in Nat
          /\ tasks'[Len(tasks) + 1] = t
          /\ \A i \in 1 .. Len(tasks) : tasks'[i] = tasks[i]
      BY <1>1, <2>3
    <3>2. \A i \in 1 .. Len(tasks') :
             i \in 1 .. Len(tasks) \/ (i = Len(tasks) + 1 /\ ~IsBoot(tasks', i))
      BY <2>3, <3>1 DEF IsBoot
    <3>3. \A i \in 1 .. Len(tasks) : IsBoot(tasks', i) = IsBoot(tasks, i)
      BY <3>1 DEF IsBoot
    <3>4. \A i \in 1 .. Len(tasks') :
             LastBoot(tasks', i) => i \in 1 .. Len(tasks) /\ LastBoot(tasks, i)
      BY <3>1, <3>2, <3>3 DEF LastBoot
    <3>5. QED
      BY <1>2, <2>1, <3>1, <3>3, <3>4 DEF Lasting, Binds
  <2>4. QED
    BY <1>1, <1>4, <2>2, <2>3, CallsNoBoot
<1>5. QED
  BY <1>3, <1>4

LEMMA LastingKept == ASSUME Typed, Lasting, [Next]_vars PROVE Lasting'
<1>1. ASSUME NEW cmd \in Cmd, NEW arg \in Bootdev \cup {None}, Request(cmd, arg)
      PROVE  Lasting'
  BY <1>1 DEF Request, Lasting, Binds
<1>2. CASE Connect
  BY <1>2 DEF Connect, Lasting, Binds
<1>3. CASE Look
  BY <1>3 DEF Look, Lasting, Binds
<1>4. CASE Call
  BY <1>4, CallLasts
<1>5. CASE Close
  BY <1>5 DEF Close, Lasting, Binds
<1>6. CASE Errors
  BY <1>6 DEF Errors, Fails, Asked, Lasting, Binds
<1>7. CASE RunTask
  BY <1>7, RunTaskLasts
<1>8. CASE GuestHalts
  <2>1. vm'.boot = vm.boot /\ UNCHANGED <<tasks, asked>>
    BY <1>8 DEF GuestHalts, Off, Typed, TypeOK
  <2>2. QED
    BY <2>1 DEF Lasting, Binds
<1>9. CASE User
  BY <1>9 DEF User, Lasting, Binds
<1>10. CASE UNCHANGED vars
  BY <1>10 DEF vars, Lasting, Binds
<1>11. QED
  BY <1>1, <1>2, <1>3, <1>4, <1>5, <1>6, <1>7, <1>8, <1>9, <1>10 DEF Next, Handler

(* The boot device a client reads once the tasks are through is the one it  *)
(* set last, whatever commands, failures and tasks lay in between           *)
(* (vbmc.py: get_boot_device and set_boot_device; utils.py).                *)
THEOREM BootDeviceSticks == Spec => []BootSticks
<1>1. Init => Lasting
  BY DEF Init, Lasting, Binds
<1>2. Typed /\ Lasting /\ [Next]_vars => Lasting'
  BY LastingKept
<1>3. Typed /\ Lasting => BootSticks
  <2> SUFFICES ASSUME Typed, Lasting, AtRest, Binds
               PROVE  GetMap(vm.boot) = 4 * Selector[asked]
    BY DEF BootSticks, Binds
  <2>1. tasks = <<>> /\ Len(tasks) = 0
    BY DEF AtRest
  <2>2. vm.boot = SetMap[asked]
    BY <2>1 DEF Lasting
  <2>3. asked \in DOMAIN SetMap
    BY DEF Typed, TypeOK, Binds
  <2>4. DOMAIN SetMap = {"network", "hd", "optical", "floppy"}
    BY DEF SetMap
  <2>5. QED
    BY <2>2, <2>3, <2>4 DEF SetMap, GetMap, Selector
<1>4. QED
  BY <1>1, <1>2, <1>3, AlwaysTyped, PTL DEF Spec

=============================================================================
