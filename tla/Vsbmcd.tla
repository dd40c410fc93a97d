------------------------------ MODULE Vsbmcd ------------------------------
(***************************************************************************)
(* The vsbmcd program (cmd/vsbmcd.py, main): what several invocations of   *)
(* it do to the pid file and to each other.                                *)
(*                                                                         *)
(* An invocation reads the pid file, looks whether the process it names is *)
(* alive, then detaches itself or stays in the foreground, writes the pid  *)
(* file, runs the application (control.py) and removes the file.  Between  *)
(* these steps other invocations make theirs, signals arrive, processes    *)
(* are killed, and their ids are given to others: to a later invocation,   *)
(* in a container to every one, or to a stranger.  Of the application the  *)
(* module keeps when it handles SIGTERM, that it binds the control port,   *)
(* and that it may fail before.                                            *)
(***************************************************************************)
EXTENDS Integers

CONSTANTS
    Inst,         \* invocations of vsbmcd that may run at the same time
    Number,       \* process ids, all above 0
    None,         \* "no file", "no process"
    Background,   \* whether vsbmcd runs without --foreground
    FaultKinds,   \* what else may happen: "kill", "sigterm", "error"
    MaxFaults     \* bound: how many of these happen in one behaviour

ASSUME VsbmcdAssumption ==
    /\ Number \subseteq Nat \ {0}
    /\ None \notin Inst \cup Number \cup {0}
    /\ Background \in BOOLEAN
    /\ MaxFaults \in Nat

VARIABLES
    pc,         \* how far each invocation is
    pid,        \* its process id, while it lives
    seen,       \* the number it has read and not yet probed
    pidfile,    \* the pid file: whose it is and the number in it
    strangers,  \* ids of live processes that are no invocations
    faults,     \* number of faults so far
    raced       \* history: whether live invocations have raced for the file

vars == <<pc, pid, seen, pidfile, strangers, faults, raced>>

Stages == {"idle", "check", "probe", "write", "flush", "boot", "bind", "serving", "leave"}

Live(d) == pc[d] # "idle"
Held == {pid[d] : d \in Inst}

(* The text is buffered until the file is closed, which is after it was      *)
(* renamed: for a moment the pid file is empty, here 'text' = None.          *)
File(d, text) == [by |-> d, text |-> text]
NoPidfile == File(None, None)

(* Mutant: the id of the process group is written as kill() takes it.        *)
MutText(d) == -pid[d]

(* What detach_process returned in the process that goes on is what fork     *)
(* returned there, 0.                                                        *)
Text(d) == IF Background THEN 0 ELSE pid[d]

Owns(d) == pidfile = File(d, Text(d))

(* Past the check without a pid file of its own: before it is written, or on *)
(* the way out because it could not be.                                      *)
Unsettled(d) == pc[d] \in {"write", "flush"} \/ (pc[d] = "leave" /\ ~Owns(d))

(* The race: one invocation is in that state and another has read the file.  *)
Overlap ==
    \E d, e \in Inst : d # e /\ Unsettled(d) /\ (Unsettled(e) \/ pc[e] = "probe")

(* It is remembered until everyone is gone.                                  *)
Remember == raced' = ((raced \/ Overlap') /\ \E d \in Inst : Live(d)')

Init ==
    /\ pc = [d \in Inst |-> "idle"]
    /\ pid = [d \in Inst |-> None]
    /\ seen = [d \in Inst |-> None]
    /\ pidfile = NoPidfile
    /\ strangers = {}
    /\ faults = 0
    /\ raced = FALSE

Go(d, from, to) == pc[d] = from /\ pc' = [pc EXCEPT ![d] = to]

(* The end of a process: its id is free again.                               *)
End(d, from) ==
    /\ Go(d, from, "idle")
    /\ pid' = [pid EXCEPT ![d] = None]
    /\ seen' = [seen EXCEPT ![d] = None]

Fault(kind) ==
    /\ kind \in FaultKinds
    /\ faults < MaxFaults
    /\ faults' = faults + 1

(* The system starts a process and gives it an id no live process has: also  *)
(* one that an earlier process has left in the pid file.                     *)
Launch(d) ==
    /\ Go(d, "idle", "check")
    /\ \E n \in Number \ (Held \cup strangers) : pid' = [pid EXCEPT ![d] = n]
    /\ UNCHANGED <<seen, pidfile, strangers, faults>>
    /\ Remember

(* Other processes come and go; they never take the last id.                 *)
Stranger ==
    /\ \/ \E n \in Number \ (Held \cup strangers) :
             /\ strangers' = strangers \cup {n}
             /\ ~ Number \subseteq Held \cup strangers'
       \/ \E n \in strangers : strangers' = strangers \ {n}
    /\ UNCHANGED <<pc, pid, seen, pidfile, faults>>
    /\ Remember

(* A number is read; without one, for want of a file or of text in it, the   *)
(* check is over.                                                            *)
Read(d) ==
    /\ pidfile.text # None
    /\ Go(d, "check", "probe")
    /\ seen' = [seen EXCEPT ![d] = pidfile.text]
    /\ UNCHANGED <<pid, pidfile, strangers, faults>>
    /\ Remember


(* os.kill(n, 0) succeeds: n is alive, be it a server, a stranger or the     *)
(* caller itself.  0 stands for the caller's process group and always is.    *)
Answers(n) == n # None /\ (n = 0 \/ n \in Held \cup strangers)

Refuse(d) ==
    /\ Answers(seen[d])
    /\ End(d, "probe")
    /\ UNCHANGED <<pidfile, strangers, faults>>
    /\ Remember

(* Mutant: the check logs the error and goes on.                             *)
MutAccept(d) ==
    /\ \/ Go(d, "check", "write") /\ pidfile.text = None
       \/ Go(d, "probe", "write")
    /\ seen' = [seen EXCEPT ![d] = None]
    /\ UNCHANGED <<pid, pidfile, strangers, faults>>
    /\ Remember

Accept(d) ==
    /\ \/ Go(d, "check", "write") /\ pidfile.text = None
       \/ Go(d, "probe", "write") /\ ~Answers(seen[d])
    /\ seen' = [seen EXCEPT ![d] = None]
    /\ UNCHANGED <<pid, pidfile, strangers, faults>>
    /\ Remember

Rename(d) ==
    /\ Go(d, "write", "flush")
    /\ pidfile' = File(d, None)
    /\ UNCHANGED <<pid, seen, strangers, faults>>
    /\ Remember

(* Closing the file writes the text, to the pid file if it is still this one. *)
Flush(d) ==
    /\ Go(d, "flush", "boot")
    /\ pidfile' = IF pidfile.by = d THEN File(d, Text(d)) ELSE pidfile
    /\ UNCHANGED <<pid, seen, strangers, faults>>
    /\ Remember

(* The first pass is done, and the handler of SIGTERM is in place.           *)
Boot(d) ==
    /\ Go(d, "boot", "bind")
    /\ UNCHANGED <<pid, seen, pidfile, strangers, faults>>
    /\ Remember

(* An exception under wrap_with_pidfile: the file cannot be written, or the  *)
(* first pass meets a configuration that does not parse.                     *)
Fails(d) ==
    /\ Fault("error")
    /\ Go(d, "write", "leave") \/ Go(d, "boot", "leave")
    /\ UNCHANGED <<pid, seen, pidfile, strangers>>
    /\ Remember

(* The control port is free or taken.                                        *)
Bind(d) ==
    /\ Go(d, "bind", IF \E e \in Inst : pc[e] = "serving" THEN "leave" ELSE "serving")
    /\ UNCHANGED <<pid, seen, pidfile, strangers, faults>>
    /\ Remember

(* The finally clause removes the pid file, whoever wrote it.                *)
Unlink(d) ==
    /\ End(d, "leave")
    /\ pidfile' = NoPidfile
    /\ UNCHANGED <<strangers, faults>>
    /\ Remember

(* SIGTERM: with the handler in place the application leaves its loop and    *)
(* the finally clause follows.  Before that, and in the finally clause, it   *)
(* is the end of the process.                                                *)
Sigterm(d) ==
    /\ Fault("sigterm")
    /\ \/ \E s \in {"bind", "serving"} : Go(d, s, "leave") /\ UNCHANGED <<pid, seen>>
       \/ \E s \in {"check", "probe", "write", "flush", "boot", "leave"} : End(d, s)
    /\ UNCHANGED <<pidfile, strangers>>
    /\ Remember

Kill(d) ==
    /\ Fault("kill")
    /\ \E s \in Stages \ {"idle"} : End(d, s)
    /\ UNCHANGED <<pidfile, strangers>>
    /\ Remember

Program(d) ==
    \/ Read(d) \/ Refuse(d) \/ Accept(d) \/ Rename(d) \/ Flush(d) \/ Boot(d)
    \/ Bind(d) \/ Unlink(d)

Next ==
    \/ \E d \in Inst :
          \/ Launch(d)
          \/ Program(d)
          \/ Fails(d) \/ Sigterm(d) \/ Kill(d)
    \/ Stranger

Spec == Init /\ [][Next]_vars

(* A process that was started runs.  Something outside of the repository, a  *)
(* service manager or a container with a restart policy, starts vsbmcd again *)
(* whenever no invocation is left.                                           *)
Relaunch == (\A d \in Inst : ~Live(d)) /\ \E d \in Inst : Launch(d)

SupervisedSpec ==
    /\ Spec
    /\ \A d \in Inst : WF_vars(Program(d))
    /\ WF_vars(Relaunch)

-----------------------------------------------------------------------------
(* Every variable keeps its type; the file's text is a number or missing.    *)
TypeOK ==
    /\ pc \in [Inst -> Stages]
    /\ pid \in [Inst -> Number \cup {None}]
    /\ seen \in [Inst -> Number \cup {0, None}]
    /\ pidfile \in {NoPidfile} \cup [by : Inst, text : Number \cup {0, None}]
    /\ strangers \subseteq Number
    /\ faults \in 0 .. MaxFaults
    /\ raced \in BOOLEAN
    /\ \A d \in Inst : Live(d) <=> pid[d] \in Number

(* The pid file is there as long as the server is, and is the server's: if   *)
(* it was overwritten or removed by another invocation, that one had read    *)
(* the file before it was written, and nothing else does it: no kill, no     *)
(* signal, no failure, no number that is in use again.                       *)
FileNamesServer ==
    \A d \in Inst : pc[d] = "serving" => Owns(d) \/ raced

(* While a server serves no further invocation gets past the check ("server  *)
(* PID #%(pid)d still running"), except in the same race.                    *)
RunningRefuses ==
    [][\A d, e \in Inst : Accept(d) /\ pc[e] = "serving" => raced]_vars

(* An invocation is refused only if another one is alive, whatever files     *)
(* earlier ones left behind ("server PID #%(pid)d still running").           *)
RefusedByRival ==
    [][\A d \in Inst : Refuse(d) => \E e \in Inst \ {d} : Live(e)]_vars

(* Refused though nobody serves: for its own number, or a stranger's.        *)
Mistaken(d) ==
    /\ Refuse(d)
    /\ seen[d] = pid[d] \/ seen[d] \in strangers
    /\ \A e \in Inst : pc[e] # "serving"


=============================================================================
