---------------------------- MODULE ManagerSteps ----------------------------
(***************************************************************************)
(* The manager (manager.py) at the grain of its accesses to the files, to  *)
(* _running_vms and to the processes.  In VbmcManager a command is one     *)
(* action; here it is the steps a signal can fall between: kill_children   *)
(* (control.py) runs in the main thread, on top of whatever that thread is *)
(* doing, makes a pass of its own, and either ends the program or raises   *)
(* an exception at the point it interrupted.  Other tools edit the files   *)
(* between any two steps, and children die.                                *)
(***************************************************************************)
EXTENDS Naturals, FiniteSets

CONSTANTS
    VM,          \* names a virtual BMC may have
    Option,      \* what a config file says besides "active"
    Pid,         \* handles of child processes; how many may exist at once
    Ops,         \* the commands in use
    None,        \* "no entry"
    FaultKinds,  \* of AllFaultKinds
    MaxFaults    \* bound: how many of them happen in one behaviour

(* "edit": the files change while the daemon waits for a request; "race":   *)
(* at any time; "boot", "term", "store": SIGTERM before the handler is      *)
(* installed, after that, and while a file is being rewritten.              *)
AllFaultKinds == {"death", "edit", "race", "boot", "term", "store"}

ASSUME StepsAssumption ==
    /\ None \notin VM \cup Pid \cup Option
    /\ Ops \subseteq {"add", "delete", "start", "stop"}
    /\ FaultKinds \subseteq AllFaultKinds /\ MaxFaults \in Nat

VARIABLES
    file,        \* what config_dir holds for each name
    running,     \* _running_vms
    child,       \* the child processes
    daemon,      \* "down", "starting", "up", "exiting"
    main,        \* where the main thread is
    handler,     \* kill_children, while it runs, and what its pass has left
    faults       \* number of faults so far

vars == <<file, running, child, daemon, main, handler, faults>>

-----------------------------------------------------------------------------
NoDir == [st |-> "nodir", active |-> FALSE, opt |-> None]
Empty == [st |-> "empty", active |-> FALSE, opt |-> None]   \* no file "config"
Cut   == [st |-> "cut",   active |-> FALSE, opt |-> None]   \* truncated
Stored(a, o) == [st |-> "ok", active |-> a, opt |-> o]
File  == {NoDir, Empty, Cut} \cup {Stored(a, o) : a \in BOOLEAN, o \in Option}

Dirs == {v \in VM : file[v] # NoDir}

Dead     == [alive |-> FALSE, vm |-> None, owned |-> FALSE, term |-> FALSE]
Forked(v) == [alive |-> TRUE, vm |-> v, owned |-> TRUE, term |-> FALSE]
Live(p)  == p # None /\ child[p].alive

(* The main thread.  op, vm and bmc are the command, its argument and what  *)
(* it read or was given; at is the next step; a walk has names left in todo *)
(* and is at name n with configuration cfg; kid is a process that was       *)
(* started and not yet entered in _running_vms; then is what follows.       *)
Waiting == [op |-> None, vm |-> None, bmc |-> NoDir, at |-> "poll", todo |-> {},
            n |-> None, cfg |-> NoDir, kid |-> None, then |-> None]
Off == [on |-> FALSE, todo |-> {}]

At(pc) == daemon \in {"starting", "up"} /\ ~handler.on /\ main.at = pc

Init ==
    /\ file \in [VM -> {NoDir} \cup {Stored(a, o) : a \in BOOLEAN, o \in Option}]
    /\ running = [v \in VM |-> None]
    /\ child = [p \in Pid |-> Dead]
    /\ daemon = "down"
    /\ main = Waiting
    /\ handler = Off
    /\ faults = 0

Fault(kind) ==
    /\ kind \in FaultKinds
    /\ faults < MaxFaults
    /\ faults' = faults + 1

(* The interpreter leaves: multiprocessing terminates every child it        *)
(* started and has not seen die, registered or not, and waits for them.     *)
Exit ==
    /\ daemon' = "exiting"
    /\ running' = [v \in VM |-> None]
    /\ child' = [p \in Pid |-> IF child[p].owned THEN [child[p] EXCEPT !.term = TRUE]
                               ELSE child[p]]
    /\ main' = Waiting
    /\ handler' = Off

-----------------------------------------------------------------------------
(* Commands.                                                                *)

(* _sync_vbmc_states begins: os.listdir.                                    *)
Walk(t, then) == [t EXCEPT !.at = "walk", !.todo = Dirs, !.then = then]

(* What an exception becomes in start, stop and add: a return code of 1, in *)
(* add after a delete; and delete goes on whatever stop returned.           *)
Fail(t) ==
    CASE t.op \in {"start", "stop"} -> Waiting
      [] t.op = "delete" -> [t EXCEPT !.at = "remove"]
      [] t.op = "add"    -> [t EXCEPT !.op = "delete", !.at = "parse"]

(* Mutant: stop makes a pass and stores nothing.                            *)
MutEnable(t) == IF t.bmc.active \/ t.op # "start" THEN Walk(t, "done")
                ELSE [t EXCEPT !.at = "truncate"]

(* _vbmc_enabled, which stores what was parsed only if "active" changes.    *)
Enable(t) == IF t.bmc.active = (t.op = "start") THEN Walk(t, "done")
             ELSE [t EXCEPT !.at = "truncate"]

Task(op, v) == [Waiting EXCEPT !.op = op, !.vm = v, !.at = "parse"]

Begin(op, v) ==
    /\ At("poll") /\ daemon = "up"
    /\ op \in Ops
    /\ \/ op = "add" /\ file[v] = NoDir
          /\ \E o \in Option : main' = [Task(op, v) EXCEPT !.at = "truncate",
                                                           !.bmc = Stored(FALSE, o)]
          /\ file' = [file EXCEPT ![v] = Empty]
       \/ op # "add" /\ file[v] # NoDir
          /\ main' = Task(op, v)
          /\ UNCHANGED file
    /\ UNCHANGED <<running, child, daemon, handler, faults>>

Parse ==
    /\ At("parse")
    /\ LET c == file[main.vm]
           t == [main EXCEPT !.bmc = c]
       IN main' = IF c.st # "ok" THEN Fail(main)
                  ELSE IF main.op = "start" /\ running[main.vm] # None
                  THEN Walk(t, "again")
                  ELSE Enable(t)
    /\ UNCHANGED <<file, running, child, daemon, handler, faults>>

(* open(..., "w")                                                           *)
Truncate ==
    /\ At("truncate")
    /\ IF file[main.vm] = NoDir
       THEN main' = Fail(main) /\ UNCHANGED file
       ELSE /\ file' = [file EXCEPT ![main.vm] = Cut]
            /\ main' = [main EXCEPT !.at = "write"]
    /\ UNCHANGED <<running, child, daemon, handler, faults>>

(* Mutant: add writes nothing.                                              *)
MutWrite ==
    /\ At("write")
    /\ file' = IF main.op = "add" THEN file
               ELSE [file EXCEPT ![main.vm] = Stored(main.op = "start", main.bmc.opt)]
    /\ main' = IF main.op = "add" THEN Waiting ELSE Walk(main, "done")
    /\ UNCHANGED <<running, child, daemon, handler, faults>>

Write ==
    /\ At("write")
    /\ file' = [file EXCEPT ![main.vm] = Stored(main.op = "start", main.bmc.opt)]
    /\ main' = IF main.op = "add" THEN Waiting ELSE Walk(main, "done")
    /\ UNCHANGED <<running, child, daemon, handler, faults>>

(* shutil.rmtree                                                            *)
Remove ==
    /\ At("remove")
    /\ IF file[main.vm] \in {NoDir, Empty}
       THEN file' = [file EXCEPT ![main.vm] = NoDir] /\ main' = Waiting
       ELSE file' = [file EXCEPT ![main.vm] = Empty] /\ UNCHANGED main
    /\ UNCHANGED <<running, child, daemon, handler, faults>>

-----------------------------------------------------------------------------
(* The walk.                                                                *)

(* Mutant: a poll() that reports nothing is just repeated.                  *)
MutPoll == At("poll") /\ UNCHANGED vars

Poll ==
    /\ At("poll") /\ daemon = "up"
    /\ main' = Walk([Waiting EXCEPT !.op = "pass"], "done")
    /\ UNCHANGED <<file, running, child, daemon, handler, faults>>

(* The configuration of one name is read.                                   *)
Visit(n) ==
    /\ At("walk") /\ n \in main.todo
    /\ IF file[n] = Cut
       THEN Exit
       ELSE /\ main' = [main EXCEPT !.todo = @ \ {n}, !.n = n, !.cfg = file[n],
                           !.at = IF file[n].st = "ok" THEN "decide" ELSE "walk"]
            /\ UNCHANGED <<running, child, daemon, handler>>
    /\ UNCHANGED <<file, faults>>

(* Mutant: a child that is alive is stopped to be started anew.             *)
MutDecide ==
    /\ At("decide")
    /\ LET p == running[main.n]
       IN IF main.cfg.active /\ ~Live(p)
          THEN \E q \in Pid :
                 /\ ~child[q].alive /\ \A v \in VM \ {main.n} : running[v] # q
                 /\ child' = [child EXCEPT ![q] = Forked(main.n)]
                 /\ main' = [main EXCEPT !.at = "enter", !.kid = q]
          ELSE /\ child' = IF Live(p) THEN [child EXCEPT ![p].term = TRUE] ELSE child
               /\ main' = [main EXCEPT !.at = IF p # None THEN "drop" ELSE "walk"]
    /\ UNCHANGED <<file, running, daemon, handler, faults>>

(* instance.start(), or instance.terminate()                                *)
Decide ==
    /\ At("decide")
    /\ LET p == running[main.n]
       IN IF main.cfg.active
          THEN IF Live(p)
               THEN main' = [main EXCEPT !.at = "walk"] /\ UNCHANGED child
               ELSE \E q \in Pid :
                      /\ ~child[q].alive /\ \A v \in VM \ {main.n} : running[v] # q
                      /\ child' = [child EXCEPT ![q] = Forked(main.n)]
                      /\ main' = [main EXCEPT !.at = "enter", !.kid = q]
          ELSE /\ child' = IF Live(p) THEN [child EXCEPT ![p].term = TRUE] ELSE child
               /\ main' = [main EXCEPT !.at = IF p # None THEN "drop" ELSE "walk"]
    /\ UNCHANGED <<file, running, daemon, handler, faults>>

(* _running_vms[vm_name] = instance, or _running_vms.pop(vm_name)           *)
Enter ==
    /\ At("enter") \/ At("drop")
    /\ running' = [running EXCEPT ![main.n] = IF main.at = "enter" THEN main.kid
                                               ELSE None]
    /\ main' = [main EXCEPT !.at = "walk", !.kid = None]
    /\ UNCHANGED <<file, child, daemon, handler, faults>>

(* The walk of the daemon's start is followed by the main loop, the first   *)
(* one of start by the look whether its name survived it.                   *)
WalkEnds ==
    /\ At("walk") /\ main.todo = {}
    /\ daemon' = "up"
    /\ main' = IF main.then = "again"
               THEN IF running[main.vm] # None THEN Waiting ELSE Enable(main)
               ELSE IF main.op = "delete" THEN [main EXCEPT !.at = "remove"]
               ELSE Waiting
    /\ UNCHANGED <<file, running, child, handler, faults>>

Start ==
    /\ daemon = "down"
    /\ daemon' = "starting"
    /\ main' = Walk([Waiting EXCEPT !.op = "pass"], "done")
    /\ UNCHANGED <<file, running, child, handler, faults>>

Exited ==
    /\ daemon = "exiting"
    /\ \A p \in Pid : child[p].alive => ~child[p].owned
    /\ daemon' = "down"
    /\ UNCHANGED <<file, running, child, main, handler, faults>>

-----------------------------------------------------------------------------
(* SIGTERM.                                                                 *)

Signal ==
    /\ daemon = "up" /\ ~handler.on
    /\ IF main.at = "write" THEN Fault("store") ELSE Fault("term")
    /\ handler' = [on |-> TRUE, todo |-> Dirs]
    /\ UNCHANGED <<file, running, child, daemon, main>>

(* Until the first pass is over the signal has its default action.          *)
SignalAtBoot ==
    /\ daemon = "starting"
    /\ Fault("boot")
    /\ daemon' = "down"
    /\ running' = [v \in VM |-> None]
    /\ child' = [p \in Pid |-> [child[p] EXCEPT !.owned = FALSE]]
    /\ main' = Waiting
    /\ UNCHANGED <<file, handler>>

(* periodic(shutdown=True): one name is stopped, and forgotten.             *)
Silence(n) ==
    /\ handler.on /\ n \in handler.todo
    /\ file[n] # Cut
    /\ IF file[n].st = "ok"
       THEN /\ child' = IF Live(running[n]) THEN [child EXCEPT ![running[n]].term = TRUE]
                                            ELSE child
            /\ running' = [running EXCEPT ![n] = None]
       ELSE UNCHANGED <<child, running>>
    /\ handler' = [handler EXCEPT !.todo = @ \ {n}]
    /\ UNCHANGED <<file, daemon, main, faults>>

(* The pass cannot read a file: the error surfaces in the main thread.      *)
(* Where "except Exception" surrounds that point, the command goes on from  *)
(* there; anywhere else the error ends the main loop.                       *)
Surfaces(n) ==
    /\ handler.on /\ n \in handler.todo
    /\ file[n] = Cut
    /\ \/ /\ main.at \in {"parse", "truncate", "write"}
          /\ main' = Fail(main)
          /\ handler' = Off
          /\ UNCHANGED <<running, child, daemon>>
       \/ main.at # "write" /\ Exit
    /\ UNCHANGED <<file, faults>>

(* Mutant: sys.exit(0) is left out.                                         *)
MutSysExit ==
    /\ handler.on /\ handler.todo = {}
    /\ handler' = Off
    /\ UNCHANGED <<file, running, child, daemon, main, faults>>

(* sys.exit(0)                                                              *)
SysExit ==
    /\ handler.on /\ handler.todo = {}
    /\ Exit
    /\ UNCHANGED <<file, faults>>

-----------------------------------------------------------------------------
(* The children, and the files.                                             *)

Die(p) == child' = [child EXCEPT ![p] = Dead]

ChildTerm(p) ==
    /\ child[p].alive /\ child[p].term
    /\ Die(p)
    /\ UNCHANGED <<file, running, daemon, main, handler, faults>>

ChildDies(p) ==
    /\ child[p].alive
    /\ Fault("death")
    /\ Die(p)
    /\ UNCHANGED <<file, running, daemon, main, handler>>

(* A tool replaces or removes what is there; not while it is rewritten.     *)
Edit(v) ==
    /\ \/ (daemon = "down" \/ main.at = "poll") /\ Fault("edit")
       \/ Fault("race")
    /\ file[v] \notin {Cut, Empty}
    /\ \E c \in File \ {Cut, Empty, file[v]} : file' = [file EXCEPT ![v] = c]
    /\ UNCHANGED <<running, child, daemon, main, handler>>

Thread ==
    \/ Parse \/ Truncate \/ Write \/ Remove
    \/ \E n \in VM : Visit(n)
    \/ Decide \/ Enter \/ WalkEnds
    \/ \E n \in VM : Silence(n) \/ Surfaces(n)
    \/ SysExit

Next ==
    \/ \E op \in Ops, v \in VM : Begin(op, v)
    \/ Poll \/ Thread \/ Start \/ Exited
    \/ Signal \/ SignalAtBoot
    \/ \E p \in Pid : ChildTerm(p) \/ ChildDies(p)
    \/ \E v \in VM : Edit(v)

(* The thread runs, signals are delivered, and the clients leave a pause    *)
(* now and then in which poll() times out.                                  *)
Spec ==
    /\ Init /\ [][Next]_vars
    /\ WF_vars(Thread) /\ SF_vars(Poll) /\ WF_vars(Exited)
    /\ \A p \in Pid : WF_vars(ChildTerm(p))

-----------------------------------------------------------------------------
Steps == {"poll", "parse", "truncate", "write", "remove", "walk", "decide",
          "enter", "drop"}

(* Every variable keeps its type.  A file is found truncated only while the *)
(* main thread is about to write it, and a process that is not yet entered  *)
(* has its name and no other's.                                             *)
TypeOK ==
    /\ file \in [VM -> File]
    /\ running \in [VM -> Pid \cup {None}]
    /\ child \in [Pid -> {Dead} \cup [alive : {TRUE}, vm : VM, owned : BOOLEAN,
                                       term : BOOLEAN]]
    /\ daemon \in {"down", "starting", "up", "exiting"}
    /\ main.at \in Steps /\ main.todo \subseteq VM
    /\ main.op \in Ops \cup {"pass", "delete", None} /\ main.vm \in VM \cup {None}
    /\ main.bmc \in File /\ main.cfg \in File /\ main.then \in {None, "done", "again"}
    /\ handler.todo \subseteq VM /\ (handler.on => daemon = "up")
    /\ faults \in 0 .. MaxFaults
    /\ \A v \in VM : file[v] = Cut => main.at = "write" /\ main.vm = v

Working(p) == child[p].alive /\ child[p].owned /\ ~child[p].term

(* SIGTERM ends the daemon and its children, whatever the main thread was   *)
(* doing ("The manager process installs a signal handler for SIGTERM to     *)
(* propagate it to children").                                              *)
SigtermPropagates ==
    handler.on ~> daemon = "down" /\ \A p \in Pid : ~child[p].alive

(* A stop that ends with 0 leaves no child at work for its name, although   *)
(* the pass it made took many steps in which children died.                 *)
StopSilences ==
    [][main.op = "stop" /\ main.at = "walk" /\ main' = Waiting /\ daemon' = "up" =>
          \A p \in Pid : Working(p)' => child'[p].vm # main.vm]_vars

-----------------------------------------------------------------------------
(* As a Registry.  The daemon is up once its main loop runs, and leaving as *)
(* soon as SIGTERM arrives; only then is it known what its children are for.*)
EntryOf(c) ==
    CASE c.st = "ok"  -> IF c.active THEN "on" ELSE "off"
      [] c.st = "cut" -> "bad"
      [] OTHER        -> "none"

Mode == IF handler.on \/ daemon = "exiting" THEN "leaving"
        ELSE IF daemon = "up" THEN "up" ELSE "down"

AtWork == IF Mode = "up"
          THEN {v \in VM : \E p \in Pid : Working(p) /\ child[p].vm = v} ELSE {}

Withdrawn == IF Mode = "up"
             THEN {v \in VM : \E p \in Pid : /\ child[p].alive /\ child[p].owned
                                            /\ child[p].term /\ child[p].vm = v} ELSE {}

R == INSTANCE Registry WITH entry <- [v \in VM |-> EntryOf(file[v])],
                            work <- AtWork, going <- Withdrawn, mode <- Mode

(* Taken step by step, with a signal between any two, the commands and      *)
(* passes still do no more than a registry does: no name that stays on      *)
(* loses its BMC to a command for another one or to a pass cut short.       *)
ImplementsRegistry == R!Spec

(* And what is at work comes to agree with what is stored.                  *)
AgreesAsRegistry == R!Agrees

=============================================================================
