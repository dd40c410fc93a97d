---------------------------- MODULE VbmcManager ----------------------------
(***************************************************************************)
(* The daemon's core: class VirtualBMCManager (manager.py), the processes  *)
(* it forks (vbmc_runner) and the life of the daemon around it             *)
(* (control.py, application).                                              *)
(*                                                                         *)
(* The manager keeps one directory per virtual BMC under config_dir, with  *)
(* a file "config" in it, and a dictionary _running_vms from BMC names to  *)
(* handles of child processes.  It has one thread: a command and the       *)
(* periodic pass never overlap, so each is one action here.  What does     *)
(* overlap with them is everything else: the children fork, bind, serve    *)
(* and die on their own, SIGTERM reaches them some time after it was sent, *)
(* the files may be edited by other tools, and the daemon may be killed.   *)
(***************************************************************************)
EXTENDS Naturals, FiniteSets

CONSTANTS
    VM,          \* names a virtual BMC may have
    Port,        \* UDP ports a virtual BMC may be given
    Pid,         \* handles of child processes; how many may exist at once
    None,        \* "no entry": dict.get() of an absent key
    Initial,     \* what config_dir may hold before the first start
    FaultKinds,  \* the faults of the environment a model allows
    MaxFaults    \* bound: how many of them happen in one behaviour

(* "boot": the daemon is ended, by SIGTERM or a kill, during its first pass. *)
AllFaultKinds == {"boot", "death", "edit", "io", "kill", "sigterm"}

ASSUME ManagerAssumption ==
    /\ None \notin Pid \cup Port \cup VM
    /\ FaultKinds \subseteq AllFaultKinds
    /\ MaxFaults \in Nat

VARIABLES
    config,      \* what config_dir holds for each name
    running,     \* _running_vms
    proc,        \* the child processes, as the kernel sees them
    daemon,      \* the vsbmcd process
    faults       \* number of environment faults so far

vars == <<config, running, proc, daemon, faults>>

-----------------------------------------------------------------------------
(* The stored state.  A directory may be missing, may lack the file         *)
(* "config", or may hold one that configparser rejects because it was       *)
(* truncated by open(..., "w") and not rewritten.  Of a readable file only  *)
(* the options that steer the manager are kept.                             *)

NoDir  == [file |-> "nodir",  active |-> FALSE, port |-> None]
NoFile == [file |-> "nofile", active |-> FALSE, port |-> None]
Torn   == [file |-> "torn",   active |-> FALSE, port |-> None]
Stored(a, p) == [file |-> "ok", active |-> a, port |-> p]

Config == {NoDir, NoFile, Torn} \cup {Stored(a, p) : a \in BOOLEAN, p \in Port}

(* Mutant: a directory is taken for a configuration.                        *)
MutReadable(cfg) == {v \in VM : cfg[v].file # "nodir"}

Readable(cfg) == {v \in VM : cfg[v].file = "ok"}
Broken(cfg)   == \E v \in VM : cfg[v].file = "torn"
Enabled(cfg)  == {v \in Readable(cfg) : cfg[v].active}

ASSUME InitialAssumption == Initial \subseteq [VM -> Config]

(* A child is "forked" until it has bound its port, then "serving".         *)
(* "owned" says that the daemon now alive forked it, "term" that SIGTERM    *)
(* was sent to it, "ctl" that it holds a copy of the control socket: the    *)
(* start method is fork, so a child has the descriptors its parent had.     *)

NoProc == [st |-> "dead", vm |-> None, port |-> None,
           owned |-> FALSE, term |-> FALSE, ctl |-> FALSE]
LiveProc == [st : {"forked", "serving"}, vm : VM, port : Port,
             owned : BOOLEAN, term : BOOLEAN, ctl : BOOLEAN]

Forked(v, port, term) ==
    [st |-> "forked", vm |-> v, port |-> port,
     owned |-> TRUE, term |-> term, ctl |-> daemon = "up"]
(* Mutant: terminate() is forgotten.                                        *)
MutTold(r)  == r
Told(r)     == [r EXCEPT !.term = TRUE]
Orphaned(r) == [r EXCEPT !.owned = FALSE]
Bound(r)    == [r EXCEPT !.st = "serving"]

Alive(p)   == proc[p].st # "dead"
HasLive(v) == running[v] # None /\ Alive(running[v])
NoneRunning == [v \in VM |-> None]

Init ==
    /\ config \in Initial
    /\ running = NoneRunning
    /\ proc = [p \in Pid |-> NoProc]
    /\ daemon = "down"
    /\ faults = 0

Fault(kind) ==
    /\ kind \in FaultKinds
    /\ faults < MaxFaults
    /\ faults' = faults + 1

-----------------------------------------------------------------------------
(* _sync_vbmc_states.                                                       *)

(* One new handle for every name in S.  A handle is new when its process is *)
(* dead and no entry that stays in _running_vms refers to it.               *)
Spawns(S) ==
    LET free == {p \in Pid : ~Alive(p) /\ \A v \in VM \ S : running[v] # p}
    IN {f \in [S -> free] : \A v, w \in S : f[v] = f[w] => v = w}

(* The children after the names in spawn were given new ones, the children  *)
(* of the names in stop were sent SIGTERM and, when the daemon goes on to   *)
(* exit, multiprocessing did the same to all that are left (daemon = True). *)
Procs(cfg, spawn, stop, fresh, exits) ==
    [p \in Pid |->
        IF \E v \in spawn : fresh[v] = p
        THEN LET v == CHOOSE w \in spawn : fresh[w] = p
             IN Forked(v, cfg[v].port, exits)
        ELSE IF /\ Alive(p)
                /\ \/ \E v \in stop : running[v] = p
                   \/ exits /\ proc[p].owned
        THEN Told(proc[p])
        ELSE proc[p]]

(* Mutant: the entry of a stopped name is not removed.                      *)
MutTracked(spawn, stop, fresh) ==
    [v \in VM |-> IF v \in spawn THEN fresh[v] ELSE running[v]]

Tracked(spawn, stop, fresh) ==
    [v \in VM |-> IF v \in spawn THEN fresh[v]
                  ELSE IF v \in stop THEN None ELSE running[v]]

(* The names the walk over os.listdir gets to: all that are readable, or,   *)
(* with a broken file somewhere in an unspecified order, any of them.       *)
Walks(cfg) ==
    {W \in SUBSET Readable(cfg) : Broken(cfg) \/ W = Readable(cfg)}

(* A change of the children: spawn are forked, stop are stopped.  "exits"    *)
(* says that the daemon does not survive the call the change is part of: it  *)
(* then takes the children it knows with it.                                 *)
Change(cfg, spawn, stop, fresh, exits) ==
    /\ daemon' = IF exits THEN "exiting" ELSE "up"
    /\ running' = IF exits THEN NoneRunning ELSE Tracked(spawn, stop, fresh)
    /\ proc' = Procs(cfg, spawn, stop, fresh, exits)

(* One pass under configuration cfg in which the names in on are wanted.    *)
(* A name in bounce was stopped by the pass before and is started again.    *)
(* Mutant: an entry is taken for a live child.                              *)
MutToSpawn(walked, on, bounce) ==
    {v \in walked \cap on : running[v] = None} \cup bounce

(* Mutant: the names that are not wanted are passed over.                   *)
MutToStop(walked, on, bounce) == {v \in bounce : running[v] # None}

ToSpawn(walked, on, bounce) == {v \in walked \cap on : ~HasLive(v)} \cup bounce
ToStop(walked, on, bounce)  == {v \in (walked \ on) \cup bounce : running[v] # None}

Pass(cfg, on, bounce, exits) ==
    \E walked \in Walks(cfg) :
        LET spawn == ToSpawn(walked, on, bounce)
            stop  == ToStop(walked, on, bounce)
        IN \E fresh \in Spawns(spawn) : Change(cfg, spawn, stop, fresh, exits)

(* The configparser error of a broken file is handled nowhere: it ends the  *)
(* main loop.                                                               *)
SyncStates(cfg, on, bounce, rc) ==
    /\ rc = IF Broken(cfg) THEN "raise" ELSE "ok"
    /\ Pass(cfg, on, bounce, Broken(cfg))

(* The daemon leaves its main loop and waits for its children to die.       *)
Exit == \E fresh \in Spawns({}) : Change(config, {}, {}, fresh, TRUE)

-----------------------------------------------------------------------------
(* The commands.  rc is what the caller gets: "ok" and "fail" are the       *)
(* return codes 0 and 1, "notfound" a VirtualBMCError, "raise" any other    *)
(* exception.                                                               *)

Rc == {"ok", "fail", "notfound", "raise"}

(* _store_config that does not complete: nothing was written, or the file   *)
(* was truncated and the new text was not written.                          *)
StoreFails(v, cfg) ==
    /\ Fault("io")
    /\ cfg \in {config, [config EXCEPT ![v] = Torn]}

Add(v, p, rc) ==
    /\ daemon = "up"
    /\ UNCHANGED <<running, proc, daemon>>
    /\ \/ /\ config[v].file # "nodir"
          /\ rc = "fail"
          /\ UNCHANGED <<config, faults>>
       \/ /\ config[v].file = "nodir"
          /\ rc = "ok"
          /\ config' = [config EXCEPT ![v] = Stored(FALSE, p)]
          /\ UNCHANGED faults
       \/ /\ config[v].file = "nodir"
          /\ Fault("io")
          /\ rc = "fail"
          /\ UNCHANGED config

(* What _vbmc_enabled leaves behind when it rewrites a readable file.       *)
SetActive(v, active) == [config EXCEPT ![v] = Stored(active, config[v].port)]

(* start: a name in _running_vms is synchronised first; only if that pass   *)
(* dropped it, or it was not there, is it enabled and synchronised again.   *)
StartIgnored(v, rc) ==
    /\ v \in Readable(config)
    /\ running[v] # None
    /\ v \in Enabled(config) \/ Broken(config)
    /\ SyncStates(config, Enabled(config), {}, rc)
    /\ UNCHANGED <<config, faults>>

(* Mutant: start synchronises first and enables the name afterwards.        *)
MutStartEnables(v, rc) ==
    /\ v \in Readable(config) \ Enabled(config)
    /\ SyncStates(config, Enabled(config), {}, rc)
    /\ config' = SetActive(v, TRUE)
    /\ UNCHANGED faults

StartEnables(v, rc) ==
    LET bounce == IF running[v] # None THEN {v} ELSE {}
        cfg    == SetActive(v, TRUE)
    IN /\ v \in Readable(config)
       /\ running[v] # None => v \notin Enabled(config) /\ ~Broken(config)
       /\ SyncStates(cfg, Enabled(cfg), bounce, rc)
       /\ config' = cfg
       /\ UNCHANGED faults

StartStoreFails(v, rc) ==
    /\ v \in Readable(config) \ Enabled(config)
    /\ rc = "fail"
    /\ \E cfg \in {config, [config EXCEPT ![v] = Torn]} :
          StoreFails(v, cfg) /\ config' = cfg
    /\ IF running[v] # None
       THEN ~Broken(config) /\ SyncStates(config, Enabled(config), {}, "ok")
       ELSE UNCHANGED <<running, proc, daemon>>

Start(v, rc) ==
    /\ daemon = "up"
    /\ \/ v \notin Readable(config) /\ rc = "fail" /\ UNCHANGED vars
       \/ StartIgnored(v, rc)
       \/ StartEnables(v, rc)
       \/ StartStoreFails(v, rc)

(* What stop does; cfg is the configuration it leaves behind.               *)
AfterStop(v) == {config, SetActive(v, FALSE), [config EXCEPT ![v] = Torn]}

(* Mutant: stop synchronises first and disables the name afterwards.        *)
MutStopVm(v, cfg, rc) ==
    /\ v \in Readable(config)
    /\ cfg = SetActive(v, FALSE)
    /\ SyncStates(config, Enabled(config), {}, rc)
    /\ UNCHANGED faults

StopVm(v, cfg, rc) ==
    \/ /\ v \notin Readable(config)
       /\ rc = "fail"
       /\ cfg = config
       /\ UNCHANGED <<running, proc, daemon, faults>>
    \/ /\ v \in Enabled(config)
       /\ StoreFails(v, cfg)
       /\ rc = "fail"
       /\ UNCHANGED <<running, proc, daemon>>
    \/ /\ v \in Readable(config)
       /\ cfg = SetActive(v, FALSE)
       /\ SyncStates(cfg, Enabled(cfg), {}, rc)
       /\ UNCHANGED faults

Stop(v, rc) ==
    /\ daemon = "up"
    /\ \E cfg \in AfterStop(v) : StopVm(v, cfg, rc) /\ config' = cfg

(* rmtree fails, before or after it came to the file: an OSError nobody     *)
(* handles.                                                                 *)
DeleteFails(v, rc) ==
    LET readable == v \in Readable(config)
        cfg      == IF readable THEN SetActive(v, FALSE) ELSE config
    IN /\ Fault("io")
       /\ rc = "raise"
       /\ IF readable THEN ~Broken(cfg) /\ Pass(cfg, Enabled(cfg), {}, TRUE) ELSE Exit
       /\ config' \in {cfg, [cfg EXCEPT ![v] = NoFile]}

(* Mutant: delete removes the directory without a stop.                     *)
MutDelete(v, rc) ==
    /\ daemon = "up"
    /\ config[v].file # "nodir"
    /\ rc = "ok"
    /\ config' = [config EXCEPT ![v] = NoDir]
    /\ UNCHANGED <<running, proc, daemon, faults>>

(* delete looks for a VirtualBMCError of stop, and stop returns its         *)
(* failures: the directory is removed whatever stop returned.               *)
Delete(v, rc) ==
    /\ daemon = "up"
    /\ \/ config[v].file = "nodir" /\ rc = "notfound" /\ UNCHANGED vars
       \/ /\ config[v].file # "nodir"
          /\ \E cfg \in AfterStop(v), stopped \in Rc :
                /\ StopVm(v, cfg, stopped)
                /\ rc = IF stopped = "raise" THEN "raise" ELSE "ok"
                /\ config' = IF stopped = "raise" THEN cfg
                             ELSE [config EXCEPT ![v] = NoDir]
       \/ config[v].file # "nodir" /\ DeleteFails(v, rc)

(* _show of one name.                                                       *)
Status(v) == IF HasLive(v) THEN "running"
             ELSE IF running[v] # None THEN "error" ELSE "down"

ShowRc(v) == CASE v \in Readable(config) -> "ok"
               [] config[v].file = "torn" -> "raise"
               [] OTHER -> "notfound"

(* Neither list nor show changes anything, unless the error of a broken     *)
(* file ends the daemon.                                                    *)
Answer(rc) ==
    /\ UNCHANGED <<config, faults>>
    /\ IF rc = "raise" THEN Exit ELSE UNCHANGED <<running, proc, daemon>>

Show(v, rc) ==
    /\ daemon = "up"
    /\ rc = ShowRc(v)
    /\ Answer(rc)

(* list shows every directory in turn: the first that fails is the answer.  *)
ListRcs ==
    LET bad == {ShowRc(v) : v \in {w \in VM : config[w].file # "nodir"}} \ {"ok"}
    IN IF bad = {} THEN {"ok"} ELSE bad

List(rc) ==
    /\ daemon = "up"
    /\ rc \in ListRcs
    /\ Answer(rc)

-----------------------------------------------------------------------------
(* The daemon's own life.                                                   *)

Periodic(rc) ==
    /\ daemon = "up"
    /\ SyncStates(config, Enabled(config), {}, rc)
    /\ UNCHANGED <<config, faults>>

(* application: a new manager, whose first pass precedes the main loop; the *)
(* main loop cannot bind the control port while another process holds it.   *)
DaemonStart(rc) ==
    LET exits == Broken(config) \/ \E p \in Pid : Alive(p) /\ proc[p].ctl
    IN /\ daemon = "down"
       /\ rc = IF exits THEN "raise" ELSE "ok"
       /\ Pass(config, Enabled(config), {}, exits)
       /\ UNCHANGED <<config, faults>>

(* SIGTERM before its handler is installed, or a kill, in the first pass:   *)
(* the program ends where it is, and what it has forked by then stays.      *)
BootCut ==
    /\ daemon = "down"
    /\ Fault("boot")
    /\ \E forked \in SUBSET Enabled(config) : \E fresh \in Spawns(forked) :
          LET after == Procs(config, forked, {}, fresh, FALSE)
          IN proc' = [p \in Pid |->
                        IF after[p] = NoProc THEN NoProc ELSE Orphaned(after[p])]
    /\ UNCHANGED <<config, running, daemon>>

(* SIGTERM or a keyboard interrupt between two commands: periodic with      *)
(* shutdown set, then the interpreter's exit.                               *)
Shutdown ==
    /\ daemon = "up"
    /\ Fault("sigterm")
    /\ Exit
    /\ UNCHANGED config

DaemonExit ==
    /\ daemon = "exiting"
    /\ \A p \in Pid : Alive(p) => ~proc[p].owned
    /\ daemon' = "down"
    /\ UNCHANGED <<config, running, proc, faults>>

(* What a store cut short by a kill leaves of one name: start and stop      *)
(* truncate an existing file, add makes the directory and then the file.    *)
CutShort ==
    {config} \cup {[config EXCEPT ![v] = Torn] :
                      v \in {w \in VM : config[w].file \in {"ok", "nodir"}}}
             \cup {[config EXCEPT ![v] = NoFile] :
                      v \in {w \in VM : config[w].file = "nodir"}}

(* SIGKILL, or a crash of the interpreter: nothing reaches the children.    *)
Kill ==
    /\ daemon # "down"
    /\ Fault("kill")
    /\ daemon' = "down"
    /\ running' = NoneRunning
    /\ proc' = [p \in Pid |-> IF Alive(p) THEN Orphaned(proc[p]) ELSE proc[p]]
    /\ config' \in IF daemon = "up" THEN CutShort ELSE {config}

-----------------------------------------------------------------------------
(* The children and the files, on their own.                                *)

(* vbmc_runner: VirtualBMC() binds the port, or fails because another       *)
(* process has it and the runner returns.                                   *)
ChildBind(p) ==
    /\ proc[p].st = "forked"
    /\ proc' = [proc EXCEPT ![p] =
                   IF \E q \in Pid : /\ proc[q].st = "serving"
                                     /\ proc[q].port = proc[p].port
                   THEN NoProc
                   ELSE Bound(proc[p])]
    /\ UNCHANGED <<config, running, daemon, faults>>

(* SIGTERM is delivered.  Whether the child still has the handler of its    *)
(* parent or already the default one, it dies.                              *)
ChildTerm(p) ==
    /\ Alive(p)
    /\ proc[p].term
    /\ proc' = [proc EXCEPT ![p] = NoProc]
    /\ UNCHANGED <<config, running, daemon, faults>>

(* Any other end: an exception out of listen(), the kernel, an operator.    *)
ChildDies(p) ==
    /\ Alive(p)
    /\ Fault("death")
    /\ proc' = [proc EXCEPT ![p] = NoProc]
    /\ UNCHANGED <<config, running, daemon>>

(* The files are managed by hand or by other tools as well.                 *)
Edit(v) ==
    /\ Fault("edit")
    /\ \E c \in Config \ {Torn, config[v]} :
          config' = [config EXCEPT ![v] = c]
    /\ UNCHANGED <<running, proc, daemon>>

Command(rc) ==
    \/ \E v \in VM, p \in Port : Add(v, p, rc)
    \/ \E v \in VM : Start(v, rc) \/ Stop(v, rc) \/ Delete(v, rc) \/ Show(v, rc)
    \/ List(rc)

Children == \E p \in Pid : ChildBind(p) \/ ChildTerm(p) \/ ChildDies(p)

Next ==
    \/ \E rc \in Rc : Command(rc) \/ Periodic(rc) \/ DaemonStart(rc)
    \/ Shutdown
    \/ DaemonExit
    \/ Kill \/ BootCut
    \/ Children
    \/ \E v \in VM : Edit(v)

(* The kernel runs the children and delivers their signals; poll() times    *)
(* out now and then.  Nothing obliges a user to send commands, a fault to   *)
(* happen, or anyone to start the daemon.                                   *)
Fairness ==
    /\ \A p \in Pid : WF_vars(ChildBind(p)) /\ WF_vars(ChildTerm(p))
    /\ WF_vars(\E rc \in Rc : Periodic(rc))
    /\ WF_vars(DaemonExit)

Spec == Init /\ [][Next]_vars
FairSpec == Spec /\ Fairness

(* Assumed of the user's environment: something starts the daemon again     *)
(* whenever it is down.                                                     *)
SupervisedSpec == FairSpec /\ WF_vars(\E rc \in Rc : DaemonStart(rc))

-----------------------------------------------------------------------------
(* The properties.                                                          *)

(* Every variable stays within its type; a live process always carries the  *)
(* name and the port it was forked with.                                    *)
TypeOK ==
    /\ config \in [VM -> Config]
    /\ running \in [VM -> Pid \cup {None}]
    /\ proc \in [Pid -> LiveProc \cup {NoProc}]
    /\ daemon \in {"down", "up", "exiting"}
    /\ faults \in 0 .. MaxFaults

(* A child of this daemon that was not told to stop.                        *)
Working(p) == Alive(p) /\ proc[p].owned /\ ~proc[p].term

(* What show and list report is true of the processes: a name reported as   *)
(* running has its own child behind it and only that one, and a name        *)
(* reported as down or in error has none.  It would break if a handle were  *)
(* dropped, overwritten or mixed up while its child still works             *)
(* (manager.py, _sync_vbmc_states and _show).                               *)
StatusIsTrue ==
    daemon = "up" =>
        \A v \in VM :
            IF Status(v) = "running"
            THEN {p \in Pid : Working(p) /\ proc[p].vm = v} = {running[v]}
            ELSE \A p \in Pid : Working(p) => proc[p].vm # v

(* A stop that returned 0 left the name disabled and every child of this    *)
(* daemon for it under SIGTERM, whatever edits, deaths and failed stores    *)
(* came before.                                                             *)
StopSilences ==
    [][\A v \in VM : Stop(v, "ok") =>
          /\ v \notin Enabled(config')
          /\ \A p \in Pid : Working(p)' => proc'[p].vm # v]_vars

(* A start that returned 0 left the name enabled and a child of this daemon *)
(* at work for it, also when the command was taken for a repetition.        *)
StartRuns ==
    [][\A v \in VM : Start(v, "ok") =>
          /\ v \in Enabled(config')
          /\ \E p \in Pid : Working(p)' /\ proc'[p].vm = v /\ running'[v] = p]_vars

(* After every pass that did not fail, among the names with a readable file *)
(* exactly the enabled ones have a live child: one command repairs what     *)
(* went wrong with all other names since the last pass.                     *)
PassSettles ==
    [][\/ Periodic("ok") \/ DaemonStart("ok")
       \/ \E v \in VM : Start(v, "ok") \/ Stop(v, "ok")
       => \A v \in Readable(config') : HasLive(v)' <=> v \in Enabled(config')]_vars

(* A child is forked only for a name that is enabled in the configuration   *)
(* the step leaves behind, and with the port stored there.                  *)
OnlyEnabledFork ==
    [][\A p \in Pid : ~Alive(p) /\ Alive(p)' =>
          LET v == proc'[p].vm
          IN v \in Enabled(config') /\ proc'[p].port = config'[v].port]_vars

(* A delete that returned 0 left no child of this daemon at work for the    *)
(* name ("Delete a virtual BMC for a virtual machine instance").            *)
DeleteSilences ==
    [][\A v \in VM : Delete(v, "ok") =>
          \A p \in Pid : Working(p)' => proc'[p].vm # v]_vars

Serving(v) == running[v] # None /\ proc[running[v]].st = "serving"

(* No process of another BMC, or of an earlier daemon, is on the port of v. *)
NoRival(v) ==
    \A p \in Pid : Alive(p) /\ proc[p].port = config[v].port
                      => proc[p].vm = v /\ proc[p].owned

(* An enabled BMC whose port is its own ends up serving, for good: through  *)
(* the death of its child, and through a stop and start so close together   *)
(* that the new child finds the port still taken by the old one.            *)
EnabledServed ==
    \A v \in VM :
        <>[](daemon = "up" /\ v \in Enabled(config) /\ NoRival(v))
            => <>[]Serving(v)

(* A BMC that stays disabled ends up with no process for it at all.         *)
DisabledSilent ==
    \A v \in VM :
        <>[](daemon = "up" /\ v \in Readable(config) \ Enabled(config))
            => <>[](\A p \in Pid : proc[p].vm # v)

(* With a daemon that is started again whenever it is down, an enabled BMC  *)
(* whose port is its own ends up serving ("starts enabled but dead          *)
(* instances").                                                             *)
EnabledComesBack ==
    \A v \in VM :
        <>[](v \in Enabled(config) /\ NoRival(v)) => <>[]Serving(v)

-----------------------------------------------------------------------------
(* The manager as a Registry: what it has stored for a name, and the names  *)
(* it has a child at work for.                                              *)

EntryOf(c) ==
    CASE c.file = "ok"   -> IF c.active THEN "on" ELSE "off"
      [] c.file = "torn" -> "bad"
      [] OTHER           -> "none"

Registered == [v \in VM |-> EntryOf(config[v])]

AtWork == {v \in VM : \E p \in Pid : Working(p) /\ proc[p].vm = v}

(* The names with a child that this daemon told to stop, as long as it goes *)
(* on without it.                                                           *)
Withdrawn ==
    IF daemon = "up"
    THEN {v \in VM : \E p \in Pid : /\ Alive(p) /\ proc[p].owned /\ ~Working(p)
                                   /\ proc[p].vm = v}
    ELSE {}

Mode == IF daemon = "exiting" THEN "leaving" ELSE daemon

R == INSTANCE Registry WITH entry <- Registered, work <- AtWork,
                            going <- Withdrawn, mode <- Mode

(* Commands, passes, deaths, edits and kills are steps of the registry: a   *)
(* BMC comes to work only for a name that is on, and nothing done for one   *)
(* name, not even a command that fails half-way or an edit of files in the  *)
(* middle of it all, takes another one that is on away from work.           *)
ImplementsRegistry == R!Spec

=============================================================================
