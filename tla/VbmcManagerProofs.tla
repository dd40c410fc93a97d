------------------------- MODULE VbmcManagerProofs -------------------------
(***************************************************************************)
(* Proofs about VbmcManager for any set of names, ports and handles and    *)
(* any combination of faults.                                              *)
(***************************************************************************)
EXTENDS VbmcManager, TLAPS

(* The inductive invariant: TypeOK and the four facts that tie the manager's *)
(* dictionary to the processes.                                              *)

(* A handle whose process is alive is the name's own and was not told to stop. *)
HandlesAreTrue ==
    \A v \in VM : HasLive(v) => Working(running[v]) /\ proc[running[v]].vm = v

(* A child at work is the one remembered for its name.                       *)
NothingEscapes ==
    \A p \in Pid : Working(p) => running[proc[p].vm] = p

(* _running_vms lives in the memory of a daemon in its main loop.            *)
EmptyUnlessUp == daemon # "up" => running = NoneRunning

(* A daemon that is gone owns no child.                                      *)
DownOwnsNothing == daemon = "down" => \A p \in Pid : Alive(p) => ~proc[p].owned

Tracking == /\ HandlesAreTrue
            /\ NothingEscapes
            /\ EmptyUnlessUp
            /\ DownOwnsNothing

IInv == TypeOK /\ Tracking

-----------------------------------------------------------------------------
(* A new handle is a dead one that no other name keeps.                      *)
LEMMA FreshHandle ==
    ASSUME NEW spawn \in SUBSET VM, NEW fresh \in Spawns(spawn), NEW v \in spawn
    PROVE  /\ fresh[v] \in Pid
           /\ fresh[v] # None
           /\ ~Alive(fresh[v])
           /\ \A w \in VM \ spawn : running[w] # fresh[v]
           /\ \A w \in spawn : fresh[w] = fresh[v] => w = v
BY ManagerAssumption DEF Spawns

(* The children after a change, one handle at a time: those of new handles,  *)
LEMMA FreshProcs ==
    ASSUME NEW cfg \in [VM -> Config], NEW spawn \in SUBSET VM, NEW stop \in SUBSET VM,
           NEW fresh \in Spawns(spawn), NEW exits \in BOOLEAN, NEW v \in spawn
    PROVE  Procs(cfg, spawn, stop, fresh, exits)[fresh[v]] =
              Forked(v, cfg[v].port, exits)
<1>1. fresh[v] \in Pid /\ \A w \in spawn : fresh[w] = fresh[v] => w = v
  BY FreshHandle
<1>2. (CHOOSE w \in spawn : fresh[w] = fresh[v]) = v
  BY <1>1
<1>3. QED
  BY <1>1, <1>2 DEF Procs

(* and all others.                                                           *)
LEMMA OtherProcs ==
    ASSUME NEW cfg \in [VM -> Config], NEW spawn, NEW stop, NEW fresh, NEW exits \in BOOLEAN,
           NEW p \in Pid, \A v \in spawn : fresh[v] # p
    PROVE  Procs(cfg, spawn, stop, fresh, exits)[p] =
               IF /\ Alive(p)
                  /\ \/ \E v \in stop : running[v] = p
                     \/ exits /\ proc[p].owned
               THEN Told(proc[p])
               ELSE proc[p]
BY DEF Procs

(* What being forked, SIGTERM, losing the parent and binding the port make of *)
(* the record of a child.                                                    *)
LEMMA ForkedRecord ==
    ASSUME NEW v \in VM, NEW port \in Port, NEW term \in BOOLEAN
    PROVE  /\ Forked(v, port, term) \in LiveProc
           /\ Forked(v, port, term).st # "dead"
           /\ Forked(v, port, term).vm = v
           /\ Forked(v, port, term).owned = TRUE
           /\ Forked(v, port, term).term = term
BY DEF Forked, LiveProc

LEMMA ForkedPort ==
    ASSUME NEW v, NEW port, NEW term
    PROVE  Forked(v, port, term).port = port
BY DEF Forked

LEMMA ToldRecord ==
    ASSUME NEW r \in LiveProc
    PROVE  /\ Told(r) \in LiveProc
           /\ Told(r).term = TRUE
           /\ Told(r).owned = r.owned
           /\ Told(r).st = r.st
           /\ Told(r).vm = r.vm
BY DEF LiveProc, Told

LEMMA OrphanedRecord ==
    ASSUME NEW r \in LiveProc
    PROVE  /\ Orphaned(r) \in LiveProc
           /\ Orphaned(r).owned = FALSE
           /\ Orphaned(r).st = r.st
           /\ Orphaned(r).vm = r.vm
           /\ Orphaned(r).port = r.port
BY DEF LiveProc, Orphaned

LEMMA BoundRecord ==
    ASSUME NEW r \in LiveProc
    PROVE  /\ Bound(r) \in LiveProc
           /\ Bound(r).st = "serving"
           /\ Bound(r).term = r.term
           /\ Bound(r).owned = r.owned
           /\ Bound(r).vm = r.vm
BY DEF LiveProc, Bound

LEMMA LiveRecord ==
    ASSUME TypeOK, NEW p \in Pid
    PROVE  /\ Alive(p) <=> proc[p] \in LiveProc
           /\ ~Alive(p) <=> proc[p] = NoProc
BY DEF TypeOK, Alive, LiveProc, NoProc

-----------------------------------------------------------------------------
(* A change of the children that forks only for names with a port and without *)
(* a live child that is not stopped by the same change: it keeps the types    *)
(* and the tracking.                                                          *)
LEMMA ChangeTypes ==
    ASSUME TypeOK, NEW cfg \in [VM -> Config], NEW spawn \in SUBSET VM, NEW stop \in SUBSET VM,
           NEW fresh \in Spawns(spawn), NEW exits \in BOOLEAN,
           \A v \in spawn : cfg[v].port \in Port,
           Change(cfg, spawn, stop, fresh, exits)
    PROVE  /\ running' \in [VM -> Pid \cup {None}]
           /\ proc' \in [Pid -> LiveProc \cup {NoProc}]
           /\ daemon' \in {"down", "up", "exiting"}
<1>1. ASSUME NEW p \in Pid
      PROVE  proc'[p] \in LiveProc \cup {NoProc}
  <2>1. CASE \E v \in spawn : fresh[v] = p
    <3>1. PICK v \in spawn : fresh[v] = p
      BY <2>1
    <3>2. proc' = Procs(cfg, spawn, stop, fresh, exits)
      BY DEF Change
    <3>3. Procs(cfg, spawn, stop, fresh, exits)[fresh[v]] = Forked(v, cfg[v].port, exits)
      BY FreshProcs
    <3>4. v \in VM /\ cfg[v].port \in Port
      OBVIOUS
    <3>5. Forked(v, cfg[v].port, exits) \in LiveProc
      BY <3>4, ForkedRecord
    <3>6. QED
      BY <3>1, <3>2, <3>3, <3>5
  <2>2. CASE \A v \in spawn : fresh[v] # p
    <3>1. proc'[p] = proc[p] \/ (Alive(p) /\ proc'[p] = Told(proc[p]))
      BY <2>2, OtherProcs DEF Change
    <3>2. proc[p] \in LiveProc \cup {NoProc}
      BY DEF TypeOK
    <3>3. QED
      BY <3>1, <3>2, LiveRecord, ToldRecord
  <2>3. QED
    BY <2>1, <2>2
<1>2. proc' \in [Pid -> LiveProc \cup {NoProc}]
  BY <1>1 DEF Change, Procs
<1>3. running' \in [VM -> Pid \cup {None}]
  <2>1. \A v \in spawn : fresh[v] \in Pid
    BY FreshHandle
  <2>2. QED
    BY <2>1 DEF TypeOK, Change, Tracked, NoneRunning
<1>4. QED
  BY <1>2, <1>3 DEF Change

(* What a change makes of one child: forked for a name, told to stop, or left *)
(* alone.                                                                     *)
LEMMA ChangeFresh ==
    ASSUME NEW cfg \in [VM -> Config], NEW spawn \in SUBSET VM, NEW stop \in SUBSET VM,
           NEW fresh \in Spawns(spawn), NEW exits \in BOOLEAN,
           Change(cfg, spawn, stop, fresh, exits),
           NEW v \in spawn, cfg[v].port \in Port
    PROVE  /\ proc'[fresh[v]].st # "dead"
           /\ proc'[fresh[v]].vm = v
           /\ proc'[fresh[v]].port = cfg[v].port
           /\ proc'[fresh[v]].owned
           /\ proc'[fresh[v]].term <=> exits
<1>1. proc' = Procs(cfg, spawn, stop, fresh, exits)
  BY DEF Change
<1>2. Procs(cfg, spawn, stop, fresh, exits)[fresh[v]] = Forked(v, cfg[v].port, exits)
  BY FreshProcs
<1>3. v \in VM /\ cfg[v].port \in Port
  OBVIOUS
<1>4. /\ Forked(v, cfg[v].port, exits).st # "dead"
      /\ Forked(v, cfg[v].port, exits).vm = v
      /\ Forked(v, cfg[v].port, exits).owned = TRUE
      /\ Forked(v, cfg[v].port, exits).term = exits
  BY <1>3, ForkedRecord
<1>5. Forked(v, cfg[v].port, exits).port = cfg[v].port
  BY ForkedPort
<1>6. QED
  BY <1>1, <1>2, <1>4, <1>5

LEMMA ChangeOther ==
    ASSUME TypeOK,
           NEW cfg \in [VM -> Config], NEW spawn \in SUBSET VM, NEW stop \in SUBSET VM,
           NEW fresh \in Spawns(spawn), NEW exits \in BOOLEAN,
           Change(cfg, spawn, stop, fresh, exits),
           NEW p \in Pid, \A v \in spawn : fresh[v] # p
    PROVE  /\ Alive(p)' <=> Alive(p)
           /\ proc'[p].vm = proc[p].vm
           /\ proc'[p].owned = proc[p].owned
           /\ Working(p)' <=> /\ Working(p)
                              /\ ~exits
                              /\ \A v \in stop : running[v] # p
<1> DEFINE told == Alive(p) /\ (\/ \E v \in stop : running[v] = p
                                \/ exits /\ proc[p].owned)
<1>1. proc'[p] = IF told THEN Told(proc[p]) ELSE proc[p]
  BY OtherProcs DEF Change
<1>2. CASE told
  <2>1. proc'[p] = Told(proc[p]) /\ proc[p] \in LiveProc
    BY <1>1, <1>2, LiveRecord
  <2>2. QED
    BY <1>2, <2>1, ToldRecord DEF Alive, Working
<1>3. CASE ~told
  <2>1. proc'[p] = proc[p]
    BY <1>1, <1>3
  <2>2. QED
    BY <1>3, <2>1 DEF Alive, Working
<1>4. QED
  BY <1>2, <1>3

LEMMA ChangeTracking ==
    ASSUME TypeOK, Tracking,
           NEW cfg \in [VM -> Config], NEW spawn \in SUBSET VM, NEW stop \in SUBSET VM,
           NEW fresh \in Spawns(spawn), NEW exits \in BOOLEAN,
           \A v \in spawn : cfg[v].port \in Port,
           \A v \in spawn : HasLive(v) => v \in stop,
           Change(cfg, spawn, stop, fresh, exits)
    PROVE  Tracking'
<1>1. \A v \in VM : running[v] \in Pid \cup {None}
  BY DEF TypeOK
<1>2. ASSUME NEW v \in spawn
      PROVE  /\ fresh[v] \in Pid
             /\ \A w \in VM \ spawn : running[w] # fresh[v]
             /\ proc'[fresh[v]].st # "dead"
             /\ proc'[fresh[v]].vm = v
             /\ proc'[fresh[v]].owned
             /\ proc'[fresh[v]].term <=> exits
  <2>1. /\ fresh[v] \in Pid
        /\ \A w \in VM \ spawn : running[w] # fresh[v]
    BY FreshHandle
  <2>2. /\ proc'[fresh[v]].st # "dead"
        /\ proc'[fresh[v]].vm = v
        /\ proc'[fresh[v]].owned
        /\ proc'[fresh[v]].term <=> exits
    BY ChangeFresh
  <2>3. QED
    BY <2>1, <2>2
<1>3. ASSUME ~exits
      PROVE  running' = [v \in VM |-> IF v \in spawn THEN fresh[v]
                                      ELSE IF v \in stop THEN None ELSE running[v]]
  BY <1>3 DEF Change, Tracked
<1>4. ASSUME exits
      PROVE  running' = NoneRunning
  BY <1>4 DEF Change
<1>5. HandlesAreTrue'
  <2> SUFFICES ASSUME NEW v \in VM, running'[v] # None, Alive(running[v])'
               PROVE  Working(running[v])' /\ proc'[running'[v]].vm = v
    BY DEF HandlesAreTrue, HasLive
  <2>1. ~exits
    BY <1>4 DEF NoneRunning
  <2>2. CASE v \in spawn
    <3>1. running'[v] = fresh[v]
      BY <1>3, <2>1, <2>2
    <3>2. QED
      BY <1>2, <2>1, <2>2, <3>1 DEF Working, Alive
  <2>3. CASE v \notin spawn
    <3>1. running'[v] = running[v] /\ v \notin stop /\ running[v] \in Pid
      BY <1>1, <1>3, <2>1, <2>3
    <3>2. \A w \in spawn : fresh[w] # running[v]
      BY <1>2, <2>3
    <3>3. /\ Alive(running[v])' <=> Alive(running[v])
          /\ proc'[running[v]].vm = proc[running[v]].vm
          /\ Working(running[v])' <=> /\ Working(running[v])
                                      /\ ~exits
                                      /\ \A w \in stop : running[w] # running[v]
      BY <3>1, <3>2, ChangeOther
    <3>4. HasLive(v)
      BY <3>1, <3>3 DEF HasLive, Alive
    <3>5. Working(running[v]) /\ proc[running[v]].vm = v
      BY <3>4 DEF Tracking, HandlesAreTrue
    <3>6. ASSUME NEW w \in stop, running[w] = running[v]
          PROVE  FALSE
      <4>1. HasLive(w)
        BY <3>4, <3>6 DEF HasLive
      <4>2. proc[running[w]].vm = w
        BY <4>1 DEF Tracking, HandlesAreTrue
      <4>3. QED
        BY <3>1, <3>5, <3>6, <4>2
    <3>7. QED
      BY <2>1, <3>1, <3>3, <3>5, <3>6 DEF Working, Alive
  <2>4. QED
    BY <2>2, <2>3
<1>6. NothingEscapes'
  <2> SUFFICES ASSUME NEW p \in Pid, Working(p)'
               PROVE  running'[proc'[p].vm] = p
    BY DEF NothingEscapes
  <2>1. CASE \E v \in spawn : fresh[v] = p
    <3>1. PICK v \in spawn : fresh[v] = p
      BY <2>1
    <3>2. proc'[p].vm = v /\ (proc'[p].term <=> exits)
      BY <1>2, <3>1
    <3>3. ~exits
      BY <3>2 DEF Working
    <3>4. v \in VM /\ running'[v] = fresh[v]
      BY <1>3, <3>3
    <3>5. QED
      BY <3>1, <3>2, <3>4
  <2>2. CASE \A v \in spawn : fresh[v] # p
    <3>1. /\ Working(p) /\ ~exits
          /\ \A v \in stop : running[v] # p
          /\ proc'[p].vm = proc[p].vm
      BY <2>2, ChangeOther
    <3>2. running[proc[p].vm] = p
      BY <3>1 DEF Tracking, NothingEscapes
    <3>3. proc[p] \in LiveProc
      BY <3>1, LiveRecord DEF Working
    <3>4. proc[p].vm \in VM
      BY <3>3 DEF LiveProc
    <3>5. HasLive(proc[p].vm)
      BY <3>1, <3>2, ManagerAssumption DEF HasLive, Working
    <3>6. proc[p].vm \notin stop /\ proc[p].vm \notin spawn
      BY <3>1, <3>2, <3>5
    <3>7. QED
      BY <1>3, <3>1, <3>2, <3>4, <3>6
  <2>3. QED
    BY <2>1, <2>2
<1>7. EmptyUnlessUp'
  BY <1>4 DEF EmptyUnlessUp, Change, NoneRunning
<1>8. DownOwnsNothing'
  BY DEF DownOwnsNothing, Change
<1>9. QED
  BY <1>5, <1>6, <1>7, <1>8 DEF Tracking

-----------------------------------------------------------------------------
(* The sync and the daemon's exit, as changes of the children.                *)
LEMMA ReadableConfig ==
    ASSUME NEW cfg \in [VM -> Config], NEW v \in Readable(cfg)
    PROVE  v \in VM /\ cfg[v].port \in Port
BY DEF Readable, Config, NoDir, NoFile, Torn, Stored

LEMMA PassKeeps ==
    ASSUME TypeOK, Tracking, NEW cfg \in [VM -> Config],
           NEW on \in SUBSET Readable(cfg), NEW bounce \in SUBSET Readable(cfg),
           NEW exits \in BOOLEAN, Pass(cfg, on, bounce, exits)
    PROVE  /\ running' \in [VM -> Pid \cup {None}]
           /\ proc' \in [Pid -> LiveProc \cup {NoProc}]
           /\ daemon' \in {"down", "up", "exiting"}
           /\ Tracking'
<1>1. PICK walked \in Walks(cfg) :
        \E fresh \in Spawns(ToSpawn(walked, on, bounce)) :
           Change(cfg, ToSpawn(walked, on, bounce), ToStop(walked, on, bounce),
                  fresh, exits)
  BY DEF Pass
<1> DEFINE spawn == ToSpawn(walked, on, bounce)
           stop  == ToStop(walked, on, bounce)
<1>2. /\ spawn \in SUBSET VM
      /\ stop \in SUBSET VM
      /\ \A v \in spawn : v \in Readable(cfg)
      /\ \A v \in spawn : HasLive(v) => v \in stop
  BY DEF ToSpawn, ToStop, Walks, Readable, HasLive
<1>3. \A v \in spawn : cfg[v].port \in Port
  BY <1>2, ReadableConfig
<1>4. PICK fresh \in Spawns(spawn) : Change(cfg, spawn, stop, fresh, exits)
  BY <1>1
<1> HIDE DEF spawn, stop
<1>5. /\ running' \in [VM -> Pid \cup {None}]
      /\ proc' \in [Pid -> LiveProc \cup {NoProc}]
      /\ daemon' \in {"down", "up", "exiting"}
  BY <1>2, <1>3, <1>4, ChangeTypes
<1>6. Tracking'
  BY <1>2, <1>3, <1>4, ChangeTracking
<1>7. QED
  BY <1>5, <1>6

LEMMA ExitKeeps ==
    ASSUME TypeOK, Tracking, Exit
    PROVE  /\ running' \in [VM -> Pid \cup {None}]
           /\ proc' \in [Pid -> LiveProc \cup {NoProc}]
           /\ daemon' \in {"down", "up", "exiting"}
           /\ Tracking'
<1>1. PICK fresh \in Spawns({}) : Change(config, {}, {}, fresh, TRUE)
  BY DEF Exit
<1>2. config \in [VM -> Config] /\ {} \in SUBSET VM /\ TRUE \in BOOLEAN
  BY DEF TypeOK
<1>3. /\ running' \in [VM -> Pid \cup {None}]
      /\ proc' \in [Pid -> LiveProc \cup {NoProc}]
      /\ daemon' \in {"down", "up", "exiting"}
  BY <1>1, <1>2, ChangeTypes
<1>4. Tracking'
  BY <1>1, <1>2, ChangeTracking
<1>5. QED
  BY <1>3, <1>4

(* A step that leaves the children alone keeps what is said of them.          *)
LEMMA SameChildren ==
    ASSUME TypeOK, Tracking, UNCHANGED <<running, proc, daemon>>
    PROVE  /\ running' \in [VM -> Pid \cup {None}]
           /\ proc' \in [Pid -> LiveProc \cup {NoProc}]
           /\ daemon' \in {"down", "up", "exiting"}
           /\ Tracking'
BY DEF TypeOK, Tracking, HandlesAreTrue, NothingEscapes, EmptyUnlessUp,
       DownOwnsNothing, HasLive, Working, Alive

-----------------------------------------------------------------------------
(* The other variables.                                                       *)
LEMMA FaultKeeps ==
    ASSUME TypeOK, NEW kind, Fault(kind)
    PROVE  faults' \in 0 .. MaxFaults
BY ManagerAssumption DEF TypeOK, Fault

LEMMA FaultsStay ==
    ASSUME TypeOK, UNCHANGED faults
    PROVE  faults' \in 0 .. MaxFaults
BY DEF TypeOK

LEMMA ConfigValues ==
    ASSUME TypeOK, NEW v \in VM
    PROVE  /\ config \in [VM -> Config]
           /\ \A c \in Config : [config EXCEPT ![v] = c] \in [VM -> Config]
           /\ {NoDir, NoFile, Torn} \subseteq Config
           /\ \A p \in Port, a \in BOOLEAN : Stored(a, p) \in Config
BY DEF TypeOK, Config

LEMMA ActiveConfig ==
    ASSUME TypeOK, NEW v \in Readable(config), NEW a \in BOOLEAN
    PROVE  SetActive(v, a) \in [VM -> Config]
<1>1. v \in VM /\ config[v].port \in Port
  BY ReadableConfig DEF TypeOK
<1>2. Stored(a, config[v].port) \in Config
  BY <1>1, ConfigValues
<1>3. QED
  BY <1>1, <1>2, ConfigValues DEF SetActive

LEMMA StoreFailsConfig ==
    ASSUME TypeOK, NEW v \in VM, NEW cfg, StoreFails(v, cfg)
    PROVE  cfg \in [VM -> Config] /\ faults' \in 0 .. MaxFaults
BY ConfigValues, FaultKeeps DEF StoreFails

LEMMA SyncKeeps ==
    ASSUME TypeOK, Tracking, NEW cfg \in [VM -> Config],
           NEW bounce \in SUBSET Readable(cfg), NEW rc,
           SyncStates(cfg, Enabled(cfg), bounce, rc)
    PROVE  /\ running' \in [VM -> Pid \cup {None}]
           /\ proc' \in [Pid -> LiveProc \cup {NoProc}]
           /\ daemon' \in {"down", "up", "exiting"}
           /\ Tracking'
<1>1. Enabled(cfg) \in SUBSET Readable(cfg)
  BY DEF Enabled
<1>2. PICK exits \in BOOLEAN : Pass(cfg, Enabled(cfg), bounce, exits)
  BY DEF SyncStates, Broken
<1>3. QED
  BY <1>1, <1>2, PassKeeps

-----------------------------------------------------------------------------
(* Every action keeps the invariant.                                          *)
LEMMA AddKeeps ==
    ASSUME IInv, NEW v \in VM, NEW p \in Port, NEW rc, Add(v, p, rc)
    PROVE  IInv'
<1>1. TypeOK /\ Tracking
  BY DEF IInv
<1>2. config' \in [VM -> Config]
  BY <1>1, ConfigValues DEF Add
<1>3. faults' \in 0 .. MaxFaults
  BY <1>1, FaultKeeps, FaultsStay DEF Add
<1>4. QED
  BY <1>1, <1>2, <1>3, SameChildren DEF Add, IInv, TypeOK

LEMMA StartKeeps ==
    ASSUME IInv, NEW v \in VM, NEW rc, Start(v, rc)
    PROVE  IInv'
<1>1. TypeOK /\ Tracking
  BY DEF IInv
<1>2. CASE v \notin Readable(config) /\ rc = "fail" /\ UNCHANGED vars
  BY <1>1, <1>2, SameChildren DEF IInv, TypeOK, vars
<1>3. CASE StartIgnored(v, rc)
  <2>1. /\ SyncStates(config, Enabled(config), {}, rc)
        /\ config \in [VM -> Config]
        /\ {} \in SUBSET Readable(config)
    BY <1>1, <1>3 DEF StartIgnored, TypeOK
  <2>2. QED
    BY <1>1, <1>3, <2>1, SyncKeeps DEF StartIgnored, IInv, TypeOK
<1>4. CASE StartEnables(v, rc)
  <2>1. PICK bounce \in SUBSET {v} :
          /\ v \in Readable(config)
          /\ SyncStates(SetActive(v, TRUE), Enabled(SetActive(v, TRUE)), bounce, rc)
          /\ config' = SetActive(v, TRUE)
          /\ UNCHANGED faults
    BY <1>4 DEF StartEnables
  <2>2. SetActive(v, TRUE) \in [VM -> Config]
    BY <1>1, <2>1, ActiveConfig
  <2>3. v \in Readable(SetActive(v, TRUE))
    BY <1>1, <2>1 DEF Readable, SetActive, Stored, TypeOK
  <2>4. bounce \in SUBSET Readable(SetActive(v, TRUE))
    BY <2>1, <2>3
  <2>5. QED
    BY <1>1, <2>1, <2>2, <2>4, SyncKeeps DEF IInv, TypeOK
<1>5. CASE StartStoreFails(v, rc)
  <2>1. PICK cfg : StoreFails(v, cfg) /\ config' = cfg
    BY <1>5 DEF StartStoreFails
  <2>2. config' \in [VM -> Config] /\ faults' \in 0 .. MaxFaults
    BY <1>1, <2>1, StoreFailsConfig
  <2>3. CASE running[v] # None
    <3>1. /\ SyncStates(config, Enabled(config), {}, "ok")
          /\ config \in [VM -> Config]
          /\ {} \in SUBSET Readable(config)
      BY <1>1, <1>5, <2>3 DEF StartStoreFails, TypeOK
    <3>2. QED
      BY <1>1, <2>2, <3>1, SyncKeeps DEF IInv, TypeOK
  <2>4. CASE running[v] = None
    <3>1. UNCHANGED <<running, proc, daemon>>
      BY <1>5, <2>4 DEF StartStoreFails
    <3>2. QED
      BY <1>1, <2>2, <3>1, SameChildren DEF IInv, TypeOK
  <2>5. QED
    BY <2>3, <2>4
<1>6. QED
  BY <1>2, <1>3, <1>4, <1>5 DEF Start

LEMMA StopVmKeeps ==
    ASSUME IInv, NEW v \in VM, NEW cfg, NEW rc, StopVm(v, cfg, rc)
    PROVE  /\ cfg \in [VM -> Config]
           /\ faults' \in 0 .. MaxFaults
           /\ running' \in [VM -> Pid \cup {None}]
           /\ proc' \in [Pid -> LiveProc \cup {NoProc}]
           /\ daemon' \in {"down", "up", "exiting"}
           /\ Tracking'
<1>1. TypeOK /\ Tracking
  BY DEF IInv
<1>2. CASE /\ cfg = config
           /\ UNCHANGED <<running, proc, daemon, faults>>
  BY <1>1, <1>2, SameChildren, FaultsStay, ConfigValues
<1>3. CASE StoreFails(v, cfg) /\ UNCHANGED <<running, proc, daemon>>
  BY <1>1, <1>3, SameChildren, StoreFailsConfig
<1>4. CASE /\ v \in Readable(config)
           /\ cfg = SetActive(v, FALSE)
           /\ SyncStates(cfg, Enabled(cfg), {}, rc)
           /\ UNCHANGED faults
  <2>1. cfg \in [VM -> Config] /\ {} \in SUBSET Readable(cfg)
    BY <1>1, <1>4, ActiveConfig
  <2>2. QED
    BY <1>1, <1>4, <2>1, SyncKeeps, FaultsStay
<1>5. QED
  BY <1>2, <1>3, <1>4 DEF StopVm

LEMMA StopKeeps ==
    ASSUME IInv, NEW v \in VM, NEW rc, Stop(v, rc)
    PROVE  IInv'
<1>1. PICK cfg : StopVm(v, cfg, rc) /\ config' = cfg
  BY DEF Stop
<1>2. QED
  BY <1>1, StopVmKeeps DEF IInv, TypeOK

LEMMA FileRemoved ==
    ASSUME NEW cfg \in [VM -> Config], NEW v \in VM
    PROVE  [cfg EXCEPT ![v] = NoFile] \in [VM -> Config]
<1>1. NoFile \in Config
  BY DEF Config
<1>2. QED
  BY <1>1

LEMMA DeleteFailsKeeps ==
    ASSUME IInv, NEW v \in VM, NEW rc, DeleteFails(v, rc)
    PROVE  IInv'
<1>1. TypeOK /\ Tracking
  BY DEF IInv
<1>2. CASE v \in Readable(config)
  <2> DEFINE cfg == SetActive(v, FALSE)
  <2>1. /\ Fault("io")
        /\ Pass(cfg, Enabled(cfg), {}, TRUE)
        /\ config' \in {cfg, [cfg EXCEPT ![v] = NoFile]}
    BY <1>2 DEF DeleteFails
  <2>2. cfg \in [VM -> Config]
    BY <1>1, <1>2, ActiveConfig
  <2>3. config' \in [VM -> Config]
    <3> HIDE DEF cfg
    <3>1. QED
      BY <2>1, <2>2, FileRemoved
  <2>4. /\ Enabled(cfg) \in SUBSET Readable(cfg)
        /\ {} \in SUBSET Readable(cfg)
        /\ TRUE \in BOOLEAN
    BY DEF Enabled
  <2> HIDE DEF cfg
  <2>5. QED
    BY <1>1, <2>1, <2>2, <2>3, <2>4, PassKeeps, FaultKeeps DEF IInv, TypeOK
<1>3. CASE v \notin Readable(config)
  <2>1. /\ Fault("io")
        /\ Exit
        /\ config' \in {config, [config EXCEPT ![v] = NoFile]}
    BY <1>3 DEF DeleteFails
  <2>2. config' \in [VM -> Config]
    BY <1>1, <2>1, ConfigValues
  <2>3. QED
    BY <1>1, <2>1, <2>2, ExitKeeps, FaultKeeps DEF IInv, TypeOK
<1>4. QED
  BY <1>2, <1>3

LEMMA DeleteKeeps ==
    ASSUME IInv, NEW v \in VM, NEW rc, Delete(v, rc)
    PROVE  IInv'
<1>1. TypeOK /\ Tracking
  BY DEF IInv
<1>2. CASE UNCHANGED vars
  BY <1>1, <1>2, SameChildren DEF IInv, TypeOK, vars
<1>3. CASE \E cfg \in AfterStop(v), stopped \in Rc :
              /\ StopVm(v, cfg, stopped)
              /\ config' = IF stopped = "raise" THEN cfg
                           ELSE [config EXCEPT ![v] = NoDir]
  <2>1. PICK cfg \in AfterStop(v), stopped \in Rc :
              /\ StopVm(v, cfg, stopped)
              /\ config' = IF stopped = "raise" THEN cfg
                           ELSE [config EXCEPT ![v] = NoDir]
    BY <1>3
  <2>2. config' \in [VM -> Config]
    BY <1>1, <2>1, StopVmKeeps, ConfigValues
  <2>3. QED
    BY <2>1, <2>2, StopVmKeeps DEF IInv, TypeOK
<1>4. CASE DeleteFails(v, rc)
  BY <1>1, <1>4, DeleteFailsKeeps
<1>5. QED
  BY <1>2, <1>3, <1>4 DEF Delete

LEMMA AnswerKeeps ==
    ASSUME IInv, NEW rc, Answer(rc)
    PROVE  IInv'
<1>1. TypeOK /\ Tracking
  BY DEF IInv
<1>2. CASE Exit
  BY <1>1, <1>2, ExitKeeps DEF Answer, IInv, TypeOK
<1>3. CASE UNCHANGED <<running, proc, daemon>>
  BY <1>1, <1>3, SameChildren DEF Answer, IInv, TypeOK
<1>4. QED
  BY <1>2, <1>3 DEF Answer

LEMMA CommandKeeps ==
    ASSUME IInv, NEW rc, Command(rc)
    PROVE  IInv'
BY AddKeeps, StartKeeps, StopKeeps, DeleteKeeps, AnswerKeeps DEF Command, Show, List

LEMMA PeriodicKeeps ==
    ASSUME IInv, NEW rc, Periodic(rc)
    PROVE  IInv'
<1>1. TypeOK /\ Tracking
  BY DEF IInv
<1>2. /\ SyncStates(config, Enabled(config), {}, rc)
      /\ config \in [VM -> Config]
      /\ {} \in SUBSET Readable(config)
  BY <1>1 DEF Periodic, TypeOK
<1>3. QED
  BY <1>1, <1>2, SyncKeeps DEF Periodic, IInv, TypeOK

LEMMA DaemonStartKeeps ==
    ASSUME IInv, NEW rc, DaemonStart(rc)
    PROVE  IInv'
<1>1. TypeOK /\ Tracking
  BY DEF IInv
<1>2. PICK exits \in BOOLEAN : Pass(config, Enabled(config), {}, exits)
  BY DEF DaemonStart, Broken
<1>3. /\ config \in [VM -> Config]
      /\ Enabled(config) \in SUBSET Readable(config)
      /\ {} \in SUBSET Readable(config)
  BY <1>1 DEF TypeOK, Enabled
<1>4. QED
  BY <1>1, <1>2, <1>3, PassKeeps DEF DaemonStart, IInv, TypeOK

LEMMA ShutdownKeeps ==
    ASSUME IInv, Shutdown
    PROVE  IInv'
<1>1. TypeOK /\ Tracking
  BY DEF IInv
<1>2. QED
  BY <1>1, ExitKeeps, FaultKeeps DEF Shutdown, IInv, TypeOK

LEMMA DaemonExitKeeps ==
    ASSUME IInv, DaemonExit
    PROVE  IInv'
<1>1. TypeOK'
  BY DEF IInv, TypeOK, DaemonExit
<1>2. Tracking'
  BY DEF IInv, Tracking, HandlesAreTrue, NothingEscapes, EmptyUnlessUp,
         DownOwnsNothing, HasLive, Working, Alive, DaemonExit
<1>3. QED
  BY <1>1, <1>2 DEF IInv

LEMMA KillKeeps ==
    ASSUME IInv, Kill
    PROVE  IInv'
<1>1. TypeOK /\ Tracking
  BY DEF IInv
<1>2. ASSUME NEW p \in Pid
      PROVE  /\ proc'[p] \in LiveProc \cup {NoProc}
             /\ Alive(p)' => ~proc'[p].owned
  <2>1. CASE Alive(p)
    <3>1. proc'[p] = Orphaned(proc[p]) /\ proc[p] \in LiveProc
      BY <1>1, <2>1, LiveRecord DEF Kill
    <3>2. QED
      BY <3>1, OrphanedRecord
  <2>2. CASE ~Alive(p)
    <3>1. proc'[p] = proc[p]
      BY <2>2 DEF Kill
    <3>2. QED
      BY <1>1, <2>2, <3>1, LiveRecord DEF Alive
  <2>3. QED
    BY <2>1, <2>2
<1>3. config' \in [VM -> Config]
  BY <1>1, ConfigValues DEF Kill, CutShort, TypeOK
<1>4. TypeOK'
  <2>1. proc' \in [Pid -> LiveProc \cup {NoProc}]
    BY <1>2 DEF Kill
  <2>2. running' \in [VM -> Pid \cup {None}]
    BY DEF Kill, NoneRunning
  <2>3. daemon' = "down" /\ faults' \in 0 .. MaxFaults
    BY <1>1, FaultKeeps DEF Kill
  <2>4. QED
    BY <1>3, <2>1, <2>2, <2>3 DEF TypeOK
<1>5. HandlesAreTrue' /\ EmptyUnlessUp'
  BY DEF HandlesAreTrue, EmptyUnlessUp, HasLive, Kill, NoneRunning
<1>6. NothingEscapes' /\ DownOwnsNothing'
  BY <1>2 DEF NothingEscapes, DownOwnsNothing, Working
<1>7. QED
  BY <1>4, <1>5, <1>6 DEF IInv, Tracking

(* A daemon cut short in its first pass: what it forked is nobody's, and was *)
(* forked for names that are enabled.                                        *)
LEMMA BootCutProcs ==
    ASSUME TypeOK, DownOwnsNothing, BootCut, NEW p \in Pid
    PROVE  /\ proc'[p] \in LiveProc \cup {NoProc}
           /\ Alive(p)' => ~proc'[p].owned
           /\ Alive(p) => proc'[p].vm = proc[p].vm
           /\ ~Alive(p) /\ Alive(p)' => /\ proc'[p].vm \in Enabled(config)
                                        /\ proc'[p].port = config[proc'[p].vm].port
<1>1. PICK forked \in SUBSET Enabled(config) :
        \E fresh \in Spawns(forked) :
           proc' = [q \in Pid |->
                      IF Procs(config, forked, {}, fresh, FALSE)[q] = NoProc THEN NoProc
                      ELSE Orphaned(Procs(config, forked, {}, fresh, FALSE)[q])]
  BY DEF BootCut
<1>2. PICK fresh \in Spawns(forked) :
        proc'[p] = IF Procs(config, forked, {}, fresh, FALSE)[p] = NoProc THEN NoProc
                   ELSE Orphaned(Procs(config, forked, {}, fresh, FALSE)[p])
  BY <1>1
<1>3. PICK after :
        /\ after = Procs(config, forked, {}, fresh, FALSE)[p]
        /\ proc'[p] = IF after = NoProc THEN NoProc ELSE Orphaned(after)
  BY <1>2
<1>4. config \in [VM -> Config] /\ forked \in SUBSET VM /\ FALSE \in BOOLEAN
  BY DEF TypeOK, Enabled, Readable
<1>5. CASE \E v \in forked : fresh[v] = p
  <2>1. PICK v \in forked : fresh[v] = p
    BY <1>5
  <2>2. v \in VM /\ config[v].port \in Port /\ v \in Enabled(config)
    BY <1>4, ReadableConfig DEF Enabled
  <2>3. after = Forked(v, config[v].port, FALSE)
    BY <1>3, <1>4, <2>1, FreshProcs
  <2>4. /\ after \in LiveProc
        /\ after.st # "dead"
        /\ after.vm = v
    BY <1>4, <2>2, <2>3, ForkedRecord
  <2>5. after.port = config[v].port
    BY <2>3 DEF Forked
  <2>6. ~Alive(p)
    BY <1>4, <2>1, FreshHandle
  <2>7. proc'[p] = Orphaned(after)
    <3>1. after # NoProc
      BY <2>4 DEF NoProc
    <3>2. QED
      BY <1>3, <3>1
  <2>8. QED
    BY <2>2, <2>4, <2>5, <2>6, <2>7, OrphanedRecord DEF Alive
<1>6. CASE \A v \in forked : fresh[v] # p
  <2>1. after = proc[p]
    BY <1>3, <1>6 DEF Procs
  <2>2. CASE Alive(p)
    <3>1. proc[p] \in LiveProc /\ proc[p] # NoProc
      BY <2>2, LiveRecord
    <3>2. proc'[p] = Orphaned(proc[p])
      BY <1>3, <2>1, <3>1
    <3>3. QED
      BY <2>2, <3>1, <3>2, OrphanedRecord DEF Alive
  <2>3. CASE ~Alive(p)
    <3>1. proc'[p] = NoProc
      BY <1>3, <2>1, <2>3, LiveRecord
    <3>2. QED
      BY <2>3, <3>1 DEF Alive, NoProc
  <2>4. QED
    BY <2>2, <2>3
<1>7. QED
  BY <1>5, <1>6

LEMMA BootCutKeeps ==
    ASSUME IInv, BootCut
    PROVE  IInv'
<1>1. TypeOK /\ Tracking
  BY DEF IInv
<1>2. ASSUME NEW p \in Pid
      PROVE  /\ proc'[p] \in LiveProc \cup {NoProc}
             /\ Alive(p)' => ~proc'[p].owned
  BY <1>1, BootCutProcs DEF Tracking
<1>3. UNCHANGED <<config, running>> /\ daemon = "down" /\ daemon' = "down"
  BY DEF BootCut
<1>4. TypeOK'
  <2>1. proc' \in [Pid -> LiveProc \cup {NoProc}]
    BY <1>2 DEF BootCut
  <2>2. QED
    BY <1>1, <1>3, <2>1, FaultKeeps DEF BootCut, TypeOK
<1>5. running' = NoneRunning
  BY <1>1, <1>3 DEF Tracking, EmptyUnlessUp
<1>6. HandlesAreTrue' /\ EmptyUnlessUp'
  BY <1>5 DEF HandlesAreTrue, EmptyUnlessUp, HasLive, NoneRunning
<1>7. NothingEscapes' /\ DownOwnsNothing'
  BY <1>2 DEF NothingEscapes, DownOwnsNothing, Working
<1>8. QED
  BY <1>4, <1>6, <1>7 DEF IInv, Tracking

(* The end of a child, however it comes.                                      *)
LEMMA ChildGone ==
    ASSUME IInv, NEW p \in Pid, proc' = [proc EXCEPT ![p] = NoProc],
           UNCHANGED <<config, running, daemon>>, faults' \in 0 .. MaxFaults
    PROVE  IInv'
<1>1. TypeOK /\ Tracking
  BY DEF IInv
<1>2. TypeOK'
  BY <1>1 DEF TypeOK
<1>3. /\ ~Alive(p)'
      /\ \A q \in Pid \ {p} : proc'[q] = proc[q]
  BY <1>1 DEF Alive, NoProc, TypeOK
<1>4. HandlesAreTrue'
  <2> SUFFICES ASSUME NEW v \in VM, running[v] # None, Alive(running[v])'
               PROVE  Working(running[v])' /\ proc'[running[v]].vm = v
    BY DEF HandlesAreTrue, HasLive
  <2>1. running[v] \in Pid \ {p}
    BY <1>1, <1>3 DEF TypeOK
  <2>2. proc'[running[v]] = proc[running[v]]
    BY <1>3, <2>1
  <2>3. QED
    BY <1>1, <2>2 DEF Tracking, HandlesAreTrue, HasLive, Working, Alive
<1>5. NothingEscapes'
  BY <1>1, <1>3 DEF Tracking, NothingEscapes, Working, Alive
<1>6. EmptyUnlessUp' /\ DownOwnsNothing'
  BY <1>1, <1>3 DEF Tracking, EmptyUnlessUp, DownOwnsNothing, Alive,
                    NoneRunning
<1>7. QED
  BY <1>2, <1>4, <1>5, <1>6 DEF IInv, Tracking

LEMMA ChildBindKeeps ==
    ASSUME IInv, NEW p \in Pid, ChildBind(p)
    PROVE  IInv'
<1>1. TypeOK /\ Tracking
  BY DEF IInv
<1>2. CASE proc' = [proc EXCEPT ![p] = NoProc]
  BY <1>1, <1>2, ChildGone, FaultsStay DEF ChildBind
<1>3. CASE proc' = [proc EXCEPT ![p] = Bound(proc[p])]
  <2>1. Alive(p) /\ proc[p] \in LiveProc
    BY <1>1, LiveRecord DEF ChildBind, Alive
  <2>2. /\ Bound(proc[p]) \in LiveProc
        /\ Alive(p)'
        /\ proc'[p].term = proc[p].term
        /\ proc'[p].owned = proc[p].owned
        /\ proc'[p].vm = proc[p].vm
    BY <1>1, <1>3, <2>1, BoundRecord DEF Alive, TypeOK
  <2>3. \A q \in Pid \ {p} : proc'[q] = proc[q]
    BY <1>1, <1>3 DEF TypeOK
  <2>4. \A q \in Pid : /\ Alive(q)' <=> Alive(q)
                       /\ Working(q)' <=> Working(q)
                       /\ proc'[q].vm = proc[q].vm
                       /\ proc'[q].owned <=> proc[q].owned
    BY <2>1, <2>2, <2>3 DEF Alive, Working
  <2>5. UNCHANGED <<config, running, daemon, faults>>
    BY DEF ChildBind
  <2>6. TypeOK'
    BY <1>1, <1>3, <2>2, <2>5 DEF TypeOK
  <2>7. HandlesAreTrue'
    BY <1>1, <2>4, <2>5 DEF TypeOK, Tracking, HandlesAreTrue, HasLive
  <2>8. NothingEscapes'
    BY <1>1, <2>4, <2>5 DEF Tracking, NothingEscapes
  <2>9. EmptyUnlessUp' /\ DownOwnsNothing'
    BY <1>1, <2>4, <2>5 DEF Tracking, EmptyUnlessUp, DownOwnsNothing,
                            NoneRunning
  <2>10. QED
    BY <2>6, <2>7, <2>8, <2>9 DEF IInv, Tracking
<1>4. QED
  BY <1>2, <1>3 DEF ChildBind

LEMMA ChildrenKeep ==
    ASSUME IInv, Children
    PROVE  IInv'
<1>1. PICK p \in Pid : ChildBind(p) \/ ChildTerm(p) \/ ChildDies(p)
  BY DEF Children
<1>2. CASE ChildBind(p)
  BY <1>2, ChildBindKeeps
<1>3. CASE ChildTerm(p)
  BY <1>3, ChildGone, FaultsStay DEF ChildTerm, IInv
<1>4. CASE ChildDies(p)
  BY <1>4, ChildGone, FaultKeeps DEF ChildDies, IInv
<1>5. QED
  BY <1>1, <1>2, <1>3, <1>4

LEMMA EditKeeps ==
    ASSUME IInv, NEW v \in VM, Edit(v)
    PROVE  IInv'
<1>1. TypeOK /\ Tracking
  BY DEF IInv
<1>2. config' \in [VM -> Config]
  BY <1>1, ConfigValues DEF Edit
<1>3. QED
  BY <1>1, <1>2, SameChildren, FaultKeeps DEF Edit, IInv, TypeOK

-----------------------------------------------------------------------------
(* The theorems.                                                              *)

LEMMA InitHolds == Init => IInv
<1> SUFFICES ASSUME Init PROVE IInv
  OBVIOUS
<1>1. TypeOK
  BY ManagerAssumption, InitialAssumption DEF Init, TypeOK, NoneRunning
<1>2. Tracking
  BY ManagerAssumption DEF Init, Tracking, HandlesAreTrue, NothingEscapes, EmptyUnlessUp,
       DownOwnsNothing, HasLive, Working, Alive, NoProc,
       NoneRunning
<1>3. QED
  BY <1>1, <1>2 DEF IInv

LEMMA StepKeeps == IInv /\ [Next]_vars => IInv'
<1> SUFFICES ASSUME IInv, [Next]_vars PROVE IInv'
  OBVIOUS
<1>1. ASSUME NEW rc \in Rc, Command(rc)
      PROVE  IInv'
  BY <1>1, CommandKeeps
<1>2. ASSUME NEW rc \in Rc, Periodic(rc)
      PROVE  IInv'
  BY <1>2, PeriodicKeeps
<1>3. ASSUME NEW rc \in Rc, DaemonStart(rc)
      PROVE  IInv'
  BY <1>3, DaemonStartKeeps
<1>4. CASE Shutdown
  BY <1>4, ShutdownKeeps
<1>5. CASE DaemonExit
  BY <1>5, DaemonExitKeeps
<1>6. CASE Kill
  BY <1>6, KillKeeps
<1>7. CASE BootCut
  BY <1>7, BootCutKeeps
<1>8. CASE Children
  BY <1>8, ChildrenKeep
<1>9. ASSUME NEW v \in VM, Edit(v)
      PROVE  IInv'
  BY <1>9, EditKeeps
<1>10. CASE UNCHANGED vars
  BY <1>10, SameChildren DEF IInv, TypeOK, vars
<1>11. QED
  BY <1>1, <1>2, <1>3, <1>4, <1>5, <1>6, <1>7, <1>8, <1>9, <1>10 DEF Next

(* The inductive invariant holds in every reachable state.                    *)
THEOREM Invariance == Spec => []IInv
BY InitHolds, StepKeeps, PTL DEF Spec

(* Every variable keeps its type, with any number of names, ports and handles. *)
THEOREM TypeCorrect == Spec => []TypeOK
<1>1. IInv => TypeOK
  BY DEF IInv
<1>2. QED
  BY <1>1, Invariance, PTL

(* What show and list report is true of the child processes.                  *)
THEOREM StatusCorrect == Spec => []StatusIsTrue
<1>1. ASSUME IInv PROVE StatusIsTrue
  <2> SUFFICES ASSUME NEW v \in VM
               PROVE  IF Status(v) = "running"
                      THEN {p \in Pid : Working(p) /\ proc[p].vm = v} = {running[v]}
                      ELSE \A p \in Pid : Working(p) => proc[p].vm # v
    BY DEF StatusIsTrue
  <2>1. CASE HasLive(v)
    <3>1. running[v] \in Pid /\ Working(running[v]) /\ proc[running[v]].vm = v
      BY <1>1, <2>1 DEF IInv, TypeOK, Tracking, HandlesAreTrue, HasLive
    <3>2. \A p \in Pid : Working(p) /\ proc[p].vm = v => p = running[v]
      BY <1>1 DEF IInv, Tracking, NothingEscapes
    <3>3. QED
      BY <2>1, <3>1, <3>2 DEF Status
  <2>2. CASE ~HasLive(v)
    <3>1. \A p \in Pid : Working(p) => proc[p].vm # v
      BY <1>1, <2>2, ManagerAssumption
         DEF IInv, Tracking, NothingEscapes, HasLive, Working
    <3>2. QED
      BY <2>2, <3>1 DEF Status
  <2>3. QED
    BY <2>1, <2>2
<1>2. QED
  BY <1>1, Invariance, PTL

-----------------------------------------------------------------------------
(* What a pass that does not fail achieves.                                   *)
SettledFor(cfg) == \A v \in Readable(cfg) : HasLive(v)' <=> v \in Enabled(cfg)
Settled == SettledFor(config')

LEMMA PassSettled ==
    ASSUME TypeOK, NEW cfg \in [VM -> Config], ~Broken(cfg),
           NEW bounce \in SUBSET Enabled(cfg),
           NEW exits \in BOOLEAN, ~exits, Pass(cfg, Enabled(cfg), bounce, exits)
    PROVE  SettledFor(cfg)
<1> DEFINE on == Enabled(cfg)
           spawn == ToSpawn(Readable(cfg), on, bounce)
           stop  == ToStop(Readable(cfg), on, bounce)
<1>1. /\ on \in SUBSET Readable(cfg)
      /\ spawn \in SUBSET VM
      /\ spawn \in SUBSET on
      /\ stop \in SUBSET VM
      /\ \A v \in spawn : v \in Readable(cfg)
  BY DEF ToSpawn, ToStop, Readable, Enabled
<1>2. PICK fresh \in Spawns(spawn) : Change(cfg, spawn, stop, fresh, exits)
  BY DEF Pass, Walks
<1>3. \A v \in spawn : cfg[v].port \in Port
  BY <1>1, ReadableConfig
<1>4. \A v \in VM :
         /\ v \in spawn <=> v \in on /\ (~HasLive(v) \/ v \in bounce)
         /\ v \in stop <=> /\ running[v] # None
                          /\ v \in (Readable(cfg) \ on) \cup bounce
  BY <1>1 DEF ToSpawn, ToStop, Readable
<1> HIDE DEF spawn, stop
<1> SUFFICES ASSUME NEW v \in Readable(cfg)
             PROVE  HasLive(v)' <=> v \in on
  BY DEF SettledFor
<1>5. v \in VM /\ running[v] \in Pid \cup {None}
  BY DEF Readable, TypeOK
<1>6. running'[v] = IF v \in spawn THEN fresh[v]
                    ELSE IF v \in stop THEN None ELSE running[v]
  BY <1>2, <1>5 DEF Change, Tracked
<1>7. CASE v \notin on
  <2>1. v \notin spawn /\ (v \in stop <=> running[v] # None)
    BY <1>1, <1>4, <1>5, <1>7
  <2>2. QED
    BY <1>6, <1>7, <2>1 DEF HasLive
<1>8. CASE v \in spawn
  <2>1. fresh[v] \in Pid /\ fresh[v] # None
    BY <1>1, <1>2, <1>8, FreshHandle
  <2>2. /\ proc'[fresh[v]].st # "dead"
        /\ proc'[fresh[v]].vm = v
        /\ proc'[fresh[v]].owned
        /\ proc'[fresh[v]].term <=> exits
    BY <1>1, <1>2, <1>3, <1>8, ChangeFresh
  <2>3. QED
    BY <1>1, <1>6, <1>8, <2>1, <2>2 DEF HasLive, Alive
<1>9. CASE v \in on /\ v \notin spawn
  <2>1. HasLive(v) /\ v \notin stop
    BY <1>4, <1>5, <1>9
  <2>2. running[v] \in Pid /\ \A w \in spawn : fresh[w] # running[v]
    BY <1>1, <1>2, <1>5, <1>9, <2>1, FreshHandle DEF HasLive
  <2>3. running'[v] = running[v]
    BY <1>6, <1>9, <2>1
  <2>4. Alive(running[v])' <=> Alive(running[v])
    BY <1>1, <1>2, <2>2, <2>3, ChangeOther
  <2>5. QED
    BY <1>9, <2>1, <2>3, <2>4 DEF HasLive, Alive
<1>10. QED
  BY <1>7, <1>8, <1>9

(* The commands that end in such a pass.                                      *)
LEMMA SyncSettles ==
    ASSUME TypeOK, config' \in [VM -> Config],
           NEW bounce \in SUBSET Enabled(config'),
           SyncStates(config', Enabled(config'), bounce, "ok")
    PROVE  Settled
<1>1. ~Broken(config')
  BY DEF SyncStates
<1>2. Pass(config', Enabled(config'), bounce, FALSE)
  BY <1>1 DEF SyncStates, Broken
<1>3. QED
  BY <1>1, <1>2, PassSettled DEF Settled

LEMMA StartSettles ==
    ASSUME IInv, IInv', NEW v \in VM, Start(v, "ok")
    PROVE  Settled /\ v \in Enabled(config')
<1>1. TypeOK /\ config' \in [VM -> Config] /\ {} \in SUBSET Enabled(config')
  BY DEF IInv, TypeOK
<1>2. CASE StartIgnored(v, "ok")
  <2>1. /\ SyncStates(config, Enabled(config), {}, "ok")
        /\ config' = config
    BY <1>2 DEF StartIgnored
  <2>2. ~Broken(config)
    BY <2>1 DEF SyncStates
  <2>3. QED
    BY <1>1, <1>2, <2>1, <2>2, SyncSettles DEF StartIgnored
<1>3. CASE StartEnables(v, "ok")
  <2>1. PICK bounce \in SUBSET {v} :
          /\ v \in Readable(config)
          /\ SyncStates(SetActive(v, TRUE), Enabled(SetActive(v, TRUE)), bounce, "ok")
          /\ config' = SetActive(v, TRUE)
    BY <1>3 DEF StartEnables
  <2>2. v \in Enabled(config')
    BY <1>1, <2>1 DEF Readable, Enabled, SetActive, Stored, TypeOK
  <2>3. bounce \in SUBSET Enabled(config')
    BY <2>1, <2>2
  <2>4. QED
    BY <1>1, <2>1, <2>2, <2>3, SyncSettles
<1>4. QED
  BY <1>2, <1>3 DEF Start, StartStoreFails

LEMMA StopSettles ==
    ASSUME IInv, IInv', NEW v \in VM, Stop(v, "ok")
    PROVE  Settled /\ v \in Readable(config') \ Enabled(config')
<1>1. TypeOK /\ config' \in [VM -> Config] /\ {} \in SUBSET Enabled(config')
  BY DEF IInv, TypeOK
<1>2. /\ v \in Readable(config)
      /\ config' = SetActive(v, FALSE)
      /\ SyncStates(config', Enabled(config'), {}, "ok")
  BY DEF Stop, StopVm
<1>3. v \in Readable(config') \ Enabled(config')
  BY <1>1, <1>2 DEF Readable, Enabled, SetActive, Stored, TypeOK
<1>4. QED
  BY <1>1, <1>2, <1>3, SyncSettles

LEMMA OthersSettle ==
    ASSUME IInv, IInv', Periodic("ok") \/ DaemonStart("ok")
    PROVE  Settled
<1>1. /\ TypeOK
      /\ config' \in [VM -> Config]
      /\ {} \in SUBSET Enabled(config')
      /\ config' = config
  BY DEF IInv, TypeOK, Periodic, DaemonStart
<1>2. CASE Periodic("ok")
  BY <1>1, <1>2, SyncSettles DEF Periodic
<1>3. CASE DaemonStart("ok")
  <2>1. ~Broken(config)
    BY <1>3 DEF DaemonStart
  <2>2. ~\E p \in Pid : Alive(p) /\ proc[p].ctl
    BY <1>3 DEF DaemonStart
  <2>3. Pass(config, Enabled(config), {}, FALSE)
    BY <1>3, <2>1, <2>2 DEF DaemonStart
  <2>4. QED
    BY <1>1, <2>1, <2>3, PassSettled DEF Settled
<1>4. QED
  BY <1>2, <1>3

(* After every pass that did not fail exactly the enabled ones among the      *)
(* names with a readable file have a live child.                              *)
THEOREM PassesSettle == Spec => PassSettles
<1>1. ASSUME IInv, IInv',
             \/ Periodic("ok") \/ DaemonStart("ok")
             \/ \E v \in VM : Start(v, "ok") \/ Stop(v, "ok")
      PROVE  \A v \in Readable(config') : HasLive(v)' <=> v \in Enabled(config')
  BY <1>1, OthersSettle, StartSettles, StopSettles DEF Settled, SettledFor
<1>2. IInv /\ IInv' =>
        [\/ Periodic("ok") \/ DaemonStart("ok")
         \/ \E v \in VM : Start(v, "ok") \/ Stop(v, "ok")
         => \A v \in Readable(config') : HasLive(v)' <=> v \in Enabled(config')]_vars
  BY <1>1
<1>3. QED
  BY <1>2, Invariance, PTL DEF PassSettles

(* A start that returned 0 left the name enabled and its own child at work.   *)
THEOREM StartsRun == Spec => StartRuns
<1>1. ASSUME IInv, IInv', NEW v \in VM, Start(v, "ok")
      PROVE  /\ v \in Enabled(config')
             /\ \E p \in Pid : Working(p)' /\ proc'[p].vm = v /\ running'[v] = p
  <2>1. v \in Enabled(config') /\ HasLive(v)'
    BY <1>1, StartSettles DEF Settled, SettledFor, Enabled
  <2>2. /\ running'[v] \in Pid
        /\ Working(running[v])'
        /\ proc'[running'[v]].vm = v
    BY <1>1, <2>1 DEF IInv, TypeOK, Tracking, HandlesAreTrue, HasLive
  <2>3. QED
    BY <2>1, <2>2 DEF Working, Alive
<1>2. IInv /\ IInv' =>
        [\A v \in VM : Start(v, "ok") =>
           /\ v \in Enabled(config')
           /\ \E p \in Pid : Working(p)' /\ proc'[p].vm = v /\ running'[v] = p]_vars
  BY <1>1
<1>3. QED
  BY <1>2, Invariance, PTL DEF StartRuns

(* A stop that returned 0 left the name disabled and no child of this daemon  *)
(* at work for it.                                                            *)
THEOREM StopsSilence == Spec => StopSilences
<1>1. ASSUME IInv, IInv', NEW v \in VM, Stop(v, "ok")
      PROVE  /\ v \notin Enabled(config')
             /\ \A p \in Pid : Working(p)' => proc'[p].vm # v
  <2>1. v \notin Enabled(config') /\ ~HasLive(v)'
    BY <1>1, StopSettles DEF Settled, SettledFor
  <2>2. ASSUME NEW p \in Pid, Working(p)', proc'[p].vm = v
        PROVE  FALSE
    <3>1. running'[v] = p
      BY <1>1, <2>2 DEF IInv, Tracking, NothingEscapes
    <3>2. QED
      BY <2>1, <2>2, <3>1, ManagerAssumption DEF HasLive, Working, Alive
  <2>3. QED
    BY <2>1, <2>2
<1>2. IInv /\ IInv' =>
        [\A v \in VM : Stop(v, "ok") =>
           /\ v \notin Enabled(config')
           /\ \A p \in Pid : Working(p)' => proc'[p].vm # v]_vars
  BY <1>1
<1>3. QED
  BY <1>2, Invariance, PTL DEF StopSilences

-----------------------------------------------------------------------------
(* What was forked in a step was forked for an enabled name of cfg, with the  *)
(* port cfg has for it.                                                       *)
ForksFrom(cfg) ==
    \A p \in Pid : ~Alive(p) /\ Alive(p)' =>
        proc'[p].vm \in Enabled(cfg) /\ proc'[p].port = cfg[proc'[p].vm].port

LEMMA ChangeForks ==
    ASSUME TypeOK, NEW cfg \in [VM -> Config],
           NEW spawn \in SUBSET Enabled(cfg), NEW stop \in SUBSET VM,
           NEW fresh \in Spawns(spawn), NEW exits \in BOOLEAN,
           Change(cfg, spawn, stop, fresh, exits)
    PROVE  ForksFrom(cfg)
<1>1. spawn \in SUBSET VM /\ \A v \in spawn : cfg[v].port \in Port
  BY ReadableConfig DEF Enabled, Readable
<1> SUFFICES ASSUME NEW p \in Pid, ~Alive(p), Alive(p)'
             PROVE  /\ proc'[p].vm \in Enabled(cfg)
                    /\ proc'[p].port = cfg[proc'[p].vm].port
  BY DEF ForksFrom
<1>2. PICK v \in spawn : fresh[v] = p
  BY <1>1, ChangeOther
<1>3. proc'[p].vm = v /\ proc'[p].port = cfg[v].port
  BY <1>1, <1>2, ChangeFresh
<1>4. QED
  BY <1>3

LEMMA PassForks ==
    ASSUME TypeOK, NEW cfg \in [VM -> Config], NEW bounce \in SUBSET Enabled(cfg),
           NEW exits \in BOOLEAN, Pass(cfg, Enabled(cfg), bounce, exits)
    PROVE  ForksFrom(cfg)
<1>1. PICK walked \in Walks(cfg) :
        \E fresh \in Spawns(ToSpawn(walked, Enabled(cfg), bounce)) :
           Change(cfg, ToSpawn(walked, Enabled(cfg), bounce),
                  ToStop(walked, Enabled(cfg), bounce), fresh, exits)
  BY DEF Pass
<1>2. /\ ToSpawn(walked, Enabled(cfg), bounce) \in SUBSET Enabled(cfg)
      /\ ToStop(walked, Enabled(cfg), bounce) \in SUBSET VM
  BY DEF ToSpawn, ToStop, Walks, Readable, Enabled
<1>3. QED
  BY <1>1, <1>2, ChangeForks

LEMMA SyncForks ==
    ASSUME TypeOK, NEW cfg \in [VM -> Config], NEW bounce \in SUBSET Enabled(cfg),
           NEW rc, SyncStates(cfg, Enabled(cfg), bounce, rc)
    PROVE  ForksFrom(cfg)
<1>1. PICK exits \in BOOLEAN : Pass(cfg, Enabled(cfg), bounce, exits)
  BY DEF SyncStates, Broken
<1>2. QED
  BY <1>1, PassForks

LEMMA ExitForks ==
    ASSUME TypeOK, Exit
    PROVE  ForksFrom(config)
<1>1. PICK fresh \in Spawns({}) : Change(config, {}, {}, fresh, TRUE)
  BY DEF Exit
<1>2. /\ config \in [VM -> Config]
      /\ {} \in SUBSET Enabled(config) /\ {} \in SUBSET VM
      /\ TRUE \in BOOLEAN
  BY DEF TypeOK
<1>3. QED
  BY <1>1, <1>2, ChangeForks

LEMMA NoForks ==
    ASSUME UNCHANGED proc, NEW cfg
    PROVE  ForksFrom(cfg)
BY DEF ForksFrom, Alive

(* A name that is not enabled may change after the pass.                      *)
LEMMA SameEnabled ==
    ASSUME NEW cfg \in [VM -> Config], NEW new \in [VM -> Config],
           \A v \in Enabled(cfg) : new[v] = cfg[v],
           ForksFrom(cfg)
    PROVE  ForksFrom(new)
BY DEF ForksFrom, Enabled, Readable

LEMMA StartForks ==
    ASSUME IInv, IInv', NEW v \in VM, NEW rc, Start(v, rc)
    PROVE  ForksFrom(config')
<1>1. /\ TypeOK
      /\ config \in [VM -> Config] /\ config' \in [VM -> Config]
      /\ {} \in SUBSET Enabled(config)
  BY DEF IInv, TypeOK
<1>2. CASE UNCHANGED vars
  BY <1>2, NoForks DEF vars
<1>3. CASE StartIgnored(v, rc)
  <2>1. SyncStates(config, Enabled(config), {}, rc) /\ config' = config
    BY <1>3 DEF StartIgnored
  <2>2. QED
    BY <1>1, <2>1, SyncForks
<1>4. CASE StartEnables(v, rc)
  <2>1. PICK bounce \in SUBSET {v} :
          /\ v \in Readable(config)
          /\ SyncStates(SetActive(v, TRUE), Enabled(SetActive(v, TRUE)), bounce, rc)
          /\ config' = SetActive(v, TRUE)
    BY <1>4 DEF StartEnables
  <2>2. v \in Enabled(config')
    BY <1>1, <2>1 DEF Readable, Enabled, SetActive, Stored
  <2>3. bounce \in SUBSET Enabled(config')
    BY <2>1, <2>2
  <2>4. QED
    BY <1>1, <2>1, <2>3, SyncForks
<1>5. CASE StartStoreFails(v, rc)
  <2>1. \A w \in Enabled(config) : config'[w] = config[w]
    BY <1>1, <1>5 DEF StartStoreFails, StoreFails, Enabled, Readable
  <2>2. CASE UNCHANGED proc
    BY <2>2, NoForks
  <2>3. CASE SyncStates(config, Enabled(config), {}, "ok")
    <3>1. ForksFrom(config)
      BY <1>1, <2>3, SyncForks
    <3>2. QED
      BY <1>1, <2>1, <3>1, SameEnabled
  <2>4. QED
    BY <1>5, <2>2, <2>3 DEF StartStoreFails
<1>6. QED
  BY <1>2, <1>3, <1>4, <1>5 DEF Start

LEMMA StopVmForks ==
    ASSUME IInv, NEW v \in VM, NEW cfg, NEW rc, StopVm(v, cfg, rc)
    PROVE  cfg \in [VM -> Config] /\ ForksFrom(cfg) /\ (UNCHANGED proc \/ v \notin Enabled(cfg))
<1>1. TypeOK /\ cfg \in [VM -> Config] /\ {} \in SUBSET Enabled(cfg)
  BY StopVmKeeps DEF IInv
<1>2. CASE UNCHANGED proc
  BY <1>1, <1>2, NoForks
<1>3. CASE /\ v \in Readable(config)
           /\ cfg = SetActive(v, FALSE)
           /\ SyncStates(cfg, Enabled(cfg), {}, rc)
  <2>1. v \notin Enabled(cfg)
    BY <1>1, <1>3 DEF Enabled, Readable, SetActive, Stored, TypeOK
  <2>2. QED
    BY <1>1, <1>3, <2>1, SyncForks
<1>4. QED
  BY <1>2, <1>3 DEF StopVm

LEMMA DeleteForks ==
    ASSUME IInv, IInv', NEW v \in VM, NEW rc, Delete(v, rc)
    PROVE  ForksFrom(config')
<1>1. TypeOK /\ config \in [VM -> Config] /\ config' \in [VM -> Config]
  BY DEF IInv, TypeOK
<1>2. CASE UNCHANGED vars
  BY <1>2, NoForks DEF vars
<1>3. CASE \E cfg \in AfterStop(v), stopped \in Rc :
              /\ StopVm(v, cfg, stopped)
              /\ config' = IF stopped = "raise" THEN cfg
                           ELSE [config EXCEPT ![v] = NoDir]
  <2>1. PICK cfg \in AfterStop(v), stopped \in Rc :
              /\ StopVm(v, cfg, stopped)
              /\ config' = IF stopped = "raise" THEN cfg
                           ELSE [config EXCEPT ![v] = NoDir]
    BY <1>3
  <2>2. /\ cfg \in [VM -> Config]
        /\ ForksFrom(cfg)
        /\ UNCHANGED proc \/ v \notin Enabled(cfg)
    BY <2>1, StopVmForks
  <2>3. CASE UNCHANGED proc
    BY <2>3, NoForks
  <2>4. CASE v \notin Enabled(cfg)
    <3>1. \A w \in VM : w # v => config'[w] = cfg[w]
      BY <1>1, <2>1 DEF AfterStop, SetActive
    <3>2. \A w \in Enabled(cfg) : config'[w] = cfg[w]
      BY <2>4, <3>1 DEF Enabled, Readable
    <3>3. QED
      BY <1>1, <2>2, <3>2, SameEnabled
  <2>5. QED
    BY <2>2, <2>3, <2>4
<1>4. CASE DeleteFails(v, rc) /\ v \in Readable(config)
  <2> DEFINE cfg == SetActive(v, FALSE)
  <2>1. /\ Pass(cfg, Enabled(cfg), {}, TRUE)
        /\ config' \in {cfg, [cfg EXCEPT ![v] = NoFile]}
    BY <1>4 DEF DeleteFails
  <2>2. cfg \in [VM -> Config] /\ TRUE \in BOOLEAN
    BY <1>1, <1>4, ActiveConfig
  <2>3. v \notin Enabled(cfg)
    BY <1>1 DEF Enabled, Readable, SetActive, Stored
  <2> HIDE DEF cfg
  <2>4. ForksFrom(cfg)
    BY <1>1, <2>1, <2>2, PassForks
  <2>5. \A w \in Enabled(cfg) : config'[w] = cfg[w]
    BY <2>1, <2>2, <2>3 DEF Enabled, Readable
  <2>6. QED
    BY <1>1, <2>2, <2>4, <2>5, SameEnabled
<1>5. CASE DeleteFails(v, rc) /\ v \notin Readable(config)
  <2>1. /\ Exit
        /\ config' \in {config, [config EXCEPT ![v] = NoFile]}
    BY <1>5 DEF DeleteFails
  <2>2. \A w \in Enabled(config) : config'[w] = config[w]
    BY <1>1, <1>5, <2>1 DEF Enabled, Readable
  <2>3. QED
    BY <1>1, <2>1, <2>2, ExitForks, SameEnabled
<1>6. QED
  BY <1>2, <1>3, <1>4, <1>5 DEF Delete

(* A child by itself does not come to life.                                   *)
LEMMA ChildrenForkNothing ==
    ASSUME TypeOK, Children, NEW cfg
    PROVE  ForksFrom(cfg)
<1>1. PICK p \in Pid : ChildBind(p) \/ ChildTerm(p) \/ ChildDies(p)
  BY DEF Children
<1>2. Alive(p)
  BY <1>1 DEF ChildBind, ChildTerm, ChildDies, Alive
<1>3. \A q \in Pid \ {p} : proc'[q] = proc[q]
  BY <1>1 DEF ChildBind, ChildTerm, ChildDies, TypeOK
<1>4. QED
  BY <1>2, <1>3 DEF ForksFrom, Alive

LEMMA StepForks ==
    ASSUME IInv, IInv', [Next]_vars
    PROVE  ForksFrom(config')
<1>1. /\ TypeOK
      /\ config \in [VM -> Config]
      /\ {} \in SUBSET Enabled(config)
  BY DEF IInv, TypeOK
<1>2. ASSUME NEW v \in VM, NEW p \in Port, NEW rc \in Rc, Add(v, p, rc)
      PROVE  ForksFrom(config')
  BY <1>2, NoForks DEF Add
<1>3. ASSUME NEW v \in VM, NEW rc \in Rc, Start(v, rc)
      PROVE  ForksFrom(config')
  BY <1>3, StartForks
<1>4. ASSUME NEW v \in VM, NEW rc \in Rc, Stop(v, rc)
      PROVE  ForksFrom(config')
  BY <1>4, StopVmForks DEF Stop
<1>5. ASSUME NEW v \in VM, NEW rc \in Rc, Delete(v, rc)
      PROVE  ForksFrom(config')
  BY <1>5, DeleteForks
<1>6. ASSUME NEW rc \in Rc, Answer(rc)
      PROVE  ForksFrom(config')
  BY <1>1, <1>6, ExitForks, NoForks DEF Answer
<1>7. ASSUME NEW rc \in Rc, Periodic(rc)
      PROVE  ForksFrom(config')
  BY <1>1, <1>7, SyncForks DEF Periodic
<1>8. ASSUME NEW rc \in Rc, DaemonStart(rc)
      PROVE  ForksFrom(config')
  <2>1. /\ config' = config
        /\ \E exits \in BOOLEAN : Pass(config, Enabled(config), {}, exits)
    BY <1>8 DEF DaemonStart, Broken
  <2>2. QED
    BY <1>1, <2>1, PassForks
<1>9. CASE Shutdown
  BY <1>1, <1>9, ExitForks DEF Shutdown
<1>10. CASE DaemonExit
  BY <1>10, NoForks DEF DaemonExit
<1>11. CASE Kill
  <2>1. \A p \in Pid : ~Alive(p) => proc'[p] = proc[p]
    BY <1>11 DEF Kill
  <2>2. QED
    BY <2>1 DEF ForksFrom, Alive
<1>12. CASE BootCut
  <2>1. config' = config
    BY <1>12 DEF BootCut
  <2>2. QED
    BY <1>1, <1>12, <2>1, BootCutProcs DEF ForksFrom, IInv, Tracking
<1>13. CASE Children
  BY <1>1, <1>13, ChildrenForkNothing
<1>14. ASSUME NEW v \in VM, Edit(v)
       PROVE  ForksFrom(config')
  BY <1>14, NoForks DEF Edit
<1>15. CASE UNCHANGED vars
  BY <1>15, NoForks DEF vars
<1>16. QED
  BY <1>2, <1>3, <1>4, <1>5, <1>6, <1>7, <1>8, <1>9, <1>10, <1>11, <1>12, <1>13, <1>14,
     <1>15
     DEF Next, Command, Show, List

(* A child is forked only for a name that is enabled in the configuration the *)
(* step leaves behind, and with the port stored there.                        *)
THEOREM ForksAreEnabled == Spec => OnlyEnabledFork
<1>1. IInv /\ IInv' /\ [Next]_vars =>
        [\A p \in Pid : ~Alive(p) /\ Alive(p)' =>
            LET v == proc'[p].vm
            IN v \in Enabled(config') /\ proc'[p].port = config'[v].port]_vars
  BY StepForks DEF ForksFrom
<1>2. QED
  BY <1>1, Invariance, PTL DEF OnlyEnabledFork, Spec

-----------------------------------------------------------------------------
(* As long as the files are changed by commands only, and every store is     *)
(* completed, what is in _running_vms is what is enabled.                    *)
HandlesOn == \A v \in VM : running[v] # None => v \in Enabled(config)

(* A pass drops every name that it finds readable and not enabled.           *)
LEMMA PassHandles ==
    ASSUME TypeOK, NEW cfg \in [VM -> Config], NEW bounce \in SUBSET Enabled(cfg),
           NEW rc, SyncStates(cfg, Enabled(cfg), bounce, rc), daemon' = "up",
           \A v \in VM : running[v] # None => v \in Readable(cfg)
    PROVE  \A v \in VM : running'[v] # None => v \in Enabled(cfg)
<1>1. ~Broken(cfg) /\ Pass(cfg, Enabled(cfg), bounce, FALSE)
  BY DEF SyncStates, Pass, Change, Broken
<1> DEFINE spawn == ToSpawn(Readable(cfg), Enabled(cfg), bounce)
           stop  == ToStop(Readable(cfg), Enabled(cfg), bounce)
<1>2. PICK fresh \in Spawns(spawn) : Change(cfg, spawn, stop, fresh, FALSE)
  BY <1>1 DEF Pass, Walks
<1>3. /\ spawn \subseteq Enabled(cfg)
      /\ \A v \in Readable(cfg) \ Enabled(cfg) : running[v] # None => v \in stop
  BY DEF ToSpawn, ToStop, Readable, Enabled
<1> HIDE DEF spawn, stop
<1>4. \A v \in VM : running'[v] = IF v \in spawn THEN fresh[v]
                                 ELSE IF v \in stop THEN None ELSE running[v]
  BY <1>2 DEF Change, Tracked
<1>5. QED
  BY <1>3, <1>4

LEMMA StopVmHandles ==
    ASSUME IInv, HandlesOn, "io" \notin FaultKinds, daemon' = "up",
           NEW v \in VM, NEW cfg, NEW rc, StopVm(v, cfg, rc)
    PROVE  /\ v \notin Enabled(cfg)
           /\ \A w \in VM : running'[w] # None => w \in Enabled(cfg)
<1>1. TypeOK /\ config \in [VM -> Config] /\ cfg \in [VM -> Config]
  BY StopVmKeeps DEF IInv, TypeOK
<1>2. CASE v \notin Readable(config) /\ cfg = config /\ running' = running
  BY <1>2 DEF HandlesOn, Enabled
<1>3. CASE StoreFails(v, cfg)
  BY <1>3 DEF StoreFails, Fault
<1>4. CASE /\ v \in Readable(config)
           /\ cfg = SetActive(v, FALSE)
           /\ SyncStates(cfg, Enabled(cfg), {}, rc)
  <2>1. v \notin Enabled(cfg) /\ Readable(config) \subseteq Readable(cfg)
    BY <1>1, <1>4 DEF Enabled, Readable, SetActive, Stored
  <2>2. \A w \in VM : running[w] # None => w \in Readable(cfg)
    BY <2>1 DEF HandlesOn, Enabled
  <2>3. QED
    BY <1>1, <1>4, <2>1, <2>2, PassHandles
<1>5. QED
  BY <1>2, <1>3, <1>4 DEF StopVm

LEMMA StartHandles ==
    ASSUME IInv, IInv', HandlesOn, "io" \notin FaultKinds, daemon' = "up",
           NEW v \in VM, NEW rc, Start(v, rc)
    PROVE  HandlesOn'
<1>1. TypeOK /\ config \in [VM -> Config] /\ config' \in [VM -> Config]
      /\ \A w \in VM : running[w] # None => w \in Readable(config)
  BY DEF IInv, TypeOK, HandlesOn, Enabled
<1>2. CASE UNCHANGED vars
  BY <1>2 DEF vars, HandlesOn
<1>3. CASE StartIgnored(v, rc)
  <2>1. SyncStates(config, Enabled(config), {}, rc) /\ config' = config
    BY <1>3 DEF StartIgnored
  <2>2. QED
    BY <1>1, <2>1, PassHandles DEF HandlesOn
<1>4. CASE StartEnables(v, rc)
  <2>1. PICK bounce \in SUBSET {v} :
          /\ v \in Readable(config)
          /\ SyncStates(SetActive(v, TRUE), Enabled(SetActive(v, TRUE)), bounce, rc)
          /\ config' = SetActive(v, TRUE)
    BY <1>4 DEF StartEnables
  <2>2. v \in Enabled(config') /\ Readable(config) \subseteq Readable(config')
    BY <1>1, <2>1 DEF Readable, Enabled, SetActive, Stored
  <2>3. bounce \in SUBSET Enabled(config')
    BY <2>1, <2>2
  <2>4. QED
    BY <1>1, <2>1, <2>2, <2>3, PassHandles DEF HandlesOn
<1>5. CASE StartStoreFails(v, rc)
  BY <1>5 DEF StartStoreFails, StoreFails, Fault
<1>6. QED
  BY <1>2, <1>3, <1>4, <1>5 DEF Start

LEMMA DeleteHandles ==
    ASSUME IInv, HandlesOn, "io" \notin FaultKinds, daemon' = "up",
           NEW v \in VM, NEW rc, Delete(v, rc)
    PROVE  HandlesOn'
<1>1. config \in [VM -> Config]
  BY DEF IInv, TypeOK
<1>2. CASE UNCHANGED vars
  BY <1>2 DEF vars, HandlesOn
<1>3. ASSUME NEW cfg \in AfterStop(v), NEW stopped \in Rc, StopVm(v, cfg, stopped),
             config' = IF stopped = "raise" THEN cfg ELSE [config EXCEPT ![v] = NoDir]
      PROVE  HandlesOn'
  <2>1. /\ v \notin Enabled(cfg)
        /\ \A w \in VM : running'[w] # None => w \in Enabled(cfg)
    BY <1>3, StopVmHandles
  <2>2. \A w \in VM \ {v} : config'[w] = cfg[w]
    BY <1>1, <1>3 DEF AfterStop, SetActive
  <2>3. \A w \in Enabled(cfg) : w \in Enabled(config')
    BY <2>1, <2>2 DEF Enabled, Readable
  <2>4. QED
    BY <2>1, <2>3 DEF HandlesOn
<1>4. ~DeleteFails(v, rc)
  BY DEF DeleteFails, Fault
<1>5. QED
  BY <1>2, <1>3, <1>4 DEF Delete

LEMMA StepHandles ==
    ASSUME "io" \notin FaultKinds, "edit" \notin FaultKinds
    PROVE  IInv /\ IInv' /\ HandlesOn /\ [Next]_vars => HandlesOn'
<1> SUFFICES ASSUME IInv, IInv', HandlesOn, [Next]_vars
             PROVE  HandlesOn'
  OBVIOUS
<1>1. CASE daemon' # "up"
  BY <1>1 DEF IInv, Tracking, EmptyUnlessUp, NoneRunning, HandlesOn
<1>2. CASE UNCHANGED <<running, config>>
  BY <1>2 DEF HandlesOn
<1>3. CASE daemon' = "up"
  <2>1. TypeOK /\ config \in [VM -> Config] /\ {} \in SUBSET Enabled(config)
        /\ \A w \in VM : running[w] # None => w \in Readable(config)
    BY DEF IInv, TypeOK, HandlesOn, Enabled
  <2>2. ASSUME NEW v \in VM, NEW p \in Port, NEW rc \in Rc, Add(v, p, rc)
        PROVE  HandlesOn'
    <3>1. \A w \in Enabled(config) : config'[w] = config[w]
      BY <2>1, <2>2 DEF Add, Enabled, Readable
    <3>2. QED
      BY <2>2, <3>1 DEF Add, HandlesOn, Enabled, Readable
  <2>3. ASSUME NEW v \in VM, NEW rc \in Rc, Start(v, rc)
        PROVE  HandlesOn'
    BY <1>3, <2>3, StartHandles
  <2>4. ASSUME NEW v \in VM, NEW rc \in Rc, Stop(v, rc)
        PROVE  HandlesOn'
    BY <1>3, <2>4, StopVmHandles DEF Stop, HandlesOn
  <2>5. ASSUME NEW v \in VM, NEW rc \in Rc, Delete(v, rc)
        PROVE  HandlesOn'
    BY <1>3, <2>5, DeleteHandles
  <2>6. ASSUME NEW rc \in Rc, Answer(rc)
        PROVE  HandlesOn'
    BY <1>2, <1>3, <2>6 DEF Answer, Exit, Change
  <2>7. ASSUME NEW rc \in Rc, Periodic(rc)
        PROVE  HandlesOn'
    BY <1>3, <2>1, <2>7, PassHandles DEF Periodic, HandlesOn
  <2>8. ASSUME NEW rc \in Rc, DaemonStart(rc)
        PROVE  HandlesOn'
    <3>1. config' = config
      BY <2>8 DEF DaemonStart
    <3>2. ~Broken(config) /\ Pass(config, Enabled(config), {}, FALSE)
      BY <1>3, <2>8 DEF DaemonStart, Pass, Change, Broken
    <3>3. SyncStates(config, Enabled(config), {}, "ok")
      BY <3>2 DEF SyncStates, Broken
    <3>4. QED
      BY <1>3, <2>1, <3>1, <3>3, PassHandles DEF HandlesOn
  <2>9. ~Shutdown /\ ~DaemonExit /\ ~Kill /\ ~BootCut
    BY <1>3 DEF Shutdown, Exit, Change, DaemonExit, Kill, BootCut
  <2>10. CASE Children
    BY <1>2, <2>10 DEF Children, ChildBind, ChildTerm, ChildDies
  <2>11. ~\E v \in VM : Edit(v)
    BY DEF Edit, Fault
  <2>12. CASE UNCHANGED vars
    BY <1>2, <2>12 DEF vars
  <2>13. QED
    BY <2>2, <2>3, <2>4, <2>5, <2>6, <2>7, <2>8, <2>9, <2>10, <2>11, <2>12
       DEF Next, Command, Show, List
<1>4. QED
  BY <1>1, <1>3

LEMMA AlwaysHandlesOn ==
    ASSUME "io" \notin FaultKinds, "edit" \notin FaultKinds
    PROVE  Spec => []HandlesOn
<1>1. Init => HandlesOn
  BY DEF Init, HandlesOn, NoneRunning
<1>2. QED
  BY <1>1, StepHandles, Invariance, PTL DEF Spec

(* A delete that returned 0 left no child of this daemon at work for the      *)
(* name, as long as every store is completed and no other tool changes the   *)
(* files: delete looks at nothing but its own file, and a child whose file is *)
(* gone or cannot be read is one that it does not stop.                       *)
THEOREM DeletesSilence ==
    ASSUME "io" \notin FaultKinds, "edit" \notin FaultKinds
    PROVE  Spec => DeleteSilences
<1>1. ASSUME IInv, IInv', HandlesOn', NEW v \in VM, Delete(v, "ok")
      PROVE  \A p \in Pid : Working(p)' => proc'[p].vm # v
  <2>1. config' = [config EXCEPT ![v] = NoDir]
    BY <1>1 DEF Delete, DeleteFails
  <2>2. v \notin Enabled(config')
    BY <1>1, <2>1 DEF IInv, TypeOK, Enabled, Readable, NoDir
  <2>3. running'[v] = None
    BY <1>1, <2>2 DEF HandlesOn
  <2>4. QED
    BY <1>1, <2>3, ManagerAssumption DEF IInv, Tracking, NothingEscapes
<1>2. IInv /\ IInv' /\ HandlesOn' =>
         [\A v \in VM : Delete(v, "ok") =>
            \A p \in Pid : Working(p)' => proc'[p].vm # v]_vars
  BY <1>1
<1>3. QED
  BY <1>2, Invariance, AlwaysHandlesOn, PTL DEF DeleteSilences

=============================================================================
