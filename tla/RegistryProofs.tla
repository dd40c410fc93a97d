--------------------------- MODULE RegistryProofs ---------------------------
(***************************************************************************)
(* The manager implements the Registry, for any names, ports and handles   *)
(* and any combination of faults: each of its steps is a step of the       *)
(* registry or changes nothing the registry sees.                          *)
(***************************************************************************)
EXTENDS VbmcManagerProofs

(* What is on for the registry is what the manager finds enabled.            *)
LEMMA EntryValues == ASSUME NEW c PROVE EntryOf(c) \in R!Entry
BY DEF EntryOf, R!Entry

LEMMA EntryIsOn == ASSUME NEW c PROVE EntryOf(c) = "on" <=> c.file = "ok" /\ c.active
BY DEF EntryOf

LEMMA OnIsEnabled == R!On = Enabled(config) /\ (R!On)' = Enabled(config')
<1>1. R!On = Enabled(config)
  <2>1. \A v \in VM : Registered[v] = EntryOf(config[v])
    BY DEF Registered
  <2>2. QED
    BY <2>1, EntryIsOn DEF R!On, Enabled, Readable
<1>2. (R!On)' = Enabled(config')
  <2>1. \A v \in VM : Registered'[v] = EntryOf(config'[v])
    BY DEF Registered
  <2>2. QED
    BY <2>1, EntryIsOn DEF R!On, Enabled, Readable
<1>3. QED
  BY <1>1, <1>2

(* A step that changes what is stored for one name changes one entry.        *)
LEMMA OneConfig ==
    ASSUME NEW v \in VM, \A w \in VM \ {v} : config'[w] = config[w]
    PROVE  R!OneEntry
<1> DEFINE e == EntryOf(config'[v])
<1>1. e \in R!Entry
  BY EntryValues
<1>2. \A w \in VM : Registered'[w] = IF w = v THEN e ELSE Registered[w]
  BY DEF Registered
<1>3. Registered = [w \in VM |-> Registered[w]] /\ Registered' = [w \in VM |-> Registered'[w]]
  BY DEF Registered
<1> HIDE DEF e
<1>4. Registered' = [Registered EXCEPT ![v] = e]
  BY <1>2, <1>3
<1>5. QED
  BY <1>1, <1>4 DEF R!OneEntry

LEMMA SameConfig == ASSUME UNCHANGED config PROVE R!OneEntry /\ UNCHANGED Registered
BY DEF Registered, R!OneEntry

(* The names with a child at work are those with a live handle, and there is *)
(* none unless the daemon is up.                                             *)
LEMMA AtWorkIsLive ==
    ASSUME TypeOK, Tracking
    PROVE  /\ AtWork = {v \in VM : HasLive(v)}
           /\ daemon # "up" => AtWork = {}
<1>1. ASSUME NEW v \in VM, HasLive(v)
      PROVE  v \in AtWork
  BY <1>1 DEF TypeOK, Tracking, HandlesAreTrue, HasLive, AtWork
<1>2. ASSUME NEW v \in VM, NEW p \in Pid, Working(p), proc[p].vm = v
      PROVE  HasLive(v) /\ daemon = "up"
  <2>1. running[v] = p /\ p # None
    BY <1>2, ManagerAssumption DEF Tracking, NothingEscapes
  <2>2. daemon = "up"
    BY <2>1 DEF Tracking, EmptyUnlessUp, NoneRunning
  <2>3. QED
    BY <1>2, <2>1, <2>2 DEF HasLive, Working
<1>3. QED
  BY <1>1, <1>2 DEF AtWork

LEMMA LiveNow ==
    IInv => AtWork = {v \in VM : HasLive(v)} /\ (daemon # "up" => AtWork = {})
BY AtWorkIsLive DEF IInv

LEMMA LiveNext ==
    IInv' => (AtWork = {v \in VM : HasLive(v)} /\ (daemon # "up" => AtWork = {}))'
BY LiveNow, PTL

LEMMA AtWorkNext ==
    ASSUME IInv, IInv'
    PROVE  /\ AtWork = {v \in VM : HasLive(v)}
           /\ AtWork' = {v \in VM : HasLive(v)'}
           /\ daemon # "up" => AtWork = {}
           /\ daemon' # "up" => AtWork' = {}
BY LiveNow, LiveNext

(* The names with a child that was told to stop, whatever the daemon does.   *)
Leavers ==
    {v \in VM : \E p \in Pid : Alive(p) /\ proc[p].owned /\ ~Working(p) /\ proc[p].vm = v}

LEMMA WithdrawnAreLeavers ==
    /\ daemon = "up" => Withdrawn = Leavers
    /\ daemon' = "up" => Withdrawn' = Leavers'
    /\ daemon # "up" => Withdrawn = {}
    /\ daemon' # "up" => Withdrawn' = {}
BY DEF Withdrawn, Leavers

-----------------------------------------------------------------------------
(* Who has a live child after a change that the daemon survives.             *)
LEMMA ChangeLive ==
    ASSUME TypeOK,
           NEW cfg \in [VM -> Config], NEW spawn \in SUBSET VM, NEW stop \in SUBSET VM,
           NEW fresh \in Spawns(spawn), NEW exits \in BOOLEAN, ~exits,
           \A v \in spawn : cfg[v].port \in Port,
           Change(cfg, spawn, stop, fresh, exits),
           NEW v \in VM
    PROVE  HasLive(v)' <=> v \in spawn \/ (v \notin stop /\ HasLive(v))
<1>1. running[v] \in Pid \cup {None}
  BY DEF TypeOK
<1>2. running'[v] = IF v \in spawn THEN fresh[v]
                    ELSE IF v \in stop THEN None ELSE running[v]
  BY DEF Change, Tracked
<1>3. CASE v \in spawn
  <2>1. fresh[v] \in Pid /\ fresh[v] # None
    BY <1>3, FreshHandle
  <2>2. proc'[fresh[v]].st # "dead"
    BY <1>3, ChangeFresh
  <2>3. QED
    BY <1>2, <1>3, <2>1, <2>2 DEF HasLive, Alive
<1>4. CASE v \notin spawn /\ v \in stop
  BY <1>2, <1>4 DEF HasLive
<1>5. CASE v \notin spawn /\ v \notin stop /\ running[v] = None
  BY <1>2, <1>5 DEF HasLive
<1>6. CASE v \notin spawn /\ v \notin stop /\ running[v] # None
  <2>1. running[v] \in Pid /\ \A w \in spawn : fresh[w] # running[v]
    BY <1>1, <1>6, FreshHandle
  <2>2. Alive(running[v])' <=> Alive(running[v])
    BY <1>2, <1>6, <2>1, ChangeOther
  <2>3. QED
    BY <1>2, <1>6, <2>2 DEF HasLive, Alive
<1>7. QED
  BY <1>3, <1>4, <1>5, <1>6

(* A change tells only children of the names it stops.                       *)
LEMMA ChangeLeavers ==
    ASSUME TypeOK, Tracking,
           NEW cfg \in [VM -> Config], NEW spawn \in SUBSET VM, NEW stop \in SUBSET VM,
           NEW fresh \in Spawns(spawn), NEW exits \in BOOLEAN, ~exits,
           \A v \in spawn : cfg[v].port \in Port,
           Change(cfg, spawn, stop, fresh, exits)
    PROVE  Leavers' \subseteq Leavers \cup {v \in stop : running[v] # None}
<1> SUFFICES ASSUME NEW v \in VM, v \in Leavers', v \notin Leavers
             PROVE  v \in stop /\ running[v] # None
  BY DEF Leavers
<1>1. PICK p \in Pid : Alive(p)' /\ proc'[p].owned /\ ~Working(p)' /\ proc'[p].vm = v
  BY DEF Leavers
<1>2. \A w \in spawn : fresh[w] # p
  <2> SUFFICES ASSUME NEW w \in spawn, fresh[w] = p
               PROVE  FALSE
    OBVIOUS
  <2>1. /\ proc'[fresh[w]].st # "dead"
        /\ proc'[fresh[w]].owned
        /\ proc'[fresh[w]].term <=> exits
    BY ChangeFresh
  <2>2. QED
    BY <1>1, <2>1 DEF Working, Alive
<1>3. /\ Alive(p)' <=> Alive(p)
      /\ proc'[p].vm = proc[p].vm
      /\ proc'[p].owned = proc[p].owned
      /\ Working(p)' <=> /\ Working(p)
                         /\ ~exits
                         /\ \A w \in stop : running[w] # p
  BY <1>2, ChangeOther
<1>4. Working(p)
  BY <1>1, <1>3 DEF Leavers
<1>5. PICK w \in stop : running[w] = p
  BY <1>1, <1>3, <1>4
<1>6. p # None
  BY ManagerAssumption
<1>7. proc[p].vm = w
  BY <1>1, <1>3, <1>5, <1>6 DEF Tracking, HandlesAreTrue, HasLive
<1>8. QED
  BY <1>1, <1>3, <1>5, <1>6, <1>7

(* A pass gives a child only to names that are wanted, takes none from them  *)
(* unless they are to be started anew, and, from nothing, gives one to all   *)
(* of them.                                                                  *)
LEMMA PassWork ==
    ASSUME IInv, IInv', NEW cfg \in [VM -> Config], NEW bounce \in SUBSET Enabled(cfg),
           NEW exits \in BOOLEAN, ~exits, Pass(cfg, Enabled(cfg), bounce, exits)
    PROVE  /\ AtWork' \subseteq AtWork \cup Enabled(cfg)
           /\ AtWork \cap Enabled(cfg) \subseteq AtWork'
           /\ ~Broken(cfg) /\ running = NoneRunning => AtWork' = Enabled(cfg)
           /\ Leavers' \subseteq Leavers \cup (VM \ Enabled(cfg)) \cup bounce
           /\ running = NoneRunning => Leavers' \subseteq Leavers
<1>1. PICK walked \in Walks(cfg) :
          LET spawn == ToSpawn(walked, Enabled(cfg), bounce)
              stop  == ToStop(walked, Enabled(cfg), bounce)
          IN \E fresh \in Spawns(spawn) : Change(cfg, spawn, stop, fresh, exits)
  BY DEF Pass
<1> DEFINE on == Enabled(cfg)
           spawn == ToSpawn(walked, on, bounce)
           stop  == ToStop(walked, on, bounce)
<1>2. PICK fresh \in Spawns(spawn) : Change(cfg, spawn, stop, fresh, exits)
  BY <1>1
<1>3. /\ on \in SUBSET Readable(cfg)
      /\ Readable(cfg) \in SUBSET VM
      /\ walked \in SUBSET Readable(cfg)
      /\ ~Broken(cfg) => walked = Readable(cfg)
  BY DEF Readable, Enabled, Walks
<1>4. /\ spawn \in SUBSET VM /\ stop \in SUBSET VM /\ spawn \in SUBSET on
      /\ \A v \in VM :
            /\ v \in spawn <=> (v \in walked \cap on /\ ~HasLive(v)) \/ v \in bounce
            /\ v \in stop <=> running[v] # None /\ (v \in walked \ on \/ v \in bounce)
  BY <1>3 DEF ToSpawn, ToStop
<1> HIDE DEF spawn, stop
<1>5. \A v \in spawn : cfg[v].port \in Port
  BY <1>3, <1>4, ReadableConfig
<1>6. \A v \in VM : HasLive(v)' <=> v \in spawn \/ (v \notin stop /\ HasLive(v))
  BY <1>2, <1>4, <1>5, ChangeLive DEF IInv
<1>7. /\ AtWork = {v \in VM : HasLive(v)}
      /\ AtWork' = {v \in VM : HasLive(v)'}
  BY AtWorkNext
<1>8. AtWork' \subseteq AtWork \cup on
  BY <1>4, <1>6, <1>7
<1>9. AtWork \cap on \subseteq AtWork'
  BY <1>4, <1>6, <1>7
<1>10. ASSUME ~Broken(cfg), running = NoneRunning
       PROVE  AtWork' = on
  <2>1. \A v \in VM : ~HasLive(v)
    BY <1>10 DEF NoneRunning, HasLive
  <2>2. walked = Readable(cfg)
    BY <1>3, <1>10
  <2>3. QED
    BY <1>3, <1>4, <1>6, <1>7, <2>1, <2>2
<1>11. Leavers' \subseteq Leavers \cup {v \in stop : running[v] # None}
  BY <1>2, <1>4, <1>5, ChangeLeavers DEF IInv
<1>12. Leavers' \subseteq Leavers \cup (VM \ on) \cup bounce
  BY <1>4, <1>11
<1>13. running = NoneRunning => Leavers' \subseteq Leavers
  BY <1>4, <1>11 DEF NoneRunning
<1>14. QED
  BY <1>8, <1>9, <1>10, <1>12, <1>13

-----------------------------------------------------------------------------
(* The three kinds of step a daemon that is up can make.  One that makes a   *)
(* pass, and survives it or not,                                             *)
LEMMA PassIsStep ==
    ASSUME IInv, IInv', daemon = "up",
           NEW cfg \in [VM -> Config], Enabled(cfg) = Enabled(config'),
           NEW bounce \in SUBSET Enabled(cfg), bounce \cap Enabled(config) = {},
           NEW exits \in BOOLEAN, Pass(cfg, Enabled(cfg), bounce, exits),
           R!OneEntry
    PROVE  R!Next
<1>1. daemon' = IF exits THEN "exiting" ELSE "up"
  BY DEF Pass, Change
<1>2. CASE exits
  <2>1. AtWork' = {}
    BY <1>1, <1>2, AtWorkNext
  <2>2. QED
    BY <1>1, <1>2, <2>1, WithdrawnAreLeavers DEF R!Next, R!Leave, Mode
<1>3. CASE ~exits
  <2>1. /\ AtWork' \subseteq AtWork \cup (R!On)'
        /\ AtWork \cap (R!On)' \subseteq AtWork'
    BY <1>3, PassWork, OnIsEnabled
  <2>2. AtWork' \subseteq VM
    BY DEF AtWork
  <2>3. Leavers' \subseteq Leavers \cup (VM \ Enabled(cfg)) \cup bounce
    BY <1>3, PassWork
  <2>4. Withdrawn = Leavers /\ Withdrawn' = Leavers'
    BY <1>1, <1>3, WithdrawnAreLeavers
  <2>5. Leavers \subseteq VM /\ bounce \subseteq VM
    BY DEF Leavers, Enabled, Readable
  <2>6. Withdrawn' \subseteq Withdrawn \cup (VM \ (R!On \cap (R!On)'))
    BY <2>3, <2>4, <2>5, OnIsEnabled
  <2>7. QED
    BY <1>1, <1>3, <2>1, <2>2, <2>6 DEF R!Next, R!Act, Mode
<1>4. QED
  BY <1>2, <1>3

LEMMA SyncIsStep ==
    ASSUME IInv, IInv', daemon = "up",
           NEW cfg \in [VM -> Config], Enabled(cfg) = Enabled(config'),
           NEW bounce \in SUBSET Enabled(cfg), bounce \cap Enabled(config) = {}, NEW rc,
           SyncStates(cfg, Enabled(cfg), bounce, rc),
           R!OneEntry
    PROVE  R!Next
BY PassIsStep DEF SyncStates, Broken

(* one that leaves,                                                          *)
LEMMA ExitIsStep ==
    ASSUME IInv, IInv', daemon = "up", Exit, R!OneEntry
    PROVE  R!Next
<1>1. daemon' = "exiting"
  BY DEF Exit, Change
<1>2. AtWork' = {} /\ Withdrawn' = {}
  BY <1>1, AtWorkNext, WithdrawnAreLeavers
<1>3. QED
  BY <1>1, <1>2 DEF R!Next, R!Leave, Mode

(* and one that leaves the children alone.                                   *)
LEMMA QuietIsStep ==
    ASSUME UNCHANGED <<running, proc, daemon>>, R!OneEntry
    PROVE  R!Next
<1>1. UNCHANGED <<AtWork, Withdrawn, Mode>>
  BY DEF AtWork, Withdrawn, Working, Alive, Mode
<1>2. QED
  BY <1>1 DEF R!Next, R!Edit

-----------------------------------------------------------------------------
(* The commands.                                                             *)
LEMMA AddIsStep ==
    ASSUME IInv, NEW v \in VM, NEW p \in Port, NEW rc, Add(v, p, rc)
    PROVE  R!Next
<1>1. \A w \in VM \ {v} : config'[w] = config[w]
  BY DEF Add, IInv, TypeOK
<1>2. QED
  BY <1>1, OneConfig, QuietIsStep DEF Add

LEMMA StartIsStep ==
    ASSUME IInv, IInv', NEW v \in VM, NEW rc, Start(v, rc)
    PROVE  R!Next
<1>1. /\ daemon = "up"
      /\ config \in [VM -> Config] /\ config' \in [VM -> Config]
      /\ {} \in SUBSET Enabled(config)
  BY DEF IInv, TypeOK, Start
<1>2. CASE UNCHANGED vars
  BY <1>2, SameConfig, QuietIsStep DEF vars
<1>3. CASE StartIgnored(v, rc)
  <2>1. SyncStates(config, Enabled(config), {}, rc) /\ config' = config
    BY <1>3 DEF StartIgnored
  <2>2. QED
    BY <1>1, <2>1, SameConfig, SyncIsStep
<1>4. CASE StartEnables(v, rc)
  <2>1. PICK bounce \in SUBSET {v} :
          /\ SyncStates(SetActive(v, TRUE), Enabled(SetActive(v, TRUE)), bounce, rc)
          /\ config' = SetActive(v, TRUE)
          /\ v \in Readable(config)
          /\ bounce \cap Enabled(config) = {}
    <3> DEFINE bounce == IF running[v] # None THEN {v} ELSE {}
    <3>1. bounce \in SUBSET {v}
      OBVIOUS
    <3>2. bounce \cap Enabled(config) = {}
      BY <1>4 DEF StartEnables
    <3>3. /\ SyncStates(SetActive(v, TRUE), Enabled(SetActive(v, TRUE)), bounce, rc)
          /\ config' = SetActive(v, TRUE)
          /\ v \in Readable(config)
      BY <1>4 DEF StartEnables
    <3> HIDE DEF bounce
    <3>4. QED
      BY <3>1, <3>2, <3>3
  <2>2. v \in Enabled(config')
    BY <1>1, <2>1 DEF Readable, Enabled, SetActive, Stored
  <2>3. bounce \in SUBSET Enabled(config')
    BY <2>1, <2>2
  <2>4. \A w \in VM \ {v} : config'[w] = config[w]
    BY <1>1, <2>1 DEF SetActive
  <2>5. R!OneEntry
    BY <2>4, OneConfig
  <2>6. QED
    BY <1>1, <2>1, <2>3, <2>5, SyncIsStep
<1>5. CASE StartStoreFails(v, rc)
  <2>1. \A w \in VM \ {v} : config'[w] = config[w]
    BY <1>1, <1>5 DEF StartStoreFails, StoreFails
  <2>2. R!OneEntry
    BY <2>1, OneConfig
  <2>3. CASE UNCHANGED <<running, proc, daemon>>
    BY <2>2, <2>3, QuietIsStep
  <2>4. CASE SyncStates(config, Enabled(config), {}, "ok")
    <3>1. v \notin Enabled(config) /\ v \notin Enabled(config')
      BY <1>1, <1>5 DEF StartStoreFails, StoreFails, Enabled, Readable, Torn
    <3>2. Enabled(config) = Enabled(config')
      BY <2>1, <3>1 DEF Enabled, Readable
    <3>3. QED
      BY <1>1, <2>2, <2>4, <3>2, SyncIsStep
  <2>5. QED
    BY <1>5, <2>3, <2>4 DEF StartStoreFails
<1>6. QED
  BY <1>2, <1>3, <1>4, <1>5 DEF Start

(* stop, alone and as the first half of delete: what it leaves behind for    *)
(* the name may still be removed in the same step.                           *)
LEMMA StopVmIsStep ==
    ASSUME IInv, IInv', daemon = "up",
           NEW v \in VM, NEW cfg \in AfterStop(v), NEW rc, StopVm(v, cfg, rc),
           config' = cfg \/ config' = [config EXCEPT ![v] = NoDir]
    PROVE  R!Next
<1>1. config \in [VM -> Config] /\ config' \in [VM -> Config]
  BY DEF IInv, TypeOK
<1>2. /\ \A w \in VM \ {v} : config'[w] = config[w]
      /\ \A w \in VM \ {v} : cfg[w] = config[w]
  BY <1>1 DEF AfterStop, SetActive
<1>3. R!OneEntry
  BY <1>2, OneConfig
<1>4. CASE UNCHANGED <<running, proc, daemon>>
  BY <1>3, <1>4, QuietIsStep
<1>5. CASE /\ v \in Readable(config)
           /\ cfg = SetActive(v, FALSE)
           /\ SyncStates(cfg, Enabled(cfg), {}, rc)
  <2>1. cfg \in [VM -> Config]
    BY <1>5, ActiveConfig DEF IInv
  <2>2. v \notin Enabled(cfg)
    BY <1>1, <1>5 DEF Enabled, Readable, SetActive, Stored
  <2>3. v \notin Enabled(config')
    BY <1>1, <2>2 DEF Enabled, Readable, NoDir
  <2>4. Enabled(cfg) = Enabled(config')
    BY <1>2, <2>2, <2>3 DEF Enabled, Readable
  <2>5. {} \in SUBSET Enabled(cfg)
    OBVIOUS
  <2>6. QED
    BY <1>3, <1>5, <2>1, <2>4, <2>5, SyncIsStep
<1>6. QED
  BY <1>4, <1>5 DEF StopVm

LEMMA DeleteIsStep ==
    ASSUME IInv, IInv', NEW v \in VM, NEW rc, Delete(v, rc)
    PROVE  R!Next
<1>1. daemon = "up" /\ config \in [VM -> Config]
  BY DEF IInv, TypeOK, Delete
<1>2. CASE UNCHANGED vars
  BY <1>2, SameConfig, QuietIsStep DEF vars
<1>3. CASE \E cfg \in AfterStop(v), stopped \in Rc :
              /\ StopVm(v, cfg, stopped)
              /\ config' = IF stopped = "raise" THEN cfg
                           ELSE [config EXCEPT ![v] = NoDir]
  BY <1>1, <1>3, StopVmIsStep
<1>4. CASE DeleteFails(v, rc) /\ v \in Readable(config)
  <2> DEFINE cfg == SetActive(v, FALSE)
  <2>1. /\ Pass(cfg, Enabled(cfg), {}, TRUE)
        /\ config' \in {cfg, [cfg EXCEPT ![v] = NoFile]}
    BY <1>4 DEF DeleteFails
  <2>2. cfg \in [VM -> Config]
    BY <1>4, ActiveConfig DEF IInv
  <2>3. \A w \in VM \ {v} : cfg[w] = config[w]
    BY <1>1 DEF SetActive
  <2>4. v \notin Enabled(cfg)
    BY <1>1 DEF Enabled, Readable, SetActive, Stored
  <2> HIDE DEF cfg
  <2>5. \A w \in VM \ {v} : config'[w] = config[w]
    BY <2>1, <2>2, <2>3
  <2>6. daemon' = "exiting"
    BY <2>1 DEF Pass, Change
  <2>7. AtWork' = {} /\ Withdrawn' = {}
    BY <2>6, AtWorkNext, WithdrawnAreLeavers
  <2>8. R!OneEntry
    BY <2>5, OneConfig
  <2>9. QED
    BY <1>1, <2>6, <2>7, <2>8 DEF R!Next, R!Leave, Mode
<1>5. CASE DeleteFails(v, rc) /\ v \notin Readable(config)
  <2>1. /\ Exit
        /\ config' \in {config, [config EXCEPT ![v] = NoFile]}
    BY <1>5 DEF DeleteFails
  <2>2. \A w \in VM \ {v} : config'[w] = config[w]
    BY <1>1, <2>1
  <2>3. QED
    BY <1>1, <2>1, <2>2, OneConfig, ExitIsStep
<1>6. QED
  BY <1>2, <1>3, <1>4, <1>5 DEF Delete

LEMMA AnswerIsStep ==
    ASSUME IInv, IInv', daemon = "up", NEW rc, Answer(rc)
    PROVE  R!Next
BY SameConfig, ExitIsStep, QuietIsStep DEF Answer

LEMMA CommandIsStep ==
    ASSUME IInv, IInv', NEW rc, Command(rc)
    PROVE  R!Next
<1>1. ASSUME NEW v \in VM, NEW p \in Port, Add(v, p, rc)
      PROVE  R!Next
  BY <1>1, AddIsStep
<1>2. ASSUME NEW v \in VM, Start(v, rc)
      PROVE  R!Next
  BY <1>2, StartIsStep
<1>3. ASSUME NEW v \in VM, Stop(v, rc)
      PROVE  R!Next
  BY <1>3, StopVmIsStep DEF Stop
<1>4. ASSUME NEW v \in VM, Delete(v, rc)
      PROVE  R!Next
  BY <1>4, DeleteIsStep
<1>5. ASSUME NEW v \in VM, Show(v, rc)
      PROVE  R!Next
  BY <1>5, AnswerIsStep DEF Show
<1>6. CASE List(rc)
  BY <1>6, AnswerIsStep DEF List
<1>7. QED
  BY <1>1, <1>2, <1>3, <1>4, <1>5, <1>6 DEF Command

-----------------------------------------------------------------------------
(* The daemon's own life, its children, and the files.                       *)
LEMMA DaemonStartIsStep ==
    ASSUME IInv, IInv', NEW rc, DaemonStart(rc)
    PROVE  R!Next
<1>1. PICK exits \in BOOLEAN : Pass(config, Enabled(config), {}, exits)
                              /\ (Broken(config) => exits)
  BY DEF DaemonStart, Broken
<1>2. /\ daemon = "down" /\ config' = config
      /\ config \in [VM -> Config] /\ {} \in SUBSET Enabled(config)
      /\ running = NoneRunning
  BY DEF DaemonStart, IInv, TypeOK, Tracking, EmptyUnlessUp
<1>3. daemon' = IF exits THEN "exiting" ELSE "up"
  BY <1>1 DEF Pass, Change
<1>4. UNCHANGED Registered
  BY <1>2, SameConfig
<1>5. CASE exits
  <2>1. AtWork' = {}
    BY <1>3, <1>5, AtWorkNext
  <2>2. QED
    BY <1>2, <1>3, <1>4, <1>5, <2>1, WithdrawnAreLeavers DEF R!Next, R!Rise, Mode
<1>6. CASE ~exits
  <2>1. AtWork' = R!On
    BY <1>1, <1>2, <1>6, PassWork, OnIsEnabled
  <2>2. Leavers' \subseteq Leavers
    BY <1>1, <1>2, <1>6, PassWork
  <2>3. Leavers = {}
    BY <1>2 DEF Leavers, IInv, Tracking, DownOwnsNothing
  <2>4. Withdrawn' = {}
    BY <1>3, <1>6, <2>2, <2>3, WithdrawnAreLeavers
  <2>5. QED
    BY <1>2, <1>3, <1>4, <1>6, <2>1, <2>4 DEF R!Next, R!Rise, Mode
<1>7. QED
  BY <1>5, <1>6

LEMMA DaemonExitIsStep ==
    ASSUME IInv, IInv', DaemonExit
    PROVE  R!Next
<1>1. daemon = "exiting" /\ daemon' = "down" /\ config' = config
  BY DEF DaemonExit
<1>2. AtWork = {} /\ AtWork' = {} /\ Withdrawn = {} /\ Withdrawn' = {}
  BY <1>1, AtWorkNext, WithdrawnAreLeavers
<1>3. UNCHANGED Registered
  BY <1>1, SameConfig
<1>4. QED
  BY <1>1, <1>2, <1>3 DEF R!Next, R!Gone, Mode

LEMMA KillIsStep ==
    ASSUME IInv, IInv', Kill
    PROVE  R!Next
<1>1. daemon # "down" /\ daemon' = "down" /\ config \in [VM -> Config]
  BY DEF Kill, IInv, TypeOK
<1>2. AtWork' = {} /\ Withdrawn' = {}
  BY <1>1, AtWorkNext, WithdrawnAreLeavers
<1>3. config' = config \/ \E v \in VM : \A w \in VM \ {v} : config'[w] = config[w]
  BY <1>1 DEF Kill, CutShort
<1>4. R!OneEntry
  BY <1>3, OneConfig, SameConfig
<1>5. QED
  BY <1>1, <1>2, <1>4 DEF R!Next, R!Crash, Mode

(* What a daemon leaves that was cut short in its first pass is at no work   *)
(* the registry knows of.                                                    *)
LEMMA BootCutIsNoStep ==
    ASSUME IInv, IInv', BootCut
    PROVE  UNCHANGED R!vars
<1>1. daemon = "down" /\ daemon' = "down" /\ config' = config
  BY DEF BootCut
<1>2. AtWork = {} /\ AtWork' = {} /\ Withdrawn = {} /\ Withdrawn' = {}
  BY <1>1, AtWorkNext, WithdrawnAreLeavers
<1>3. UNCHANGED Registered
  BY <1>1, SameConfig
<1>4. QED
  BY <1>1, <1>2, <1>3 DEF R!vars, Mode

(* A child that dies is the one at work for its name, and for no other, or    *)
(* one that was withdrawn.                                                   *)
LEMMA DeathIsStep ==
    ASSUME IInv, IInv', UNCHANGED <<config, running, daemon>>,
           NEW p \in Pid, Alive(p), ~Alive(p)',
           \A q \in Pid \ {p} : proc'[q] = proc[q]
    PROVE  R!Next \/ UNCHANGED R!vars
<1> DEFINE v == proc[p].vm
<1>1. UNCHANGED <<Registered, Mode>>
  BY SameConfig DEF Mode
<1>2. v \in VM
  BY LiveRecord DEF IInv, LiveProc
<1>3. /\ ~Working(p)'
      /\ \A q \in Pid \ {p} : /\ Working(q)' <=> Working(q)
                              /\ Alive(q)' <=> Alive(q)
  BY DEF Working, Alive
<1>4. CASE Working(p)
  <2>1. running[v] = p /\ daemon = "up"
    BY <1>2, <1>4, ManagerAssumption
       DEF IInv, Tracking, NothingEscapes, EmptyUnlessUp, NoneRunning
  <2>2. \A q \in Pid \ {p} : Working(q) => proc[q].vm # v
    BY <2>1 DEF IInv, Tracking, NothingEscapes
  <2>3. v \in AtWork /\ AtWork' = AtWork \ {v}
    BY <1>2, <1>3, <1>4, <2>2 DEF AtWork
  <2>4. Withdrawn' = Withdrawn
    BY <1>3, <1>4 DEF Withdrawn
  <2>5. QED
    BY <1>1, <2>3, <2>4 DEF R!Next, R!Lose
<1>5. CASE ~Working(p)
  <2>1. AtWork' = AtWork
    BY <1>3, <1>5 DEF AtWork
  <2>2. CASE Withdrawn' = Withdrawn
    BY <1>1, <2>1, <2>2 DEF R!vars
  <2>3. CASE Withdrawn' # Withdrawn
    <3>1. daemon = "up"
      BY <2>3 DEF Withdrawn
    <3>2. \A w \in VM \ {v} : w \in Withdrawn' <=> w \in Withdrawn
      BY <1>3, <3>1 DEF Withdrawn
    <3>3. Withdrawn' \subseteq Withdrawn
      BY <1>3, <3>1 DEF Withdrawn
    <3>4. Withdrawn \subseteq VM
      BY DEF Withdrawn
    <3>5. v \in Withdrawn /\ Withdrawn' = Withdrawn \ {v}
      BY <2>3, <3>2, <3>3, <3>4
    <3>6. QED
      BY <1>1, <2>1, <3>5 DEF R!Next, R!End
  <2>4. QED
    BY <2>2, <2>3
<1>6. QED
  BY <1>4, <1>5

LEMMA ChildIsStep ==
    ASSUME IInv, IInv', Children
    PROVE  R!Next \/ UNCHANGED R!vars
<1>1. PICK p \in Pid : ChildBind(p) \/ ChildTerm(p) \/ ChildDies(p)
  BY DEF Children
<1>2. /\ UNCHANGED <<config, running, daemon>>
      /\ Alive(p)
      /\ \A q \in Pid \ {p} : proc'[q] = proc[q]
  BY <1>1 DEF ChildBind, ChildTerm, ChildDies, Alive, IInv, TypeOK
<1>3. CASE ~Alive(p)'
  BY <1>2, <1>3, DeathIsStep
<1>4. CASE Alive(p)'
  <2>1. proc' = [proc EXCEPT ![p] = Bound(proc[p])]
    BY <1>1, <1>4 DEF ChildBind, ChildTerm, ChildDies, Alive, NoProc, IInv, TypeOK
  <2>2. /\ proc'[p].term = proc[p].term
        /\ proc'[p].owned = proc[p].owned
        /\ proc'[p].vm = proc[p].vm
    <3>1. proc[p] \in LiveProc /\ proc'[p] = Bound(proc[p])
      BY <1>2, <2>1, LiveRecord DEF IInv, TypeOK
    <3>2. QED
      BY <3>1, BoundRecord
  <2>3. \A q \in Pid : /\ Working(q)' <=> Working(q)
                       /\ Alive(q)' <=> Alive(q)
                       /\ proc'[q].owned = proc[q].owned
                       /\ proc'[q].vm = proc[q].vm
    BY <1>2, <1>4, <2>2 DEF Working, Alive
  <2>4. UNCHANGED <<AtWork, Withdrawn>>
    BY <1>2, <2>3 DEF AtWork, Withdrawn
  <2>5. QED
    BY <1>2, <2>4, SameConfig DEF R!vars, Mode
<1>5. QED
  BY <1>3, <1>4

LEMMA StepImplements ==
    ASSUME IInv, IInv', [Next]_vars
    PROVE  [R!Next]_(R!vars)
<1>1. ASSUME NEW rc \in Rc, Command(rc)
      PROVE  R!Next
  BY <1>1, CommandIsStep
<1>2. ASSUME NEW rc \in Rc, Periodic(rc)
      PROVE  R!Next
  <2>1. /\ daemon = "up" /\ config' = config
        /\ SyncStates(config, Enabled(config), {}, rc)
        /\ config \in [VM -> Config] /\ {} \in SUBSET Enabled(config)
    BY <1>2 DEF Periodic, IInv, TypeOK
  <2>2. QED
    BY <2>1, SameConfig, SyncIsStep
<1>3. ASSUME NEW rc \in Rc, DaemonStart(rc)
      PROVE  R!Next
  BY <1>3, DaemonStartIsStep
<1>4. CASE Shutdown
  BY <1>4, SameConfig, ExitIsStep DEF Shutdown
<1>5. CASE DaemonExit
  BY <1>5, DaemonExitIsStep
<1>6. CASE Kill
  BY <1>6, KillIsStep
<1>7. CASE BootCut
  BY <1>7, BootCutIsNoStep
<1>8. CASE Children
  BY <1>8, ChildIsStep
<1>9. ASSUME NEW v \in VM, Edit(v)
      PROVE  R!Next
  <2>1. \A w \in VM \ {v} : config'[w] = config[w]
    BY <1>9 DEF Edit, IInv, TypeOK
  <2>2. QED
    BY <1>9, <2>1, OneConfig, QuietIsStep DEF Edit
<1>10. CASE UNCHANGED vars
  BY <1>10 DEF vars, R!vars, Registered, AtWork, Withdrawn, Working, Alive, Mode
<1>11. QED
  BY <1>1, <1>2, <1>3, <1>4, <1>5, <1>6, <1>7, <1>8, <1>9, <1>10 DEF Next

(* The refinement.                                                           *)
THEOREM ManagerImplementsRegistry == Spec => ImplementsRegistry
<1>1. Init /\ IInv => R!Init
  <2> SUFFICES ASSUME Init, IInv
               PROVE  R!Init
    OBVIOUS
  <2>1. daemon = "down"
    BY DEF Init
  <2>2. AtWork = {} /\ Withdrawn = {}
    BY <2>1, AtWorkIsLive, WithdrawnAreLeavers DEF IInv
  <2>3. Registered \in [VM -> R!Entry]
    BY EntryValues DEF Registered
  <2>4. QED
    BY <2>1, <2>2, <2>3 DEF R!Init, Mode
<1>2. IInv /\ IInv' /\ [Next]_vars => [R!Next]_(R!vars)
  BY StepImplements
<1>3. QED
  BY <1>1, <1>2, Invariance, PTL DEF Spec, R!Spec, ImplementsRegistry

=============================================================================
