------------------------ MODULE ControlServerProofs ------------------------
(***************************************************************************)
(* Under the control interface the manager is still the manager: what was  *)
(* proved of it alone holds with clients, requests and time-outs around it. *)
(***************************************************************************)
EXTENDS ControlServer, RegistryProofs

(* Every step of the composition is a step of the manager or leaves its      *)
(* variables alone.                                                          *)
LEMMA ControlStep == [CNext]_cvars => [Next]_vars
<1> SUFFICES ASSUME [CNext]_cvars
             PROVE  Next \/ UNCHANGED vars
  OBVIOUS
<1>1. ASSUME NEW c \in Client, Send(c) \/ Deliver(c) \/ GiveUp(c)
      PROVE  UNCHANGED vars
  BY <1>1 DEF Send, Deliver, GiveUp
<1>2. ASSUME NEW c \in Client, Take(c)
      PROVE  UNCHANGED vars
  BY <1>2 DEF Take
<1>3. ASSUME NEW v \in VM \cup {None}, NEW rc \in Rc, Do(v, rc)
      PROVE  Next
  <2>1. Command(rc)
    BY <1>3 DEF Do, Run, Command
  <2>2. QED
    BY <2>1 DEF Next
<1>4. CASE Reply
  BY <1>4 DEF Reply
<1>5. ASSUME NEW rc \in Rc, Poll(rc)
      PROVE  Next
  BY <1>5 DEF Poll, Next
<1>6. CASE Dies
  BY <1>6 DEF Dies, Next
<1>7. CASE Elsewhere
  BY <1>7 DEF Elsewhere, Next
<1>8. CASE UNCHANGED cvars
  BY <1>8 DEF cvars
<1>9. QED
  BY <1>1, <1>2, <1>3, <1>4, <1>5, <1>6, <1>7, <1>8 DEF CNext, Server

(* The composition implements the manager's specification.                   *)
THEOREM ControlImplementsManager == CSpec => Spec
<1>1. CInit => Init
  BY DEF CInit
<1>2. QED
  BY <1>1, ControlStep, PTL DEF CSpec, Spec

(* So the status a client is shown is true of the processes, whatever        *)
(* requests are under way.                                                   *)
THEOREM ControlStatusCorrect == CSpec => []StatusIsTrue
BY ControlImplementsManager, StatusCorrect

(* And a stop that returned 0 has silenced its name.                         *)
THEOREM ControlStopsSilence == CSpec => StopSilences
BY ControlImplementsManager, StopsSilence

(* And the two together are still a registry: several clients, and requests  *)
(* for several names, bring no BMC to work that is not on.                   *)
THEOREM ControlImplementsRegistry == CSpec => ImplementsRegistry
BY ControlImplementsManager, ManagerImplementsRegistry

-----------------------------------------------------------------------------
(* The server's own state.                                                   *)

(* A command that does not raise leaves the main loop running.               *)
LEMMA RunsOn ==
    ASSUME NEW op, NEW v, NEW rc, Run(op, v, rc), rc # "raise"
    PROVE  daemon = "up" /\ daemon' = "up"
<1>1. ASSUME NEW cfg, NEW bounce, NEW r, r # "raise",
             SyncStates(cfg, Enabled(cfg), bounce, r)
      PROVE  daemon' = "up"
  BY <1>1 DEF SyncStates, Pass, Change
<1>2. ASSUME NEW w, NEW cfg, NEW r, r # "raise", daemon = "up", StopVm(w, cfg, r)
      PROVE  daemon' = "up"
  BY <1>1, <1>2 DEF StopVm
<1>3. CASE List(rc)
  BY <1>3 DEF List, Answer
<1>4. CASE Show(v, rc)
  BY <1>4 DEF Show, Answer
<1>5. ASSUME NEW p, Add(v, p, rc)
      PROVE  daemon = "up" /\ daemon' = "up"
  BY <1>5 DEF Add
<1>6. CASE Start(v, rc)
  BY <1>1, <1>6 DEF Start, StartIgnored, StartEnables, StartStoreFails, vars
<1>7. CASE Stop(v, rc)
  BY <1>2, <1>7 DEF Stop
<1>8. CASE Delete(v, rc)
  BY <1>2, <1>8 DEF Delete, DeleteFails, vars
<1>9. QED
  BY <1>3, <1>4, <1>5, <1>6, <1>7, <1>8 DEF Run

Job == [of : Client, todo : SUBSET (VM \cup {None}), rc : {"ok", "fail"}]

ClientRecord ==
    {NewClient} \cup [st : {"waiting", "ok", "fail", "timeout"}, op : Ops,
                      names : SUBSET (VM \cup {None})]

(* A server whose socket owes an answer nobody will send is at no request.   *)
ServerInv == CTypeOK /\ (wedged => job = NoJob)

LEMMA ServerTypes ==
    CTypeOK <=> /\ client \in [Client -> ClientRecord]
                /\ pipe \subseteq Client /\ inbox \subseteq Client
                /\ job \in {NoJob} \cup Job
                /\ wedged \in BOOLEAN
                /\ daemon # "up" => inbox = {} /\ job = NoJob /\ ~wedged
BY DEF CTypeOK, ClientRecord, Job

LEMMA NamesType == ASSUME NEW op PROVE Names(op) \subseteq SUBSET (VM \cup {None})
BY DEF Names

LEMMA SendKeeps == ASSUME ServerInv, NEW c \in Client, Send(c) PROVE ServerInv'
<1>1. PICK op \in Ops : \E names \in Names(op) :
         client' = [client EXCEPT ![c] = [st |-> "waiting", op |-> op, names |-> names]]
  BY DEF Send
<1>2. \A names \in Names(op) :
         [st |-> "waiting", op |-> op, names |-> names] \in ClientRecord
  BY NamesType DEF ClientRecord
<1>3. client' \in [Client -> ClientRecord]
  BY <1>1, <1>2, ServerTypes DEF ServerInv
<1>4. QED
  BY <1>3, ServerTypes DEF ServerInv, Send, vars, CTypeOK, ClientRecord, Job

LEMMA DeliverKeeps == ASSUME ServerInv, NEW c \in Client, Deliver(c) PROVE ServerInv'
BY DEF ServerInv, CTypeOK, Deliver, vars

LEMMA GiveUpKeeps == ASSUME ServerInv, NEW c \in Client, GiveUp(c) PROVE ServerInv'
<1>1. client[c] \in ClientRecord /\ client[c].st = "waiting"
  BY ServerTypes DEF ServerInv, GiveUp
<1>2. [client[c] EXCEPT !.st = "timeout"] \in ClientRecord
  BY <1>1 DEF ClientRecord, NewClient
<1>3. client' = [client EXCEPT ![c] = [client[c] EXCEPT !.st = "timeout"]]
  BY DEF GiveUp
<1>4. client' \in [Client -> ClientRecord]
  BY <1>2, <1>3, ServerTypes DEF ServerInv
<1>5. QED
  BY <1>4 DEF ServerInv, CTypeOK, ClientRecord, GiveUp, vars

LEMMA TakeKeeps == ASSUME ServerInv, NEW c \in Client, Take(c) PROVE ServerInv'
<1>1. client[c] \in ClientRecord
  BY ServerTypes DEF ServerInv
<1>2. client[c].names \in SUBSET (VM \cup {None})
  BY <1>1 DEF ClientRecord, NewClient
<1>3. [of |-> c, todo |-> client[c].names, rc |-> "ok"] \in Job
  BY <1>2 DEF Job
<1>4. QED
  BY <1>3 DEF ServerInv, CTypeOK, Job, Take, Idle, vars

LEMMA DoKeeps ==
    ASSUME ServerInv, NEW v \in VM \cup {None}, NEW rc \in Rc, Do(v, rc)
    PROVE  ServerInv'
<1>1. job # NoJob /\ job \in Job
  BY DEF ServerInv, CTypeOK, Job, Do, NoJob
<1>2. daemon = "up" /\ wedged = FALSE /\ wedged' = FALSE
  BY <1>1 DEF ServerInv, CTypeOK, Do
<1>3. UNCHANGED <<client, pipe>> /\ inbox' \in {inbox, {}}
  BY DEF Do
<1>4. CASE rc = "raise"
  <2>1. job' = NoJob /\ inbox' = {}
    BY <1>4 DEF Do, After
  <2>2. QED
    BY <1>2, <1>3, <2>1 DEF ServerInv, CTypeOK
<1>5. CASE rc # "raise"
  <2>1. daemon' = "up"
    BY <1>5, RunsOn DEF Do
  <2>2. job' \in Job
    <3>1. /\ job = [of |-> job.of, todo |-> job.todo, rc |-> job.rc]
          /\ job.of \in Client /\ job.todo \subseteq VM \cup {None}
          /\ job.rc \in {"ok", "fail"}
      BY <1>1 DEF Job
    <3>2. CASE rc \in {"ok", "fail"}
      <4>1. job' = [job EXCEPT !.todo = @ \ {v}, !.rc = Worst(@, rc)]
        BY <3>2 DEF Do, After
      <4>2. Worst(job.rc, rc) \in {"ok", "fail"}
        BY DEF Worst
      <4>3. QED
        BY <3>1, <4>1, <4>2 DEF Job
    <3>3. CASE rc = "notfound"
      <4>1. job' = [job EXCEPT !.todo = {}, !.rc = "fail"]
        BY <3>3 DEF Do, After
      <4>2. QED
        BY <3>1, <4>1 DEF Job
    <3>4. QED
      BY <1>5, <3>2, <3>3 DEF Rc
  <2>3. QED
    BY <1>2, <1>3, <2>1, <2>2 DEF ServerInv, CTypeOK, Job
<1>6. QED
  BY <1>4, <1>5

LEMMA ReplyKeeps == ASSUME ServerInv, Reply PROVE ServerInv'
<1>1. job \in Job
  BY DEF ServerInv, CTypeOK, Job, Reply
<1>2. job.of \in Client /\ job.rc \in {"ok", "fail"}
  BY <1>1 DEF Job
<1>3. client' \in [Client -> ClientRecord]
  <2>1. CASE client[job.of].st = "waiting"
    <3>1. client[job.of] \in ClientRecord
      BY <1>2, ServerTypes DEF ServerInv
    <3>2. [client[job.of] EXCEPT !.st = job.rc] \in ClientRecord
      BY <1>2, <2>1, <3>1 DEF ClientRecord, NewClient
    <3>3. client' = [client EXCEPT ![job.of] = [client[job.of] EXCEPT !.st = job.rc]]
      BY <2>1 DEF Reply
    <3>4. QED
      BY <1>2, <3>2, <3>3, ServerTypes DEF ServerInv
  <2>2. CASE client[job.of].st # "waiting"
    BY <2>2, ServerTypes DEF ServerInv, Reply
  <2>3. QED
    BY <2>1, <2>2
<1>4. QED
  BY <1>3 DEF ServerInv, CTypeOK, ClientRecord, Reply, vars

LEMMA PollKeeps == ASSUME ServerInv, NEW rc \in Rc, Poll(rc) PROVE ServerInv'
<1>1. job = NoJob /\ job' = NoJob /\ UNCHANGED <<client, pipe>>
  BY DEF Poll, Idle
<1>2. CASE rc = "raise"
  BY <1>1, <1>2 DEF Poll, ServerInv, CTypeOK
<1>3. CASE rc # "raise"
  <2>1. daemon' = "up"
    BY <1>3 DEF Poll, Periodic, SyncStates, Pass, Change
  <2>2. UNCHANGED inbox /\ wedged' = wedged
    BY <1>3 DEF Poll, ServerInv, CTypeOK
  <2>3. QED
    BY <1>1, <2>1, <2>2 DEF ServerInv, CTypeOK
<1>4. QED
  BY <1>2, <1>3

LEMMA ElsewhereKeeps == ASSUME ServerInv, Elsewhere PROVE ServerInv'
<1>1. daemon' = daemon \/ daemon # "up"
  BY DEF Elsewhere, DaemonStart, DaemonExit, BootCut, Children, ChildBind, ChildTerm,
         ChildDies, Edit
<1>2. UNCHANGED <<client, pipe, inbox, job, wedged>>
  BY DEF Elsewhere, control
<1>3. QED
  BY <1>1, <1>2 DEF ServerInv, CTypeOK

(* The server is at work only while the daemon is up, whatever ends it; and  *)
(* a socket left without an answer is taken down with it.                    *)
THEOREM ServerTypeCorrect == CSpec => []CTypeOK
<1>1. CInit => ServerInv
  BY DEF CInit, ServerInv, CTypeOK
<1>2. ServerInv /\ [CNext]_cvars => ServerInv'
  <2> SUFFICES ASSUME ServerInv, [CNext]_cvars
               PROVE  ServerInv'
    OBVIOUS
  <2>1. CASE Dies
    BY <2>1 DEF Dies, ServerInv, CTypeOK
  <2>2. CASE UNCHANGED cvars
    BY <2>2 DEF cvars, vars, control, ServerInv, CTypeOK
  <2>3. QED
    BY <2>1, <2>2, SendKeeps, DeliverKeeps, GiveUpKeeps, TakeKeeps, DoKeeps,
       ReplyKeeps, PollKeeps, ElsewhereKeeps DEF CNext, Server
<1>3. ServerInv => CTypeOK
  BY DEF ServerInv
<1>4. QED
  BY <1>1, <1>2, <1>3, PTL DEF CSpec

-----------------------------------------------------------------------------
(* And a delete that returned 0 has silenced its name, too.                  *)
THEOREM ControlDeletesSilence ==
    ASSUME "io" \notin FaultKinds, "edit" \notin FaultKinds
    PROVE  CSpec => DeleteSilences
BY ControlImplementsManager, DeletesSilence

-----------------------------------------------------------------------------
(* What the request at hand has achieved so far, as long as nothing failed.  *)
Done == /\ job # NoJob /\ job.rc = "ok" =>
              \A v \in client[job.of].names \ job.todo : Achieved(client[job.of].op, v)
        /\ \A c \in Client : \/ c \in pipe \cup inbox
                             \/ job # NoJob /\ c = job.of
                             => client[c].st # "new"
        /\ \A c \in Client : client[c].st # "new" =>
              client[c].names \in Names(client[c].op)

LEMMA JobFields ==
    ASSUME CTypeOK, job # NoJob
    PROVE  job \in Job /\ job.of \in Client /\ daemon = "up"
BY DEF CTypeOK, Job

(* A command that succeeds for one name achieves it for that name, and takes *)
(* it from no other.                                                         *)
LEMMA RunAchieves ==
    ASSUME IInv, IInv', HandlesOn', NEW op, NEW w, Run(op, w, "ok"), NEW v \in VM,
           v = w \/ Achieved(op, v)
    PROVE  Achieved(op, v)'
<1>1. config \in [VM -> Config] /\ config' \in [VM -> Config]
      /\ running' \in [VM -> Pid \cup {None}]
  BY DEF IInv, TypeOK
<1>2. CASE op = "add"
  <2>1. PICK p \in Port : w \in VM /\ Add(w, p, "ok")
    BY <1>2 DEF Run
  <2>2. config' = [config EXCEPT ![w] = Stored(FALSE, p)] /\ Stored(FALSE, p).file = "ok"
    BY <2>1 DEF Add, Stored
  <2>3. v \in Readable(config')
    BY <1>1, <1>2, <2>1, <2>2 DEF Achieved, Readable
  <2>4. QED
    BY <1>2, <2>3 DEF Achieved
<1>3. CASE op = "start"
  <2>1. w \in VM /\ Start(w, "ok")
    BY <1>3 DEF Run
  <2>2. Settled /\ w \in Enabled(config')
    BY <2>1, StartSettles
  <2>3. Enabled(config) \subseteq Enabled(config')
    BY <1>1, <2>1 DEF Start, StartIgnored, StartEnables, StartStoreFails, SetActive,
                      Stored, Enabled, Readable
  <2>4. v \in Enabled(config')
    BY <1>3, <2>2, <2>3 DEF Achieved
  <2>5. running'[v] # None
    BY <2>2, <2>4 DEF Settled, SettledFor, HasLive, Enabled
  <2>6. QED
    BY <1>3, <2>4, <2>5 DEF Achieved
<1>4. CASE op = "stop"
  <2>1. w \in VM /\ Stop(w, "ok")
    BY <1>4 DEF Run
  <2>2. w \notin Enabled(config')
    BY <2>1, StopSettles
  <2>3. \A u \in VM \ {w} : config'[u] = config[u]
    BY <1>1, <2>1 DEF Stop, StopVm, SetActive
  <2>4. v \notin Enabled(config')
    BY <1>4, <2>2, <2>3 DEF Achieved, Enabled, Readable
  <2>5. QED
    BY <1>1, <1>4, <2>4 DEF Achieved, HandlesOn
<1>5. CASE op = "delete"
  <2>1. w \in VM /\ Delete(w, "ok")
    BY <1>5 DEF Run
  <2>2. config' = [config EXCEPT ![w] = NoDir]
    BY <2>1 DEF Delete, DeleteFails
  <2>3. config'[v] = NoDir
    BY <1>1, <1>5, <2>1, <2>2 DEF Achieved
  <2>4. QED
    BY <1>1, <1>5, <2>3 DEF Achieved, HandlesOn, Enabled, Readable, NoDir
<1>6. CASE op \notin {"add", "start", "stop", "delete"}
  BY <1>6 DEF Achieved
<1>7. QED
  BY <1>2, <1>3, <1>4, <1>5, <1>6

LEMMA DoDone ==
    ASSUME CTypeOK, IInv, IInv', HandlesOn', Done,
           NEW w \in VM \cup {None}, NEW rc \in Rc, Do(w, rc)
    PROVE  Done'
<1>1. job # NoJob /\ w \in job.todo /\ Run(client[job.of].op, w, rc)
  BY DEF Do, NoJob
<1>2. job \in Job /\ job.of \in Client
  BY <1>1, JobFields
<1>c. PICK c \in Client : c = job.of
  BY <1>2
<1>o. PICK op : op = client[c].op
  OBVIOUS
<1>3. UNCHANGED <<client, pipe>> /\ inbox' \subseteq inbox
  BY DEF Do
<1>4. CASE rc = "raise"
  <2>1. job' = NoJob
    BY <1>4 DEF Do, After
  <2>2. QED
    BY <1>3, <2>1 DEF Done
<1>5. CASE rc = "notfound"
  <2>1. job' = [job EXCEPT !.todo = {}, !.rc = "fail"]
    BY <1>5 DEF Do, After
  <2>2. job'.rc = "fail" /\ job'.of = c
    BY <1>2, <1>c, <2>1 DEF Job
  <2>3. QED
    BY <1>1, <1>3, <1>c, <2>2 DEF Done
<1>6. CASE rc \in {"ok", "fail"}
  <2>1. job' = [job EXCEPT !.todo = @ \ {w}, !.rc = Worst(@, rc)]
    BY <1>6 DEF Do, After
  <2>2. job'.of = c /\ job'.todo = job.todo \ {w} /\ job'.rc = Worst(job.rc, rc)
    BY <1>2, <1>c, <2>1 DEF Job
  <2>3. ASSUME job'.rc = "ok", NEW v \in client[c].names \ (job.todo \ {w})
        PROVE  Achieved(op, v)'
    <3>1. rc = "ok" /\ job.rc = "ok"
      BY <1>2, <1>6, <2>2, <2>3 DEF Worst, Job
    <3>2. v = w \/ Achieved(op, v)
      BY <1>1, <1>c, <1>o, <2>3, <3>1 DEF Done
    <3>3. CASE op \in {"add", "start", "stop", "delete"}
      <4>1. client[c].names \in Names(op)
        BY <1>1, <1>c, <1>o DEF Done
      <4>2. v \in VM
        BY <2>3, <3>3, <4>1 DEF Names
      <4>3. QED
        BY <1>1, <1>c, <1>o, <3>1, <3>2, <4>2, RunAchieves
    <3>4. CASE op \notin {"add", "start", "stop", "delete"}
      BY <3>4 DEF Achieved
    <3>5. QED
      BY <3>3, <3>4
  <2>4. QED
    BY <1>1, <1>3, <1>c, <1>o, <2>2, <2>3 DEF Done
<1>7. QED
  BY <1>4, <1>5, <1>6 DEF Rc

(* Nothing but its own command touches what the request is about.            *)
LEMMA AsideDone ==
    ASSUME Done, UNCHANGED <<client, job>>, pipe' \cup inbox' \subseteq pipe \cup inbox,
           job = NoJob \/ UNCHANGED <<config, running>>
    PROVE  Done'
BY DEF Done, Achieved, Enabled, Readable

LEMMA ClientDone ==
    ASSUME CTypeOK, Done, NEW c \in Client, Send(c) \/ Deliver(c) \/ GiveUp(c)
    PROVE  Done'
<1>1. UNCHANGED <<vars, job>>
  BY DEF Send, Deliver, GiveUp
<1>2. UNCHANGED <<config, running>> /\ client \in [Client -> ClientRecord]
  BY <1>1, ServerTypes DEF vars
<1>3. job # NoJob => job.of \in Client
  BY JobFields
<1>4. CASE Deliver(c)
  BY <1>2, <1>4, AsideDone DEF Deliver
<1>5. CASE Send(c)
  <2>1. PICK op \in Ops : \E names \in Names(op) :
           client' = [client EXCEPT ![c] = [st |-> "waiting", op |-> op, names |-> names]]
    BY <1>5 DEF Send
  <2>2. PICK names \in Names(op) :
           client' = [client EXCEPT ![c] = [st |-> "waiting", op |-> op, names |-> names]]
    BY <2>1
  <2>3. client'[c] = [st |-> "waiting", op |-> op, names |-> names]
        /\ \A d \in Client : d # c => client'[d] = client[d]
    BY <1>2, <2>2
  <2>4. client[c].st = "new" /\ pipe' = pipe \cup {c} /\ inbox' = inbox
    BY <1>5 DEF Send
  <2>5. job # NoJob => job.of # c
    BY <1>3, <2>4 DEF Done
  <2>6. QED
    BY <1>1, <1>2, <1>3, <2>3, <2>4, <2>5 DEF Done, Achieved, Enabled, Readable
<1>6. CASE GiveUp(c)
  <2>1. client' = [client EXCEPT ![c] = [client[c] EXCEPT !.st = "timeout"]]
        /\ client[c].st = "waiting" /\ pipe' \subseteq pipe /\ inbox' = inbox
    BY <1>6 DEF GiveUp
  <2>2. client'[c].st = "timeout" /\ client'[c].op = client[c].op
        /\ client'[c].names = client[c].names
    BY <1>2, <2>1 DEF ClientRecord, NewClient
  <2>3. \A d \in Client : d # c => client'[d] = client[d]
    BY <1>2, <2>1
  <2>4. QED
    BY <1>1, <1>2, <1>3, <2>1, <2>2, <2>3 DEF Done, Achieved, Enabled, Readable
<1>7. QED
  BY <1>4, <1>5, <1>6

LEMMA TakeDone == ASSUME CTypeOK, Done, NEW c \in Client, Take(c) PROVE Done'
<1>1. c \in inbox /\ inbox' \subseteq inbox /\ UNCHANGED <<client, pipe>>
  BY DEF Take
<1>2. CASE client[c].op = "garbage"
  <2>1. job' = NoJob
    BY <1>2 DEF Take
  <2>2. QED
    BY <1>1, <2>1 DEF Done
<1>3. CASE client[c].op # "garbage"
  <2>1. job' = [of |-> c, todo |-> client[c].names, rc |-> "ok"]
    BY <1>3 DEF Take
  <2>2. job'.of = c /\ job'.todo = client[c].names
    BY <2>1
  <2>3. QED
    BY <1>1, <2>2 DEF Done
<1>4. QED
  BY <1>2, <1>3

LEMMA ReplyDone == ASSUME CTypeOK, Done, Reply PROVE Done'
<1>1. job' = NoJob /\ UNCHANGED <<pipe, inbox>> /\ job.of \in Client
  BY JobFields DEF Reply
<1>2. client \in [Client -> ClientRecord]
  BY ServerTypes
<1>3. CASE client[job.of].st = "waiting"
  <2>1. client' = [client EXCEPT ![job.of] = [client[job.of] EXCEPT !.st = job.rc]]
    BY <1>3 DEF Reply
  <2>2. client'[job.of].names = client[job.of].names /\ client'[job.of].st = job.rc
        /\ client'[job.of].op = client[job.of].op
    BY <1>1, <1>2, <1>3, <2>1 DEF ClientRecord, NewClient
  <2>3. \A d \in Client : d # job.of => client'[d] = client[d]
    BY <1>2, <2>1
  <2>4. job.rc # "new"
    BY JobFields DEF Reply, Job
  <2>5. QED
    BY <1>1, <1>3, <2>2, <2>3, <2>4 DEF Done
<1>4. CASE client' = client
  BY <1>1, <1>4 DEF Done
<1>5. QED
  BY <1>3, <1>4 DEF Reply

LEMMA StepDone ==
    ASSUME "edit" \notin FaultKinds
    PROVE  CTypeOK /\ IInv /\ IInv' /\ HandlesOn' /\ Done /\ [CNext]_cvars => Done'
<1> SUFFICES ASSUME CTypeOK, IInv, IInv', HandlesOn', Done, [CNext]_cvars
             PROVE  Done'
  OBVIOUS
<1>1. ASSUME NEW rc \in Rc, Poll(rc)
      PROVE  Done'
  <2>1. job = NoJob /\ UNCHANGED <<client, pipe, job>> /\ inbox' \subseteq inbox
    BY <1>1 DEF Poll, Idle
  <2>2. QED
    BY <2>1, AsideDone
<1>2. CASE Dies
  BY <1>2 DEF Dies, Done
<1>3. CASE Elsewhere
  <2>1. UNCHANGED <<client, pipe, inbox, job>>
    BY <1>3 DEF Elsewhere, control
  <2>2. ~\E v \in VM : Edit(v)
    BY DEF Edit, Fault
  <2>3. UNCHANGED <<config, running>> \/ daemon = "down"
    BY <1>3, <2>2 DEF Elsewhere, DaemonStart, DaemonExit, BootCut, Children, ChildBind,
                      ChildTerm, ChildDies
  <2>4. QED
    BY <2>1, <2>3, JobFields, AsideDone
<1>4. CASE UNCHANGED cvars
  BY <1>4, AsideDone DEF cvars, vars, control
<1>5. QED
  BY <1>1, <1>2, <1>3, <1>4, ClientDone, TakeDone, DoDone, ReplyDone DEF CNext, Server

LEMMA OnlyReplyAnswers ==
    ASSUME CTypeOK, [CNext]_cvars, NEW c \in Client,
           client[c].st = "waiting", client'[c].st = "ok"
    PROVE  Reply /\ c = job.of
<1>1. client \in [Client -> ClientRecord]
  BY ServerTypes
<1>2. ASSUME NEW d \in Client, Send(d) PROVE FALSE
  BY <1>1, <1>2 DEF Send
<1>3. ASSUME NEW d \in Client, GiveUp(d) PROVE FALSE
  <2>1. client' = [client EXCEPT ![d] = [client[d] EXCEPT !.st = "timeout"]]
        /\ client[d].st = "waiting"
    BY <1>3 DEF GiveUp
  <2>2. [client[d] EXCEPT !.st = "timeout"].st = "timeout"
    BY <1>1, <2>1 DEF ClientRecord, NewClient
  <2>3. QED
    BY <1>1, <2>1, <2>2
<1>4. CASE Reply /\ c # job.of
  BY <1>1, <1>4 DEF Reply
<1>5. client' # client
  OBVIOUS
<1>6. QED
  BY <1>2, <1>3, <1>4, <1>5
     DEF CNext, Server, Deliver, Take, Do, Poll, Dies, Elsewhere, control, cvars

(* What a client is told: an answer of 0 means that the command is done for  *)
(* every name it gave, at the moment of the answer.  Deaths, kills and       *)
(* SIGTERM change nothing about it; files changed by others, or a store that *)
(* failed in an earlier request, would.                                      *)
THEOREM AnswersAreTrue ==
    ASSUME "io" \notin FaultKinds, "edit" \notin FaultKinds
    PROVE  CSpec => OkMeansDone
<1>1. CInit => Done
  BY DEF CInit, Done, NewClient
<1>2. CSpec => []IInv /\ []HandlesOn
  BY ControlImplementsManager, Invariance, AlwaysHandlesOn, PTL
<1>3. CSpec => []Done
  BY <1>1, <1>2, StepDone, ServerTypeCorrect, PTL DEF CSpec
<1>4. ASSUME CTypeOK, Done, [CNext]_cvars, NEW c \in Client,
             client[c].st = "waiting", client'[c].st = "ok",
             NEW v \in client[c].names
      PROVE  Achieved(client[c].op, v)'
  <2>1. Reply /\ c = job.of
    BY <1>4, OnlyReplyAnswers
  <2>2. job # NoJob /\ job.todo = {} /\ UNCHANGED <<config, running>>
        /\ client' = [client EXCEPT ![c] = [client[c] EXCEPT !.st = job.rc]]
    BY <1>4, <2>1 DEF Reply, vars
  <2>3. client \in [Client -> ClientRecord]
    BY <1>4, ServerTypes
  <2>4. client'[c].op = client[c].op /\ client'[c].st = job.rc
    BY <1>4, <2>2, <2>3 DEF ClientRecord, NewClient
  <2>5. Achieved(client[c].op, v)
    BY <1>4, <2>1, <2>2, <2>4 DEF Done
  <2>6. QED
    BY <2>2, <2>4, <2>5 DEF Achieved, Enabled, Readable
<1>5. CTypeOK /\ Done /\ [CNext]_cvars =>
         [\A c \in Client :
            client[c].st = "waiting" /\ client'[c].st = "ok" =>
               \A v \in client[c].names : Achieved(client[c].op, v)']_cvars
  BY <1>4
<1>6. QED
  BY <1>3, <1>5, ServerTypeCorrect, PTL DEF CSpec, OkMeansDone

=============================================================================
