--------------------------- MODULE ControlServer ---------------------------
(***************************************************************************)
(* The control interface (control.py: main_loop, command_dispatcher) with  *)
(* the clients that talk to it (cmd/vsbmc.py: ZmqClient), on top of the    *)
(* manager of module VbmcManager, whose variables and actions it extends.  *)
(*                                                                         *)
(* A client sends one request over a REQ socket and waits a limited time   *)
(* for the answer.  The server has one REP socket: it takes a request,     *)
(* runs the command for every name it carries, answers, and takes the      *)
(* next.  A pass of its own it makes only when poll() finds no request.    *)
(* What the clients cannot see is where their request is when they give    *)
(* up: in their own socket, in the server's, or half done.                 *)
(***************************************************************************)
EXTENDS VbmcManager

CONSTANTS
    Client,   \* invocations of vsbmc, each of one command
    Ops       \* the commands they are used for; "garbage" is no JSON at all

AllOps == {"add", "delete", "start", "stop", "list", "show", "garbage"}

ASSUME ControlAssumption == Ops \subseteq AllOps /\ None \notin Client

VARIABLES
    client,   \* what each client asked and how far it got
    pipe,     \* clients whose request is still in their own socket
    inbox,    \* clients whose request is in the socket of the server
    job,      \* the request the server is at
    wedged    \* the REP socket waits for an answer nobody will send

control == <<client, pipe, inbox, job, wedged>>
cvars == <<vars, control>>

(* The names of a request; list has none and is asked for once.             *)
Names(op) ==
    CASE op \in {"start", "stop", "delete"} -> SUBSET VM \ {{}}
      [] op \in {"add", "show"}             -> {{v} : v \in VM}
      [] OTHER                              -> {{None}}

NewClient == [st |-> "new", op |-> None, names |-> {}]
NoJob == [of |-> None, todo |-> {}, rc |-> "ok"]

CInit ==
    /\ Init
    /\ client = [c \in Client |-> NewClient]
    /\ pipe = {}
    /\ inbox = {}
    /\ job = NoJob
    /\ wedged = FALSE

-----------------------------------------------------------------------------
(* The client.                                                              *)

Send(c) ==
    /\ client[c].st = "new"
    /\ \E op \in Ops : \E names \in Names(op) :
          client' = [client EXCEPT ![c] =
                        [st |-> "waiting", op |-> op, names |-> names]]
    /\ pipe' = pipe \cup {c}
    /\ UNCHANGED <<vars, inbox, job, wedged>>

(* The sockets are connected once the server has bound its port.            *)
Deliver(c) ==
    /\ c \in pipe
    /\ daemon = "up"
    /\ pipe' = pipe \ {c}
    /\ inbox' = inbox \cup {c}
    /\ UNCHANGED <<vars, client, job, wedged>>

(* The client closes its socket and reports that it failed to connect.      *)
GiveUp(c) ==
    /\ client[c].st = "waiting"
    /\ client' = [client EXCEPT ![c].st = "timeout"]
    /\ pipe' = pipe \ {c}
    /\ UNCHANGED <<vars, inbox, job, wedged>>

-----------------------------------------------------------------------------
(* The server.                                                              *)

Idle == daemon = "up" /\ job = NoJob

(* A request that does not decode is dropped without an answer, and a REP   *)
(* socket receives nothing more until it has answered.                      *)
Take(c) ==
    /\ Idle /\ ~wedged
    /\ c \in inbox
    /\ inbox' = inbox \ {c}
    /\ IF client[c].op = "garbage"
       THEN wedged' = TRUE /\ job' = NoJob
       ELSE /\ job' = [of |-> c, todo |-> client[c].names, rc |-> "ok"]
            /\ UNCHANGED wedged
    /\ UNCHANGED <<vars, client, pipe>>

(* The manager's method for one name of the request.                        *)
Run(op, v, rc) ==
    \/ op = "list" /\ List(rc)
    \/ /\ v \in VM
       /\ \/ op = "add"    /\ \E p \in Port : Add(v, p, rc)
          \/ op = "start"  /\ Start(v, rc)
          \/ op = "stop"   /\ Stop(v, rc)
          \/ op = "delete" /\ Delete(v, rc)
          \/ op = "show"   /\ Show(v, rc)

(* Mutant: the last return code is the answer.                              *)
MutWorst(old, new) == new

(* max(rc for rc, msg in data_out)                                          *)
Worst(old, new) == IF "fail" \in {old, new} THEN "fail" ELSE "ok"

(* What the outcome of one name leaves to do.  A VirtualBMCError ends the   *)
(* loop over the names and is answered; any other exception ends the server *)
(* and is not.                                                              *)
After(v, rc) ==
    CASE rc \in {"ok", "fail"} ->
            [job EXCEPT !.todo = @ \ {v}, !.rc = Worst(@, rc)]
      [] rc = "notfound"       -> [job EXCEPT !.todo = {}, !.rc = "fail"]
      [] rc = "raise"          -> NoJob

Do(v, rc) ==
    /\ v \in job.todo
    /\ Run(client[job.of].op, v, rc)
    /\ job' = After(v, rc)
    /\ inbox' = IF rc = "raise" THEN {} ELSE inbox
    /\ UNCHANGED <<client, pipe, wedged>>

(* Mutant: nothing is sent when the client has given up.                    *)
MutReply ==
    /\ daemon = "up"
    /\ job # NoJob /\ job.todo = {}
    /\ client' = IF client[job.of].st = "waiting"
                 THEN [client EXCEPT ![job.of].st = job.rc]
                 ELSE client
    /\ wedged' = (client[job.of].st # "waiting")
    /\ job' = NoJob
    /\ UNCHANGED <<vars, pipe, inbox>>

(* An answer to a client that is gone is dropped.                           *)
Reply ==
    /\ daemon = "up"
    /\ job # NoJob
    /\ job.todo = {}
    /\ client' = IF client[job.of].st = "waiting"
                 THEN [client EXCEPT ![job.of].st = job.rc]
                 ELSE client
    /\ job' = NoJob
    /\ UNCHANGED <<vars, pipe, inbox, wedged>>

(* Mutant: a poll() that reports nothing is just repeated.                  *)
MutPoll(rc) == Idle /\ rc = "ok" /\ UNCHANGED cvars

(* poll() timed out.                                                        *)
Poll(rc) ==
    /\ Idle
    /\ wedged \/ inbox = {}
    /\ Periodic(rc)
    /\ inbox' = IF rc = "raise" THEN {} ELSE inbox
    /\ wedged' = (wedged /\ rc # "raise")
    /\ UNCHANGED <<client, pipe, job>>

(* Mutant: the requests of a server that is gone are kept.                  *)
MutDies ==
    /\ Shutdown \/ Kill
    /\ UNCHANGED control

(* The server's socket goes with the server, and all it had taken with it.  *)
Dies ==
    /\ Shutdown \/ Kill
    /\ inbox' = {}
    /\ job' = NoJob
    /\ wedged' = FALSE
    /\ UNCHANGED <<client, pipe>>

Elsewhere ==
    /\ \/ \E rc \in Rc : DaemonStart(rc)
       \/ DaemonExit
       \/ BootCut
       \/ Children
       \/ \E v \in VM : Edit(v)
    /\ UNCHANGED control

Server ==
    \/ \E c \in Client : Take(c)
    \/ \E v \in VM \cup {None}, rc \in Rc : Do(v, rc)
    \/ Reply

CNext ==
    \/ \E c \in Client : Send(c) \/ Deliver(c) \/ GiveUp(c)
    \/ Server
    \/ \E rc \in Rc : Poll(rc)
    \/ Dies
    \/ Elsewhere

CSpec == CInit /\ [][CNext]_cvars

(* The server does not rest while poll() reports requests, and makes a pass  *)
(* when it reports none; a client waits for a limited time, and its socket  *)
(* delivers while the server is there.  The kernel runs the children.       *)
CFairSpec ==
    /\ CSpec
    /\ WF_cvars(Server)
    /\ WF_cvars(\E rc \in Rc : Poll(rc))
    /\ \A c \in Client : WF_cvars(GiveUp(c)) /\ WF_cvars(Deliver(c))
    /\ \A p \in Pid : /\ WF_cvars(ChildBind(p) /\ UNCHANGED control)
                      /\ WF_cvars(ChildTerm(p) /\ UNCHANGED control)

-----------------------------------------------------------------------------
(* Every variable keeps its type; the server is at work only while it is up. *)
CTypeOK ==
    /\ client \in [Client -> {NewClient} \cup
          [st : {"waiting", "ok", "fail", "timeout"}, op : Ops,
           names : SUBSET (VM \cup {None})]]
    /\ pipe \subseteq Client /\ inbox \subseteq Client
    /\ job \in {NoJob} \cup [of : Client, todo : SUBSET (VM \cup {None}),
                             rc : {"ok", "fail"}]
    /\ wedged \in BOOLEAN
    /\ daemon # "up" => inbox = {} /\ job = NoJob /\ ~wedged

(* What a command promises for one name.                                    *)
Achieved(op, v) ==
    CASE op = "add"    -> v \in Readable(config)
      [] op = "start"  -> v \in Enabled(config) /\ running[v] # None
      [] op = "stop"   -> v \notin Enabled(config) /\ running[v] = None
      [] op = "delete" -> config[v] = NoDir /\ running[v] = None
      [] OTHER         -> TRUE

(* A client that was told 0 finds, at that moment, the command done for     *)
(* every name it gave, although the names were handled one after the other, *)
(* children died in between and another request was handled before.         *)
OkMeansDone ==
    [][\A c \in Client :
          client[c].st = "waiting" /\ client'[c].st = "ok" =>
             \A v \in client[c].names : Achieved(client[c].op, v)']_cvars

(* A request the server has received is taken, or the server is gone        *)
(* ("Server handles the commands and responds with a JSON document").       *)
Responds == \A c \in Client : c \in inbox ~> c \notin inbox

=============================================================================
