------------------------- MODULE ManagerStepsProofs -------------------------
(***************************************************************************)
(* The manager step by step, for any names, options and handles and any     *)
(* number of faults: where the main thread can be and what it then knows    *)
(* (Typed), that a stop silences its name, and that the steps do no more    *)
(* than a Registry does.  Each kind of fault a theorem leaves out is named  *)
(* in it.                                                                   *)
(***************************************************************************)
EXTENDS ManagerSteps, TLAPS

ChildRecord == {Dead} \cup [alive : {TRUE}, vm : VM, owned : BOOLEAN, term : BOOLEAN]

Walking  == {"walk", "decide", "enter", "drop"}
Commands == {"add", "delete", "start", "stop"}

Main == [op : Ops \cup {"delete", "pass", None}, vm : VM \cup {None}, bmc : File,
         at : Steps, todo : SUBSET VM, n : VM \cup {None}, cfg : File,
         kid : Pid \cup {None}, then : {None, "done", "again"}]

(* What the main thread has at hand where it is.  A walk that is followed   *)
(* by more belongs to a start, and what start has read is a readable file.  *)
Holds(t) ==
    /\ t \in Main
    /\ t.at # "poll" => t.op \in Commands \cup {"pass"}
    /\ t.at # "poll" /\ t.op # "pass" => t.vm \in VM
    /\ t.at \notin {"poll"} \cup Walking => t.op # "pass"
    /\ t.at = "truncate" \/ t.at = "write" => t.bmc.opt \in Option
    /\ t.at \in Walking => t.then \in {"done", "again"}
    /\ t.at \in Walking /\ t.then = "again" => t.op = "start" /\ t.bmc.opt \in Option
    /\ t.at \in Walking \ {"walk"} => t.n \in VM
    /\ t.at = "enter" => t.kid \in Pid

Typed ==
    /\ file \in [VM -> File]
    /\ running \in [VM -> Pid \cup {None}]
    /\ child \in [Pid -> ChildRecord]
    /\ daemon \in {"down", "starting", "up", "exiting"}
    /\ Holds(main)
    /\ handler \in [on : BOOLEAN, todo : SUBSET VM]
    /\ handler.on => daemon = "up"
    /\ daemon \in {"down", "exiting"} => main = Waiting
    /\ daemon = "starting" => main.at \in Walking
    /\ faults \in 0 .. MaxFaults

LEMMA FileValues ==
    /\ {NoDir, Empty, Cut} \subseteq File
    /\ \A a \in BOOLEAN, o \in Option : Stored(a, o) \in File /\ Stored(a, o).opt = o
    /\ \A c \in File : c.st = "ok" => c.opt \in Option /\ c = Stored(c.active, c.opt)
    /\ \A a \in BOOLEAN, o \in Option : Stored(a, o).st = "ok"
    /\ NoDir.st # "ok" /\ Empty.st # "ok" /\ Cut.st # "ok"
<1>1. {NoDir, Empty, Cut} \subseteq File
  BY DEF File
<1>2. \A a, o : Stored(a, o).st = "ok" /\ Stored(a, o).active = a /\ Stored(a, o).opt = o
  BY DEF Stored
<1>3. NoDir.st # "ok" /\ Empty.st # "ok" /\ Cut.st # "ok"
  BY DEF NoDir, Empty, Cut
<1>4. \A a \in BOOLEAN, o \in Option : Stored(a, o) \in File
  BY DEF File
<1>5. ASSUME NEW c \in File, c.st = "ok"
      PROVE  c.opt \in Option /\ c = Stored(c.active, c.opt)
  <2>1. PICK a \in BOOLEAN : \E o \in Option : c = Stored(a, o)
    BY <1>3, <1>5 DEF File
  <2>2. QED
    BY <1>2, <2>1
<1>6. QED
  BY <1>1, <1>2, <1>3, <1>4, <1>5

LEMMA WaitingHolds == Holds(Waiting) /\ Waiting.at = "poll"
BY FileValues DEF Holds, Waiting, Main, Steps, Walking

LEMMA WalkHolds ==
    ASSUME NEW t, Holds(t), t.op \in Commands \cup {"pass"},
           t.op # "pass" => t.vm \in VM,
           NEW then \in {"done", "again"},
           then = "again" => t.op = "start" /\ t.bmc.opt \in Option
    PROVE  Holds(Walk(t, then)) /\ Walk(t, then).at = "walk"
BY DEF Holds, Walk, Main, Steps, Walking, Dirs

LEMMA FailHolds ==
    ASSUME NEW t, Holds(t), t.op \in Commands, t.vm \in VM
    PROVE  Holds(Fail(t)) /\ Fail(t).at \notin Walking
                          /\ Fail(t).at \in {"poll", "remove", "parse"}
<1>1. CASE t.op \in {"start", "stop"}
  BY <1>1, WaitingHolds DEF Fail, Walking
<1>2. CASE t.op = "delete"
  BY <1>2 DEF Fail, Holds, Main, Steps, Walking, Commands
<1>3. CASE t.op = "add"
  BY <1>3 DEF Fail, Holds, Main, Steps, Walking, Commands
<1>4. QED
  BY <1>1, <1>2, <1>3 DEF Commands

LEMMA EnableHolds ==
    ASSUME NEW t, Holds(t), t.op \in Commands, t.vm \in VM, t.bmc.opt \in Option
    PROVE  Holds(Enable(t)) /\ Enable(t).at \in {"walk", "truncate"}
<1>1. CASE t.bmc.active = (t.op = "start")
  BY <1>1, WalkHolds DEF Enable, Commands
<1>2. CASE t.bmc.active # (t.op = "start")
  BY <1>2 DEF Enable, Holds, Main, Steps, Walking, Commands
<1>3. QED
  BY <1>1, <1>2

LEMMA ChildChanged ==
    ASSUME NEW r \in ChildRecord
    PROVE  /\ r.alive \/ r.owned => [r EXCEPT !.term = TRUE] \in ChildRecord
           /\ [r EXCEPT !.owned = FALSE] \in ChildRecord
           /\ r.alive \in BOOLEAN
<1>1. CASE r = Dead
  <2>1. r.alive = FALSE /\ r.owned = FALSE /\ r = [f \in DOMAIN r |-> r[f]]
    BY <1>1 DEF Dead
  <2>2. [r EXCEPT !.owned = FALSE] = r
    BY <2>1
  <2>3. QED
    BY <1>1, <2>1, <2>2
<1>2. CASE r \in [alive : {TRUE}, vm : VM, owned : BOOLEAN, term : BOOLEAN]
  BY <1>2 DEF ChildRecord
<1>3. QED
  BY <1>1, <1>2 DEF ChildRecord

LEMMA ExitTyped ==
    ASSUME Typed, Exit, UNCHANGED file, faults' \in 0 .. MaxFaults
    PROVE  Typed'
<1>1. \A p \in Pid : child[p].owned => [child[p] EXCEPT !.term = TRUE] \in ChildRecord
  BY ChildChanged DEF Typed
<1>2. child' \in [Pid -> ChildRecord]
  BY <1>1 DEF Typed, Exit
<1>3. running' \in [VM -> Pid \cup {None}]
  BY DEF Exit
<1>4. /\ daemon' = "exiting" /\ main' = Waiting
      /\ handler' \in [on : BOOLEAN, todo : SUBSET VM] /\ ~handler'.on
  BY DEF Exit, Off
<1>5. QED
  BY <1>2, <1>3, <1>4, WaitingHolds DEF Typed

LEMMA FaultTyped == ASSUME Typed, NEW kind, Fault(kind) PROVE faults' \in 0 .. MaxFaults
BY StepsAssumption DEF Typed, Fault

-----------------------------------------------------------------------------
(* The steps of the main thread.                                            *)

LEMMA ParseTyped == ASSUME Typed, Parse PROVE Typed'
<1>1. main.op \in Commands /\ main.vm \in VM /\ Holds(main) /\ main.at = "parse"
  BY DEF Typed, Holds, Parse, At, Walking
<1>2. file[main.vm] \in File
  BY <1>1 DEF Typed
<1> DEFINE t == [main EXCEPT !.bmc = file[main.vm]]
<1>3. Holds(t) /\ t.op = main.op /\ t.vm = main.vm /\ t.bmc = file[main.vm]
  BY <1>1, <1>2 DEF Holds, Main, Walking
<1>4. main' = IF file[main.vm].st # "ok" THEN Fail(main)
              ELSE IF main.op = "start" /\ running[main.vm] # None
              THEN Walk(t, "again") ELSE Enable(t)
  BY DEF Parse
<1> HIDE DEF t
<1>5. Holds(main')
  <2>1. CASE file[main.vm].st # "ok"
    BY <1>1, <1>4, <2>1, FailHolds
  <2>2. CASE file[main.vm].st = "ok"
    <3>1. t.bmc.opt \in Option
      BY <1>2, <1>3, <2>2, FileValues
    <3>2. Holds(Enable(t))
      BY <1>1, <1>3, <3>1, EnableHolds
    <3>3. main.op = "start" => Holds(Walk(t, "again"))
      BY <1>1, <1>3, <3>1, WalkHolds
    <3>4. QED
      BY <1>4, <2>2, <3>2, <3>3
  <2>3. QED
    BY <2>1, <2>2
<1>6. daemon = "up"
  BY <1>1 DEF Typed, Parse, At, Walking, Waiting
<1>7. QED
  BY <1>5, <1>6 DEF Typed, Parse

LEMMA TruncateTyped == ASSUME Typed, Truncate PROVE Typed'
<1>1. main.op \in Commands /\ main.vm \in VM /\ Holds(main) /\ main.at = "truncate"
  BY DEF Typed, Holds, Truncate, At, Walking
<1>2. daemon = "up"
  BY <1>1 DEF Typed, Truncate, At, Walking, Waiting
<1>3. Holds([main EXCEPT !.at = "write"])
  BY <1>1 DEF Holds, Main, Steps, Walking
<1>4. Holds(main') /\ file' \in [VM -> File]
  BY <1>1, <1>3, FailHolds, FileValues DEF Truncate, Typed
<1>5. QED
  BY <1>2, <1>4 DEF Typed, Truncate

LEMMA WriteTyped == ASSUME Typed, Write PROVE Typed'
<1>1. main.op \in Commands /\ main.vm \in VM /\ Holds(main) /\ main.at = "write"
  BY DEF Typed, Holds, Write, At, Walking
<1>2. daemon = "up"
  BY <1>1 DEF Typed, Write, At, Walking, Waiting
<1>3. Stored(main.op = "start", main.bmc.opt) \in File
  BY <1>1, FileValues DEF Holds
<1>4. Holds(main')
  BY <1>1, WaitingHolds, WalkHolds DEF Write, Commands
<1>5. file' \in [VM -> File]
  BY <1>3 DEF Write, Typed
<1>6. QED
  BY <1>2, <1>4, <1>5 DEF Typed, Write

LEMMA RemoveTyped == ASSUME Typed, Remove PROVE Typed'
<1>1. main.op \in Commands /\ main.vm \in VM /\ Holds(main) /\ main.at = "remove"
  BY DEF Typed, Holds, Remove, At, Walking
<1>2. daemon = "up"
  BY <1>1 DEF Typed, Remove, At, Walking, Waiting
<1>3. Holds(main') /\ file' \in [VM -> File]
  BY <1>1, WaitingHolds, FileValues DEF Remove, Typed
<1>4. QED
  BY <1>2, <1>3 DEF Typed, Remove

LEMMA BeginTyped ==
    ASSUME Typed, NEW op \in Ops, NEW v \in VM, Begin(op, v) PROVE Typed'
<1>1. op \in Commands
  BY StepsAssumption DEF Commands
<1>2. Holds(Task(op, v)) /\ Task(op, v) \in Main /\ Task(op, v).op = op
      /\ Task(op, v).vm = v /\ Task(op, v).at = "parse"
  <2>1. Waiting \in Main
    BY WaitingHolds DEF Holds
  <2>2. /\ Task(op, v) \in Main /\ Task(op, v).op = op
        /\ Task(op, v).vm = v /\ Task(op, v).at = "parse"
    BY <1>1, <2>1 DEF Task, Main, Steps
  <2>3. "parse" \notin Walking /\ op # "pass"
    BY <1>1 DEF Walking, Commands
  <2>4. QED
    BY <1>1, <2>2, <2>3 DEF Holds
<1>3. ASSUME NEW o \in Option
      PROVE  Holds([Task(op, v) EXCEPT !.at = "truncate", !.bmc = Stored(FALSE, o)])
  <2> DEFINE c == Stored(FALSE, o)
             t == [Task(op, v) EXCEPT !.at = "truncate", !.bmc = c]
  <2>1. c \in File /\ c.opt = o
    BY FileValues
  <2> HIDE DEF c
  <2>2. t \in Main /\ t.at = "truncate" /\ t.op = op /\ t.vm = v /\ t.bmc = c
    BY <1>2, <2>1 DEF Main, Steps
  <2>3. "truncate" \notin Walking /\ op # "pass"
    BY <1>1 DEF Walking, Commands
  <2> HIDE DEF t
  <2>4. Holds(t)
    BY <1>1, <2>1, <2>2, <2>3 DEF Holds
  <2>5. QED
    BY <2>4 DEF t, c
<1>4. CASE op = "add"
  <2>1. Holds(main') /\ file' = [file EXCEPT ![v] = Empty]
        /\ UNCHANGED <<running, child, daemon, handler, faults>> /\ daemon = "up"
    BY <1>3, <1>4 DEF Begin
  <2>2. QED
    BY <2>1, FileValues DEF Typed
<1>5. CASE op # "add"
  <2>1. Holds(main') /\ UNCHANGED <<file, running, child, daemon, handler, faults>>
        /\ daemon = "up"
    BY <1>2, <1>5 DEF Begin
  <2>2. QED
    BY <2>1 DEF Typed
<1>6. QED
  BY <1>4, <1>5

-----------------------------------------------------------------------------
(* The walk.                                                                *)

LEMMA PassHolds ==
    LET t == Walk([Waiting EXCEPT !.op = "pass"], "done")
    IN Holds(t) /\ t.at = "walk" /\ t.then = "done"
BY FileValues DEF Holds, Walk, Waiting, Main, Steps, Walking, Dirs

LEMMA VisitTyped == ASSUME Typed, NEW n \in VM, Visit(n) PROVE Typed'
<1>1. Holds(main) /\ main.at = "walk" /\ file[n] \in File
  BY DEF Typed, Visit, At
<1>2. CASE file[n] = Cut
  BY <1>2, ExitTyped DEF Visit, Typed
<1>3. CASE file[n] # Cut
  <2> DEFINE at == IF file[n].st = "ok" THEN "decide" ELSE "walk"
  <2>1. main' = [main EXCEPT !.todo = @ \ {n}, !.n = n, !.cfg = file[n], !.at = at]
        /\ UNCHANGED <<running, child, daemon, handler, file, faults>>
    BY <1>3 DEF Visit
  <2>2. at \in {"decide", "walk"}
    OBVIOUS
  <2> HIDE DEF at
  <2>3. Holds(main') /\ main'.at \in Walking
    BY <1>1, <2>1, <2>2 DEF Holds, Main, Steps, Walking
  <2>4. daemon \in {"starting", "up"}
    BY DEF Visit, At
  <2>5. QED
    BY <2>1, <2>3, <2>4 DEF Typed
<1>4. QED
  BY <1>2, <1>3

LEMMA DecideMain ==
    ASSUME Decide
    PROVE  \/ \E q \in Pid : main' = [main EXCEPT !.at = "enter", !.kid = q]
           \/ \E at \in {"walk", "drop"} : main' = [main EXCEPT !.at = at]
<1>1. CASE main.cfg.active /\ ~Live(running[main.n])
  BY <1>1 DEF Decide
<1>2. CASE main.cfg.active /\ Live(running[main.n])
  BY <1>2 DEF Decide
<1>3. CASE ~main.cfg.active /\ running[main.n] # None
  BY <1>3 DEF Decide
<1>4. CASE ~main.cfg.active /\ running[main.n] = None
  BY <1>4 DEF Decide
<1>5. QED
  BY <1>1, <1>2, <1>3, <1>4

LEMMA DecideTyped == ASSUME Typed, Decide PROVE Typed'
<1>1. Holds(main) /\ main.at = "decide" /\ main.n \in VM
  BY DEF Typed, Decide, At, Holds, Walking
<1>2. daemon \in {"starting", "up"} /\ UNCHANGED <<file, running, daemon, handler, faults>>
  BY DEF Decide, At
<1>3. ASSUME NEW q \in Pid
      PROVE  Holds([main EXCEPT !.at = "enter", !.kid = q])
  BY <1>1 DEF Holds, Main, Steps, Walking
<1>4. ASSUME NEW at \in {"walk", "drop"}
      PROVE  Holds([main EXCEPT !.at = at])
  BY <1>1 DEF Holds, Main, Steps, Walking
<1>5. Holds(main') /\ main'.at \in Walking
  <2>1. main \in Main
    BY <1>1 DEF Holds
  <2>2. \/ \E q \in Pid : main' = [main EXCEPT !.at = "enter", !.kid = q]
        \/ \E at \in {"walk", "drop"} : main' = [main EXCEPT !.at = at]
    BY DecideMain
  <2>3. ASSUME NEW q \in Pid, main' = [main EXCEPT !.at = "enter", !.kid = q]
        PROVE  Holds(main') /\ main'.at \in Walking
    BY <1>3, <2>1, <2>3 DEF Main, Walking
  <2>4. ASSUME NEW at \in {"walk", "drop"}, main' = [main EXCEPT !.at = at]
        PROVE  Holds(main') /\ main'.at \in Walking
    <3>1. main'.at = at
      BY <2>1, <2>4 DEF Main
    <3>2. QED
      BY <1>4, <2>4, <3>1 DEF Walking
  <2>5. QED
    BY <2>2, <2>3, <2>4
<1>6. child' \in [Pid -> ChildRecord]
  <2>1. CASE main.cfg.active /\ ~Live(running[main.n])
    <3>1. Forked(main.n) \in ChildRecord
      BY <1>1 DEF Forked, ChildRecord
    <3>2. QED
      BY <2>1, <3>1 DEF Decide, Typed
  <2>2. CASE ~main.cfg.active /\ Live(running[main.n])
    <3> DEFINE p == running[main.n]
    <3>1. p \in Pid /\ child[p].alive
      BY <1>1, <2>2 DEF Typed, Live
    <3>2. [child[p] EXCEPT !.term = TRUE] \in ChildRecord
      BY <3>1, ChildChanged DEF Typed
    <3>3. child' = [child EXCEPT ![p] = [child[p] EXCEPT !.term = TRUE]]
      BY <2>2 DEF Decide
    <3> HIDE DEF p
    <3>4. QED
      BY <3>1, <3>2, <3>3 DEF Typed
  <2>3. CASE main.cfg.active /\ Live(running[main.n])
    BY <2>3 DEF Decide, Typed
  <2>4. CASE ~main.cfg.active /\ ~Live(running[main.n])
    BY <2>4 DEF Decide, Typed
  <2>5. QED
    BY <2>1, <2>2, <2>3, <2>4
<1>7. QED
  BY <1>2, <1>5, <1>6 DEF Typed

LEMMA EnterTyped == ASSUME Typed, Enter PROVE Typed'
<1>1. Holds(main) /\ main.at \in {"enter", "drop"} /\ main.n \in VM
      /\ (main.at = "enter" => main.kid \in Pid)
  BY DEF Typed, Enter, At, Holds, Walking
<1>2. Holds(main') /\ main'.at = "walk"
  BY <1>1 DEF Enter, Holds, Main, Steps, Walking
<1>3. running' \in [VM -> Pid \cup {None}]
  BY <1>1 DEF Enter, Typed
<1>4. daemon \in {"starting", "up"}
  BY DEF Enter, At
<1>5. QED
  BY <1>2, <1>3, <1>4 DEF Enter, Typed, Walking

LEMMA WalkEndsTyped == ASSUME Typed, WalkEnds PROVE Typed'
<1>1. Holds(main) /\ main.at = "walk" /\ main.then \in {"done", "again"}
      /\ main.op \in Commands \cup {"pass"}
  BY DEF Typed, WalkEnds, At, Holds, Walking
<1>2. CASE main.then = "again"
  <2>1. main.op = "start" /\ main.vm \in VM /\ main.bmc.opt \in Option
    BY <1>1, <1>2 DEF Holds, Walking
  <2>2. Holds(Enable(main))
    BY <1>1, <2>1, EnableHolds DEF Commands
  <2>3. QED
    BY <1>2, <2>2, WaitingHolds DEF WalkEnds, Typed
<1>3. CASE main.then # "again"
  <2>1. main.op = "delete" => Holds([main EXCEPT !.at = "remove"])
    BY <1>1 DEF Holds, Main, Steps, Walking, Commands
  <2>2. QED
    BY <1>3, <2>1, WaitingHolds DEF WalkEnds, Typed
<1>4. QED
  BY <1>2, <1>3

LEMMA StartTyped == ASSUME Typed, Start PROVE Typed'
BY PassHolds DEF Start, Typed, Walking

LEMMA PollTyped == ASSUME Typed, Poll PROVE Typed'
BY PassHolds DEF Poll, Typed

-----------------------------------------------------------------------------
(* SIGTERM, the children and the files.                                     *)

LEMMA SignalTyped == ASSUME Typed, Signal PROVE Typed'
<1>1. faults' \in 0 .. MaxFaults
  BY FaultTyped DEF Signal
<1>2. QED
  BY <1>1 DEF Signal, Typed, Dirs

LEMMA SignalAtBootTyped == ASSUME Typed, SignalAtBoot PROVE Typed'
<1>1. faults' \in 0 .. MaxFaults
  BY FaultTyped DEF SignalAtBoot
<1>2. \A p \in Pid : [child[p] EXCEPT !.owned = FALSE] \in ChildRecord
  BY ChildChanged DEF Typed
<1>3. child' \in [Pid -> ChildRecord] /\ running' \in [VM -> Pid \cup {None}]
  BY <1>2 DEF SignalAtBoot
<1>4. QED
  BY <1>1, <1>3, WaitingHolds DEF SignalAtBoot, Typed

LEMMA SilenceTyped == ASSUME Typed, NEW n \in VM, Silence(n) PROVE Typed'
<1>1. child' \in [Pid -> ChildRecord] /\ running' \in [VM -> Pid \cup {None}]
  <2>1. CASE file[n].st = "ok" /\ Live(running[n])
    <3> DEFINE p == running[n]
    <3>1. p \in Pid /\ child[p].alive
      BY <2>1 DEF Typed, Live
    <3>2. [child[p] EXCEPT !.term = TRUE] \in ChildRecord
      BY <3>1, ChildChanged DEF Typed
    <3>3. child' = [child EXCEPT ![p] = [child[p] EXCEPT !.term = TRUE]]
      BY <2>1 DEF Silence
    <3>4. running' = [running EXCEPT ![n] = None]
      BY <2>1 DEF Silence
    <3> HIDE DEF p
    <3>5. QED
      BY <3>1, <3>2, <3>3, <3>4 DEF Typed
  <2>2. CASE ~(file[n].st = "ok" /\ Live(running[n]))
    BY <2>2 DEF Silence, Typed
  <2>3. QED
    BY <2>1, <2>2
<1>2. handler' \in [on : BOOLEAN, todo : SUBSET VM] /\ handler'.on = handler.on
  BY DEF Silence, Typed
<1>3. QED
  BY <1>1, <1>2 DEF Silence, Typed

LEMMA SurfacesTyped == ASSUME Typed, NEW n \in VM, Surfaces(n) PROVE Typed'
<1>1. CASE Exit
  BY <1>1, ExitTyped DEF Surfaces, Typed
<1>2. CASE /\ main.at \in {"parse", "truncate", "write"}
           /\ main' = Fail(main) /\ handler' = Off /\ UNCHANGED <<running, child, daemon>>
  <2>1. main.op \in Commands /\ main.vm \in VM /\ Holds(main)
    BY <1>2 DEF Typed, Holds, Walking
  <2>2. Holds(main')
    BY <1>2, <2>1, FailHolds
  <2>3. daemon = "up"
    BY DEF Surfaces, Typed
  <2>4. QED
    BY <1>2, <2>2, <2>3 DEF Surfaces, Typed, Off
<1>3. QED
  BY <1>1, <1>2 DEF Surfaces

LEMMA SysExitTyped == ASSUME Typed, SysExit PROVE Typed'
BY ExitTyped DEF SysExit, Typed

LEMMA ChildrenTyped ==
    ASSUME Typed, NEW p \in Pid, ChildTerm(p) \/ ChildDies(p) PROVE Typed'
<1>1. faults' \in 0 .. MaxFaults
  BY FaultTyped DEF ChildTerm, ChildDies, Typed
<1>2. child' \in [Pid -> ChildRecord]
  BY DEF ChildTerm, ChildDies, Die, Typed, ChildRecord
<1>3. QED
  BY <1>1, <1>2 DEF ChildTerm, ChildDies, Typed

LEMMA EditTyped == ASSUME Typed, NEW v \in VM, Edit(v) PROVE Typed'
<1>1. faults' \in 0 .. MaxFaults
  BY FaultTyped DEF Edit
<1>2. QED
  BY <1>1 DEF Edit, Typed

LEMMA StepTyped == Typed /\ [Next]_vars => Typed'
<1> SUFFICES ASSUME Typed, [Next]_vars
             PROVE  Typed'
  OBVIOUS
<1>1. CASE Thread
  BY <1>1, ParseTyped, TruncateTyped, WriteTyped, RemoveTyped, VisitTyped, DecideTyped,
     EnterTyped, WalkEndsTyped, SilenceTyped, SurfacesTyped, SysExitTyped DEF Thread
<1>2. CASE Exited
  BY <1>2 DEF Exited, Typed
<1>3. CASE UNCHANGED vars
  BY <1>3 DEF vars, Typed
<1>4. QED
  BY <1>1, <1>2, <1>3, BeginTyped, PollTyped, StartTyped, SignalTyped,
     SignalAtBootTyped, ChildrenTyped, EditTyped DEF Next

LEMMA InitTyped == Init => Typed
BY FileValues, WaitingHolds, StepsAssumption
   DEF Init, Typed, Off, Dead, ChildRecord, Waiting, File

LEMMA AlwaysTyped == Spec => []Typed
BY InitTyped, StepTyped, PTL DEF Spec

-----------------------------------------------------------------------------
(* A command knows the file it is about to write over.  A walk on the way    *)
(* back to _vbmc_enabled, the truncation and the store itself come between    *)
(* the reading and the writing, and nothing else touches the file then.      *)
Current ==
    /\ main.at = "truncate" =>
          \/ file[main.vm] = main.bmc
          \/ main.op = "add" /\ file[main.vm] = Empty
    /\ main.at = "write" => file[main.vm] = Cut
    /\ main.at \in Walking /\ main.then = "again" => file[main.vm] = main.bmc

LEMMA WaitingFields == Waiting.at = "poll"
BY DEF Waiting

(* Where nothing of the file is remembered, nothing can be out of date.      *)
LEMMA Forgotten ==
    ASSUME main'.at \notin {"truncate", "write"} \cup Walking PROVE Current'
BY DEF Current

LEMMA SameMain == ASSUME Current, main' = main, file' = file PROVE Current'
BY DEF Current

LEMMA WalkFields ==
    ASSUME NEW t \in Main, NEW then
    PROVE  /\ Walk(t, then).at = "walk" /\ Walk(t, then).then = then
           /\ Walk(t, then).vm = t.vm /\ Walk(t, then).bmc = t.bmc
           /\ Walk(t, then).op = t.op /\ Walk(t, then).todo = Dirs
BY DEF Walk, Main

LEMMA EnableFields ==
    ASSUME NEW t \in Main
    PROVE  /\ Enable(t).vm = t.vm /\ Enable(t).bmc = t.bmc /\ Enable(t).op = t.op
           /\ \/ Enable(t).at = "truncate"
              \/ /\ Enable(t).at = "walk" /\ Enable(t).then = "done"
                 /\ Enable(t).todo = Dirs /\ t.bmc.active = (t.op = "start")
<1>1. CASE t.bmc.active = (t.op = "start")
  BY <1>1, WalkFields DEF Enable
<1>2. CASE t.bmc.active # (t.op = "start")
  BY <1>2 DEF Enable, Main
<1>3. QED
  BY <1>1, <1>2

LEMMA ExitForgets == ASSUME Exit PROVE Current'
BY Forgotten, WaitingFields DEF Exit, Walking

LEMMA ParseCurrent == ASSUME Typed, Parse PROVE Current'
<1>1. main.op \in Commands /\ main.vm \in VM /\ Holds(main) /\ main \in Main
  BY DEF Typed, Holds, Parse, At, Walking
<1> DEFINE t == [main EXCEPT !.bmc = file[main.vm]]
<1>2. t \in Main /\ t.vm = main.vm /\ t.bmc = file[main.vm]
  BY <1>1 DEF Main, Typed
<1>3. /\ main' = IF file[main.vm].st # "ok" THEN Fail(main)
                 ELSE IF main.op = "start" /\ running[main.vm] # None
                 THEN Walk(t, "again") ELSE Enable(t)
      /\ file' = file
  BY DEF Parse
<1> HIDE DEF t
<1>4. CASE file[main.vm].st # "ok"
  BY <1>1, <1>3, <1>4, FailHolds, Forgotten
<1>5. CASE file[main.vm].st = "ok" /\ main' = Walk(t, "again")
  BY <1>2, <1>3, <1>5, WalkFields DEF Current
<1>6. CASE file[main.vm].st = "ok" /\ main' = Enable(t)
  BY <1>2, <1>3, <1>6, EnableFields DEF Current
<1>7. QED
  BY <1>3, <1>4, <1>5, <1>6

LEMMA ThreadCurrent == ASSUME Typed, Current, Thread PROVE Current'
<1>1. main \in Main
  BY DEF Typed, Holds
<1>2. CASE Truncate
  <2>1. main.op \in Commands /\ main.vm \in VM /\ Holds(main)
    BY <1>2 DEF Typed, Holds, Truncate, At, Walking
  <2>2. CASE file[main.vm] = NoDir
    BY <1>2, <2>1, <2>2, FailHolds, Forgotten DEF Truncate
  <2>3. CASE file[main.vm] # NoDir
    <3>1. main' = [main EXCEPT !.at = "write"] /\ file' = [file EXCEPT ![main.vm] = Cut]
      BY <1>2, <2>3 DEF Truncate
    <3>2. main'.at = "write" /\ main'.vm = main.vm
      BY <1>1, <3>1 DEF Main
    <3>3. QED
      BY <2>1, <3>1, <3>2 DEF Current, Typed, Walking
  <2>4. QED
    BY <2>2, <2>3
<1>3. CASE Write
  BY <1>1, <1>3, WalkFields, Forgotten, WaitingFields DEF Write, Current, Walking
<1>4. CASE Remove
  <2>1. main'.at \in {"poll", "remove"}
    BY <1>1, <1>4, WaitingFields DEF Remove, At
  <2>2. QED
    BY <2>1, Forgotten DEF Walking
<1>5. ASSUME NEW n \in VM, Visit(n)
      PROVE  Current'
  <2>1. CASE Exit
    BY <2>1, ExitForgets
  <2>2. CASE file[n] # Cut
    <3>1. main'.vm = main.vm /\ main'.bmc = main.bmc /\ main'.then = main.then
          /\ main'.at \in {"decide", "walk"} /\ file' = file /\ main.at = "walk"
      BY <1>1, <1>5, <2>2 DEF Visit, At, Main
    <3>2. QED
      BY <3>1 DEF Current, Walking
  <2>3. QED
    BY <1>5, <2>1, <2>2 DEF Visit
<1>6. CASE Decide
  <2>1. file' = file /\ main.at = "decide"
    BY <1>6 DEF Decide, At
  <2>2. \/ \E q \in Pid : main' = [main EXCEPT !.at = "enter", !.kid = q]
        \/ \E at \in {"walk", "drop"} : main' = [main EXCEPT !.at = at]
    BY <1>6, DecideMain
  <2>3. main'.vm = main.vm /\ main'.bmc = main.bmc /\ main'.then = main.then
        /\ main'.at \in Walking
    BY <1>1, <2>2 DEF Main, Walking
  <2>4. QED
    BY <2>1, <2>3 DEF Current, Walking
<1>7. CASE Enter
  <2>1. main'.vm = main.vm /\ main'.bmc = main.bmc /\ main'.then = main.then
        /\ main'.at = "walk" /\ file' = file /\ main.at \in {"enter", "drop"}
    BY <1>1, <1>7 DEF Enter, At, Main
  <2>2. QED
    BY <2>1 DEF Current, Walking
<1>8. CASE WalkEnds
  <2>1. file' = file /\ main.at = "walk"
    BY <1>8 DEF WalkEnds, At
  <2>2. main' = Waiting \/ (main.then = "again" /\ main' = Enable(main))
        \/ main' = [main EXCEPT !.at = "remove"]
    BY <1>8 DEF WalkEnds
  <2>3. CASE main' = Waiting
    BY <2>3, Forgotten, WaitingFields DEF Walking
  <2>4. CASE main.then = "again" /\ main' = Enable(main)
    BY <1>1, <2>1, <2>4, EnableFields DEF Current, Walking
  <2>5. CASE main' = [main EXCEPT !.at = "remove"]
    <3>1. main'.at = "remove"
      BY <1>1, <2>5 DEF Main
    <3>2. QED
      BY <3>1, Forgotten DEF Walking
  <2>6. QED
    BY <2>2, <2>3, <2>4, <2>5
<1>9. ASSUME NEW n \in VM, Silence(n)
      PROVE  Current'
  BY <1>9, SameMain DEF Silence
<1>10. ASSUME NEW n \in VM, Surfaces(n)
       PROVE  Current'
  <2>1. CASE main.at \in {"parse", "truncate", "write"} /\ main' = Fail(main)
    <3>1. main.op \in Commands /\ main.vm \in VM /\ Holds(main)
      BY <2>1 DEF Typed, Holds, Walking
    <3>2. QED
      BY <2>1, <3>1, FailHolds, Forgotten
  <2>2. QED
    BY <1>10, <2>1, ExitForgets DEF Surfaces
<1>11. CASE SysExit
  BY <1>11, ExitForgets DEF SysExit
<1>12. QED
  BY <1>2, <1>3, <1>4, <1>5, <1>6, <1>7, <1>8, <1>9, <1>10, <1>11, ParseCurrent DEF Thread

LEMMA StepCurrent ==
    ASSUME "race" \notin FaultKinds
    PROVE  Typed /\ Current /\ [Next]_vars => Current'
<1> SUFFICES ASSUME Typed, Current, [Next]_vars
             PROVE  Current'
  OBVIOUS
<1>1. ASSUME NEW op \in Ops, NEW v \in VM, Begin(op, v)
      PROVE  Current'
  <2>1. Waiting \in Main
    BY WaitingHolds DEF Holds
  <2>2. CASE op = "add"
    <3>1. PICK o \in Option : main' = [Task(op, v) EXCEPT !.at = "truncate",
                                                        !.bmc = Stored(FALSE, o)]
      BY <1>1, <2>2 DEF Begin
    <3>2. main'.at = "truncate" /\ main'.op = "add" /\ main'.vm = v
      BY <2>1, <2>2, <3>1 DEF Task, Main
    <3>3. file' = [file EXCEPT ![v] = Empty]
      BY <1>1, <2>2 DEF Begin
    <3>4. QED
      BY <3>2, <3>3 DEF Current, Typed, Walking
  <2>3. CASE op # "add"
    <3>1. main' = Task(op, v)
      BY <1>1, <2>3 DEF Begin
    <3>2. main'.at = "parse"
      BY <2>1, <3>1 DEF Task, Main
    <3>3. QED
      BY <3>2, Forgotten DEF Walking
  <2>4. QED
    BY <2>2, <2>3
<1>2. CASE Poll \/ Start
  <2>1. main'.at = "walk" /\ main'.then = "done"
    BY <1>2, PassHolds DEF Poll, Start
  <2>2. QED
    BY <2>1 DEF Current
<1>3. CASE Exited \/ Signal
  BY <1>3, SameMain DEF Exited, Signal
<1>4. CASE SignalAtBoot
  BY <1>4, Forgotten, WaitingFields DEF SignalAtBoot, Walking
<1>5. ASSUME NEW p \in Pid, ChildTerm(p) \/ ChildDies(p)
      PROVE  Current'
  BY <1>5, SameMain DEF ChildTerm, ChildDies
<1>6. ASSUME NEW v \in VM, Edit(v)
      PROVE  Current'
  <2>1. main'.at = "poll"
    BY <1>6, WaitingFields DEF Edit, Fault, Typed
  <2>2. QED
    BY <2>1, Forgotten DEF Walking
<1>7. CASE UNCHANGED vars
  BY <1>7, SameMain DEF vars
<1>8. QED
  BY <1>1, <1>2, <1>3, <1>4, <1>5, <1>6, <1>7, ThreadCurrent DEF Next

LEMMA AlwaysCurrent == ASSUME "race" \notin FaultKinds PROVE Spec => []Current
<1>1. Init => Current
  BY WaitingFields DEF Init, Current, Walking
<1>2. QED
  BY <1>1, StepCurrent, AlwaysTyped, PTL DEF Spec

-----------------------------------------------------------------------------
(* No file is found truncated but by the thread that is about to write it,   *)
(* as long as no signal comes between the two.                               *)
Whole ==
    /\ \A v \in VM : file[v] = Cut => main.at = "write" /\ main.vm = v
    /\ handler.on => main.at # "write"

LEMMA Distinct ==
    /\ NoDir # Cut /\ Empty # Cut /\ Empty # NoDir /\ Cut # NoDir
    /\ \A a, o : Stored(a, o) \notin {Cut, NoDir, Empty}
BY DEF NoDir, Empty, Cut, Stored

LEMMA NothingCut ==
    ASSUME Whole, main.at # "write", file' = file, handler'.on => main'.at # "write"
    PROVE  Whole'
BY DEF Whole

LEMMA ThreadWhole == ASSUME Typed, Whole, Thread PROVE Whole'
<1>1. main \in Main
  BY DEF Typed, Holds
<1>2. CASE Truncate
  <2>1. main.at = "truncate" /\ main.vm \in VM /\ ~handler.on /\ handler' = handler
    BY <1>2 DEF Truncate, At, Typed, Holds, Walking
  <2>2. CASE file[main.vm] = NoDir
    BY <1>2, <2>1, <2>2, NothingCut DEF Truncate
  <2>3. CASE file[main.vm] # NoDir
    <3>1. main' = [main EXCEPT !.at = "write"] /\ file' = [file EXCEPT ![main.vm] = Cut]
      BY <1>2, <2>3 DEF Truncate
    <3>2. main'.at = "write" /\ main'.vm = main.vm
      BY <1>1, <3>1 DEF Main
    <3>3. QED
      BY <2>1, <3>1, <3>2 DEF Whole, Typed
  <2>4. QED
    BY <2>2, <2>3
<1>3. CASE Write
  <2>1. ~handler.on /\ handler' = handler
        /\ file' = [file EXCEPT ![main.vm] = Stored(main.op = "start", main.bmc.opt)]
    BY <1>3 DEF Write, At
  <2>2. QED
    BY <2>1, Distinct DEF Whole, Typed
<1>4. CASE Remove
  <2>1. ~handler.on /\ handler' = handler /\ main.at # "write"
        /\ (file' = [file EXCEPT ![main.vm] = NoDir]
              \/ file' = [file EXCEPT ![main.vm] = Empty])
    BY <1>4 DEF Remove, At
  <2>2. QED
    BY <2>1, Distinct DEF Whole, Typed
<1>5. CASE Parse \/ Decide \/ Enter \/ WalkEnds
  <2>1. main.at # "write" /\ file' = file /\ handler' = handler /\ ~handler.on
    BY <1>5 DEF Parse, Decide, Enter, WalkEnds, At
  <2>2. QED
    BY <2>1, NothingCut
<1>6. ASSUME NEW n \in VM, Visit(n)
      PROVE  Whole'
  <2>1. main.at # "write" /\ file' = file /\ ~handler'.on
    BY <1>6 DEF Visit, At, Exit, Off
  <2>2. QED
    BY <2>1, NothingCut
<1>7. ASSUME NEW n \in VM, Silence(n)
      PROVE  Whole'
  <2>1. main.at # "write" /\ file' = file /\ main' = main
    BY <1>7 DEF Silence, Whole
  <2>2. QED
    BY <2>1, NothingCut
<1>8. ASSUME NEW n \in VM, Surfaces(n)
      PROVE  Whole'
  BY <1>8 DEF Surfaces, Whole
<1>9. CASE SysExit
  <2>1. main.at # "write" /\ file' = file /\ ~handler'.on
    BY <1>9 DEF SysExit, Whole, Exit, Off
  <2>2. QED
    BY <2>1, NothingCut
<1>10. QED
  BY <1>2, <1>3, <1>4, <1>5, <1>6, <1>7, <1>8, <1>9 DEF Thread

LEMMA StepWhole ==
    ASSUME "store" \notin FaultKinds
    PROVE  Typed /\ Whole /\ [Next]_vars => Whole'
<1> SUFFICES ASSUME Typed, Whole, [Next]_vars
             PROVE  Whole'
  OBVIOUS
<1>1. ASSUME NEW op \in Ops, NEW v \in VM, Begin(op, v)
      PROVE  Whole'
  <2>1. main.at # "write" /\ ~handler.on /\ handler' = handler
        /\ (file' = file \/ file' = [file EXCEPT ![v] = Empty])
    BY <1>1 DEF Begin, At
  <2>2. QED
    BY <2>1, Distinct DEF Whole, Typed
<1>2. CASE Poll \/ Start
  <2>1. main.at # "write" /\ file' = file /\ ~handler'.on
    BY <1>2, WaitingFields DEF Poll, Start, At, Typed
  <2>2. QED
    BY <2>1, NothingCut
<1>3. CASE Signal
  <2>1. main.at # "write" /\ file' = file /\ main' = main
    BY <1>3 DEF Signal, Fault
  <2>2. QED
    BY <2>1, NothingCut
<1>4. CASE SignalAtBoot
  <2>1. main.at # "write" /\ file' = file /\ handler' = handler /\ ~handler.on
    BY <1>4 DEF SignalAtBoot, Typed, Walking
  <2>2. QED
    BY <2>1, NothingCut
<1>5. ASSUME NEW v \in VM, Edit(v)
      PROVE  Whole'
  BY <1>5 DEF Edit, Whole, Typed
<1>6. CASE UNCHANGED <<file, main, handler>>
  BY <1>6 DEF Whole
<1>7. QED
  <2>1. Exited \/ UNCHANGED vars => UNCHANGED <<file, main, handler>>
    BY DEF Exited, vars
  <2>2. \A p \in Pid : ChildTerm(p) \/ ChildDies(p) => UNCHANGED <<file, main, handler>>
    BY DEF ChildTerm, ChildDies
  <2>3. QED
    BY <1>1, <1>2, <1>3, <1>4, <1>5, <1>6, <2>1, <2>2, ThreadWhole DEF Next

(* Every variable keeps its type, and a walk, be it of a command, a pass or  *)
(* the handler, never meets the file a command is rewriting, as long as no   *)
(* SIGTERM comes between the truncation and the store.                       *)
THEOREM TypeCorrect == ASSUME "store" \notin FaultKinds PROVE Spec => []TypeOK
<1>1. Init => Whole
  BY Distinct DEF Init, Whole, Off, File
<1>2. Typed /\ Whole => TypeOK
  <2> SUFFICES ASSUME Typed, Whole
               PROVE  TypeOK
    OBVIOUS
  <2>1. main \in Main
    BY DEF Typed, Holds
  <2>2. QED
    BY <2>1 DEF Typed, Whole, TypeOK, Main, ChildRecord
<1>3. QED
  BY <1>1, <1>2, StepWhole, AlwaysTyped, PTL DEF Spec

-----------------------------------------------------------------------------
(* Every child at work is the one its name has in _running_vms, or is about  *)
(* to be entered there; and while an entry is being made or dropped nothing  *)
(* else works for that name.                                                 *)
Known ==
    /\ \A p \in Pid : Working(p) =>
          \/ running[child[p].vm] = p
          \/ main.at = "enter" /\ main.kid = p /\ main.n = child[p].vm
    /\ main.at \in {"enter", "drop"} =>
          \A p \in Pid : Working(p) /\ child[p].vm = main.n =>
             main.at = "enter" /\ main.kid = p

(* While stop walks, its name is stored as inactive, and is still to come in *)
(* the walk, or just being dropped, or silent.                               *)
Stopping ==
    main.at \in Walking /\ main.op = "stop" =>
       /\ file[main.vm].st = "ok" /\ ~file[main.vm].active
       /\ main.at = "decide" /\ main.n = main.vm => ~main.cfg.active
       /\ main.at = "enter" => main.n # main.vm
       /\ \/ main.vm \in main.todo
          \/ main.at \in {"decide", "drop"} /\ main.n = main.vm
          \/ \A p \in Pid : Working(p) => child[p].vm # main.vm

Orderly == Known /\ Stopping

NoNewWork == \A p \in Pid : Working(p)' => Working(p) /\ child'[p].vm = child[p].vm

LEMMA FewerOrderly ==
    ASSUME Orderly, NoNewWork, UNCHANGED <<file, running, main>> PROVE Orderly'
BY DEF Orderly, NoNewWork, Known, Stopping

LEMMA SameWork == ASSUME UNCHANGED child PROVE NoNewWork
BY DEF NoNewWork, Working

LEMMA ToldWork ==
    ASSUME Typed, NEW q \in Pid,
           child' = [child EXCEPT ![q] = [child[q] EXCEPT !.term = TRUE]]
    PROVE  NoNewWork /\ ~Working(q)'
<1>1. /\ [child[q] EXCEPT !.term = TRUE].term
      /\ \A p \in Pid : p # q => child'[p] = child[p]
      /\ child'[q] = [child[q] EXCEPT !.term = TRUE]
  BY DEF Typed, ChildRecord, Dead
<1>2. QED
  BY <1>1 DEF NoNewWork, Working

(* Where the walk is not, or not yet.                                        *)
LEMMA IdleKnown ==
    ASSUME Known, main.at # "enter", main'.at \notin {"enter", "drop"},
           UNCHANGED <<child, running>>
    PROVE  Known'
BY DEF Known, Working

LEMMA IdleStopping ==
    ASSUME main'.at \notin Walking \/ main'.op # "stop" PROVE Stopping'
BY DEF Stopping

LEMMA SilentOrderly ==
    ASSUME \A p \in Pid : ~Working(p)', main'.at = "poll" PROVE Orderly'
BY DEF Orderly, Known, Stopping, Walking

LEMMA ExitOrderly == ASSUME Typed, Exit PROVE Orderly'
<1>1. ASSUME NEW p \in Pid PROVE ~Working(p)'
  <2>1. child[p].owned => [child[p] EXCEPT !.term = TRUE].term
    BY DEF Typed, ChildRecord, Dead
  <2>2. QED
    BY <2>1 DEF Exit, Working
<1>2. QED
  BY <1>1, SilentOrderly, WaitingFields DEF Exit

LEMMA DecideOrderly == ASSUME Typed, Orderly, Decide PROVE Orderly'
<1> DEFINE n == main.n
<1>1. /\ main \in Main /\ main.at = "decide" /\ n \in VM
      /\ file' = file /\ running' = running /\ None \notin Pid
      /\ \A p \in Pid : Working(p) => running[child[p].vm] = p
  BY StepsAssumption DEF Decide, At, Typed, Holds, Walking, Orderly, Known
<1>2. CASE main.cfg.active /\ ~Live(running[n])
  <2>1. PICK q \in Pid : /\ ~child[q].alive
                         /\ child' = [child EXCEPT ![q] = Forked(n)]
                         /\ main' = [main EXCEPT !.at = "enter", !.kid = q]
    BY <1>2 DEF Decide
  <2>2. /\ main'.at = "enter" /\ main'.kid = q /\ main'.n = n /\ main'.vm = main.vm
        /\ main'.op = main.op /\ main'.todo = main.todo
    BY <1>1, <2>1 DEF Main
  <2>3. /\ child'[q].vm = n
        /\ \A p \in Pid : p # q => child'[p] = child[p]
    BY <2>1 DEF Typed, Forked
  <2>4. \A p \in Pid : p # q => Working(p)' = Working(p)
    BY <2>3 DEF Working
  <2>5. \A p \in Pid : Working(p) => child[p].vm # n
    BY <1>1, <1>2 DEF Working, Live
  <2>6. Known'
    BY <1>1, <2>2, <2>3, <2>4, <2>5 DEF Known
  <2>7. Stopping'
    <3>1. SUFFICES ASSUME main.op = "stop" PROVE Stopping'
      BY <2>2, IdleStopping
    <3>2. n # main.vm /\ file[main.vm].st = "ok" /\ ~file[main.vm].active
      BY <1>1, <1>2, <3>1 DEF Orderly, Stopping, Walking
    <3>3. main.vm \in main.todo \/ \A p \in Pid : Working(p) => child[p].vm # main.vm
      BY <1>1, <3>1, <3>2 DEF Orderly, Stopping, Walking
    <3>4. main.vm \in main.todo
             \/ \A p \in Pid : Working(p)' => child'[p].vm # main.vm
      BY <2>3, <2>4, <3>2, <3>3
    <3>5. QED
      BY <1>1, <2>2, <3>2, <3>4 DEF Stopping
  <2>8. QED
    BY <2>6, <2>7 DEF Orderly
<1>3. CASE main.cfg.active /\ Live(running[n])
  <2>1. main' = [main EXCEPT !.at = "walk"] /\ child' = child
    BY <1>3 DEF Decide
  <2>2. /\ main'.at = "walk" /\ main'.n = n /\ main'.vm = main.vm
        /\ main'.op = main.op /\ main'.todo = main.todo
    BY <1>1, <2>1 DEF Main
  <2>3. QED
    BY <1>1, <1>3, <2>1, <2>2 DEF Orderly, Known, Stopping, Working, Walking
<1>4. CASE ~main.cfg.active
  <2>1. \A p \in Pid : Working(p)' =>
           Working(p) /\ child'[p].vm = child[p].vm /\ child[p].vm # n
    <3>1. CASE Live(running[n])
      <4>1. PICK q \in Pid : q = running[n]
        BY <1>1, <3>1 DEF Typed, Live
      <4>2. child' = [child EXCEPT ![q] = [child[q] EXCEPT !.term = TRUE]]
        BY <1>4, <3>1, <4>1 DEF Decide
      <4>3. NoNewWork /\ ~Working(q)'
        BY <4>2, ToldWork
      <4>4. QED
        BY <1>1, <4>1, <4>3 DEF NoNewWork
    <3>2. CASE ~Live(running[n])
      <4>1. child' = child
        BY <1>4, <3>2 DEF Decide
      <4>2. QED
        BY <1>1, <3>2, <4>1 DEF Working, Live
    <3>3. QED
      BY <3>1, <3>2
  <2>2. PICK at \in {"drop", "walk"} : main' = [main EXCEPT !.at = at]
    BY <1>4 DEF Decide
  <2>3. /\ main'.at = at /\ main'.n = n /\ main'.vm = main.vm
        /\ main'.op = main.op /\ main'.todo = main.todo
    BY <1>1, <2>2 DEF Main
  <2>4. Known'
    BY <1>1, <2>1, <2>3 DEF Known
  <2>5. Stopping'
    <3>1. CASE n = main.vm
      BY <1>1, <2>1, <2>3, <3>1 DEF Orderly, Stopping, Walking
    <3>2. CASE n # main.vm
      BY <1>1, <2>1, <2>3, <3>2 DEF Orderly, Stopping, Walking
    <3>3. QED
      BY <3>1, <3>2
  <2>6. QED
    BY <2>4, <2>5 DEF Orderly
<1>5. QED
  BY <1>2, <1>3, <1>4

LEMMA EnterOrderly == ASSUME Typed, Orderly, Enter PROVE Orderly'
<1> DEFINE n == main.n
<1>1. /\ main \in Main /\ main.at \in {"enter", "drop"} /\ n \in VM
      /\ file' = file /\ child' = child
  BY DEF Enter, At, Typed, Holds, Walking
<1>2. running' = [running EXCEPT ![n] = IF main.at = "enter" THEN main.kid ELSE None]
  BY DEF Enter
<1>3. /\ main'.at = "walk" /\ main'.n = n /\ main'.vm = main.vm
      /\ main'.op = main.op /\ main'.todo = main.todo
  BY <1>1 DEF Main, Enter
<1>4. \A p \in Pid : Working(p) => child[p].vm \in VM
  <2>1. \A r \in ChildRecord : r.alive => r.vm \in VM
    <3>1. Dead.alive = FALSE
      BY DEF Dead
    <3>2. QED
      BY <3>1 DEF ChildRecord
  <2>2. QED
    BY <2>1 DEF Working, Typed
<1>5. Known'
  <2>1. ASSUME NEW p \in Pid, Working(p) PROVE running'[child[p].vm] = p
    <3>1. CASE child[p].vm = n
      BY <1>1, <1>2, <2>1, <3>1 DEF Orderly, Known, Typed
    <3>2. CASE child[p].vm # n
      BY <1>1, <1>2, <1>4, <2>1, <3>2 DEF Orderly, Known, Typed
    <3>3. QED
      BY <3>1, <3>2
  <2>2. QED
    BY <1>1, <1>3, <2>1 DEF Known, Working
<1>6. Stopping'
  <2>1. SUFFICES ASSUME main.op = "stop" PROVE Stopping'
    BY <1>3, IdleStopping
  <2>2. \/ main.vm \in main.todo
        \/ main.at = "drop" /\ n = main.vm
        \/ \A p \in Pid : Working(p) => child[p].vm # main.vm
    BY <1>1, <2>1 DEF Orderly, Stopping, Walking
  <2>3. main.at = "drop" => \A p \in Pid : Working(p) => child[p].vm # n
    BY DEF Orderly, Known
  <2>4. file[main.vm].st = "ok" /\ ~file[main.vm].active
    BY <1>1, <2>1 DEF Orderly, Stopping, Walking
  <2>5. QED
    BY <1>1, <1>3, <2>2, <2>3, <2>4 DEF Stopping, Working
<1>7. QED
  BY <1>5, <1>6 DEF Orderly

LEMMA SilenceOrderly == ASSUME Typed, Orderly, NEW n \in VM, Silence(n) PROVE Orderly'
<1>1. file' = file /\ main' = main
  BY DEF Silence
<1>2. CASE file[n].st # "ok"
  BY <1>1, <1>2, SameWork, FewerOrderly DEF Silence
<1>3. CASE file[n].st = "ok"
  <2>1. running' = [running EXCEPT ![n] = None]
    BY <1>3 DEF Silence
  <2>2. NoNewWork /\ \A p \in Pid : Working(p)' => running[n] # p
    <3>1. CASE Live(running[n])
      <4>1. running[n] \in Pid
        BY <3>1 DEF Typed, Live
      <4>2. child' = [child EXCEPT ![running[n]] = [child[running[n]] EXCEPT !.term = TRUE]]
        BY <1>3, <3>1 DEF Silence
      <4>3. QED
        BY <4>1, <4>2, ToldWork
    <3>2. CASE ~Live(running[n])
      <4>1. child' = child
        BY <1>3, <3>2 DEF Silence
      <4>2. None \notin Pid
        BY StepsAssumption
      <4>3. QED
        BY <3>2, <4>1, <4>2, SameWork DEF Working, Live
    <3>3. QED
      BY <3>1, <3>2
  <2>3. \A p \in Pid : Working(p)' => running'[child[p].vm] = running[child[p].vm]
                                      \/ running[child[p].vm] # p
    BY <2>1, <2>2 DEF Typed
  <2>4. QED
    BY <1>1, <2>2, <2>3 DEF Orderly, Known, Stopping, NoNewWork
<1>4. QED
  BY <1>2, <1>3

(* The two ways stop comes to its walk: nothing to store, or just stored.    *)
LEMMA CommandOrderly ==
    ASSUME Typed, Orderly, Current, Parse \/ Truncate \/ Write \/ Remove PROVE Orderly'
<1>1. /\ main \in Main /\ main.op \in Commands /\ main.vm \in VM /\ Holds(main)
      /\ main.at \in {"parse", "truncate", "write", "remove"}
      /\ UNCHANGED <<child, running>>
  BY DEF Parse, Truncate, Write, Remove, At, Typed, Holds, Walking
<1>2. CASE Parse
  <2> DEFINE t == [main EXCEPT !.bmc = file[main.vm]]
  <2>1. t \in Main /\ t.vm = main.vm /\ t.bmc = file[main.vm] /\ t.op = main.op
    BY <1>1 DEF Main, Typed
  <2>2. /\ main' = IF file[main.vm].st # "ok" THEN Fail(main)
                   ELSE IF main.op = "start" /\ running[main.vm] # None
                   THEN Walk(t, "again") ELSE Enable(t)
        /\ file' = file
    BY <1>2 DEF Parse
  <2> HIDE DEF t
  <2>3. CASE file[main.vm].st # "ok"
    <3>1. main'.at \notin Walking
      BY <1>1, <2>2, <2>3, FailHolds
    <3>2. QED
      BY <1>1, <3>1, IdleKnown, IdleStopping DEF Orderly, Walking
  <2>4. CASE file[main.vm].st = "ok" /\ main.op = "start" /\ main' = Walk(t, "again")
    <3>1. main'.at = "walk" /\ main'.op # "stop"
      BY <2>1, <2>4, WalkFields
    <3>2. QED
      BY <1>1, <3>1, IdleKnown, IdleStopping DEF Orderly
  <2>5. CASE file[main.vm].st = "ok" /\ main' = Enable(t)
    <3>1. /\ main'.at \in {"truncate", "walk"} /\ main'.vm = main.vm
          /\ main'.op = main.op
          /\ main'.at = "walk" => /\ main'.todo = Dirs
                                 /\ file[main.vm].active = (main.op = "start")
      BY <2>1, <2>5, EnableFields
    <3>2. file[main.vm] # NoDir
      BY <2>5 DEF NoDir
    <3>3. main.vm \in Dirs
      BY <1>1, <3>2 DEF Dirs
    <3>4. Stopping'
      <4>1. CASE main'.at = "walk" /\ main'.op = "stop"
        <5>1. file[main.vm].active = FALSE /\ file' = file
          BY <2>2, <3>1, <4>1
        <5>2. QED
          BY <2>5, <3>1, <3>3, <4>1, <5>1 DEF Stopping
      <4>2. QED
        BY <3>1, <4>1, IdleStopping DEF Walking
    <3>5. QED
      BY <1>1, <3>1, <3>4, IdleKnown DEF Orderly
  <2>6. QED
    BY <2>2, <2>3, <2>4, <2>5
<1>3. CASE Write
  <2>1. file[main.vm] = Cut /\ file' = [file EXCEPT ![main.vm] =
                                  Stored(main.op = "start", main.bmc.opt)]
    BY <1>3 DEF Write, At, Current
  <2>2. main.vm \in Dirs
    BY <1>1, <2>1, Distinct DEF Dirs
  <2>3. CASE main.op = "stop"
    <3>1. main' = Walk(main, "done")
      BY <1>3, <2>3 DEF Write
    <3>2. main'.at = "walk" /\ main'.vm = main.vm /\ main'.todo = Dirs
      BY <1>1, <3>1, WalkFields
    <3>3. file'[main.vm].st = "ok" /\ ~file'[main.vm].active
      BY <1>1, <2>1, <2>3 DEF Typed, Stored
    <3>4. Stopping'
      BY <2>2, <3>2, <3>3 DEF Stopping
    <3>5. QED
      BY <1>1, <3>2, <3>4, IdleKnown DEF Orderly
  <2>4. CASE main.op # "stop"
    <3>1. main'.at \in {"poll", "walk"} /\ (main'.at = "walk" => main'.op # "stop")
      BY <1>1, <1>3, <2>4, WalkFields, WaitingFields DEF Write
    <3>2. QED
      BY <1>1, <3>1, IdleKnown, IdleStopping DEF Orderly, Walking
  <2>5. QED
    BY <2>3, <2>4
<1>4. CASE Truncate \/ Remove
  <2>1. main'.at \in {"write", "poll", "remove", "parse"}
    <3>1. CASE Truncate
      <4>1. Fail(main).at \in {"poll", "remove", "parse"}
        BY <1>1, FailHolds
      <4>2. main' = Fail(main) \/ main' = [main EXCEPT !.at = "write"]
        BY <3>1 DEF Truncate
      <4>3. QED
        BY <1>1, <4>1, <4>2 DEF Main
    <3>2. CASE Remove
      BY <3>2, WaitingFields DEF Remove, At
    <3>3. QED
      BY <1>4, <3>1, <3>2
  <2>2. QED
    BY <1>1, <2>1, IdleKnown, IdleStopping DEF Orderly, Walking
<1>5. QED
  BY <1>2, <1>3, <1>4

LEMMA ThreadOrderly == ASSUME Typed, Orderly, Current, Thread PROVE Orderly'
<1>1. main \in Main
  BY DEF Typed, Holds
<1>2. ASSUME NEW n \in VM, Visit(n)
      PROVE  Orderly'
  <2>1. CASE Exit
    BY <2>1, ExitOrderly
  <2>2. CASE file[n] # Cut
    <3>1. /\ main.at = "walk" /\ UNCHANGED <<file, running, child>>
          /\ main' = [main EXCEPT !.todo = @ \ {n}, !.n = n, !.cfg = file[n],
                           !.at = IF file[n].st = "ok" THEN "decide" ELSE "walk"]
      BY <1>2, <2>2 DEF Visit, At
    <3>2. /\ main'.vm = main.vm /\ main'.op = main.op /\ main'.n = n
          /\ main'.todo = main.todo \ {n} /\ main'.cfg = file[n]
          /\ main'.at = IF file[n].st = "ok" THEN "decide" ELSE "walk"
      BY <1>1, <3>1 DEF Main
    <3>3. Known'
      BY <3>1, <3>2, IdleKnown DEF Orderly
    <3>4. Stopping'
      BY <3>1, <3>2 DEF Orderly, Stopping, Walking, Working
    <3>5. QED
      BY <3>3, <3>4 DEF Orderly
  <2>3. QED
    BY <1>2, <2>1, <2>2 DEF Visit
<1>3. CASE WalkEnds
  <2>1. /\ main.at = "walk" /\ UNCHANGED <<file, running, child>>
        /\ main.then = "again" => main.op = "start"
    BY <1>3 DEF WalkEnds, At, Typed, Holds, Walking
  <2>2. \/ main' = Waiting
        \/ main.then = "again" /\ main' = Enable(main)
        \/ main' = [main EXCEPT !.at = "remove"]
    BY <1>3 DEF WalkEnds
  <2>3. \/ main'.at \in {"poll", "remove"}
        \/ main'.at \in {"truncate", "walk"} /\ main'.op # "stop"
    BY <1>1, <2>1, <2>2, WaitingFields, EnableFields DEF Main
  <2>4. QED
    BY <2>1, <2>3, IdleKnown, IdleStopping DEF Orderly, Walking
<1>4. ASSUME NEW n \in VM, Surfaces(n)
      PROVE  Orderly'
  <2>1. CASE Exit
    BY <2>1, ExitOrderly
  <2>2. CASE /\ main.at \in {"parse", "truncate", "write"}
             /\ main' = Fail(main) /\ UNCHANGED <<running, child>>
    <3>1. main.op \in Commands /\ main.vm \in VM /\ Holds(main)
      BY <2>2 DEF Typed, Holds, Walking
    <3>2. main'.at \notin Walking
      BY <2>2, <3>1, FailHolds
    <3>3. QED
      BY <2>2, <3>2, IdleKnown, IdleStopping DEF Orderly, Walking
  <2>3. QED
    BY <1>4, <2>1, <2>2 DEF Surfaces
<1>5. CASE SysExit
  BY <1>5, ExitOrderly DEF SysExit
<1>6. QED
  BY <1>2, <1>3, <1>4, <1>5, CommandOrderly, DecideOrderly, EnterOrderly,
     SilenceOrderly DEF Thread

LEMMA StepOrderly ==
    ASSUME "race" \notin FaultKinds
    PROVE  Typed /\ Current /\ Orderly /\ [Next]_vars => Orderly'
<1> SUFFICES ASSUME Typed, Current, Orderly, [Next]_vars
             PROVE  Orderly'
  OBVIOUS
<1>1. ASSUME NEW op \in Ops, NEW v \in VM, Begin(op, v)
      PROVE  Orderly'
  <2>1. Waiting \in Main
    BY WaitingHolds DEF Holds
  <2>2. main'.at \in {"truncate", "parse"}
    BY <1>1, <2>1 DEF Begin, Task, Main
  <2>3. main.at = "poll" /\ UNCHANGED <<child, running>>
    BY <1>1 DEF Begin, At
  <2>4. QED
    BY <2>2, <2>3, IdleKnown, IdleStopping DEF Orderly, Walking
<1>2. CASE Poll \/ Start
  <2>1. main.at = "poll" /\ UNCHANGED <<child, running>>
    BY <1>2, WaitingFields DEF Poll, Start, At, Typed
  <2>2. main'.at = "walk" /\ main'.op = "pass"
    <3>1. Waiting \in Main
      BY WaitingHolds DEF Holds
    <3>2. QED
      BY <1>2, <3>1 DEF Poll, Start, Walk, Main
  <2>3. QED
    BY <2>1, <2>2, IdleKnown, IdleStopping DEF Orderly
<1>3. CASE Exited \/ Signal \/ UNCHANGED vars
  BY <1>3, SameWork, FewerOrderly DEF Exited, Signal, vars
<1>4. CASE SignalAtBoot
  <2>1. ASSUME NEW p \in Pid PROVE ~Working(p)'
    <3>1. ~[child[p] EXCEPT !.owned = FALSE].owned
      BY DEF Typed, ChildRecord, Dead
    <3>2. QED
      BY <1>4, <3>1 DEF SignalAtBoot, Working
  <2>2. QED
    BY <1>4, <2>1, SilentOrderly, WaitingFields DEF SignalAtBoot
<1>5. ASSUME NEW p \in Pid, ChildTerm(p) \/ ChildDies(p)
      PROVE  Orderly'
  <2>1. child' = [child EXCEPT ![p] = Dead] /\ UNCHANGED <<file, running, main>>
    BY <1>5 DEF ChildTerm, ChildDies, Die
  <2>2. Dead.alive = FALSE
    BY DEF Dead
  <2>3. NoNewWork
    BY <2>1, <2>2 DEF NoNewWork, Working, Typed
  <2>4. QED
    BY <2>1, <2>3, FewerOrderly
<1>6. ASSUME NEW v \in VM, Edit(v)
      PROVE  Orderly'
  <2>1. main.at = "poll" /\ main' = main /\ UNCHANGED <<child, running>>
    BY <1>6, WaitingFields DEF Edit, Fault, Typed
  <2>2. QED
    BY <2>1, IdleKnown, IdleStopping DEF Orderly, Walking
<1>7. QED
  BY <1>1, <1>2, <1>3, <1>4, <1>5, <1>6, ThreadOrderly DEF Next

LEMMA AlwaysOrderly == ASSUME "race" \notin FaultKinds PROVE Spec => []Orderly
<1>1. Init => Orderly
  BY WaitingFields DEF Init, Orderly, Known, Stopping, Walking, Working, Dead
<1>2. QED
  BY <1>1, StepOrderly, AlwaysTyped, AlwaysCurrent, PTL DEF Spec

(* A stop that answers 0 has silenced its name, for any number of BMCs in    *)
(* the walk it makes, children that die in it and signals on top of it.      *)
THEOREM StopsSilence == ASSUME "race" \notin FaultKinds PROVE Spec => StopSilences
<1>1. ASSUME Typed, Orderly, Next,
             main.op = "stop", main.at = "walk", main' = Waiting, daemon' = "up"
      PROVE  \A p \in Pid : Working(p)' => child'[p].vm # main.vm
  <2>1. main # Waiting /\ main'.at = "poll"
    BY <1>1, WaitingFields
  <2>2. CASE WalkEnds
    <3>1. main.todo = {} /\ child' = child
      BY <2>2 DEF WalkEnds
    <3>2. QED
      BY <1>1, <3>1 DEF Orderly, Stopping, Walking, Working
  <2>3. ASSUME NEW n \in VM, Visit(n)
        PROVE  FALSE
    <3>1. main \in Main
      BY <1>1 DEF Typed, Holds
    <3>2. CASE Exit
      BY <1>1, <3>2 DEF Exit
    <3>3. CASE file[n] # Cut
      BY <2>1, <2>3, <3>1, <3>3 DEF Visit, Main
    <3>4. QED
      BY <2>3, <3>2, <3>3 DEF Visit
  <2>4. ASSUME NEW n \in VM, Silence(n) \/ Surfaces(n)
        PROVE  FALSE
    BY <1>1, <2>1, <2>4 DEF Silence, Surfaces, Exit
  <2>5. ~(Parse \/ Truncate \/ Write \/ Remove \/ Decide \/ Enter \/ Poll)
    BY <1>1 DEF Parse, Truncate, Write, Remove, Decide, Enter, Poll, At
  <2>6. ~SysExit /\ ~Exited /\ ~Signal /\ ~SignalAtBoot
    <3>1. ~SysExit
      BY <1>1 DEF SysExit, Exit
    <3>2. ~Exited /\ ~Signal
      BY <1>1, <2>1 DEF Exited, Signal
    <3>3. ~SignalAtBoot
      BY <1>1 DEF SignalAtBoot
    <3>4. QED
      BY <3>1, <3>2, <3>3
  <2>7. ~Start /\ ~\E op \in Ops, v \in VM : Begin(op, v)
    <3>1. ~Start
      BY <1>1, WaitingFields DEF Start, Typed
    <3>2. QED
      BY <1>1, <3>1 DEF Begin, At
  <2>8. ~\E p \in Pid : ChildTerm(p) \/ ChildDies(p)
    BY <1>1, <2>1 DEF ChildTerm, ChildDies
  <2>9. ~\E v \in VM : Edit(v)
    BY <1>1, <2>1 DEF Edit
  <2>10. QED
    BY <1>1, <2>2, <2>3, <2>4, <2>5, <2>6, <2>7, <2>8, <2>9 DEF Next, Thread
<1>2. Typed /\ Orderly /\ [Next]_vars =>
         [main.op = "stop" /\ main.at = "walk" /\ main' = Waiting /\ daemon' = "up" =>
              \A p \in Pid : Working(p)' => child'[p].vm # main.vm]_vars
  BY <1>1
<1>3. QED
  BY <1>2, AlwaysTyped, AlwaysOrderly, PTL DEF Spec, StopSilences

-----------------------------------------------------------------------------
(* What the refinement needs beyond that.  A decision is taken on what the   *)
(* file still says, and once for each name of a walk.                        *)
Fresh == {"decide", "enter", "drop"}

Reading ==
    /\ main.at = "decide" => main.cfg = file[main.n] /\ main.cfg.st = "ok"
    /\ main.at \in Fresh => main.n \notin main.todo

(* A handle in _running_vms, if it stands for a process, stands for one of   *)
(* that name; so does the one about to be entered.                           *)
Linked ==
    /\ \A v \in VM : Live(running[v]) => child[running[v]].vm = v
    /\ main.at = "enter" =>
          /\ child[main.kid].alive => child[main.kid].vm = main.n
          /\ \A v \in VM \ {main.n} : running[v] # main.kid

Own(p) == child[p].alive /\ child[p].owned

(* A daemon that is not up has nothing in _running_vms; one that is starting *)
(* has children for active names only, none told to stop, and _running_vms   *)
(* names only what the first walk has passed.                                *)
Booting ==
    /\ daemon \in {"down", "exiting"} => \A v \in VM : running[v] = None
    /\ daemon = "down" => \A p \in Pid : ~Own(p)
    /\ daemon = "starting" =>
          /\ \A p \in Pid : Own(p) => /\ ~child[p].term
                                      /\ EntryOf(file[child[p].vm]) = "on"
          /\ \A v \in VM : running[v] # None =>
                v \notin main.todo /\ ~(main.at = "decide" /\ main.n = v)

Settled == Reading /\ Linked /\ Booting

(* What a step makes of where the main thread is.                            *)
LEMMA MainMoves ==
    ASSUME Typed, Next, "race" \notin FaultKinds
    PROVE  \/ main' = main /\ (file' = file \/ main.at = "poll")
           \/ main'.at \notin Fresh
           \/ Decide
           \/ \E n \in VM : Visit(n) /\ file[n] # Cut
<1>1. main \in Main /\ Waiting \in Main
  BY WaitingHolds DEF Typed, Holds
<1>2. Waiting.at \notin Fresh /\ "walk" \notin Fresh
  BY WaitingFields DEF Fresh
<1>3. ASSUME NEW op \in Ops, NEW v \in VM, Begin(op, v)
      PROVE  main'.at \notin Fresh
  BY <1>1, <1>3 DEF Begin, Task, Main, Fresh
<1>4. Poll \/ Start => main'.at \notin Fresh
  BY <1>2, PassHolds DEF Poll, Start
<1>5. ASSUME Parse PROVE main'.at \notin Fresh
  <2> DEFINE t == [main EXCEPT !.bmc = file[main.vm]]
  <2>1. main.op \in Commands /\ main.vm \in VM /\ Holds(main)
    BY <1>5 DEF Typed, Holds, Parse, At, Walking
  <2>2. t \in Main
    BY <1>1, <2>1 DEF Main, Typed
  <2>3. Fail(main).at \notin Fresh
    BY <2>1, FailHolds DEF Fresh, Walking
  <2>4. main' \in {Fail(main), Walk(t, "again"), Enable(t)}
    BY <1>5 DEF Parse
  <2> HIDE DEF t
  <2>5. Enable(t).at \notin Fresh /\ Walk(t, "again").at \notin Fresh
    BY <2>2, WalkFields, EnableFields DEF Fresh
  <2>6. QED
    BY <2>3, <2>4, <2>5
<1>6. ASSUME Truncate \/ Write \/ Remove PROVE main'.at \notin Fresh
  <2>1. main.op \in Commands /\ main.vm \in VM /\ Holds(main)
        /\ main.at \in {"truncate", "write", "remove"}
    BY <1>6 DEF Typed, Holds, Truncate, Write, Remove, At, Walking
  <2>2. Fail(main).at \notin Fresh /\ Walk(main, "done").at \notin Fresh
    BY <1>1, <2>1, FailHolds, WalkFields DEF Fresh, Walking
  <2>3. [main EXCEPT !.at = "write"].at \notin Fresh /\ main.at \notin Fresh
    BY <1>1, <2>1 DEF Main, Fresh
  <2>4. main' \in {Fail(main), Walk(main, "done"), Waiting, main,
                   [main EXCEPT !.at = "write"]}
    BY <1>6 DEF Truncate, Write, Remove
  <2>5. QED
    BY <1>2, <2>2, <2>3, <2>4
<1>7. Enter => main'.at \notin Fresh
  BY <1>1 DEF Enter, Main, Fresh
<1>8. ASSUME WalkEnds PROVE main'.at \notin Fresh
  <2>1. main' \in {Waiting, Enable(main), [main EXCEPT !.at = "remove"]}
    BY <1>8 DEF WalkEnds
  <2>2. Enable(main).at \notin Fresh /\ [main EXCEPT !.at = "remove"].at \notin Fresh
    BY <1>1, EnableFields DEF Fresh, Main
  <2>3. QED
    BY <1>2, <2>1, <2>2
<1>9. Exit \/ SignalAtBoot => main'.at \notin Fresh
  BY <1>2 DEF Exit, SignalAtBoot
<1>10. ASSUME NEW n \in VM, Surfaces(n) PROVE main'.at \notin Fresh
  <2>1. CASE main.at \in {"parse", "truncate", "write"} /\ main' = Fail(main)
    <3>1. main.op \in Commands /\ main.vm \in VM /\ Holds(main)
      BY <2>1 DEF Typed, Holds, Walking
    <3>2. QED
      BY <2>1, <3>1, FailHolds DEF Fresh, Walking
  <2>2. QED
    BY <1>9, <1>10, <2>1 DEF Surfaces
<1>11. ASSUME NEW v \in VM, Edit(v) PROVE main' = main /\ main.at = "poll"
  BY <1>11, WaitingFields DEF Edit, Fault, Typed
<1>12. /\ Exited \/ Signal => main' = main /\ file' = file
       /\ \A p \in Pid : ChildTerm(p) \/ ChildDies(p) => main' = main /\ file' = file
       /\ \A n \in VM : Silence(n) => main' = main /\ file' = file
  BY DEF Exited, Signal, ChildTerm, ChildDies, Silence
<1>13. SysExit => Exit
  BY DEF SysExit
<1>14. \A n \in VM : Visit(n) => Exit \/ file[n] # Cut
  BY DEF Visit
<1>15. Thread => \/ main' = main /\ file' = file
                 \/ main'.at \notin Fresh \/ Decide
                 \/ \E n \in VM : Visit(n) /\ file[n] # Cut
  BY <1>5, <1>6, <1>7, <1>8, <1>9, <1>10, <1>12, <1>13, <1>14 DEF Thread
<1>16. QED
  BY <1>3, <1>4, <1>9, <1>11, <1>12, <1>15 DEF Next

LEMMA VisitFields ==
    ASSUME Typed, NEW n \in VM, Visit(n), file[n] # Cut
    PROVE  /\ main'.n = n /\ main'.cfg = file[n] /\ main'.todo = main.todo \ {n}
           /\ main'.at = IF file[n].st = "ok" THEN "decide" ELSE "walk"
           /\ main.at = "walk" /\ n \in main.todo
           /\ UNCHANGED <<file, running, child, daemon, handler>>
<1>1. main \in Main
  BY DEF Typed, Holds
<1>2. main' = [main EXCEPT !.todo = @ \ {n}, !.n = n, !.cfg = file[n],
                          !.at = IF file[n].st = "ok" THEN "decide" ELSE "walk"]
  BY DEF Visit
<1>3. QED
  BY <1>1, <1>2 DEF Visit, At, Main

LEMMA DecideFields ==
    ASSUME Typed, Decide
    PROVE  /\ main.at = "decide" /\ main.n \in VM
           /\ main'.n = main.n /\ main'.todo = main.todo
           /\ main'.at \in {"enter", "drop", "walk"}
           /\ UNCHANGED <<file, running, daemon, handler>>
<1>1. main \in Main /\ main.at = "decide" /\ main.n \in VM
  BY DEF Typed, Decide, At, Holds, Walking
<1>2. main'.n = main.n /\ main'.todo = main.todo /\ main'.at \in {"enter", "drop", "walk"}
  BY <1>1, DecideMain DEF Main
<1>3. QED
  BY <1>1, <1>2 DEF Decide

LEMMA StepReading ==
    ASSUME Typed, Reading, Next, "race" \notin FaultKinds PROVE Reading'
<1>1. CASE main' = main /\ (file' = file \/ main.at = "poll")
  BY <1>1 DEF Reading, Fresh
<1>2. CASE main'.at \notin Fresh
  BY <1>2 DEF Reading, Fresh
<1>3. CASE Decide
  BY <1>3, DecideFields DEF Reading, Fresh
<1>4. ASSUME NEW n \in VM, Visit(n), file[n] # Cut
      PROVE  Reading'
  BY <1>4, VisitFields DEF Reading, Fresh
<1>5. QED
  BY <1>1, <1>2, <1>3, <1>4, MainMoves

-----------------------------------------------------------------------------
(* The steps that start no process.                                          *)
Older == \A p \in Pid : child'[p].alive => /\ child[p].alive
                                           /\ child'[p].vm = child[p].vm
                                           /\ child'[p].owned => child[p].owned

LEMMA TermOlder ==
    ASSUME Typed, NEW q \in Pid,
           child' = [child EXCEPT ![q] = [child[q] EXCEPT !.term = TRUE]]
    PROVE  Older /\ \A p \in Pid : child'[p].owned = child[p].owned
                                   /\ child'[p].alive = child[p].alive
                                   /\ child'[p].vm = child[p].vm
                                   /\ (p # q => child'[p] = child[p])
<1>1. /\ [child[q] EXCEPT !.term = TRUE].alive = child[q].alive
      /\ [child[q] EXCEPT !.term = TRUE].owned = child[q].owned
      /\ [child[q] EXCEPT !.term = TRUE].vm = child[q].vm
  BY DEF Typed, ChildRecord, Dead
<1>2. QED
  BY <1>1 DEF Older, Typed

LEMMA ExitOlder == ASSUME Typed, Exit PROVE Older
<1>1. ASSUME NEW p \in Pid
      PROVE  /\ [child[p] EXCEPT !.term = TRUE].alive = child[p].alive
             /\ [child[p] EXCEPT !.term = TRUE].owned = child[p].owned
             /\ [child[p] EXCEPT !.term = TRUE].vm = child[p].vm
  BY DEF Typed, ChildRecord, Dead
<1>2. QED
  BY <1>1 DEF Older, Exit

LEMMA LostOlder ==
    ASSUME Typed, NEW p \in Pid, child' = [child EXCEPT ![p] = Dead]
    PROVE  Older
BY DEF Older, Typed, Dead

LEMMA StepOlder ==
    ASSUME Typed, Next, ~(Decide /\ main.cfg.active) PROVE Older
<1>1. CASE UNCHANGED child
  BY <1>1 DEF Older
<1>2. CASE Exit
  BY <1>2, ExitOlder
<1>3. CASE SignalAtBoot
  <2>1. ASSUME NEW p \in Pid
        PROVE  /\ [child[p] EXCEPT !.owned = FALSE].alive = child[p].alive
               /\ ~[child[p] EXCEPT !.owned = FALSE].owned
               /\ [child[p] EXCEPT !.owned = FALSE].vm = child[p].vm
    BY DEF Typed, ChildRecord, Dead
  <2>2. QED
    BY <1>3, <2>1 DEF Older, SignalAtBoot
<1>4. ASSUME NEW p \in Pid, ChildTerm(p) \/ ChildDies(p)
      PROVE  Older
  BY <1>4, LostOlder DEF ChildTerm, ChildDies, Die
<1>5. ASSUME NEW n \in VM, Silence(n), child' # child
      PROVE  Older
  <2>1. running[n] \in Pid
        /\ child' = [child EXCEPT ![running[n]] = [child[running[n]] EXCEPT !.term = TRUE]]
    BY <1>5 DEF Silence, Live, Typed
  <2>2. QED
    BY <2>1, TermOlder
<1>6. ASSUME Decide, ~main.cfg.active, child' # child
      PROVE  Older
  <2>1. running[main.n] \in Pid
        /\ child' = [child EXCEPT ![running[main.n]] =
                       [child[running[main.n]] EXCEPT !.term = TRUE]]
    BY <1>6, DecideFields DEF Decide, Live, Typed
  <2>2. QED
    BY <2>1, TermOlder
<1>7. Thread => UNCHANGED child \/ Exit \/ Decide \/ \E n \in VM : Silence(n)
  BY DEF Thread, Parse, Truncate, Write, Remove, Visit, Enter, WalkEnds, Surfaces, SysExit
<1>8. Poll \/ Start \/ Exited \/ Signal => UNCHANGED child
  BY DEF Poll, Start, Exited, Signal
<1>9. /\ \A op \in Ops, v \in VM : Begin(op, v) => UNCHANGED child
      /\ \A v \in VM : Edit(v) => UNCHANGED child
  BY DEF Begin, Edit
<1>10. QED
  BY <1>1, <1>2, <1>3, <1>4, <1>5, <1>6, <1>7, <1>8, <1>9 DEF Next

LEMMA StepRunning ==
    ASSUME Typed, Next, ~Enter PROVE \A v \in VM : running'[v] \in {running[v], None}
<1>1. CASE UNCHANGED running
  BY <1>1
<1>2. CASE Exit \/ SignalAtBoot
  BY <1>2 DEF Exit, SignalAtBoot
<1>3. ASSUME NEW n \in VM, Silence(n)
      PROVE  \A v \in VM : running'[v] \in {running[v], None}
  BY <1>3 DEF Silence, Typed
<1>4. Thread => UNCHANGED running \/ Exit \/ Enter \/ \E n \in VM : Silence(n)
  BY DEF Thread, Parse, Truncate, Write, Remove, Visit, Decide, WalkEnds, Surfaces, SysExit
<1>5. Poll \/ Start \/ Exited \/ Signal => UNCHANGED running
  BY DEF Poll, Start, Exited, Signal
<1>6. /\ \A op \in Ops, v \in VM : Begin(op, v) => UNCHANGED running
      /\ \A v \in VM : Edit(v) => UNCHANGED running
      /\ \A p \in Pid : ChildTerm(p) \/ ChildDies(p) => UNCHANGED running
  BY DEF Begin, Edit, ChildTerm, ChildDies
<1>7. QED
  BY <1>1, <1>2, <1>3, <1>4, <1>5, <1>6 DEF Next

LEMMA StepLinked ==
    ASSUME Typed, Typed', Linked, Next, "race" \notin FaultKinds PROVE Linked'
<1>1. None \notin Pid
  BY StepsAssumption
<1>2. CASE Enter
  <2>1. /\ main.at \in {"enter", "drop"} /\ main.n \in VM
        /\ (main.at = "enter" => main.kid \in Pid) /\ main \in Main
        /\ UNCHANGED child
        /\ running' = [running EXCEPT ![main.n] = IF main.at = "enter" THEN main.kid
                                               ELSE None]
    BY <1>2 DEF Enter, At, Typed, Holds, Walking
  <2>2. main'.at = "walk"
    BY <1>2, <2>1 DEF Enter, Main
  <2>3. QED
    BY <1>1, <2>1, <2>2 DEF Linked, Live, Typed
<1>3. CASE Decide /\ main.cfg.active /\ ~Live(running[main.n])
  <2>1. main.n \in VM /\ main'.n = main.n /\ running' = running /\ main \in Main
    BY <1>3, DecideFields DEF Typed, Holds
  <2>2. PICK q \in Pid : /\ ~child[q].alive /\ \A v \in VM \ {main.n} : running[v] # q
                         /\ child' = [child EXCEPT ![q] = Forked(main.n)]
                         /\ main' = [main EXCEPT !.at = "enter", !.kid = q]
    BY <1>3 DEF Decide
  <2>3. main'.kid = q /\ Forked(main.n).vm = main.n /\ Forked(main.n).alive
    BY <2>1, <2>2 DEF Main, Forked
  <2>4. QED
    BY <2>1, <2>2, <2>3 DEF Linked, Live, Typed
<1>4. ASSUME ~Enter, Older, main'.at # "enter"
      PROVE  Linked'
  BY <1>1, <1>4, StepRunning DEF Linked, Older, Live, Typed
<1>5. ASSUME ~Enter, Older, main' = main
      PROVE  Linked'
  <2>1. \A v \in VM : running'[v] \in {running[v], None}
    BY <1>5, StepRunning
  <2>2. main.at = "enter" => main.kid \in Pid
    BY DEF Typed, Holds, Walking
  <2>3. \A v \in VM : Live(running[v])' => child'[running'[v]].vm = v
    BY <1>1, <1>5, <2>1 DEF Linked, Older, Live, Typed
  <2>4. QED
    BY <1>1, <1>5, <2>1, <2>2, <2>3 DEF Linked, Older
<1>6. CASE Decide /\ main.cfg.active /\ Live(running[main.n])
  <2>1. UNCHANGED <<child, running>> /\ main' = [main EXCEPT !.at = "walk"]
    BY <1>6 DEF Decide
  <2>2. main'.at = "walk"
    BY <2>1 DEF Typed, Holds, Main
  <2>3. QED
    BY <2>1, <2>2 DEF Linked, Live
<1>7. CASE Decide /\ ~main.cfg.active
  <2>1. main'.at # "enter" /\ ~Enter
    BY <1>7, DecideFields DEF Decide, Enter, At, Typed, Holds, Main
  <2>2. QED
    BY <1>4, <1>7, <2>1, StepOlder
<1>8. CASE ~Enter /\ ~Decide
  <2>1. Older
    BY <1>8, StepOlder
  <2>2. main' = main \/ main'.at # "enter"
    BY <1>8, MainMoves, VisitFields DEF Fresh
  <2>3. QED
    BY <1>4, <1>5, <1>8, <2>1, <2>2
<1>9. QED
  BY <1>2, <1>3, <1>6, <1>7, <1>8

LEMMA LiveVm == ASSUME Typed PROVE \A p \in Pid : child[p].alive => child[p].vm \in VM
<1>1. Dead.alive = FALSE
  BY DEF Dead
<1>2. \A r \in ChildRecord : r.alive => r.vm \in VM
  BY <1>1 DEF ChildRecord
<1>3. QED
  BY <1>2 DEF Typed

(* While the daemon starts only its walk moves, and children die.            *)
LEMMA StartingSteps ==
    ASSUME Typed, Booting, Next, "race" \notin FaultKinds, daemon' = "starting"
    PROVE  /\ file' = file
           /\ \/ Start
              \/ /\ daemon = "starting"
                 /\ \/ main' = main /\ Older /\ running' = running
                       /\ \A p \in Pid : child'[p].alive => child'[p] = child[p]
                    \/ \E n \in VM : Visit(n) /\ file[n] # Cut
                    \/ Decide \/ Enter
<1>1. ~Exit /\ ~SignalAtBoot /\ ~Exited /\ ~WalkEnds /\ ~Poll /\ ~Signal
      /\ \A op \in Ops, v \in VM : ~Begin(op, v)
  BY DEF Exit, SignalAtBoot, Exited, WalkEnds, Poll, Signal, Begin
<1>2. \A n \in VM : /\ ~Silence(n) /\ ~Surfaces(n)
                    /\ Visit(n) => file[n] # Cut
  BY <1>1 DEF Silence, Surfaces, Visit, Typed
<1>3. ~Parse /\ ~Truncate /\ ~Write /\ ~Remove /\ ~SysExit
  BY <1>1 DEF Parse, Truncate, Write, Remove, SysExit, At, Typed, Walking
<1>4. ASSUME NEW v \in VM, Edit(v) PROVE FALSE
  BY <1>4, WaitingFields DEF Edit, Fault, Typed, Walking
<1>5. ASSUME NEW p \in Pid, ChildTerm(p) \/ ChildDies(p)
      PROVE  /\ daemon = "starting" /\ main' = main /\ Older /\ file' = file
             /\ running' = running
             /\ \A q \in Pid : child'[q].alive => child'[q] = child[q]
  BY <1>5, LostOlder DEF ChildTerm, ChildDies, Die, Typed, Dead
<1>6. /\ Start => file' = file
      /\ Decide \/ Enter => file' = file /\ daemon = "starting"
      /\ \A n \in VM : Visit(n) /\ file[n] # Cut => file' = file /\ daemon = "starting"
  BY DEF Start, Decide, Enter, Visit
<1>7. Thread => Decide \/ Enter \/ \E n \in VM : Visit(n) /\ file[n] # Cut
  BY <1>1, <1>2, <1>3 DEF Thread
<1>8. QED
  BY <1>1, <1>4, <1>5, <1>6, <1>7 DEF Next

LEMMA StartingBooting ==
    ASSUME Typed, Typed', Reading, Booting, Next, "race" \notin FaultKinds,
           daemon' = "starting"
    PROVE  Booting'
<1>1. file' = file /\ main \in Main
  BY StartingSteps DEF Typed, Holds
<1>2. CASE Start
  BY <1>2 DEF Start, Booting, Own
<1>3. CASE /\ daemon = "starting" /\ main' = main /\ Older /\ running' = running
           /\ \A p \in Pid : child'[p].alive => child'[p] = child[p]
  BY <1>1, <1>3 DEF Booting, Own, Older
<1>4. ASSUME NEW n \in VM, Visit(n), file[n] # Cut, daemon = "starting"
      PROVE  Booting'
  BY <1>1, <1>4, VisitFields DEF Booting, Own
<1>5. CASE Decide /\ daemon = "starting"
  <2>1. /\ main.at = "decide" /\ main.n \in VM /\ running' = running
        /\ main'.n = main.n /\ main'.todo = main.todo /\ main'.at # "decide"
    BY <1>5, DecideFields
  <2>2. main.n \notin main.todo /\ running[main.n] = None /\ ~Live(running[main.n])
    BY <1>5, <2>1 DEF Booting, Reading, Fresh, Live
  <2>3. CASE main.cfg.active
    <3>1. PICK q \in Pid : child' = [child EXCEPT ![q] = Forked(main.n)]
      BY <1>5, <2>2, <2>3 DEF Decide
    <3>2. EntryOf(file[main.n]) = "on"
      BY <2>1, <2>3 DEF Reading, EntryOf
    <3>3. ~Forked(main.n).term /\ Forked(main.n).vm = main.n
      BY DEF Forked
    <3>4. QED
      BY <1>1, <1>5, <2>1, <2>2, <3>1, <3>2, <3>3 DEF Booting, Own, Typed
  <2>4. CASE ~main.cfg.active
    <3>1. child' = child
      BY <1>5, <2>2, <2>4 DEF Decide
    <3>2. QED
      BY <1>1, <1>5, <2>1, <3>1 DEF Booting, Own
  <2>5. QED
    BY <2>3, <2>4
<1>6. CASE Enter /\ daemon = "starting"
  <2>1. /\ main.at \in Fresh /\ main.n \in VM /\ child' = child
        /\ running' = [running EXCEPT ![main.n] = IF main.at = "enter" THEN main.kid
                                               ELSE None]
        /\ main'.todo = main.todo /\ main'.at = "walk"
    BY <1>1, <1>6 DEF Enter, At, Typed, Holds, Walking, Fresh, Main
  <2>2. main.n \notin main.todo
    BY <2>1 DEF Reading
  <2>3. QED
    BY <1>1, <1>6, <2>1, <2>2 DEF Booting, Own, Typed
<1>7. QED
  BY <1>2, <1>3, <1>4, <1>5, <1>6, StartingSteps

LEMMA StepBooting ==
    ASSUME Typed, Typed', Reading, Booting, Next, "race" \notin FaultKinds
    PROVE  Booting'
<1>1. CASE daemon' = "starting"
  BY <1>1, StartingBooting
<1>2. CASE daemon' \in {"down", "exiting"}
  <2>1. \A v \in VM : running'[v] = None
    <3>1. CASE Exit \/ SignalAtBoot
      BY <3>1 DEF Exit, SignalAtBoot
    <3>2. CASE Enter
      BY <1>2, <3>2 DEF Enter, At
    <3>3. CASE ~Enter /\ daemon \in {"down", "exiting"}
      BY <3>3, StepRunning DEF Booting
    <3>4. Thread => Exit \/ daemon' = daemon \/ daemon' = "up"
      BY DEF Thread, Parse, Truncate, Write, Remove, Visit, Decide, Enter, WalkEnds,
             Silence, Surfaces, SysExit
    <3>5. /\ Poll \/ Signal => daemon' = daemon
          /\ Start => daemon' = "starting"
          /\ Exited => daemon = "exiting"
          /\ \A op \in Ops, v \in VM : Begin(op, v) => daemon' = daemon
          /\ \A v \in VM : Edit(v) => daemon' = daemon
          /\ \A p \in Pid : ChildTerm(p) \/ ChildDies(p) => daemon' = daemon
      BY DEF Poll, Signal, Start, Exited, Begin, Edit, ChildTerm, ChildDies
    <3>6. Exit \/ SignalAtBoot \/ daemon \in {"down", "exiting"}
      BY <1>2, <3>4, <3>5 DEF Next
    <3>7. QED
      BY <3>1, <3>2, <3>3, <3>6
  <2>2. ASSUME daemon' = "down", NEW p \in Pid PROVE ~Own(p)'
    <3>1. CASE SignalAtBoot
      <4>1. ~[child[p] EXCEPT !.owned = FALSE].owned
        BY DEF Typed, ChildRecord, Dead
      <4>2. QED
        BY <3>1, <4>1 DEF SignalAtBoot, Own
    <3>2. CASE Exited
      BY <3>2 DEF Exited, Own
    <3>3. ~Exit /\ ~Decide
      BY <2>2 DEF Exit, Decide, At
    <3>4. Thread => daemon \in {"down"} \/ daemon' = "up"
      BY <2>2, <3>3 DEF Thread, Parse, Truncate, Write, Remove, Visit, Decide, Enter,
             WalkEnds, Silence, Surfaces, SysExit
    <3>5. /\ Poll \/ Signal \/ Start => daemon' = daemon \/ daemon' = "starting"
          /\ \A op \in Ops, v \in VM : Begin(op, v) => daemon' = daemon
          /\ \A v \in VM : Edit(v) => daemon' = daemon
          /\ \A q \in Pid : ChildTerm(q) \/ ChildDies(q) => daemon' = daemon
      BY DEF Poll, Signal, Start, Begin, Edit, ChildTerm, ChildDies
    <3>6. SignalAtBoot \/ Exited \/ daemon = "down"
      BY <2>2, <3>4, <3>5 DEF Next
    <3>7. CASE daemon = "down"
      <4>1. Older
        BY <3>3, StepOlder
      <4>2. QED
        BY <3>7, <4>1 DEF Booting, Own, Older
    <3>8. QED
      BY <3>1, <3>2, <3>6, <3>7
  <2>3. QED
    BY <1>2, <2>1, <2>2 DEF Booting
<1>3. CASE daemon' = "up"
  BY <1>3 DEF Booting
<1>4. QED
  BY <1>1, <1>2, <1>3 DEF Typed

LEMMA AlwaysSettled == ASSUME "race" \notin FaultKinds PROVE Spec => []Settled
<1>1. Init => Settled
  <2>1. /\ Waiting.at \notin Fresh /\ Waiting.at # "enter" /\ Waiting.at # "decide"
        /\ ~Dead.alive
    BY WaitingFields DEF Fresh, Dead
  <2>2. QED
    BY <2>1 DEF Init, Settled, Reading, Linked, Booting, Live, Own
<1>2. Typed /\ Typed' /\ Settled /\ [Next]_vars => Settled'
  <2>1. CASE UNCHANGED vars
    BY <2>1 DEF vars, Settled, Reading, Linked, Booting, Live, Own
  <2>2. QED
    BY <2>1, StepReading, StepLinked, StepBooting DEF Settled
<1>3. QED
  BY <1>1, <1>2, AlwaysTyped, PTL DEF Spec

-----------------------------------------------------------------------------
(* The registry a state stands for.                                          *)
Entries == [v \in VM |-> EntryOf(file[v])]

LEMMA EntryValues == ASSUME NEW c PROVE EntryOf(c) \in R!Entry
BY DEF EntryOf, R!Entry

LEMMA EntryOn == ASSUME NEW c PROVE EntryOf(c) = "on" <=> c.st = "ok" /\ c.active
BY DEF EntryOf

LEMMA OnFiles ==
    /\ R!On = {v \in VM : EntryOf(file[v]) = "on"}
    /\ (R!On)' = {v \in VM : EntryOf(file'[v]) = "on"}
BY DEF R!On

LEMMA OneFile ==
    ASSUME Typed, NEW v \in VM, NEW c, file' = [file EXCEPT ![v] = c]
    PROVE  R!OneEntry
<1>1. Entries' = [Entries EXCEPT ![v] = EntryOf(c)]
  BY DEF Entries, Typed
<1>2. EntryOf(c) \in R!Entry
  BY EntryValues
<1>3. QED
  BY <1>1, <1>2 DEF R!OneEntry, Entries

LEMMA SameFiles == ASSUME file' = file PROVE R!OneEntry /\ UNCHANGED Entries
BY DEF R!OneEntry, Entries

LEMMA AtWorkIs ==
    /\ Mode # "up" => AtWork = {} /\ Withdrawn = {}
    /\ Mode' # "up" => AtWork' = {} /\ Withdrawn' = {}
    /\ Mode = "up" =>
         /\ AtWork = {v \in VM : \E p \in Pid : Working(p) /\ child[p].vm = v}
         /\ Withdrawn = {v \in VM : \E p \in Pid : /\ Own(p) /\ child[p].term
                                                  /\ child[p].vm = v}
    /\ Mode' = "up" =>
         /\ AtWork' = {v \in VM : \E p \in Pid : Working(p)' /\ child'[p].vm = v}
         /\ Withdrawn' = {v \in VM : \E p \in Pid : /\ Own(p)' /\ child'[p].term
                                                   /\ child'[p].vm = v}
BY DEF AtWork, Withdrawn, Own

(* A step that leaves the children and the mode alone.                       *)
LEMMA QuietStep ==
    ASSUME R!OneEntry, UNCHANGED <<child, daemon>>, handler'.on = handler.on
    PROVE  R!Next
<1>1. UNCHANGED <<AtWork, Withdrawn, Mode>>
  BY DEF AtWork, Withdrawn, Working, Mode
<1>2. QED
  BY <1>1 DEF R!Next, R!Edit

LEMMA ModeSame ==
    ASSUME UNCHANGED daemon, handler'.on = handler.on PROVE Mode' = Mode
BY DEF Mode

(* Neither up before nor after, and no entry changed.                        *)
LEMMA HiddenStep ==
    ASSUME file' = file, Mode # "up", Mode' = Mode PROVE UNCHANGED R!vars
<1>1. UNCHANGED <<AtWork, Withdrawn>>
  BY AtWorkIs
<1>2. QED
  BY <1>1 DEF R!vars

LEMMA SignalIsStep == ASSUME Typed, Signal PROVE R!Next
<1>1. Mode = "up" /\ Mode' = "leaving"
  BY DEF Signal, Mode
<1>2. R!OneEntry
  BY SameFiles DEF Signal
<1>3. AtWork' = {} /\ Withdrawn' = {}
  BY <1>1, AtWorkIs
<1>4. QED
  BY <1>1, <1>2, <1>3 DEF R!Next, R!Leave

LEMMA ExitedIsStep == ASSUME Typed, Exited PROVE R!Next
<1>1. Mode = "leaving" /\ Mode' = "down" /\ file' = file
  BY DEF Exited, Mode, Typed
<1>2. AtWork = {} /\ AtWork' = {} /\ Withdrawn = {} /\ Withdrawn' = {}
  BY <1>1, AtWorkIs
<1>3. QED
  BY <1>1, <1>2 DEF R!Next, R!Gone

(* The first walk brings up what is active, and only that.                   *)
LEMMA WalkEndsIsStep ==
    ASSUME Typed, Booting, WalkEnds PROVE R!Next
<1>1. CASE daemon = "up"
  <2>1. R!OneEntry /\ UNCHANGED <<child, daemon, handler>>
    BY <1>1, SameFiles DEF WalkEnds
  <2>2. QED
    BY <2>1, QuietStep
<1>2. CASE daemon = "starting"
  <2>1. Mode = "down" /\ Mode' = "up" /\ file' = file /\ child' = child
    BY <1>2 DEF WalkEnds, Mode, Typed
  <2>2. \A p \in Pid : Own(p) => ~child[p].term /\ EntryOf(file[child[p].vm]) = "on"
    BY <1>2 DEF Booting
  <2>3. AtWork' \subseteq R!On
    BY <2>1, <2>2, AtWorkIs, OnFiles DEF Working, Own
  <2>4. Withdrawn' = {}
    BY <2>1, <2>2, AtWorkIs DEF Own
  <2>5. QED
    BY <2>1, <2>3, <2>4 DEF R!Next, R!Rise
<1>3. QED
  BY <1>1, <1>2 DEF WalkEnds, At

(* A BMC is started for a name that is on, and withdrawn from one that is    *)
(* not.                                                                      *)
LEMMA DecideIsStep ==
    ASSUME Typed, Reading, Linked, Decide PROVE R!Next \/ UNCHANGED R!vars
<1>1. /\ main.at = "decide" /\ main.n \in VM /\ file' = file /\ running' = running
      /\ UNCHANGED <<daemon, handler>> /\ None \notin Pid
  BY DecideFields, StepsAssumption
<1>2. Mode' = Mode /\ R!OneEntry
  BY <1>1, ModeSame, SameFiles
<1>3. (R!On)' = R!On /\ (main.n \in R!On <=> main.cfg.active)
  BY <1>1, OnFiles, EntryOn DEF Reading
<1>4. CASE Mode # "up"
  BY <1>1, <1>2, <1>4, HiddenStep
<1>5. CASE UNCHANGED child
  BY <1>1, <1>2, <1>5, QuietStep
<1>6. CASE Mode = "up" /\ main.cfg.active /\ ~Live(running[main.n])
  <2>1. PICK q \in Pid : ~child[q].alive /\ child' = [child EXCEPT ![q] = Forked(main.n)]
    BY <1>6 DEF Decide
  <2>2. /\ Forked(main.n).alive /\ Forked(main.n).vm = main.n /\ ~Forked(main.n).term
        /\ child'[q] = Forked(main.n)
        /\ \A p \in Pid : p # q => child'[p] = child[p]
    BY <2>1 DEF Forked, Typed
  <2>3. AtWork' \subseteq AtWork \cup {main.n} /\ AtWork \subseteq AtWork'
    BY <1>2, <1>6, <2>1, <2>2, AtWorkIs DEF Working
  <2>4. Withdrawn' \subseteq Withdrawn
    BY <1>2, <1>6, <2>1, <2>2, AtWorkIs DEF Own
  <2>5. AtWork' \subseteq VM
    BY <1>2, <1>6, AtWorkIs
  <2>6. QED
    BY <1>2, <1>3, <1>6, <2>3, <2>4, <2>5 DEF R!Next, R!Act
<1>7. CASE Mode = "up" /\ ~main.cfg.active /\ Live(running[main.n])
  <2>1. PICK q \in Pid : q = running[main.n] /\ child[q].vm = main.n
    BY <1>1, <1>7 DEF Linked, Live, Typed
  <2>2. child' = [child EXCEPT ![q] = [child[q] EXCEPT !.term = TRUE]]
    BY <1>7, <2>1 DEF Decide
  <2>3. NoNewWork /\ ~Working(q)' /\ child'[q].vm = main.n
        /\ \A p \in Pid : p # q => child'[p] = child[p]
    BY <2>1, <2>2, ToldWork, TermOlder
  <2>4. AtWork' \subseteq AtWork /\ AtWork \ {main.n} \subseteq AtWork'
    BY <1>2, <1>7, <2>1, <2>3, AtWorkIs DEF NoNewWork, Working
  <2>5. Withdrawn' \subseteq Withdrawn \cup {main.n}
    BY <1>2, <1>7, <2>3, AtWorkIs DEF Own
  <2>6. AtWork' \subseteq VM
    BY <1>2, <1>7, AtWorkIs
  <2>7. QED
    BY <1>1, <1>2, <1>3, <1>7, <2>4, <2>5, <2>6 DEF R!Next, R!Act
<1>8. (main.cfg.active <=> Live(running[main.n])) => UNCHANGED child
  BY DEF Decide
<1>9. QED
  BY <1>4, <1>5, <1>6, <1>7, <1>8

(* One child fewer: the one at work for its name, lost or not the only one,  *)
(* or one that was withdrawn.                                                *)
LEMMA DeathIsStep ==
    ASSUME Typed, NEW p \in Pid, ChildTerm(p) \/ ChildDies(p)
    PROVE  R!Next \/ UNCHANGED R!vars
<1> DEFINE v == child[p].vm
<1>1. /\ file' = file /\ UNCHANGED <<daemon, handler>>
      /\ child' = [child EXCEPT ![p] = Dead] /\ child[p].alive
  BY DEF ChildTerm, ChildDies, Die
<1>2. Mode' = Mode /\ UNCHANGED Entries
  BY <1>1, ModeSame, SameFiles
<1>3. v \in VM
  BY <1>1, LiveVm
<1>4. ~child'[p].alive /\ \A q \in Pid : q # p => child'[q] = child[q]
  BY <1>1 DEF Dead, Typed
<1>5. CASE Mode # "up"
  BY <1>1, <1>2, <1>5, HiddenStep
<1>6. CASE Mode = "up"
  <2>1. AtWork' \subseteq AtWork /\ AtWork \ {v} \subseteq AtWork'
    BY <1>2, <1>4, <1>6, AtWorkIs DEF Working
  <2>2. Withdrawn' \subseteq Withdrawn /\ Withdrawn \ {v} \subseteq Withdrawn'
    BY <1>2, <1>4, <1>6, AtWorkIs DEF Own
  <2>3. CASE child[p].term
    <3>1. AtWork' = AtWork
      <4>1. ASSUME NEW w \in AtWork PROVE w \in AtWork'
        <5>1. PICK q \in Pid : Working(q) /\ child[q].vm = w
          BY <1>6, AtWorkIs
        <5>2. child'[q] = child[q]
          BY <1>4, <2>3, <5>1 DEF Working
        <5>3. w \in VM /\ Mode' = "up"
          BY <1>2, <1>6, AtWorkIs
        <5>4. QED
          BY <5>1, <5>2, <5>3, AtWorkIs DEF Working
      <4>2. QED
        BY <2>1, <4>1
    <3>2. CASE Withdrawn' = Withdrawn
      BY <1>2, <3>1, <3>2 DEF R!vars, Entries
    <3>3. CASE Withdrawn' # Withdrawn
      <4>1. v \in Withdrawn /\ Withdrawn' = Withdrawn \ {v}
        BY <2>2, <3>3
      <4>2. QED
        BY <1>2, <3>1, <4>1 DEF R!Next, R!End, Entries
    <3>4. QED
      BY <3>2, <3>3
  <2>4. CASE ~child[p].term
    <3>1. Withdrawn' = Withdrawn
      <4>1. ASSUME NEW w \in Withdrawn PROVE w \in Withdrawn'
        <5>1. PICK q \in Pid : Own(q) /\ child[q].term /\ child[q].vm = w
          BY <1>6, AtWorkIs
        <5>2. child'[q] = child[q]
          BY <1>4, <2>4, <5>1
        <5>3. w \in VM /\ Mode' = "up"
          BY <1>2, <1>6, AtWorkIs
        <5>4. QED
          BY <5>1, <5>2, <5>3, AtWorkIs DEF Own
      <4>2. QED
        BY <2>2, <4>1
    <3>2. CASE AtWork' = AtWork
      BY <1>2, <3>1, <3>2 DEF R!vars, Entries
    <3>3. CASE AtWork' # AtWork
      <4>1. v \in AtWork /\ AtWork' = AtWork \ {v}
        BY <2>1, <3>3
      <4>2. QED
        BY <1>2, <3>1, <4>1 DEF R!Next, R!Lose, Entries
    <3>4. QED
      BY <3>2, <3>3
  <2>5. QED
    BY <2>3, <2>4
<1>7. QED
  BY <1>5, <1>6

LEMMA ThreadIsStep ==
    ASSUME Typed, Whole, Settled, Thread PROVE R!Next \/ UNCHANGED R!vars
<1>1. CASE Parse \/ Enter
  <2>1. R!OneEntry /\ UNCHANGED <<child, daemon, handler>>
    BY <1>1, SameFiles DEF Parse, Enter
  <2>2. QED
    BY <2>1, QuietStep
<1>2. CASE Truncate \/ Write \/ Remove
  <2>1. main.vm \in VM /\ UNCHANGED <<child, daemon, handler>>
    BY <1>2 DEF Truncate, Write, Remove, At, Typed, Holds, Walking
  <2>2. file' = file \/ \E c : file' = [file EXCEPT ![main.vm] = c]
    BY <1>2 DEF Truncate, Write, Remove
  <2>3. R!OneEntry
    BY <2>1, <2>2, SameFiles, OneFile
  <2>4. QED
    BY <2>1, <2>3, QuietStep
<1>3. ASSUME NEW n \in VM, Visit(n)
      PROVE  R!Next
  <2>1. file[n] # Cut
    BY <1>3 DEF Whole, Visit, At
  <2>2. QED
    BY <1>3, <2>1, VisitFields, SameFiles, QuietStep
<1>4. ASSUME NEW n \in VM, Surfaces(n)
      PROVE  FALSE
  BY <1>4 DEF Whole, Surfaces
<1>5. ASSUME NEW n \in VM, Silence(n)
      PROVE  UNCHANGED R!vars
  <2>1. file' = file /\ Mode = "leaving" /\ Mode' = Mode
    BY <1>5 DEF Silence, Mode, Typed
  <2>2. QED
    BY <2>1, HiddenStep
<1>6. CASE SysExit
  <2>1. file' = file /\ Mode = "leaving" /\ Mode' = Mode
    BY <1>6 DEF SysExit, Exit, Mode
  <2>2. QED
    BY <2>1, HiddenStep
<1>7. QED
  BY <1>1, <1>2, <1>3, <1>4, <1>5, <1>6, DecideIsStep, WalkEndsIsStep DEF Thread, Settled

LEMMA StepImplements ==
    ASSUME Typed, Whole, Settled, [Next]_vars PROVE [R!Next]_(R!vars)
<1>1. CASE Poll
  <2>1. R!OneEntry /\ UNCHANGED <<child, daemon, handler>>
    BY <1>1, SameFiles DEF Poll
  <2>2. QED
    BY <2>1, QuietStep
<1>2. ASSUME NEW op \in Ops, NEW v \in VM, Begin(op, v)
      PROVE  R!Next
  <2>1. UNCHANGED <<child, daemon, handler>>
        /\ (file' = file \/ file' = [file EXCEPT ![v] = Empty])
    BY <1>2 DEF Begin
  <2>2. QED
    BY <2>1, SameFiles, OneFile, QuietStep
<1>3. ASSUME NEW v \in VM, Edit(v)
      PROVE  R!Next
  <2>1. UNCHANGED <<child, daemon, handler>> /\ \E c : file' = [file EXCEPT ![v] = c]
    BY <1>3 DEF Edit
  <2>2. QED
    BY <2>1, OneFile, QuietStep
<1>4. CASE Start
  <2>1. file' = file /\ Mode = "down" /\ Mode' = Mode
    BY <1>4 DEF Start, Mode, Typed
  <2>2. QED
    BY <2>1, HiddenStep
<1>5. CASE SignalAtBoot
  <2>1. file' = file /\ Mode = "down" /\ Mode' = Mode
    BY <1>5 DEF SignalAtBoot, Mode, Typed
  <2>2. QED
    BY <2>1, HiddenStep
<1>6. CASE UNCHANGED vars
  BY <1>6 DEF vars, R!vars, AtWork, Withdrawn, Working, Mode
<1>7. QED
  BY <1>1, <1>2, <1>3, <1>4, <1>5, <1>6, ThreadIsStep, DeathIsStep, SignalIsStep,
     ExitedIsStep DEF Next

(* The refinement, for any number of BMCs and of faults.                     *)
THEOREM StepsImplementRegistry ==
    ASSUME "race" \notin FaultKinds, "store" \notin FaultKinds
    PROVE  Spec => ImplementsRegistry
<1>1. Init => R!Init
  <2> SUFFICES ASSUME Init
               PROVE  R!Init
    OBVIOUS
  <2>1. Mode = "down"
    BY DEF Init, Mode, Off
  <2>2. AtWork = {} /\ Withdrawn = {}
    BY <2>1, AtWorkIs
  <2>3. Entries \in [VM -> R!Entry]
    BY EntryValues DEF Entries
  <2>4. QED
    BY <2>1, <2>2, <2>3 DEF R!Init, Entries
<1>2. Init => Whole
  BY Distinct DEF Init, Whole, Off, File
<1>3. Typed /\ Whole /\ Settled /\ [Next]_vars => [R!Next]_(R!vars)
  BY StepImplements
<1>4. Spec => []Whole
  BY <1>2, StepWhole, AlwaysTyped, PTL DEF Spec
<1>5. QED
  BY <1>1, <1>3, <1>4, AlwaysTyped, AlwaysSettled, PTL
     DEF Spec, R!Spec, ImplementsRegistry

=============================================================================
