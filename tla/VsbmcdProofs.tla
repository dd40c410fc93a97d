---------------------------- MODULE VsbmcdProofs ----------------------------
(***************************************************************************)
(* Proofs about module Vsbmcd, for any number of invocations, in the        *)
(* foreground and in the background, with process ids used again, strangers *)
(* and any faults: the types, and that the pid file is lost in one way      *)
(* only, the race of two invocations between reading and writing it.        *)
(***************************************************************************)
EXTENDS Vsbmcd, TLAPS

USE VsbmcdAssumption DEF VsbmcdAssumption

(* The variables keep their types ("pid", the pid file, vsbmcd.py: main).   *)
THEOREM TypeCorrect == Spec => []TypeOK
<1>1. Init => TypeOK
  <2> SUFFICES ASSUME Init PROVE TypeOK
    OBVIOUS
  <2>1. \A d \in Inst : ~Live(d) /\ pid[d] \notin Number
    BY DEF Init, Live
  <2>2. pidfile \in {NoPidfile} /\ strangers \subseteq Number /\ faults \in 0 .. MaxFaults
    BY DEF Init
  <2>3. raced \in BOOLEAN
    BY Zenon DEF Init
  <2>4. QED
    BY <2>1, <2>2, <2>3 DEF Init, TypeOK, Stages
<1>2. TypeOK /\ [Next]_vars => TypeOK'
  <2> SUFFICES ASSUME TypeOK, [Next]_vars PROVE TypeOK'
    OBVIOUS
  <2> USE DEF TypeOK, Stages, Live, Go, End, Fault, File, NoPidfile, Remember
  <2>1. ASSUME NEW d \in Inst, Launch(d) PROVE TypeOK'
    BY <2>1 DEF Launch
  <2>2. ASSUME NEW d \in Inst, Program(d) PROVE TypeOK'
    <3>1. CASE Read(d)    BY <3>1 DEF Read
    <3>2. CASE Refuse(d)  BY <3>2 DEF Refuse
    <3>3. CASE Accept(d)  BY <3>3 DEF Accept
    <3>4. CASE Rename(d)  BY <3>4 DEF Rename
    <3>5. CASE Flush(d)   BY <3>5 DEF Flush, Text
    <3>6. CASE Boot(d)    BY <3>6 DEF Boot
    <3>7. CASE Bind(d)    BY <3>7 DEF Bind
    <3>8. CASE Unlink(d)  BY <3>8 DEF Unlink
    <3>9. QED BY <2>2, <3>1, <3>2, <3>3, <3>4, <3>5, <3>6, <3>7, <3>8 DEF Program
  <2>3. ASSUME NEW d \in Inst, Fails(d) PROVE TypeOK'
    BY <2>3 DEF Fails
  <2>4. ASSUME NEW d \in Inst, Sigterm(d) PROVE TypeOK'
    BY <2>4 DEF Sigterm
  <2>5. ASSUME NEW d \in Inst, Kill(d) PROVE TypeOK'
    BY <2>5 DEF Kill
  <2>6. CASE Stranger
    BY <2>6 DEF Stranger
  <2>7. CASE UNCHANGED vars
    BY <2>7 DEF vars
  <2>8. QED
    BY <2>1, <2>2, <2>3, <2>4, <2>5, <2>6, <2>7 DEF Next
<1>3. QED
  BY <1>1, <1>2, PTL DEF Spec

-----------------------------------------------------------------------------
(* What holds until two invocations race.                                   *)

(* Past the check with a pid file of its own.                               *)
Settled(d) == pc[d] \in {"boot", "bind", "serving"} \/ (pc[d] = "leave" /\ Owns(d))

(* Nobody is past the check beside one that is, and whoever has read the    *)
(* pid file has read the number of the one that has written it.             *)
InTurn ==
    \A d, e \in Inst : d # e =>
        /\ Unsettled(d) => pc[e] \in {"idle", "check"}
        /\ Settled(d) => \/ pc[e] \in {"idle", "check"}
                         \/ pc[e] = "probe" /\ seen[e] = Text(d)

(* From the flush on the file is that of the one invocation on its way.     *)
FileFollows ==
    \A d \in Inst :
        /\ pc[d] = "flush" => pidfile = File(d, None)
        /\ pc[d] \in {"boot", "bind", "serving"} => Owns(d)

Orderly == InTurn /\ FileFollows

IInv == TypeOK /\ (Orderly \/ raced)

LEMMA OrderlyInit == Init => Orderly
BY DEF Init, Orderly, InTurn, FileFollows, Unsettled, Settled

(* While one process is past the check with its number in the file, the     *)
(* check of any other fails.                                                *)
LEMMA SettledRefuses ==
    ASSUME TypeOK, Orderly, NEW d \in Inst, NEW e \in Inst, Accept(d), Settled(e)
    PROVE  FALSE
<1>1. d # e
  BY DEF Accept, Go, Settled, TypeOK
<1>2. Text(e) # None /\ Answers(Text(e))
  BY DEF Text, Answers, Held, TypeOK, Live, Settled
<1>3. Owns(e)
  BY DEF Orderly, FileFollows, Settled
<1>4. pidfile.text = Text(e)
  BY <1>3 DEF Owns, File
<1>5. pc[d] = "probe" => seen[d] = Text(e)
  BY <1>1 DEF Orderly, InTurn
<1>6. QED
  BY <1>2, <1>4, <1>5 DEF Accept, Go

(* Each step keeps the order, unless it brings two invocations together.    *)
LEMMA OrderKept ==
    ASSUME TypeOK, Orderly, TypeOK', ~Overlap', [Next]_vars
    PROVE  Orderly'
<1> USE DEF Orderly
<1>1. ASSUME NEW d \in Inst, Launch(d) PROVE Orderly'
  BY <1>1 DEF Launch, Go, InTurn, FileFollows, Unsettled, Settled, Owns, File, Text, TypeOK, Stages
<1>2. ASSUME NEW d \in Inst, Read(d) PROVE Orderly'
  <2>1. /\ pc[d] = "check" /\ pc' = [pc EXCEPT ![d] = "probe"]
        /\ seen' = [seen EXCEPT ![d] = pidfile.text]
        /\ UNCHANGED <<pid, pidfile>>
    BY <1>2 DEF Read, Go
  <2>2. \A e \in Inst : /\ Owns(e)' = Owns(e) /\ Text(e)' = Text(e)
                        /\ e # d => Unsettled(e)' = Unsettled(e) /\ Settled(e)' = Settled(e)
    BY <2>1 DEF Owns, File, Text, Unsettled, Settled, TypeOK
  <2>3. ~Unsettled(d)' /\ ~Settled(d)' /\ pc'[d] = "probe"
    BY <2>1 DEF Unsettled, Settled, TypeOK
  <2>4. \A e \in Inst : Unsettled(e)' => e = d
    BY <2>3 DEF Overlap
  <2>5. \A e \in Inst : Settled(e) => pidfile.text = Text(e)
    BY DEF Settled, FileFollows, Owns, File
  <2>6. InTurn'
    BY <2>1, <2>2, <2>3, <2>4, <2>5 DEF InTurn, TypeOK
  <2>7. FileFollows'
    BY <2>1, <2>2 DEF FileFollows, File, TypeOK
  <2>8. QED
    BY <2>6, <2>7
<1>3. ASSUME NEW d \in Inst, Refuse(d) PROVE Orderly'
  BY <1>3 DEF Refuse, End, Go, InTurn, FileFollows, Unsettled, Settled, Owns, File, Text, TypeOK, Stages
<1>4. ASSUME NEW d \in Inst, Accept(d) PROVE Orderly'
  <2>1. /\ pc[d] \in {"check", "probe"} /\ pc' = [pc EXCEPT ![d] = "write"]
        /\ UNCHANGED <<pid, pidfile>>
    BY <1>4 DEF Accept, Go
  <2>2. \A e \in Inst : ~Settled(e)
    BY <1>4, SettledRefuses
  <2>3. Unsettled(d)'
    BY <2>1 DEF Unsettled, TypeOK
  <2>4. \A e \in Inst \ {d} : ~Unsettled(e)' /\ pc'[e] # "probe"
    BY <2>3 DEF Overlap
  <2>5. \A e \in Inst \ {d} : pc'[e] = pc[e] /\ Owns(e)' = Owns(e)
    BY <2>1 DEF Owns, File, Text, TypeOK
  <2>6. \A e \in Inst \ {d} : pc'[e] \in {"idle", "check"}
    BY <2>2, <2>4, <2>5 DEF Unsettled, Settled, TypeOK, Stages
  <2>7. pc'[d] = "write"
    BY <2>1 DEF TypeOK
  <2>8. QED
    BY <2>6, <2>7 DEF InTurn, FileFollows, Unsettled, Settled
<1>5. ASSUME NEW d \in Inst, Rename(d) PROVE Orderly'
  BY <1>5 DEF Rename, Go, InTurn, FileFollows, Unsettled, Settled, Owns, File, Text, TypeOK, Stages
<1>6. ASSUME NEW d \in Inst, Flush(d) PROVE Orderly'
  BY <1>6 DEF Flush, Go, InTurn, FileFollows, Unsettled, Settled, Owns, File, Text, TypeOK, Stages
<1>7. ASSUME NEW d \in Inst, Boot(d) PROVE Orderly'
  BY <1>7 DEF Boot, Go, InTurn, FileFollows, Unsettled, Settled, Owns, File, Text, TypeOK, Stages
<1>8. ASSUME NEW d \in Inst, Bind(d) PROVE Orderly'
  BY <1>8 DEF Bind, Go, InTurn, FileFollows, Unsettled, Settled, Owns, File, Text, TypeOK, Stages
<1>9. ASSUME NEW d \in Inst, Unlink(d) PROVE Orderly'
  BY <1>9 DEF Unlink, End, Go, InTurn, FileFollows, Unsettled, Settled, Owns, File, Text, TypeOK, Stages
<1>10. ASSUME NEW d \in Inst, Fails(d) PROVE Orderly'
  BY <1>10 DEF Fails, Go, InTurn, FileFollows, Unsettled, Settled, Owns, File, Text, TypeOK, Stages
<1>11. ASSUME NEW d \in Inst, Sigterm(d) PROVE Orderly'
  BY <1>11 DEF Sigterm, End, Go, InTurn, FileFollows, Unsettled, Settled, Owns, File, Text, TypeOK, Stages
<1>12. ASSUME NEW d \in Inst, Kill(d) PROVE Orderly'
  BY <1>12 DEF Kill, End, Go, InTurn, FileFollows, Unsettled, Settled, Owns, File, Text, TypeOK, Stages
<1>13. CASE Stranger
  BY <1>13 DEF Stranger, InTurn, FileFollows, Unsettled, Settled, Owns, File, Text
<1>14. CASE UNCHANGED vars
  BY <1>14 DEF vars, InTurn, FileFollows, Unsettled, Settled, Owns, File, Text
<1>15. QED
  BY <1>1, <1>2, <1>3, <1>4, <1>5, <1>6, <1>7, <1>8, <1>9, <1>10, <1>11, <1>12, <1>13, <1>14
     DEF Next, Program

(* Every step remembers, or none is taken.                                  *)
LEMMA Remembered ==
    ASSUME [Next]_vars
    PROVE  Remember \/ UNCHANGED vars
BY DEF Next, Launch, Program, Read, Refuse, Accept, Rename, Flush, Boot, Bind, Unlink,
       Fails, Sigterm, Kill, Stranger

LEMMA Invariance == Spec => []IInv
<1>1. IInv /\ [Next]_vars /\ TypeOK' => IInv'
  <2> SUFFICES ASSUME IInv, [Next]_vars, TypeOK' PROVE (Orderly \/ raced)'
    BY DEF IInv
  <2>1. CASE UNCHANGED vars
    BY <2>1 DEF vars, IInv, Orderly, InTurn, FileFollows, Unsettled, Settled, Owns, File, Text
  <2>2. CASE Remember
    <3>1. CASE \A d \in Inst : ~Live(d)'
      BY <3>1 DEF Orderly, InTurn, FileFollows, Live, Unsettled, Settled
    <3>2. CASE (\E d \in Inst : Live(d)') /\ (raced \/ Overlap')
      BY <2>2, <3>2 DEF Remember
    <3>3. CASE ~raced /\ ~Overlap'
      BY <3>3, OrderKept DEF IInv
    <3>4. QED
      BY <3>1, <3>2, <3>3 DEF IInv
  <2>3. QED
    BY <2>1, <2>2, Remembered
<1>2. Init /\ TypeOK => IInv
  BY OrderlyInit DEF IInv
<1>3. QED
  BY <1>1, <1>2, TypeCorrect, PTL DEF Spec

(* While the server serves, the pid file is there and is the server's       *)
(* (vsbmcd.py: wrap_with_pidfile): among any number of invocations it can   *)
(* be lost in no other way than by the race that raced remembers.           *)
THEOREM FileIsServers == Spec => []FileNamesServer
<1>1. IInv => FileNamesServer
  BY DEF IInv, Orderly, FileFollows, FileNamesServer
<1>2. QED
  BY <1>1, Invariance, PTL

(* Nobody gets past the check while a server serves, up to the same race,   *)
(* in the background as well.                                               *)
THEOREM ServerRefuses == Spec => RunningRefuses
<1> DEFINE OneStep == \A d, e \in Inst : Accept(d) /\ pc[e] = "serving" => raced
<1>1. IInv => OneStep
  <2> SUFFICES ASSUME IInv, NEW d \in Inst, Accept(d), NEW e \in Inst, pc[e] = "serving", ~raced
               PROVE  FALSE
    OBVIOUS
  <2>1. TypeOK /\ Orderly /\ Settled(e)
    BY DEF IInv, Settled
  <2>2. QED
    BY <2>1, SettledRefuses
<1>2. IInv /\ [Next]_vars => [OneStep]_vars
  BY <1>1
<1>3. QED
  BY <1>2, Invariance, PTL DEF Spec, RunningRefuses

=============================================================================
