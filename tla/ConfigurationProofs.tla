------------------------ MODULE ConfigurationProofs -------------------------
(***************************************************************************)
(* For any names, ports, options and edits: a BMC serves what its file      *)
(* says unless the file was changed behind its back; what says nothing to   *)
(* configparser keeps its value in that file, and a BMC with only such      *)
(* options does as it is told; and no password is shown unasked.            *)
(***************************************************************************)
EXTENDS Configuration, TLAPS

(* What each action does to the files: nothing, or to one name's: it is      *)
(* stored again, removed, added or edited.                                   *)
StoredAgain(n) ==
    /\ file[n] # None
    /\ \E on \in BOOLEAN : file' = [file EXCEPT ![n] = Enabled(Parsed(file[n]), on)]
    /\ UNCHANGED given

Removed(n) ==
    file' = [file EXCEPT ![n] = None] /\ given' = [given EXCEPT ![n] = None]

Added(n) ==
    \E a \in Requests : /\ file' = [file EXCEPT ![n] = Options(n, a)]
                        /\ given' = [given EXCEPT ![n] = Options(n, a)]

Edited(n) ==
    /\ file[n] # None
    /\ \/ \E t \in Texts : file' = [file EXCEPT ![n].password = t]
       \/ \E p \in Port : file' = [file EXCEPT ![n].port = p]
    /\ given' = [given EXCEPT ![n] = None]

(* Both are functions.                                                       *)
Functional == file = [n \in VM |-> file[n]] /\ given = [n \in VM |-> given[n]]

(* An add that is under way has a directory of its own, in which nothing has *)
(* been stored since it was made.                                            *)
Making ==
    /\ bare \subseteq VM /\ \A n \in bare : file[n] = None
    /\ adding # None => /\ daemon # None
                        /\ DOMAIN adding = {"options", "refused", "found"}
                        /\ adding.found = None
                        /\ adding.options.vm_name \in bare
                        /\ \E n \in VM, a \in Requests : adding.options = Options(n, a)

LEMMA SetsCases ==
    ASSUME NEW n \in VM, NEW on \in BOOLEAN, file[n] # None, file' = Sets(n, on),
           UNCHANGED given
    PROVE  UNCHANGED <<file, given>> \/ StoredAgain(n)
BY DEF Sets, StoredAgain

LEMMA DeleteFiles ==
    ASSUME Functional, NEW n \in VM, delete(n)
    PROVE  UNCHANGED <<file, given>> \/ StoredAgain(n) \/ Removed(n)
<1>1. given' = [given EXCEPT ![n] = IF file'[n] = None THEN None ELSE given[n]]
  BY DEF delete
<1>2. CASE file[n] = None /\ file' = file
  <2>1. file' = [file EXCEPT ![n] = None]
    BY <1>2 DEF Functional
  <2>2. QED
    BY <1>1, <1>2, <2>1 DEF Removed
<1>3. CASE file' = [file EXCEPT ![n] = None]
  BY <1>1, <1>3 DEF Removed, Functional
<1>4. CASE file[n] # None /\ file' = Sets(n, FALSE)
  <2>1. file'[n] # None \/ file' = [file EXCEPT ![n] = None]
    BY <1>4 DEF Sets, Functional
  <2>2. CASE file'[n] # None
    <3>1. given' = given
      BY <1>1, <2>2 DEF Functional
    <3>2. QED
      BY <1>4, <3>1, SetsCases
  <2>3. QED
    BY <2>1, <2>2, <1>3
<1>5. QED
  BY <1>2, <1>3, <1>4 DEF delete, CanParse

LEMMA NameOfAdd ==
    ASSUME NEW n, NEW a PROVE Options(n, a).vm_name = n
BY DEF Options, VBMC_OPTIONS

LEMMA StepFiles ==
    ASSUME Functional, Making, [Next]_vars
    PROVE  \/ UNCHANGED <<file, given>>
           \/ \E n \in VM : StoredAgain(n) \/ Removed(n) \/ Added(n) \/ Edited(n)
<1>1. ASSUME NEW n \in VM, NEW a \in Requests, add(n, a)
      PROVE  UNCHANGED <<file, given>>
  BY <1>1 DEF add
<1>8. ASSUME NEW n \in VM, add_store(n)
      PROVE  UNCHANGED <<file, given>> \/ Added(n)
  <2>1. PICK m \in VM, a \in Requests : adding.options = Options(m, a)
    BY <1>8 DEF add_store, Making
  <2>2. m = n
    BY <1>8, <2>1, NameOfAdd DEF add_store
  <2>3. QED
    BY <1>8, <2>1, <2>2 DEF add_store, Added
<1>9. ASSUME NEW n \in VM, add_undone(n)
      PROVE  Removed(n)
  BY <1>9 DEF add_undone, Removed
<1>2. ASSUME NEW n \in VM, start(n)
      PROVE  UNCHANGED <<file, given>> \/ StoredAgain(n)
  <2>1. given' = given
    BY <1>2 DEF start
  <2>2. file' = file \/ (file[n] # None /\ file' = Sets(n, TRUE))
    BY <1>2 DEF start, CanParse
  <2>3. QED
    BY <2>1, <2>2, SetsCases
<1>3. ASSUME NEW n \in VM, stop(n)
      PROVE  UNCHANGED <<file, given>> \/ StoredAgain(n)
  <2>1. given' = given
    BY <1>3 DEF stop
  <2>2. file' = file \/ (file[n] # None /\ file' = Sets(n, FALSE))
    BY <1>3 DEF stop, CanParse
  <2>3. QED
    BY <2>1, <2>2, SetsCases
<1>4. ASSUME NEW n \in VM, show(n)
      PROVE  UNCHANGED <<file, given>>
  BY <1>4 DEF show
<1>5. ASSUME NEW n \in VM, EditFile(n)
      PROVE  Edited(n)
  BY <1>5 DEF EditFile, Edited
<1>6. CASE Boot \/ Shutdown \/ periodic \/ list \/ Unreached \/ EditConf \/ UNCHANGED vars
  BY <1>6 DEF Boot, Shutdown, periodic, list, Unreached, EditConf, vars
<1>7. QED
  BY <1>1, <1>2, <1>3, <1>4, <1>5, <1>6, <1>8, <1>9, DeleteFiles DEF Next, Command

LEMMA StepMaking ==
    ASSUME Functional, Making, [Next]_vars
    PROVE  Making'
<1>1. CASE UNCHANGED <<file, bare, adding>> /\ (adding = None \/ UNCHANGED daemon)
  BY <1>1 DEF Making
<1>2. CASE Boot \/ periodic \/ list \/ Unreached \/ EditConf \/ UNCHANGED vars
  <2>1. UNCHANGED <<file, bare, adding>> /\ (adding = None \/ UNCHANGED daemon)
    BY <1>2 DEF Making, Boot, periodic, list, Taken, Unreached, EditConf, vars
  <2>2. QED
    BY <1>1, <2>1
<1>3. CASE Shutdown
  BY <1>3 DEF Shutdown, Making
<1>4. ASSUME adding' = None, bare' \subseteq bare,
             \A n \in bare' : file'[n] = file[n]
      PROVE  Making'
  BY <1>4 DEF Making
<1>5. ASSUME NEW n \in VM, NEW a \in Requests, add(n, a) PROVE Making'
  <2>1. CASE UNCHANGED <<file, bare, adding>> /\ adding = None
    BY <1>1, <2>1
  <2>2. CASE /\ file[n] = None /\ bare' = bare \cup {n} /\ adding' = Add(n, a)
             /\ daemon' = daemon /\ daemon # None /\ file' = file
    <3>1. adding'.found = None /\ adding'.options = Options(n, a)
          /\ DOMAIN adding' = {"options", "refused", "found"}
      BY <2>2 DEF Add
    <3>2. adding'.options.vm_name \in bare'
      BY <2>2, <3>1, NameOfAdd
    <3>3. QED
      BY <2>2, <3>1, <3>2 DEF Making
  <2>3. QED
    BY <1>5, <2>1, <2>2 DEF add, Answer, Taken, Reached
<1>6. ASSUME NEW n \in VM, add_store(n) PROVE Making'
  <2>1. CASE /\ file' = [file EXCEPT ![n] = adding.options]
             /\ bare' = bare \ {n} /\ adding' = None
    BY <1>4, <2>1 DEF Functional
  <2>2. CASE adding' = [adding EXCEPT !.refused = TRUE] /\ UNCHANGED <<file, bare, daemon>>
    BY <1>6, <2>2 DEF add_store, Making
  <2>3. QED
    BY <1>6, <2>1, <2>2 DEF add_store
<1>7. ASSUME NEW n \in VM, add_undone(n) PROVE Making'
  BY <1>4, <1>7 DEF add_undone, Functional
<1>8. ASSUME NEW n \in VM, start(n) PROVE Making'
  <2>1. file' = file \/ (n \notin bare /\ file' = Sets(n, TRUE))
    BY <1>8 DEF start, CanParse, Making
  <2>2. UNCHANGED <<bare, adding>> /\ adding = None
    BY <1>8 DEF start, Taken
  <2>3. QED
    BY <1>4, <2>1, <2>2 DEF Sets, Functional, Making
<1>9. ASSUME NEW n \in VM, stop(n) PROVE Making'
  <2>1. file' = file \/ (n \notin bare /\ file' = Sets(n, FALSE))
    BY <1>9 DEF stop, CanParse, Making
  <2>2. UNCHANGED <<bare, adding>> /\ adding = None
    BY <1>9 DEF stop, Taken
  <2>3. QED
    BY <1>4, <2>1, <2>2 DEF Sets, Functional, Making
<1>10. ASSUME NEW n \in VM, delete(n) PROVE Making'
  <2>1. \/ file' = file /\ bare' = bare
        \/ file' = [file EXCEPT ![n] = None] /\ bare' \subseteq bare
        \/ n \notin bare /\ file' = Sets(n, FALSE) /\ bare' = bare
    BY <1>10 DEF delete, CanParse, Making
  <2>2. UNCHANGED adding /\ adding = None
    BY <1>10 DEF delete, Taken
  <2>3. bare' \subseteq bare /\ \A m \in bare' : file'[m] = None
    BY <2>1 DEF Sets, Functional, Making
  <2>4. QED
    BY <2>2, <2>3 DEF Making
<1>11. ASSUME NEW n \in VM, show(n) PROVE Making'
  BY <1>1, <1>11 DEF show, Taken
<1>12. ASSUME NEW n \in VM, EditFile(n) PROVE Making'
  <2>1. n \notin bare /\ UNCHANGED <<bare, adding, daemon>>
    BY <1>12 DEF EditFile, Making
  <2>2. \A m \in VM \ {n} : file'[m] = file[m]
    BY <1>12 DEF EditFile, Functional
  <2>3. \A m \in bare : file'[m] = None
    BY <2>1, <2>2 DEF Making
  <2>4. QED
    BY <2>1, <2>3 DEF Making
<1>13. QED
  BY <1>2, <1>3, <1>5, <1>6, <1>7, <1>8, <1>9, <1>10, <1>11, <1>12 DEF Next, Command

-----------------------------------------------------------------------------
(* A file: the options of the name it is for.                                *)
IsFileOf(n, f) == DOMAIN f = VBMC_OPTIONS /\ f.vm_name = n /\ f.active \in BOOLEAN

Files ==
    /\ Functional /\ Making
    /\ \A n \in Configured(file) : IsFileOf(n, file[n])

LEMMA StepFilesOK ==
    Files /\ [Next]_vars => Files'
<1> SUFFICES ASSUME Files, [Next]_vars
             PROVE  Files'
  OBVIOUS
<1>0. Making'
  BY StepMaking DEF Files
<1>1. CASE UNCHANGED <<file, given>>
  BY <1>1, <1>0 DEF Files, Functional, Configured
<1>2. ASSUME NEW n \in VM, NEW f, file' = [file EXCEPT ![n] = f],
             f = None \/ IsFileOf(n, f),
             NEW g, given' = given \/ given' = [given EXCEPT ![n] = g]
      PROVE  Files'
  BY <1>2, <1>0 DEF Files, Functional, Configured
<1>3. ASSUME NEW n \in VM, StoredAgain(n) PROVE Files'
  <2>1. PICK on \in BOOLEAN : file' = [file EXCEPT ![n] = Enabled(Parsed(file[n]), on)]
    BY <1>3 DEF StoredAgain
  <2>2. IsFileOf(n, file[n])
    BY <1>3 DEF StoredAgain, Files, Configured
  <2>3. IsFileOf(n, Enabled(Parsed(file[n]), on))
    BY <2>2 DEF IsFileOf, Enabled, Parsed, VBMC_OPTIONS, Credentials
  <2>4. given' = given
    BY <1>3 DEF StoredAgain
  <2>5. QED
    BY <1>2, <2>1, <2>3, <2>4
<1>4. ASSUME NEW n \in VM, Removed(n) PROVE Files'
  BY <1>2, <1>4 DEF Removed, Files
<1>5. ASSUME NEW n \in VM, Added(n) PROVE Files'
  <2>1. PICK a \in Requests : /\ file' = [file EXCEPT ![n] = Options(n, a)]
                              /\ given' = [given EXCEPT ![n] = Options(n, a)]
    BY <1>5 DEF Added
  <2>2. IsFileOf(n, Options(n, a))
    BY DEF IsFileOf, Options, VBMC_OPTIONS, Credentials
  <2>3. QED
    BY <1>2, <2>1, <2>2 DEF Files
<1>6. ASSUME NEW n \in VM, Edited(n) PROVE Files'
  <2>1. IsFileOf(n, file[n]) /\ given' = [given EXCEPT ![n] = None]
    BY <1>6 DEF Edited, Files, Configured
  <2>2. ASSUME NEW t, file' = [file EXCEPT ![n].password = t] PROVE Files'
    <3>1. IsFileOf(n, [file[n] EXCEPT !.password = t])
      BY <2>1 DEF IsFileOf
    <3>2. file' = [file EXCEPT ![n] = [file[n] EXCEPT !.password = t]]
      BY <2>2
    <3>3. QED
      BY <1>2, <2>1, <3>1, <3>2
  <2>3. ASSUME NEW p, file' = [file EXCEPT ![n].port = p] PROVE Files'
    <3>1. IsFileOf(n, [file[n] EXCEPT !.port = p])
      BY <2>1 DEF IsFileOf
    <3>2. file' = [file EXCEPT ![n] = [file[n] EXCEPT !.port = p]]
      BY <2>3
    <3>3. QED
      BY <1>2, <2>1, <3>1, <3>2
  <2>4. QED
    BY <1>6, <2>2, <2>3 DEF Edited
<1>7. QED
  BY <1>1, <1>3, <1>4, <1>5, <1>6, StepFiles DEF Files

LEMMA AlwaysFiles == Spec => []Files
<1>1. Init => Files
  BY DEF Init, Nobody, Files, Functional, Making, Configured
<1>2. QED
  BY <1>1, StepFilesOK, PTL DEF Spec

-----------------------------------------------------------------------------
(* None is not the contents of a config file.                               *)
NoneIsNoFile == \A f : DOMAIN f = VBMC_OPTIONS => f # None

(* A BMC without a file, which a delete has left at work because the stop    *)
(* inside it was refused, is one that an edit was made to: an add of the     *)
(* same name does not make it serve the new file.                           *)
Leftovers == \A n \in VM : file[n] = None /\ served[n] # None => n \in edited

Serves ==
    /\ DOMAIN file = VM /\ DOMAIN served = VM
    /\ Leftovers
    /\ ServesFile

(* What a name has to show after a step: its BMC runs with the file as it is *)
(* now, or both are as they were.                                            *)
Settled(n) ==
    served'[n] # None =>
       \/ file'[n] # None /\ Parses(file'[n]) /\ served'[n] = Parsed(file'[n])
       \/ served'[n] = served[n] /\ file'[n] = file[n]

LEMMA FreshServes ==
    ASSUME Serves, Fresh, \A n \in VM : Settled(n),
           DOMAIN file' = VM, DOMAIN served' = VM
    PROVE  Serves'
BY DEF Serves, Fresh, Settled, Leftovers, ServesFile, Configured

LEMMA NobodyServes ==
    ASSUME Serves, served' = Nobody, DOMAIN file' = VM
    PROVE  Serves'
BY DEF Serves, Nobody, Leftovers, ServesFile, Configured

LEMMA SameServes ==
    ASSUME Serves, UNCHANGED <<file, served, edited>> PROVE Serves'
BY DEF Serves, Leftovers, ServesFile, Configured

(* A pass over the files as they are.                                        *)
LEMMA SyncedSettles ==
    ASSUME Serves, served' = Synced(file', served), file' = file, ~PassRaises(file),
           NEW n \in VM
    PROVE  Settled(n)
BY DEF Settled, Synced, PassRaises, Configured, vbmc_runner

LEMMA PassServes ==
    ASSUME Serves, Pass(file, served), Fresh, file' = file PROVE Serves'
<1>1. CASE PassRaises(file)
  BY <1>1, NobodyServes DEF Pass, Dies, Serves
<1>2. CASE ~PassRaises(file)
  <2>1. served' = Synced(file', served)
    BY <1>2 DEF Pass
  <2>2. DOMAIN served' = VM
    BY <2>1 DEF Synced
  <2>3. QED
    BY <1>2, <2>1, <2>2, SyncedSettles, FreshServes DEF Serves
<1>3. QED
  BY <1>1, <1>2

-----------------------------------------------------------------------------
LEMMA BootServes == ASSUME Serves, Boot PROVE Serves'
<1>1. CASE PassRaises(file)
  BY <1>1, FreshServes DEF Boot, Settled, Serves
<1>2. CASE ~PassRaises(file)
  <2>1. served' = Synced(file, Nobody) /\ file' = file /\ Fresh
    BY <1>2 DEF Boot
  <2>2. ASSUME NEW n \in VM PROVE Settled(n)
    BY <1>2, <2>1 DEF Settled, Synced, Nobody, PassRaises, Configured, vbmc_runner
  <2>3. DOMAIN served' = VM
    BY <2>1 DEF Synced
  <2>4. QED
    BY <2>1, <2>2, <2>3, FreshServes DEF Serves
<1>3. QED
  BY <1>1, <1>2

LEMMA AddServes ==
    ASSUME Making, Serves, NEW n \in VM, add_store(n) PROVE Serves'
<1>1. UNCHANGED <<served, edited>> /\ file[n] = None
  BY DEF add_store, Answer, Making
<1>2. CASE file' = file
  BY <1>1, <1>2, SameServes
<1>3. CASE file' = [file EXCEPT ![n] = adding.options]
  BY <1>1, <1>3 DEF Serves, Leftovers, ServesFile, Configured
<1>4. QED
  BY <1>2, <1>3 DEF add_store

LEMMA UndoneServes ==
    ASSUME Making, Serves, NEW n \in VM, add_undone(n) PROVE Serves'
<1>1. UNCHANGED <<served, edited>> /\ file[n] = None /\ file' = [file EXCEPT ![n] = None]
  BY DEF add_undone, Answer, Making
<1>2. QED
  BY <1>1 DEF Serves, Leftovers, ServesFile, Configured

(* What a command has read and stored again is a file.                       *)
LEMMA EnabledIsFile ==
    ASSUME NoneIsNoFile, NEW f, NEW on
    PROVE  /\ Enabled(Parsed(f), on) # None
           /\ Enabled(Parsed(f), on).active = on
<1>1. DOMAIN Enabled(Parsed(f), on) = VBMC_OPTIONS
  BY DEF Enabled, Parsed
<1>2. Enabled(Parsed(f), on).active = on
  BY DEF Enabled, Parsed, VBMC_OPTIONS
<1>3. QED
  BY <1>1, <1>2 DEF NoneIsNoFile

LEMMA SetsFile ==
    ASSUME NoneIsNoFile, Serves, NEW n \in VM, file[n] # None, NEW on
    PROVE  /\ DOMAIN Sets(n, on) = VM
           /\ Sets(n, on)[n] # None /\ Sets(n, on)[n].active = on
           /\ \A m \in VM \ {n} : Sets(n, on)[m] = file[m]
<1>1. CASE file[n].active = on
  BY <1>1 DEF Sets, Serves
<1>2. CASE file[n].active # on
  BY <1>2, EnabledIsFile DEF Sets, Serves
<1>3. QED
  BY <1>1, <1>2

(* The same for each of the two values "active" is set to.                   *)
LEMMA SetsFiles ==
    ASSUME NoneIsNoFile, Serves, NEW n \in VM, file[n] # None
    PROVE  /\ DOMAIN Sets(n, TRUE) = VM /\ DOMAIN Sets(n, FALSE) = VM
           /\ Sets(n, FALSE)[n] # None /\ ~Sets(n, FALSE)[n].active
           /\ \A m \in VM \ {n} : Sets(n, TRUE)[m] = file[m]
           /\ \A m \in VM \ {n} : Sets(n, FALSE)[m] = file[m]
<1>1. \A on \in BOOLEAN : /\ DOMAIN Sets(n, on) = VM
                          /\ Sets(n, on)[n] # None /\ Sets(n, on)[n].active = on
                          /\ \A m \in VM \ {n} : Sets(n, on)[m] = file[m]
  BY SetsFile
<1>2. QED
  BY <1>1

LEMMA StartServes ==
    ASSUME NoneIsNoFile, Serves, NEW n \in VM, start(n) PROVE Serves'
<1> DEFINE first == IF served[n] # None THEN Synced(file, served) ELSE served
<1>1. Fresh
  BY DEF start
<1>2. CASE ~CanParse(n)
  BY <1>1, <1>2, FreshServes DEF start, Answer, Settled, Serves
<1>3. CASE served' = Nobody /\ file' = file
  BY <1>3, NobodyServes DEF Serves
<1>4. CASE /\ CanParse(n) /\ ~(served[n] # None /\ PassRaises(file))
           /\ first[n] = None /\ Refused(n, TRUE)
  <2>1. served' = first /\ file' = file
    BY <1>4 DEF start
  <2>2. CASE served[n] # None
    BY <1>1, <1>4, <2>1, <2>2, SyncedSettles, FreshServes DEF Serves, Synced
  <2>3. CASE served[n] = None
    BY <1>1, <2>1, <2>3, FreshServes DEF Serves, Settled
  <2>4. QED
    BY <2>2, <2>3
<1>5. CASE /\ CanParse(n) /\ ~(served[n] # None /\ PassRaises(file))
           /\ ~(first[n] = None /\ Refused(n, TRUE))
  <2>1. /\ file' = IF first[n] = None THEN Sets(n, TRUE) ELSE file
        /\ Pass(file', first)
    BY <1>5 DEF start
  <2>2. file[n] # None
    BY <1>5 DEF CanParse
  <2>3. DOMAIN file' = VM /\ \A m \in VM \ {n} : file'[m] = file[m]
    BY <2>1, <2>2, SetsFiles DEF Serves
  <2>4. CASE PassRaises(file')
    BY <2>1, <2>3, <2>4, NobodyServes DEF Pass, Dies
  <2>5. CASE ~PassRaises(file')
    <3>1. served' = Synced(file', first) /\ DOMAIN served' = VM
      BY <2>1, <2>5 DEF Pass, Synced
    <3>2. DOMAIN first = VM
      BY DEF Serves, Synced
    <3>3. ASSUME NEW m \in VM, file'[m] # None PROVE Parses(file'[m])
      BY <2>5, <3>3 DEF PassRaises, Configured
    <3>4. ASSUME NEW m \in VM, first[m] # None, first[m] # served[m]
          PROVE  file[m] # None /\ Parses(file[m]) /\ first[m] = Parsed(file[m])
      BY <1>5, <3>4 DEF Synced, PassRaises, Configured, vbmc_runner
    <3>5. ASSUME NEW m \in VM PROVE Settled(m)
      <4>1. CASE served'[m] = Parsed(file'[m]) /\ file'[m] # None
        BY <3>3, <4>1 DEF Settled
      <4>2. CASE served'[m] = first[m]
        <5>1. CASE file'[m] = file[m]
          BY <3>4, <4>2, <5>1 DEF Settled
        <5>2. CASE file'[m] # file[m]
          BY <2>1, <2>3, <4>2, <5>2 DEF Settled
        <5>3. QED
          BY <5>1, <5>2
      <4>3. CASE served'[m] = None
        BY <4>3 DEF Settled
      <4>4. QED
        BY <3>1, <4>1, <4>2, <4>3 DEF Synced, Configured, vbmc_runner
    <3>6. QED
      BY <1>1, <2>3, <3>1, <3>5, FreshServes
  <2>6. QED
    BY <2>4, <2>5
<1>6. QED
  BY <1>2, <1>3, <1>4, <1>5 DEF start, Dies

(* A name that was found inactive serves nothing after the pass.             *)
LEMMA StoppedSettles ==
    ASSUME NoneIsNoFile, Serves, NEW n \in VM, file[n] # None,
           ~PassRaises(Sets(n, FALSE)), served' = Synced(Sets(n, FALSE), served),
           NEW m \in VM, m = n \/ file'[m] = Sets(n, FALSE)[m]
    PROVE  Settled(m) /\ (m = n => served'[m] = None)
<1>1. CASE m = n
  <2>1. served'[m] = None
    BY <1>1, SetsFiles DEF Synced, Configured
  <2>2. QED
    BY <2>1 DEF Settled
<1>2. CASE m # n
  <2>1. file'[m] = file[m]
    BY <1>2, SetsFiles
  <2>2. file'[m] # None => Parses(file'[m])
    BY <1>2, <2>1, SetsFiles DEF PassRaises, Configured
  <2>3. QED
    BY <1>2, <2>1, <2>2, SetsFiles DEF Settled, Synced, Configured, vbmc_runner
<1>3. QED
  BY <1>1, <1>2

LEMMA StopServes ==
    ASSUME NoneIsNoFile, Serves, NEW n \in VM, stop(n) PROVE Serves'
<1>1. Fresh
  BY DEF stop
<1>2. CASE ~CanParse(n) \/ Refused(n, FALSE)
  BY <1>1, <1>2, FreshServes DEF stop, Answer, Settled, Serves
<1>3. CASE CanParse(n) /\ ~Refused(n, FALSE)
  <2>1. file[n] # None /\ file' = Sets(n, FALSE) /\ Pass(file', served)
    BY <1>3 DEF stop, CanParse
  <2>2. DOMAIN file' = VM
    BY <2>1, SetsFiles
  <2>3. CASE PassRaises(file')
    BY <2>1, <2>2, <2>3, NobodyServes DEF Pass, Dies
  <2>4. CASE ~PassRaises(file')
    <3>1. served' = Synced(file', served) /\ DOMAIN served' = VM
      BY <2>1, <2>4 DEF Pass, Synced
    <3>2. \A m \in VM : Settled(m)
      BY <2>1, <2>4, <3>1, StoppedSettles
    <3>3. QED
      BY <1>1, <2>2, <3>1, <3>2, FreshServes
  <2>5. QED
    BY <2>3, <2>4
<1>4. QED
  BY <1>2, <1>3

LEMMA DeleteServes ==
    ASSUME NoneIsNoFile, Serves, NEW n \in VM, delete(n) PROVE Serves'
<1>1. edited' = {m \in edited \cup {n} : served[m] # None /\ served'[m] = served[m]}
  BY DEF delete
<1>2. ASSUME \A m \in VM \ {n} : Settled(m), DOMAIN file' = VM, DOMAIN served' = VM,
             file'[n] = None, served'[n] \in {None, served[n]}
      PROVE  Serves'
  BY <1>1, <1>2 DEF Serves, Settled, Leftovers, ServesFile, Configured
<1>3. CASE file[n] = None /\ Answer("fail") /\ UNCHANGED file
  BY <1>2, <1>3 DEF Answer, Settled, Serves
<1>4. CASE Answer("ok") /\ file' = [file EXCEPT ![n] = None]
  BY <1>2, <1>4 DEF Answer, Settled, Serves
<1>5. CASE /\ CanParse(n) /\ Pass(Sets(n, FALSE), served)
           /\ file' = IF PassRaises(file) THEN Sets(n, FALSE)
                      ELSE [file EXCEPT ![n] = None]
  <2>1. file[n] # None
    BY <1>5 DEF CanParse
  <2>2. DOMAIN file' = VM
    BY <1>5, <2>1, SetsFiles DEF Serves
  <2>3. CASE PassRaises(Sets(n, FALSE))
    BY <1>5, <2>2, <2>3, NobodyServes DEF Pass, Dies
  <2>4. CASE ~PassRaises(Sets(n, FALSE))
    <3>1. served' = Synced(Sets(n, FALSE), served) /\ DOMAIN served' = VM
      BY <1>5, <2>4 DEF Pass, Synced
    <3>2. \A m \in VM \ {n} : file'[m] = Sets(n, FALSE)[m]
      BY <1>5, <2>1, SetsFiles DEF Serves
    <3>3. \A m \in VM : Settled(m) /\ (m = n => served'[m] = None)
      BY <2>1, <2>4, <3>1, <3>2, StoppedSettles
    <3>4. \A m \in VM : m = n => served'[m] = None
      BY <3>3
    <3>5. QED
      BY <1>1, <2>2, <3>1, <3>3, <3>4 DEF Serves, Settled, Leftovers, ServesFile, Configured
  <2>5. QED
    BY <2>3, <2>4
<1>6. QED
  BY <1>3, <1>4, <1>5 DEF delete

LEMMA ShowServes == ASSUME Serves, NEW n \in VM, show(n) PROVE Serves'
<1>1. file' = file
  BY DEF show
<1>2. CASE served' = Nobody
  BY <1>1, <1>2, NobodyServes DEF Serves
<1>3. CASE UNCHANGED <<served, edited>>
  BY <1>1, <1>3, SameServes
<1>4. QED
  BY <1>2, <1>3 DEF show, Dies, Answer

LEMMA ListServes == ASSUME Serves, list PROVE Serves'
<1>1. CASE served' = Nobody /\ file' = file
  BY <1>1, NobodyServes DEF Serves
<1>2. CASE UNCHANGED <<served, file>> /\ Fresh
  BY <1>2, FreshServes DEF Settled, Serves
<1>3. QED
  BY <1>1, <1>2 DEF list, Dies, Answer

LEMMA EditServes == ASSUME Serves, NEW n \in VM, EditFile(n) PROVE Serves'
<1>1. /\ served' = served
      /\ edited' = IF served[n] = None THEN edited ELSE edited \cup {n}
      /\ DOMAIN file' = VM /\ \A m \in VM \ {n} : file'[m] = file[m]
  BY DEF EditFile, Serves
<1>2. QED
  BY <1>1 DEF Serves, Leftovers, ServesFile, Configured

LEMMA StepServes == NoneIsNoFile /\ Making /\ Serves /\ [Next]_vars => Serves'
<1> SUFFICES ASSUME NoneIsNoFile, Making, Serves, [Next]_vars
             PROVE  Serves'
  OBVIOUS
<1>1. CASE Shutdown
  BY <1>1, NobodyServes DEF Shutdown, Serves
<1>2. CASE periodic
  BY <1>2, PassServes DEF periodic
<1>3. CASE Unreached \/ EditConf \/ UNCHANGED vars
  BY <1>3, SameServes DEF Unreached, EditConf, vars
<1>4. ASSUME NEW n \in VM, Command(n)
      PROVE  Serves'
  <2>1. ASSUME NEW a \in Requests, add(n, a) PROVE Serves'
    BY <2>1, SameServes DEF add, Answer
  <2>2. QED
    BY <1>4, <2>1, AddServes, UndoneServes, StartServes, StopServes, DeleteServes, ShowServes
       DEF Command
<1>5. QED
  BY <1>1, <1>2, <1>3, <1>4, BootServes, ListServes, EditServes DEF Next

(* A BMC serves with exactly what its file says, passwords and port, through *)
(* every sequence of commands, passes, restarts and refusals, unless the     *)
(* file was edited or removed under it (manager.py: vbmc_runner gets the     *)
(* options of the pass that starts it; utils.py: what show prints is a masked *)
(* copy).                                                                    *)
THEOREM ServedAsStored == ASSUME NoneIsNoFile PROVE Spec => []ServesFile
<1>1. Init => Serves
  BY DEF Init, Nobody, Serves, Leftovers, ServesFile, Configured
<1>2. Serves => ServesFile
  BY DEF Serves
<1>3. QED
  <2>1. Files => Making
    BY DEF Files
  <2>2. QED
    BY <1>1, <1>2, <2>1, StepServes, AlwaysFiles, PTL DEF Spec

-----------------------------------------------------------------------------
(* A daemon that is not there has no BMCs; one that is has valid settings.   *)
DaemonOK ==
    /\ daemon = None \/ daemon.show_passwords \in {"true", "false"}
    /\ daemon = None => served = Nobody /\ edited = {}
    /\ edited \subseteq VM
    /\ rc \in {"ok", "fail", "raise", "unreached"}
    /\ edits \in 0 .. MaxEdits

LEMMA NobodyEdited ==
    ASSUME DaemonOK, Fresh, served' = Nobody
    PROVE  edited' = {}
BY DEF DaemonOK, Fresh, Nobody

LEMMA FreshDaemon ==
    ASSUME DaemonOK, Fresh, UNCHANGED edits,
           \/ Dies
           \/ daemon' = None /\ served' = Nobody /\ rc' = "ok"
           \/ UNCHANGED daemon /\ daemon # None /\ rc' \in {"ok", "fail"}
    PROVE  DaemonOK'
<1>1. edited' \subseteq VM /\ edits' \in 0 .. MaxEdits
  BY DEF DaemonOK, Fresh
<1>2. CASE daemon' = None /\ served' = Nobody /\ rc' \in {"ok", "raise"}
  BY <1>1, <1>2, NobodyEdited DEF DaemonOK
<1>3. CASE UNCHANGED daemon /\ daemon # None /\ rc' \in {"ok", "fail"}
  BY <1>1, <1>3 DEF DaemonOK
<1>4. QED
  BY <1>2, <1>3 DEF Dies

LEMMA StepDaemon == DaemonOK /\ [Next]_vars => DaemonOK'
<1> SUFFICES ASSUME DaemonOK, [Next]_vars
             PROVE  DaemonOK'
  OBVIOUS
<1>1. CASE Boot
  <2>1. edited' \subseteq VM /\ edits' = edits
    BY <1>1 DEF Boot, Fresh, DaemonOK
  <2>2. CASE PassRaises(file)
    <3>1. UNCHANGED <<daemon, served>> /\ rc' = "raise" /\ edited' = {}
      BY <1>1, <2>2 DEF Boot, Fresh, DaemonOK
    <3>2. QED
      BY <2>1, <3>1 DEF DaemonOK
  <2>3. CASE ~PassRaises(file)
    <3>1. daemon' = get_config(conf) /\ get_config(conf) # None /\ rc' = "ok"
      BY <1>1, <2>3 DEF Boot
    <3>2. daemon'.show_passwords \in {"true", "false"}
      BY <3>1 DEF get_config
    <3>3. QED
      BY <2>1, <3>1, <3>2 DEF DaemonOK
  <2>4. QED
    BY <2>2, <2>3
<1>2. CASE Shutdown
  BY <1>2, FreshDaemon DEF Shutdown
<1>3. CASE periodic
  BY <1>3, FreshDaemon DEF periodic, Pass
<1>4. CASE list
  BY <1>4, FreshDaemon DEF list, Answer, Taken, Reached
<1>5. CASE Unreached \/ UNCHANGED vars
  BY <1>5 DEF Unreached, vars, DaemonOK
<1>6. CASE EditConf
  BY <1>6, ConfigurationAssumption DEF EditConf, DaemonOK
<1>7. ASSUME NEW n \in VM, EditFile(n) PROVE DaemonOK'
  <2>1. served[n] = None => edited' = edited
    BY <1>7 DEF EditFile
  <2>2. daemon = None => served[n] = None
    BY DEF DaemonOK, Nobody
  <2>3. edits' = edits + 1 /\ edits < MaxEdits /\ edited' \subseteq edited \cup {n}
        /\ UNCHANGED <<daemon, served, rc>>
    BY <1>7 DEF EditFile
  <2>4. QED
    BY <2>1, <2>2, <2>3, ConfigurationAssumption DEF DaemonOK
<1>8. ASSUME NEW n \in VM, NEW a, add(n, a) PROVE DaemonOK'
  BY <1>8 DEF add, Answer, Taken, Reached, DaemonOK
<1>9. ASSUME NEW n \in VM, start(n) PROVE DaemonOK'
  BY <1>9, FreshDaemon DEF start, Answer, Taken, Reached, Pass
<1>10. ASSUME NEW n \in VM, stop(n) PROVE DaemonOK'
  BY <1>10, FreshDaemon DEF stop, Answer, Taken, Reached, Pass
<1>11. ASSUME NEW n \in VM, delete(n) PROVE DaemonOK'
  <2>1. edited' = {m \in edited \cup {n} : served[m] # None /\ served'[m] = served[m]}
        /\ edits' = edits /\ daemon # None
    BY <1>11 DEF delete, Taken, Reached
  <2>2. edited' \subseteq VM
    BY <2>1 DEF DaemonOK
  <2>3. CASE Dies
    <3>1. edited' = {}
      BY <2>1, <2>2, <2>3 DEF Dies, Nobody, DaemonOK
    <3>2. QED
      BY <2>1, <2>3, <3>1 DEF Dies, DaemonOK
  <2>4. CASE UNCHANGED daemon /\ rc' \in {"ok", "fail"}
    BY <2>1, <2>2, <2>4 DEF DaemonOK
  <2>5. QED
    BY <1>11, <2>3, <2>4 DEF delete, Answer, Pass
<1>12. ASSUME NEW n \in VM, show(n) PROVE DaemonOK'
  <2>1. CASE Dies /\ Fresh
    BY <1>12, <2>1, FreshDaemon DEF show
  <2>2. CASE UNCHANGED <<daemon, served, edited>> /\ rc' \in {"ok", "fail"}
    BY <1>12, <2>2 DEF show, DaemonOK
  <2>3. QED
    BY <1>12, <2>1, <2>2 DEF show, Answer
<1>13. ASSUME NEW n \in VM, add_store(n) \/ add_undone(n) PROVE DaemonOK'
  BY <1>13 DEF add_store, add_undone, Answer, DaemonOK
<1>14. QED
  BY <1>1, <1>2, <1>3, <1>4, <1>5, <1>6, <1>7, <1>8, <1>9, <1>10, <1>11, <1>12, <1>13
     DEF Next, Command

(* Types, and a daemon that is not there has no BMC at work and nothing      *)
(* edited under one.                                                         *)
THEOREM ConfigurationTypeCorrect == Spec => []TypeOK
<1>1. Init => DaemonOK
  BY ConfigurationAssumption DEF Init, DaemonOK
<1>2. Spec => []DaemonOK
  BY <1>1, StepDaemon, PTL DEF Spec
<1>3. DaemonOK /\ Files => TypeOK
  BY DEF DaemonOK, Files, Making, IsFileOf, TypeOK
<1>4. QED
  BY <1>2, <1>3, AlwaysFiles, PTL

-----------------------------------------------------------------------------
(* A text that says nothing to configparser is read as it was written.       *)
LEMMA CleanText ==
    ASSUME NEW t \in SomeText, Clean(t)
    PROVE  /\ t.ref = None /\ t.percents % 2 = 0 /\ t.percents % 2 # 1
           /\ [t EXCEPT !.percents = @ \div 2, !.padded = FALSE] = t
<1>1. t.ref = None /\ t.percents = 0 /\ t.padded = FALSE
  BY DEF SomeText, Clean
<1>2. 0 % 2 = 0 /\ 0 \div 2 = 0
  OBVIOUS
<1>3. [t EXCEPT !.percents = t.percents \div 2, !.padded = FALSE] = t
  BY <1>1, <1>2 DEF SomeText
<1>4. QED
  BY <1>1, <1>2, <1>3

(* The options g as they are read from the file f.                           *)
Plain(g, o) == g[o] = None \/ Clean(g[o])

Kept(f, g) ==
    /\ \A o \in Credentials : Plain(g, o) => Reads(f, o) = g[o]
    /\ f.port = g.port /\ f.fakemac = g.fakemac

Texty(g) == \A o \in Credentials : g[o] \in SomeText \cup {None}

LEMMA ReadsPlain ==
    ASSUME NEW f, NEW g, Texty(g), NEW o \in Credentials, Plain(g, o), f[o] = g[o]
    PROVE  Reads(f, o) = g[o]
<1>1. CASE g[o] = None
  BY <1>1 DEF Reads
<1>2. CASE g[o] # None
  <2>1. g[o] \in SomeText /\ Clean(g[o])
    BY <1>2 DEF Texty, Plain
  <2>2. g[o].ref = None /\ Direct(g[o]) = g[o]
    BY <2>1, CleanText DEF Direct
  <2>3. QED
    BY <1>2, <2>2 DEF Reads
<1>3. QED
  BY <1>1, <1>2

(* To read a file and to store it again with another "active" keeps all the  *)
(* texts that are plain.                                                     *)
LEMMA KeptAgain ==
    ASSUME NEW f, NEW g, Texty(g), Kept(f, g), NEW on
    PROVE  Kept(Enabled(Parsed(f), on), g)
<1> DEFINE h == Enabled(Parsed(f), on)
<1>1. \A o \in Credentials : h[o] = Reads(f, o)
  BY DEF Enabled, Parsed, VBMC_OPTIONS, Credentials
<1>2. h.port = f.port /\ h.fakemac = f.fakemac
  BY DEF Enabled, Parsed, VBMC_OPTIONS, Credentials
<1>3. ASSUME NEW o \in Credentials, Plain(g, o) PROVE Reads(h, o) = g[o]
  <2>1. h[o] = g[o]
    BY <1>1, <1>3 DEF Kept
  <2>2. QED
    BY <1>3, <2>1, ReadsPlain
<1>4. QED
  BY <1>2, <1>3 DEF Kept

(* And so does add.                                                          *)
LEMMA OptionsKept ==
    ASSUME NEW n \in VM, NEW a \in Requests
    PROVE  Texty(Options(n, a)) /\ Kept(Options(n, a), Options(n, a))
<1> DEFINE g == Options(n, a)
<1>1. \A o \in Credentials : g[o] = a[o]
  BY DEF Options, VBMC_OPTIONS, Credentials
<1>2. Texty(g)
  BY <1>1, ConfigurationAssumption DEF Texty
<1>3. QED
  BY <1>2, ReadsPlain DEF Kept

(* The file of a name nobody edits has what add was told, in everything that *)
(* is plain.                                                                 *)
Faithful ==
    \A n \in VM : given[n] # None =>
        file[n] # None /\ Texty(given[n]) /\ Kept(file[n], given[n])

LEMMA StepFaithful ==
    NoneIsNoFile /\ Files /\ Faithful /\ [Next]_vars => Faithful'
<1> SUFFICES ASSUME NoneIsNoFile, Files, Faithful, [Next]_vars
             PROVE  Faithful'
  OBVIOUS
<1>1. Functional
  BY DEF Files
<1>2. CASE UNCHANGED <<file, given>>
  BY <1>2 DEF Faithful
<1>3. ASSUME NEW n \in VM, NEW f, NEW g,
             file' = [file EXCEPT ![n] = f], given' = [given EXCEPT ![n] = g],
             g = None \/ (f # None /\ Texty(g) /\ Kept(f, g))
      PROVE  Faithful'
  <2>1. file'[n] = f /\ given'[n] = g
        /\ \A m \in VM \ {n} : file'[m] = file[m] /\ given'[m] = given[m]
    BY <1>1, <1>3 DEF Functional
  <2>2. QED
    BY <1>3, <2>1 DEF Faithful
<1>4. ASSUME NEW n \in VM, StoredAgain(n) PROVE Faithful'
  <2>1. PICK on \in BOOLEAN : file' = [file EXCEPT ![n] = Enabled(Parsed(file[n]), on)]
    BY <1>4 DEF StoredAgain
  <2>2. given' = [given EXCEPT ![n] = given[n]]
    BY <1>1, <1>4 DEF StoredAgain, Functional
  <2>3. Enabled(Parsed(file[n]), on) # None
    BY EnabledIsFile
  <2>4. given[n] # None => /\ Texty(given[n])
                           /\ Kept(Enabled(Parsed(file[n]), on), given[n])
    BY KeptAgain DEF Faithful
  <2>5. QED
    BY <1>3, <2>1, <2>2, <2>3, <2>4
<1>5. ASSUME NEW n \in VM, Removed(n) PROVE Faithful'
  BY <1>3, <1>5 DEF Removed
<1>6. ASSUME NEW n \in VM, Added(n) PROVE Faithful'
  <2>1. PICK a \in Requests : /\ file' = [file EXCEPT ![n] = Options(n, a)]
                              /\ given' = [given EXCEPT ![n] = Options(n, a)]
    BY <1>6 DEF Added
  <2>2. Options(n, a) # None
    BY DEF NoneIsNoFile, Options
  <2>3. QED
    BY <1>3, <2>1, <2>2, OptionsKept
<1>7. ASSUME NEW n \in VM, Edited(n) PROVE Faithful'
  <2>1. CASE \E t \in Texts : file' = [file EXCEPT ![n].password = t]
    BY <1>3, <1>7, <2>1 DEF Edited
  <2>2. CASE \E p \in Port : file' = [file EXCEPT ![n].port = p]
    BY <1>3, <1>7, <2>2 DEF Edited
  <2>3. QED
    BY <1>7, <2>1, <2>2 DEF Edited
<1>8. QED
  BY <1>1, <1>2, <1>4, <1>5, <1>6, <1>7, StepFiles DEF Files

LEMMA AlwaysFaithful == ASSUME NoneIsNoFile PROVE Spec => []Faithful
<1>1. Init => Faithful
  BY DEF Init, Nobody, Faithful
<1>2. QED
  BY <1>1, StepFaithful, AlwaysFiles, PTL DEF Spec

(* "everything that you specified will be stored", and stays: a username or  *)
(* password that means nothing to configparser, the port and the MAC survive *)
(* every start, stop, refusal, pass and restart until the file is edited or  *)
(* removed (manager.py: _parse_config, _store_config, _vbmc_enabled, which   *)
(* read and write all of the options to change one).                         *)
THEOREM PlainAlwaysKept == ASSUME NoneIsNoFile PROVE Spec => []PlainKept
<1>1. Faithful => PlainKept
  BY DEF Faithful, PlainKept, Kept, Plain, Meant, Configured
<1>2. QED
  BY <1>1, AlwaysFaithful, PTL

-----------------------------------------------------------------------------
(* A file whose texts are all plain is read without an error, and may be     *)
(* stored, before and after that.                                            *)
AllPlain(n) == given[n] # None /\ \A o \in Credentials : Meant(n, o)

LEMMA PlainParses ==
    ASSUME Faithful, NEW n \in VM, AllPlain(n), NEW on
    PROVE  /\ Storable(Parsed(file[n]))
           /\ Parses(Enabled(Parsed(file[n]), on))
<1> DEFINE g == given[n]
           h == Enabled(Parsed(file[n]), on)
<1>1. Texty(g) /\ Kept(file[n], g) /\ \A o \in Credentials : Plain(g, o)
  BY DEF Faithful, AllPlain, Meant, Plain
<1>2. \A o \in Credentials : Parsed(file[n])[o] = g[o] /\ h[o] = g[o]
  BY <1>1 DEF Kept, Enabled, Parsed, VBMC_OPTIONS, Credentials
<1>3. \A o \in Credentials : Reads(h, o) = g[o]
  BY <1>1, <1>2, ReadsPlain
<1>4. \A o \in Credentials : g[o] # None => g[o].percents % 2 = 0
  BY <1>1, CleanText DEF Texty, Plain
<1>5. QED
  BY <1>2, <1>3, <1>4 DEF Storable, Parses

LEMMA SetsParses ==
    ASSUME NoneIsNoFile, Functional, Faithful, NEW n \in VM, AllPlain(n), ~PassRaises(file),
           NEW on \in BOOLEAN
    PROVE  /\ CanParse(n) /\ ~Refused(n, on)
           /\ ~PassRaises(Sets(n, on))
           /\ Sets(n, on)[n] # None /\ Sets(n, on)[n].active = on
<1>1. file[n] # None
  BY DEF Faithful, AllPlain
<1>2. CanParse(n) /\ ~Refused(n, on)
  BY <1>1, PlainParses DEF CanParse, Refused, PassRaises, Configured
<1>3. CASE file[n].active = on
  BY <1>1, <1>2, <1>3 DEF Sets
<1>4. CASE file[n].active # on
  <2>1. Sets(n, on) = [file EXCEPT ![n] = Enabled(Parsed(file[n]), on)]
    BY <1>4 DEF Sets
  <2>2. Sets(n, on)[n] = Enabled(Parsed(file[n]), on)
        /\ \A m \in VM \ {n} : Sets(n, on)[m] = file[m]
    BY <2>1 DEF Functional
  <2>3. Parses(Sets(n, on)[n])
    BY <2>2, PlainParses
  <2>4. QED
    BY <1>2, <2>2, <2>3, EnabledIsFile DEF PassRaises, Configured
<1>5. QED
  BY <1>3, <1>4

LEMMA PlainStart ==
    ASSUME NoneIsNoFile, Functional, Faithful, NEW n \in VM, AllPlain(n), ~PassRaises(file),
           start(n)
    PROVE  rc' = "ok" /\ served'[n] # None
<1> DEFINE first == IF served[n] # None THEN Synced(file, served) ELSE served
<1>1. CanParse(n) /\ ~Refused(n, TRUE) /\ ~PassRaises(Sets(n, TRUE))
      /\ Sets(n, TRUE)[n] # None /\ Sets(n, TRUE)[n].active = TRUE
  BY SetsParses
<1>2. /\ file' = IF first[n] = None THEN Sets(n, TRUE) ELSE file
      /\ Pass(file', first)
  BY <1>1 DEF start
<1>3. ~PassRaises(file')
  BY <1>1, <1>2
<1>4. served' = Synced(file', first) /\ rc' = "ok"
  BY <1>2, <1>3 DEF Pass
<1>5. file[n] # None
  BY <1>1 DEF CanParse
<1>6. file'[n] # None /\ file'[n].active
  <2>1. CASE first[n] = None
    BY <1>1, <1>2, <2>1
  <2>2. CASE first[n] # None
    <3>1. first[n] = Synced(file, served)[n]
      BY <2>2
    <3>2. file[n].active
      BY <1>5, <2>2, <3>1 DEF Synced, Configured
    <3>3. QED
      BY <1>2, <1>5, <2>2, <3>2
  <2>3. QED
    BY <2>1, <2>2
<1>7. Parsed(file'[n]) # None
  BY DEF NoneIsNoFile, Parsed
<1>8. served'[n] # None
  BY <1>4, <1>6, <1>7 DEF Synced, Configured, vbmc_runner
<1>9. QED
  BY <1>4, <1>8

LEMMA PlainStop ==
    ASSUME NoneIsNoFile, Functional, Faithful, NEW n \in VM, AllPlain(n), ~PassRaises(file),
           stop(n)
    PROVE  rc' = "ok" /\ served'[n] = None
<1>1. CanParse(n) /\ ~Refused(n, FALSE) /\ ~PassRaises(Sets(n, FALSE))
      /\ Sets(n, FALSE)[n] # None /\ Sets(n, FALSE)[n].active = FALSE
  BY SetsParses
<1>2. file' = Sets(n, FALSE) /\ Pass(file', served)
  BY <1>1 DEF stop
<1>3. served' = Synced(file', served) /\ rc' = "ok"
  BY <1>1, <1>2 DEF Pass
<1>4. served'[n] = None
  BY <1>1, <1>2, <1>3 DEF Synced, Configured
<1>5. QED
  BY <1>3, <1>4

(* So a BMC whose options are plain does as it is told, whatever became of   *)
(* its file before: no start or stop of it is refused, and each has its      *)
(* effect by the time it is answered.                                        *)
THEOREM PlainAlwaysObeys == ASSUME NoneIsNoFile PROVE Spec => PlainObeys
<1>1. Files /\ Faithful /\ [Next]_vars =>
         [\A n \in VM :
             given[n] # None /\ (\A o \in Credentials : Meant(n, o)) /\ ~PassRaises(file) =>
                /\ start(n) => rc' = "ok" /\ served'[n] # None
                /\ stop(n)  => rc' = "ok" /\ served'[n] = None]_vars
  BY PlainStart, PlainStop DEF Files, AllPlain
<1>2. QED
  BY <1>1, AlwaysFiles, AlwaysFaithful, PTL DEF Spec, PlainObeys

-----------------------------------------------------------------------------
(* What show prints has no password in it, unless the settings the daemon    *)
(* started with say otherwise: not those of the client, and not those the    *)
(* settings file has been given since (manager.py: _show).                   *)
THEOREM PasswordsAlwaysHidden == Spec => []PasswordsHidden
<1>1. Init => PasswordsHidden
  BY DEF Init, PasswordsHidden
<1>2. ASSUME NEW n \in VM, show(n), shown' # None, daemon'.show_passwords = "false",
             NEW o \in {"password", "viserver_password"}
      PROVE  shown'[o] = Text("***", 0, FALSE)
  <2>1. shown' = mask_dict_password(Parsed(file[n]))
    BY <1>2 DEF show, Answer
  <2>2. QED
    BY <2>1 DEF mask_dict_password, Parsed, VBMC_OPTIONS, Credentials
<1>3. ASSUME PasswordsHidden, Next, ~\E n \in VM : show(n)
      PROVE  shown' = None
  BY <1>3 DEF Next, Command, Boot, Shutdown, periodic, list, Unreached, EditConf,
              EditFile, add, add_store, add_undone, start, stop, delete
<1>4. PasswordsHidden /\ [Next]_vars => PasswordsHidden'
  <2>1. CASE UNCHANGED vars
    BY <2>1 DEF vars, PasswordsHidden
  <2>2. QED
    BY <1>2, <1>3, <2>1 DEF PasswordsHidden
<1>5. QED
  BY <1>1, <1>4, PTL DEF Spec

(* None is not an add either.                                                *)
NoneIsNoAdd == \A r : DOMAIN r = {"options", "refused", "found"} => r # None

(* An add that is answered has stored everything or left under its name what *)
(* it found: the directory it removes after a refused store is the one it    *)
(* has made, whoever edits files and whatever else happens between its steps *)
(* (manager.py: add).                                                        *)
THEOREM AddsWhole == ASSUME NoneIsNoAdd PROVE Spec => AddAllOrNothing
<1> DEFINE OneStep ==
       \A n \in VM :
          adding # None /\ adding.options.vm_name = n /\ adding' = None /\ daemon' # None =>
             /\ file'[n] = IF rc' = "ok" THEN adding.options ELSE adding.found
             /\ n \notin bare'
<1>1. ASSUME Files, Next PROVE OneStep
  <2> SUFFICES ASSUME NEW n \in VM, adding # None, adding.options.vm_name = n,
                      adding' = None, daemon' # None
               PROVE  /\ file'[n] = IF rc' = "ok" THEN adding.options ELSE adding.found
                      /\ n \notin bare'
    OBVIOUS
  <2>1. adding.found = None /\ daemon # None
    BY <1>1 DEF Files, Making
  <2>2. PICK m \in VM : add_store(m) \/ add_undone(m)
    BY <1>1, <2>1 DEF Next, Command, Boot, Shutdown, periodic, list, Unreached, EditConf,
                     EditFile, add, start, stop, delete, show, Taken
  <2>3. m = n
    BY <2>2 DEF add_store, add_undone
  <2>4. CASE add_store(m)
    <3>1. [adding EXCEPT !.refused = TRUE] # None
      BY <1>1, <2>1 DEF NoneIsNoAdd, Files, Making
    <3>2. file' = [file EXCEPT ![n] = adding.options] /\ rc' = "ok" /\ bare' = bare \ {n}
      BY <2>3, <2>4, <3>1 DEF add_store, Answer
    <3>3. QED
      BY <1>1, <3>2 DEF Files, Functional
  <2>5. CASE add_undone(m)
    <3>1. file' = [file EXCEPT ![n] = None] /\ rc' = "fail" /\ bare' = bare \ {n}
      BY <2>3, <2>5 DEF add_undone, Answer
    <3>2. QED
      BY <1>1, <2>1, <3>1 DEF Files, Functional
  <2>6. QED
    BY <2>2, <2>4, <2>5
<1>2. Files /\ [Next]_vars => [OneStep]_vars
  BY <1>1
<1>3. QED
  BY <1>2, AlwaysFiles, PTL DEF Spec, AddAllOrNothing

=============================================================================
