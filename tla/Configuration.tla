--------------------------- MODULE Configuration ----------------------------
(***************************************************************************)
(* What the user specifies, from the command line of vsbmc to the BMC that  *)
(* serves it: the settings both programs read when they start (config.py),  *)
(* the options of "vsbmc add" (cmd/vsbmc.py) and the check of credentials,  *)
(* the config file they are stored in and read from (manager.py), and the   *)
(* options a BMC was started with and show prints.                          *)
(*                                                                         *)
(* The files are those of configparser, which is not a store of texts:      *)
(* blanks around a text are lost, "%%" is read as "%", "%(o)s" as the text  *)
(* of option o; set() refuses a text with a "%" that is neither, and get()  *)
(* raises at one, which a user may have written into the file.  An option   *)
(* travels through it each time a command changes "active".                 *)
(***************************************************************************)
EXTENDS Naturals, Sequences

CONSTANTS
    None,       \* no value; no file
    VM,         \* the names of virtual machines
    Port,       \* the ports of BMCs
    Requests,   \* the options "vsbmc add" is given, the name left out
    Texts,      \* the texts a user writes into a file
    Confs,      \* the contents vbmc4vsphere.conf may be given
    MaxEdits    \* bound: files edited by hand in one behaviour

(* A text by what configparser makes of it: a word followed by a number of  *)
(* percent signs, perhaps with blanks around it; or a reference, here to a  *)
(* user name, which is no reference itself.                                 *)
Text(word, k, padded) == [word |-> word, percents |-> k, padded |-> padded, ref |-> None]
RefTo(option)         == [word |-> "", percents |-> 0, padded |-> FALSE, ref |-> option]

Clean(text) == text.percents = 0 /\ ~text.padded /\ text.ref = None

(* address, vm_uuid and viserver are texts like the username, kept in the   *)
(* same way.                                                                *)
Credentials  == {"username", "password", "viserver_username", "viserver_password"}
VBMC_OPTIONS == Credentials \cup {"port", "fakemac", "vm_name", "active"}

Usernames    == {"username", "viserver_username"}

SomeText == [word : STRING, percents : Nat, padded : BOOLEAN, ref : Usernames \cup {None}]

ASSUME ConfigurationAssumption ==
    /\ None \notin Port \cup VM \cup SomeText
    /\ Texts \subseteq SomeText
    /\ \A a \in Requests : /\ a.port \in Port /\ a.fakemac \in {None, "dashes", "colons"}
                           /\ \A o \in Credentials : a[o] \in SomeText \cup {None}
                           /\ \A o \in Usernames : a[o] # None => a[o].ref = None
    /\ MaxEdits \in Nat

VARIABLES
    conf,     \* vbmc4vsphere.conf at the places it is looked for
    daemon,   \* the settings of the running daemon, or None
    file,     \* the config file of each name, or None
    bare,     \* names with a directory and no config file in it
    adding,   \* the add that is under way, or None
    served,   \* the options the BMC of each name runs with, or None
    rc,       \* the outcome of the last command
    shown,    \* what the last show printed, or None
    given,    \* history: what add was told, until the file is edited
    edited,   \* history: names whose file was edited since their BMC started
    edits     \* number of edits so far

vars == <<conf, daemon, file, bare, adding, served, rc, shown, given, edited, edits>>

-----------------------------------------------------------------------------
(* The settings.                                                            *)

Places == <<"env", "home", "etc">>

DEFAULTS == [server_port |-> 50891, show_passwords |-> "false"]

(* The first file that exists decides, whatever it holds; one that cannot   *)
(* be read counts as empty.                                                 *)
CONFIG_FILE(c) ==
    LET exist == {i \in DOMAIN Places : c[Places[i]].st # "absent"}
    IN IF exist = {} THEN <<>>
       ELSE c[Places[CHOOSE i \in exist : \A j \in exist : i <= j]].sets

as_dict(sets) == [key \in DOMAIN DEFAULTS |->
                    IF key \in DOMAIN sets THEN sets[key] ELSE DEFAULTS[key]]

(* str2bool and int() raise: the program does not start.                    *)
get_config(c) ==
    LET d == as_dict(CONFIG_FILE(c))
    IN IF d.show_passwords \in {"true", "false"} THEN d ELSE None

-----------------------------------------------------------------------------
(* The config files of BMCs.                                                *)

(* What interpolation makes of a text: it raises, here None, at a "%" that   *)
(* no second one follows.                                                    *)
Direct(t) == IF t.percents % 2 = 1 THEN None
             ELSE [t EXCEPT !.percents = @ \div 2, !.padded = FALSE]

(* What config.get returns; None stands for an option that is not there, and *)
(* where it raises, as it does at a reference to an option that is not there. *)
Reads(f, o) ==
    LET source == IF f[o] # None /\ f[o].ref # None THEN f[o].ref ELSE o
    IN IF f[source] = None THEN None ELSE Direct(f[source])

Parses(f) == \A o \in Credentials : f[o] # None => Reads(f, o) # None

(* A file as _parse_config returns it.                                      *)
Parsed(f) == [o \in VBMC_OPTIONS |-> IF o \in Credentials THEN Reads(f, o) ELSE f[o]]

(* config.set() takes all of the options.                                   *)
Storable(options) ==
    \A o \in Credentials : options[o] # None => options[o].percents % 2 = 0

(* Mutant: the password of the BMC alone.                                   *)
Mut_mask_dict_password(options) == [options EXCEPT !.password = Text("***", 0, FALSE)]

mask_dict_password(options) ==
    [o \in DOMAIN options |->
        IF o \in {"password", "viserver_password"} THEN Text("***", 0, FALSE) ELSE options[o]]

-----------------------------------------------------------------------------
(* Passes and exits.                                                        *)

Configured(f) == {n \in VM : f[n] # None}

PassRaises(f) == \E n \in Configured(f) : ~Parses(f[n])

(* Mutant: the options are masked in place.                                 *)
Mut_vbmc_runner(options) == mask_dict_password(options)

(* What a BMC is started with.                                              *)
vbmc_runner(options) == options

(* Mutant: a BMC at work is left alone, enabled or not.                     *)
MutSynced(f, at) ==
    [n \in VM |-> IF n \notin Configured(f) \/ at[n] # None THEN at[n]
                  ELSE IF f[n].active THEN vbmc_runner(Parsed(f[n])) ELSE None]

(* What a pass over the files f makes of the BMCs at work.                  *)
Synced(f, at) ==
    [n \in VM |-> IF n \notin Configured(f) THEN at[n]
                  ELSE IF ~f[n].active THEN None
                  ELSE IF at[n] # None THEN at[n]
                  ELSE vbmc_runner(Parsed(f[n]))]

Nobody == [n \in VM |-> None]

(* Mutant: the processes are not daemonic.                                  *)
MutDies == daemon' = None /\ rc' = "raise" /\ UNCHANGED served

(* An error of configparser ends the daemon, and its BMCs with it.          *)
Dies == daemon' = None /\ served' = Nobody /\ rc' = "raise"

Pass(f, at) ==
    IF PassRaises(f) THEN Dies
    ELSE served' = Synced(f, at) /\ rc' = "ok" /\ UNCHANGED daemon

(* An answer without a pass.                                                *)
Answer(outcome) == rc' = outcome /\ UNCHANGED <<daemon, served>>

Init ==
    /\ conf = [p \in {Places[i] : i \in DOMAIN Places} |-> [st |-> "absent", sets |-> <<>>]]
    /\ daemon = None
    /\ file = Nobody /\ served = Nobody /\ given = Nobody
    /\ bare = {} /\ adding = None
    /\ rc = "ok" /\ shown = None
    /\ edited = {} /\ edits = 0

(* A BMC that is started anew has the file as it is now.                    *)
Fresh == edited' = {n \in edited : served[n] # None /\ served'[n] = served[n]}

Boot ==
    /\ daemon = None
    /\ get_config(conf) # None
    /\ IF PassRaises(file)
       THEN UNCHANGED <<daemon, served>> /\ rc' = "raise"
       ELSE /\ daemon' = get_config(conf)
            /\ served' = Synced(file, Nobody)
            /\ rc' = "ok"
    /\ Fresh /\ shown' = None
    /\ UNCHANGED <<conf, file, bare, adding, given, edits>>

(* SIGTERM, also between the steps of an add.  (An error of the handler's    *)
(* own pass inside the store is module ManagerSteps'.)                       *)
Shutdown ==
    /\ daemon # None
    /\ adding # None => ~PassRaises(file)
    /\ daemon' = None /\ adding' = None /\ served' = Nobody /\ rc' = "ok" /\ shown' = None
    /\ Fresh
    /\ UNCHANGED <<conf, file, bare, given, edits>>

periodic ==
    /\ daemon # None /\ adding = None
    /\ Pass(file, served)
    /\ Fresh /\ shown' = None
    /\ UNCHANGED <<conf, file, bare, adding, given, edits>>

-----------------------------------------------------------------------------
(* Commands: a client reads its settings, then asks the daemon.             *)

Reached ==
    /\ daemon # None
    /\ get_config(conf) # None
    /\ get_config(conf).server_port = daemon.server_port

(* The daemon is at one command at a time.                                  *)
Taken == Reached /\ adding = None

(* A client that does not find the daemon, or no valid settings, fails.     *)
Unreached ==
    /\ ~Reached
    /\ rc' = "unreached" /\ shown' = None
    /\ UNCHANGED <<conf, daemon, file, bare, adding, served, given, edited, edits>>

(* What "vsbmc add" takes for the options the user does not give.           *)
ParserDefaults ==
    [o \in VBMC_OPTIONS \ {"vm_name", "active"} |->
        CASE o \in {"username", "password"} -> Text(o, 0, FALSE)
          [] o = "port"                     -> CHOOSE p \in Port : TRUE
          [] OTHER                          -> None]

(* Credentials for the VI server come in pairs; client and server check it. *)
Paired(a) == (a.viserver_username = None) = (a.viserver_password = None)

(* fakemac.replace("-", ":"), or one made from the name.                    *)
FakeMac(mac) == IF mac = None THEN "generated" ELSE "colons"

Options(n, a) ==
    [o \in VBMC_OPTIONS |->
        CASE o = "vm_name" -> n
          [] o = "active"  -> FALSE
          [] o = "fakemac" -> FakeMac(a.fakemac)
          [] OTHER         -> a[o]]

Add(n, a) == [options |-> Options(n, a), refused |-> FALSE, found |-> file[n]]

(* Mutant: a directory that exists is taken for the one just made.          *)
Mut_add(n, a) ==
    /\ Taken
    /\ IF Paired(a)
       THEN /\ bare' = IF file[n] = None THEN bare \cup {n} ELSE bare
            /\ adding' = Add(n, a)
            /\ UNCHANGED <<daemon, served, rc>>
       ELSE Answer("fail") /\ UNCHANGED <<bare, adding>>
    /\ shown' = None
    /\ UNCHANGED <<conf, file, given, edited, edits>>

(* add, up to makedirs: a directory that exists is not touched.             *)
add(n, a) ==
    /\ Taken
    /\ IF Paired(a) /\ file[n] = None /\ n \notin bare
       THEN /\ bare' = bare \cup {n}
            /\ adding' = Add(n, a)
            /\ UNCHANGED <<daemon, served, rc>>
       ELSE Answer("fail") /\ UNCHANGED <<bare, adding>>
    /\ shown' = None
    /\ UNCHANGED <<conf, file, given, edited, edits>>

(* Its store: set() refuses before the file is opened.                      *)
add_store(n) ==
    /\ adding # None /\ adding.options.vm_name = n /\ ~adding.refused
    /\ IF Storable(adding.options)
       THEN /\ file' = [file EXCEPT ![n] = adding.options]
            /\ given' = [given EXCEPT ![n] = adding.options]
            /\ bare' = bare \ {n} /\ adding' = None
            /\ Answer("ok")
       ELSE /\ adding' = [adding EXCEPT !.refused = TRUE]
            /\ UNCHANGED <<file, given, bare, daemon, served, rc>>
    /\ shown' = None
    /\ UNCHANGED <<conf, edited, edits>>

(* Its delete after a refused store: stop finds no config to read, and the  *)
(* directory is removed with all that is in it.                             *)
add_undone(n) ==
    /\ adding # None /\ adding.options.vm_name = n /\ adding.refused
    /\ file' = [file EXCEPT ![n] = None]
    /\ given' = [given EXCEPT ![n] = None]
    /\ bare' = bare \ {n} /\ adding' = None
    /\ Answer("fail") /\ shown' = None
    /\ UNCHANGED <<conf, edited, edits>>

(* Mutant: the name's file is written anew with the options of the file as  *)
(* text, without what the user left out.                                    *)
MutEnabled(options, on) ==
    [options EXCEPT !.active = on, !.viserver_username = None, !.viserver_password = None]

Enabled(options, on) == [options EXCEPT !.active = on]

(* _vbmc_enabled: nothing is stored when "active" is right already; else    *)
(* all that was read is.                                                    *)
Sets(n, on) == IF file[n].active = on THEN file
               ELSE [file EXCEPT ![n] = Enabled(Parsed(file[n]), on)]
Refused(n, on) == file[n].active # on /\ ~Storable(Parsed(file[n]))

CanParse(n) == file[n] # None /\ Parses(file[n])

(* A name with a BMC at work gets a pass first, which may find it inactive. *)
start(n) ==
    LET first == IF served[n] # None THEN Synced(file, served) ELSE served
    IN /\ Taken
       /\ \/ ~CanParse(n) /\ Answer("fail") /\ UNCHANGED file
          \/ /\ CanParse(n) /\ served[n] # None /\ PassRaises(file)
             /\ Dies /\ UNCHANGED file
          \/ /\ CanParse(n) /\ ~(served[n] # None /\ PassRaises(file))
             /\ IF first[n] = None /\ Refused(n, TRUE)
                THEN /\ rc' = "fail" /\ served' = first
                     /\ UNCHANGED <<daemon, file>>
                ELSE /\ file' = IF first[n] = None THEN Sets(n, TRUE) ELSE file
                     /\ Pass(file', first)
       /\ Fresh /\ shown' = None
       /\ UNCHANGED <<conf, bare, adding, given, edits>>

stop(n) ==
    /\ Taken
    /\ IF ~CanParse(n) \/ Refused(n, FALSE)
       THEN Answer("fail") /\ UNCHANGED file
       ELSE file' = Sets(n, FALSE) /\ Pass(file', served)
    /\ Fresh /\ shown' = None
    /\ UNCHANGED <<conf, bare, adding, given, edits>>

(* stop, whatever it returns, then rmtree; an error of its pass is not      *)
(* caught.                                                                  *)
delete(n) ==
    /\ Taken
    /\ \/ file[n] = None /\ n \notin bare /\ Answer("fail") /\ UNCHANGED <<file, bare>>
       \/ /\ n \in bare \/ (file[n] # None /\ (~Parses(file[n]) \/ Refused(n, FALSE)))
          /\ Answer("ok")
          /\ file' = [file EXCEPT ![n] = None] /\ bare' = bare \ {n}
       \/ /\ CanParse(n) /\ ~Refused(n, FALSE)
          /\ Pass(Sets(n, FALSE), served)
          /\ file' = IF PassRaises(file) THEN Sets(n, FALSE)
                     ELSE [file EXCEPT ![n] = None]
          /\ UNCHANGED bare
    /\ given' = [given EXCEPT ![n] = IF file'[n] = None THEN None ELSE @]
    /\ edited' = {m \in edited \cup {n} : served[m] # None /\ served'[m] = served[m]}
    /\ shown' = None
    /\ UNCHANGED <<conf, adding, edits>>

(* show prints the file, not the options the BMC runs with.                 *)
show(n) ==
    /\ Taken
    /\ IF file[n] = None THEN Answer("fail") /\ shown' = None /\ UNCHANGED edited
       ELSE IF ~Parses(file[n]) THEN Dies /\ Fresh /\ shown' = None
       ELSE /\ shown' = IF daemon.show_passwords = "true" THEN Parsed(file[n])
                        ELSE mask_dict_password(Parsed(file[n]))
            /\ Answer("ok") /\ UNCHANGED edited
    /\ UNCHANGED <<conf, file, bare, adding, given, edits>>

(* list reads every file, and prints no password.  A directory without one   *)
(* fails it, unless it meets a file that ends the daemon first.              *)
list ==
    /\ Taken
    /\ \/ PassRaises(file) /\ Dies
       \/ bare # {} /\ Answer("fail")
       \/ ~PassRaises(file) /\ bare = {} /\ Answer("ok")
    /\ Fresh /\ shown' = None
    /\ UNCHANGED <<conf, file, bare, adding, given, edits>>

-----------------------------------------------------------------------------
(* The user edits files.                                                    *)

EditFile(n) ==
    /\ edits < MaxEdits
    /\ file[n] # None
    /\ \/ \E t \in Texts : file' = [file EXCEPT ![n].password = t]
       \/ \E p \in Port : file' = [file EXCEPT ![n].port = p]
    /\ given' = [given EXCEPT ![n] = None]
    /\ edited' = IF served[n] = None THEN edited ELSE edited \cup {n}
    /\ edits' = edits + 1 /\ shown' = None
    /\ UNCHANGED <<conf, daemon, bare, adding, served, rc>>

EditConf ==
    /\ edits < MaxEdits
    /\ \E p \in DOMAIN conf, c \in Confs : conf' = [conf EXCEPT ![p] = c]
    /\ edits' = edits + 1 /\ shown' = None
    /\ UNCHANGED <<daemon, file, bare, adding, served, rc, given, edited>>

Command(n) ==
    \/ (\E a \in Requests : add(n, a)) \/ add_store(n) \/ add_undone(n)
    \/ start(n) \/ stop(n) \/ delete(n) \/ show(n)

Next ==
    \/ Boot \/ Shutdown \/ periodic \/ list \/ Unreached \/ EditConf
    \/ \E n \in VM : Command(n) \/ EditFile(n)

Spec == Init /\ [][Next]_vars

-----------------------------------------------------------------------------
(* Every variable keeps its type, and only a running daemon has BMCs.       *)
TypeOK ==
    /\ daemon = None \/ daemon.show_passwords \in {"true", "false"}
    /\ \A n \in Configured(file) : /\ DOMAIN file[n] = VBMC_OPTIONS
                                   /\ file[n].vm_name = n
                                   /\ file[n].active \in BOOLEAN
    /\ \A n \in bare : file[n] = None
    /\ daemon = None => served = Nobody /\ edited = {} /\ adding = None
    /\ rc \in {"ok", "fail", "raise", "unreached"}
    /\ edits \in 0 .. MaxEdits

Meant(n, o) == given[n] # None /\ o \in Credentials /\ (given[n][o] = None \/ Clean(given[n][o]))

(* Whatever is started, stopped, shown, refused and restarted, an option    *)
(* whose text says nothing to configparser keeps its value in the file of a *)
(* name nobody edits, and so do its port and its MAC ("everything that you  *)
(* specified will be stored").                                              *)
PlainKept ==
    \A n \in Configured(file) :
        /\ \A o \in Credentials : Meant(n, o) => Reads(file[n], o) = given[n][o]
        /\ given[n] # None => /\ file[n].port = given[n].port
                              /\ file[n].fakemac = given[n].fakemac

(* A BMC serves with what its file says, passwords included, unless the     *)
(* file was edited or removed since the BMC was started: then, and only     *)
(* then, show tells of options that are not in use.                         *)
ServesFile ==
    \A n \in Configured(file) \ edited :
        served[n] # None => Parses(file[n]) /\ served[n] = Parsed(file[n])

(* An add that is answered has stored all it was given or, when the store    *)
(* is refused, left under the name what it found there; what is removed then *)
(* is the directory it has made, whatever was edited meanwhile.              *)
AddAllOrNothing ==
    [][\A n \in VM :
          adding # None /\ adding.options.vm_name = n /\ adding' = None /\ daemon' # None =>
             /\ file'[n] = IF rc' = "ok" THEN adding.options ELSE adding.found
             /\ n \notin bare']_vars

(* A BMC whose options are all plain starts and stops as told, unless the   *)
(* file of another one ends the daemon.                                     *)
PlainObeys ==
    [][\A n \in VM :
          given[n] # None /\ (\A o \in Credentials : Meant(n, o)) /\ ~PassRaises(file) =>
             /\ start(n) => rc' = "ok" /\ served'[n] # None
             /\ stop(n)  => rc' = "ok" /\ served'[n] = None]_vars

(* No password is shown unless the settings the daemon started with say so. *)
PasswordsHidden ==
    shown # None /\ daemon.show_passwords = "false" =>
        \A o \in {"password", "viserver_password"} : shown[o] = Text("***", 0, FALSE)

(* "You can specify your own username and password by --username and        *)
(* --password": whatever they are, the BMC is added and has them.           *)
OwnPassword ==
    [][\A n \in VM :
          adding # None /\ adding.options.vm_name = n /\ adding' = None /\ daemon' # None =>
             /\ rc' = "ok"
             /\ Parses(file'[n]) /\ Reads(file'[n], "password") = adding.options.password]_vars

=============================================================================
