------------------------------ MODULE Registry ------------------------------
(***************************************************************************)
(* What the daemon promises, without the means: no files, no processes, no *)
(* handles, no signals.  There are names, each with an entry that is on or *)
(* off; there are the names whose virtual BMC the daemon has at work, and  *)
(* those that have one on its way out; and the daemon is down, up, or      *)
(* leaving.                                                                *)
(*                                                                         *)
(* The promise: a BMC comes to work only for a name whose entry is on, is  *)
(* withdrawn only from a name whose entry is not, and is otherwise lost    *)
(* only by its own death, one at a time, or with the daemon.  And a daemon *)
(* that can read its entries makes the two agree, again and again.         *)
(*                                                                         *)
(* VbmcManager, whose commands are atomic, and ManagerSteps, whose commands *)
(* are sequences of steps, both implement it.                              *)
(***************************************************************************)
CONSTANT VM      \* names a virtual BMC may have

VARIABLES
    entry,       \* what is registered for each name
    work,        \* the names with a BMC at work
    going,       \* the names with a BMC that was withdrawn and is not yet gone
    mode         \* of the daemon

vars == <<entry, work, going, mode>>

(* "none": nothing that could be read as an entry; "bad": an entry that     *)
(* cannot be understood, which the daemon does not survive to look at.      *)
Entry == {"none", "bad", "off", "on"}

Init ==
    /\ entry \in [VM -> Entry]
    /\ work = {} /\ going = {}
    /\ mode = "down"

On == {v \in VM : entry[v] = "on"}

(* Whoever changes entries, changes one at a time.                          *)
OneEntry ==
    \/ UNCHANGED entry
    \/ \E v \in VM, e \in Entry : entry' = [entry EXCEPT ![v] = e]

(* A command or a pass.  Only a BMC whose entry was not on, or is no longer *)
(* on, is withdrawn.                                                        *)
Act ==
    /\ mode = "up" /\ mode' = "up"
    /\ OneEntry
    /\ work' \subseteq work \cup On'
    /\ work \cap On' \subseteq work'
    /\ going' \subseteq going \cup (VM \ (On \cap On'))
    /\ work' \subseteq VM

(* Entries are changed by others, too.                                      *)
Edit == OneEntry /\ UNCHANGED <<work, going, mode>>

(* A BMC at work is lost, by no one's will, or a withdrawn one is gone.     *)
Lose == \E v \in work : work' = work \ {v} /\ UNCHANGED <<entry, going, mode>>
End  == \E v \in going : going' = going \ {v} /\ UNCHANGED <<entry, work, mode>>

(* The daemon comes up with what is on, unless that died at once, or gives  *)
(* up.                                                                      *)
Rise ==
    /\ mode = "down"
    /\ \/ mode' = "up" /\ work' \subseteq On
       \/ mode' = "leaving" /\ work' = {}
    /\ going' = {}
    /\ UNCHANGED entry

Leave ==
    /\ mode = "up" /\ mode' = "leaving"
    /\ work' = {} /\ going' = {}
    /\ OneEntry

Gone ==
    /\ mode = "leaving" /\ mode' = "down"
    /\ work = {} /\ UNCHANGED <<entry, work, going>>

Crash ==
    /\ mode # "down" /\ mode' = "down"
    /\ work' = {} /\ going' = {}
    /\ OneEntry

Next == Act \/ Edit \/ Lose \/ End \/ Rise \/ Leave \/ Gone \/ Crash

Spec == Init /\ [][Next]_vars

-----------------------------------------------------------------------------
(* While the daemon is up and can read its entries, a name that stays on is *)
(* given a BMC again and again, however often that one is lost, and a name  *)
(* that stays off has none in the end.                                      *)
Legible == mode = "up" /\ \A v \in VM : entry[v] # "bad"
Agrees ==
    \A v \in VM :
        /\ <>[](Legible /\ entry[v] = "on")  => []<>(v \in work)
        /\ <>[](Legible /\ entry[v] = "off") => <>[](v \notin work)

=============================================================================
