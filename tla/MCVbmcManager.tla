--------------------------- MODULE MCVbmcManager ---------------------------
(***************************************************************************)
(* Small instances of VbmcManager for TLC.                                 *)
(***************************************************************************)
EXTENDS VbmcManager, TLC

(* A fresh installation.                                                    *)
Empty == {[v \in VM |-> NoDir]}

(* Names, ports and handles are interchangeable.                            *)
Symmetry == Permutations(VM) \cup Permutations(Port) \cup Permutations(Pid)

=============================================================================
