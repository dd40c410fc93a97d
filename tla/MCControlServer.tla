-------------------------- MODULE MCControlServer --------------------------
(***************************************************************************)
(* A small instance of ControlServer for TLC.                               *)
(***************************************************************************)
EXTENDS ControlServer

(* One name configured and enabled, one free to be added; all names and     *)
(* ports being alike, which ones makes no difference.                       *)
OneOn ==
    LET w == CHOOSE v \in VM : TRUE
        p == CHOOSE q \in Port : TRUE
    IN {[v \in VM |-> IF v = w THEN Stored(TRUE, p) ELSE NoDir]}

=============================================================================
