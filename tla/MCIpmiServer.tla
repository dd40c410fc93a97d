---------------------------- MODULE MCIpmiServer ----------------------------
(***************************************************************************)
(* A small instance of IpmiServer for TLC.                                 *)
(***************************************************************************)
EXTENDS IpmiServer

(* One client is a vCenter Server that registers the BMC, or another tool;  *)
(* the rest come for one thing only.                                        *)
First == CHOOSE c \in Client : TRUE
RegisterAndAsk ==
    [c \in Client |->
        IF c = First
        THEN {<<"ping", "caps", "open", "mac">>,
              <<"open", "bootdev">>}
        ELSE {<<"ciphers", "open", "ip">>}]

(* Capabilities of another channel; a ping and a request for the            *)
(* capabilities that are cut short.                                         *)
Others ==
    {Packet(TRUE, Message(6, 1, 56, <<129, 4>>)),
     SubSeq(Ping(1), 1, 9),
     SubSeq(Caps(TRUE, 1), 1, 23)}

Mac == <<<<0, 2>>, <<0, 0>>, <<0, 0>>, <<15, 15>>, <<10, 0>>, <<0, 9>>>>

=============================================================================
