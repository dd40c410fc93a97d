-------------------------- MODULE MCConfiguration ---------------------------
(***************************************************************************)
(* Small instances of Configuration for TLC.                               *)
(***************************************************************************)
EXTENDS Configuration, TLC

(* A plain word, texts with one, two and four percent signs, with blanks,   *)
(* and references to an option that is always and one that is not there.    *)
AllTexts ==
    {Text("secret", k, FALSE) : k \in {0, 1, 2, 4}}
        \cup {Text("secret", 0, TRUE), RefTo("username"), RefTo("viserver_username")}

(* The defaults of the parser, with each password in turn; the credentials  *)
(* of the VI server, whole and by halves; a MAC.                            *)
SomeRequests ==
    {[ParserDefaults EXCEPT !.password = t] : t \in AllTexts}
        \cup {[ParserDefaults EXCEPT !.viserver_username = u, !.viserver_password = p,
                                    !.fakemac = "dashes"] :
                 u \in {None, Text("user", 0, FALSE)},
                 p \in {None, Text("secret", 0, FALSE), Text("secret", 2, FALSE)}}

(* A password that ends in a percent sign.                                  *)
PercentRequests == {[ParserDefaults EXCEPT !.password = Text("secret", 1, FALSE)]}

SomeConfs ==
    {[st |-> "absent", sets |-> <<>>], [st |-> "unreadable", sets |-> <<>>],
     [st |-> "ok", sets |-> [show_passwords |-> "true"]],
     [st |-> "ok", sets |-> [show_passwords |-> "yes"]],
     [st |-> "ok", sets |-> [server_port |-> 50892]]}

Symmetry == Permutations(VM)

=============================================================================
