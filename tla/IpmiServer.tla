----------------------------- MODULE IpmiServer -----------------------------
(***************************************************************************)
(* One virtual BMC on the wire (vbmc.py): the three functions patched into *)
(* pyghmi's IpmiServer and VirtualBMC.handle_raw_request, with the clients *)
(* they exist for.  Such a client (a vCenter Server that registers the BMC *)
(* of a host, or ipmitool) pings, asks for the authentication capabilities *)
(* in packets of IPMI 1.5 or 2.0, opens a session and puts its questions.  *)
(*                                                                         *)
(* Everything travels over UDP.  A client asks again until it is answered, *)
(* and knows an answer by what is in it, so what the BMC sends has to be   *)
(* laid out to the byte, whatever was lost, duplicated or overtaken.       *)
(***************************************************************************)
EXTENDS Naturals, Sequences, FiniteSets

CONSTANTS
    Client,      \* socket addresses of the clients
    Scripts,     \* for each client the sequences of questions it may have
    Strays,      \* datagrams nobody is to answer, those cut short among them
    FirstSeq,    \* the sequence numbers a client may begin with
    Fakemac,     \* the BMC's MAC address: six pairs of hexadecimal digits
    None,        \* "not known"
    MaxNet,      \* bound: datagrams under way
    FaultKinds,  \* "lose", "duplicate", "restart"
    MaxFaults    \* bound: how many of them happen in one behaviour

VARIABLES
    client,      \* what each client asks, in which version, and what it learnt
    net,         \* the datagrams under way
    session,     \* the clients the BMC has a session with
    faults       \* number of faults so far

vars == <<client, net, session, faults>>

-----------------------------------------------------------------------------
(* Datagrams.  Bytes are counted from 0 in the code.                        *)

Byte == 0 .. 255
At(d, i)   == d[i + 1]
From(d, i) == SubSeq(d, i + 1, Len(d))
Zeros(n)   == [i \in 1 .. n |-> 0]

(* A recursive function and no fold: IpmiServerProofs computes with it.     *)
SumOf(s) ==
    LET sum[n \in 0 .. Len(s)] == IF n = 0 THEN 0 ELSE sum[n - 1] + s[n]
    IN sum[Len(s)]

(* pyghmi's _checksum: what makes the sum of the bytes 0.                   *)
Checksum(s) == (256 - (SumOf(s) % 256)) % 256

(* A datagram outside of a session is its bytes.  Inside of one the session *)
(* layer of pyghmi keeps requests and answers apart, and only what it hands *)
(* over is kept here.                                                       *)
NoMsg == [netfn |-> 0, cmd |-> 0, param |-> 0, code |-> 0, data |-> <<>>, seq |-> 0]
Raw(from, to, d)     == [from |-> from, to |-> to, raw |-> d, msg |-> NoMsg]
Session(from, to, m) == [from |-> from, to |-> to, raw |-> <<>>, msg |-> m]

Bmc == "bmc"

-----------------------------------------------------------------------------
(* The client's questions.                                                  *)

(* Requests inside of a session: network function, command, parameter.      *)
Inside == [device  |-> <<6, 1, 0>>,   reset |-> <<6, 2, 0>>,
           access  |-> <<6, 65, 0>>,  info  |-> <<6, 66, 0>>,
           bootdev |-> <<0, 9, 5>>,   timer |-> <<6, 36, 0>>,
           mac     |-> <<12, 2, 5>>,  ip    |-> <<12, 2, 3>>]

(* "caps" is get channel authentication capabilities, "ciphers" is get       *)
(* channel cipher suites.                                                    *)
Question == DOMAIN Inside \cup {"ping", "caps", "ciphers", "open"}

ConsoleAddr == 129
BmcAddr     == 32

Ping(tag) == <<6, 0, 255, 6, 0, 0, 17, 190, 128, tag, 0, 0>>

(* The message of an IPMI packet, in the header of version 1.5 or 2.0.      *)
Message(netfn, seq, cmd, data) ==
    LET head == <<BmcAddr, netfn * 4>>
        body == <<ConsoleAddr, seq * 4, cmd>> \o data
    IN head \o <<Checksum(head)>> \o body \o <<Checksum(body)>>

Packet(v2, message) ==
    IF v2 THEN <<6, 0, 255, 7, 6>> \o Zeros(9) \o <<Len(message), 0>> \o message
          ELSE <<6, 0, 255, 7, 0>> \o Zeros(8) \o <<Len(message)>> \o message

(* Channel 14 is the one the request came by; the top bit asks for what     *)
(* version 2.0 adds; 4 is the level of an administrator.                    *)
Caps(v2, seq) == Packet(v2, Message(6, seq, 56, <<142, 4>>))

(* Of the same channel, the suites of IPMI, from the first of them on.       *)
Ciphers(v2, seq) == Packet(v2, Message(6, seq, 84, <<14, 0, 128>>))

OpenRequest == <<6, 0, 255, 7, 6, 16>> \o Zeros(42)

Asks(c) == client[c].script[client[c].at]
Done(c) == client[c].at > Len(client[c].script)

Request(c) ==
    LET q == Asks(c)
        seq == client[c].seq
    IN CASE q = "ping" -> Raw(c, Bmc, Ping(seq))
         [] q = "caps" -> Raw(c, Bmc, Caps(client[c].v2, seq))
         [] q = "ciphers" -> Raw(c, Bmc, Ciphers(client[c].v2, seq))
         [] q = "open" -> Raw(c, Bmc, OpenRequest)
         [] OTHER -> Session(c, Bmc, [NoMsg EXCEPT !.netfn = Inside[q][1],
                       !.cmd = Inside[q][2], !.param = Inside[q][3], !.seq = seq])

Init ==
    /\ \E script \in [Client -> UNION {Scripts[c] : c \in Client}],
          v2 \in [Client -> BOOLEAN], seq \in FirstSeq :
          /\ \A c \in Client : script[c] \in Scripts[c]
          /\ client = [c \in Client |-> [script |-> script[c], at |-> 1, v2 |-> v2[c],
                                        seq |-> seq, mac |-> None]]
    /\ \E c \in Client, d \in Strays : net = {Raw(c, Bmc, d)}
    /\ session = {}
    /\ faults = 0

Fault(kind) ==
    /\ kind \in FaultKinds
    /\ faults < MaxFaults
    /\ faults' = faults + 1

-----------------------------------------------------------------------------
(* sessionless_data and what it sends.                                      *)

Pong(tag) ==
    <<6, 0, 255, 6, 0, 0, 17, 190, 64, tag, 0, 16, 0, 0, 17, 190, 0, 0, 0, 0, 129>>
        \o Zeros(7)

(* What pyghmi's server says of itself: completion code, channel, IPMI 2.0  *)
(* only, a password is needed, no OEM data.                                 *)
AuthCap == <<0, 1, 128, 4, 2, 0, 0, 0, 0>>

(* Mutant: the second sum begins one byte late.                             *)
MutCapsAnswer(header, myaddr, mylun, clientaddr, clientlun, clientseq) ==
    LET head == <<clientaddr, clientlun + 28>>
        body == <<myaddr, mylun + clientseq * 4, 56>> \o AuthCap
    IN header \o head \o <<Checksum(head)>> \o body \o <<Checksum(Tail(body))>>

(* Fields of different bits are joined with |.                              *)
CapsAnswer(header, myaddr, mylun, clientaddr, clientlun, clientseq) ==
    LET head == <<clientaddr, clientlun + 28>>
        body == <<myaddr, mylun + clientseq * 4, 56>> \o AuthCap
    IN header \o head \o <<Checksum(head)>> \o body \o <<Checksum(body)>>

(* send_cipher_suites is pyghmi's own.  How it lays out its packet and which *)
(* suites it lists is left out: kept is what the code hands to it.           *)
CipherSuites(myaddr, mylun, clientaddr, clientlun, clientseq) ==
    <<6, 0, 255, 7, clientaddr, clientlun + 28, myaddr, mylun + clientseq * 4, 84>>

(* The headers of send_auth_cap_v2, and of pyghmi's send_auth_cap for 1.5.   *)
Header(v2) == IF v2 THEN <<6, 0, 255, 7, 6>> \o Zeros(9) \o <<16, 0>>
                    ELSE <<6, 0, 255, 7, 0>> \o Zeros(8) \o <<16>>

(* Mutant: the longer header of version 2.0 is not cut.                     *)
MutUnwrap(d) == d

(* "ditch two byte": the packet as if its header were that of version 1.5.  *)
Unwrap(d) == IF At(d, 4) = 6 THEN From(d, 2) ELSE d

IsPing(d) == Len(d) \in 10 .. 21 /\ SubSeq(d, 1, 4) = <<6, 0, 255, 6>> /\ At(d, 8) = 128
IsIpmi(d) == Len(d) >= 22 /\ At(d, 0) = 6 /\ At(d, 2) = 255 /\ At(d, 3) = 7
IsOpen(d) == IsIpmi(d) /\ At(d, 4) = 6 /\ At(d, 5) = 16

(* An application request outside of a session.                             *)
IsRequest(d, cmd) ==
    /\ IsIpmi(d)
    /\ At(d, 4) = 6 => At(d, 5) = 0
    /\ At(Unwrap(d), 15) \div 4 = 6 /\ At(Unwrap(d), 19) = cmd

(* One for the capabilities of this channel, with what version 2.0 adds.    *)
IsCaps(d) ==
    /\ IsRequest(d, 56) /\ Len(Unwrap(d)) >= 22
    /\ At(Unwrap(d), 20) \div 128 = 1 /\ At(Unwrap(d), 20) % 16 = 14

IsCiphers(d) == IsRequest(d, 84)

(* A datagram cut short, in which the code reads past the end: data[8] or   *)
(* data[9] of a ping, data[20:22] of a request for the capabilities.        *)
Raises(d) ==
    \/ /\ SubSeq(d, 1, 4) = <<6, 0, 255, 6>>
       /\ Len(d) <= 8 \/ (Len(d) = 9 /\ At(d, 8) = 128)
    \/ IsRequest(d, 56) /\ Len(Unwrap(d)) < 22

(* Mutant: the sequence number is not shifted down.                         *)
MutCapabilities(d) ==
    LET e == Unwrap(d)
    IN CapsAnswer(Header(At(d, 4) = 6), At(e, 14), At(e, 15) % 4,
                  At(e, 17), At(e, 18) % 4, At(e, 18))

Capabilities(d) ==
    LET e == Unwrap(d)
    IN CapsAnswer(Header(At(d, 4) = 6), At(e, 14), At(e, 15) % 4,
                  At(e, 17), At(e, 18) % 4, At(e, 18) \div 4)

Suites(d) ==
    LET e == Unwrap(d)
    IN CipherSuites(At(e, 14), At(e, 15) % 4, At(e, 17), At(e, 18) % 4, At(e, 18) \div 4)

(* The session layer answers an open request.                               *)
OpenAnswer == <<6, 0, 255, 7, 6, 17>>

sessionless_data(d) ==
    CASE IsPing(d)    -> {Pong(At(d, 9))}
      [] IsOpen(d)    -> {OpenAnswer}
      [] IsCaps(d)    -> {Capabilities(d)}
      [] IsCiphers(d) -> {Suites(d)}
      [] OTHER        -> {}

ASSUME IpmiServerAssumption ==
    /\ Bmc \notin Client
    /\ \A c \in Client : Scripts[c] \subseteq Seq(Question)
    /\ FirstSeq \subseteq 0 .. 63
    /\ \A d \in Strays : d \in Seq(Byte) \ {<<>>} /\ sessionless_data(d) = {}
    /\ \A i \in 1 .. 6 : Fakemac[i] \in (0 .. 15) \X (0 .. 15)
    /\ MaxFaults \in Nat

-----------------------------------------------------------------------------
(* handle_raw_request: the answers it may send.                             *)

Says(code, data) == [code |-> code, data |-> data]

MacBytes == [i \in 1 .. 6 |-> 16 * Fakemac[i][1] + Fakemac[i][2]]

get_channel_access == Says(0, <<34, 4>>)
get_channel_info   == Says(0, <<2, 4, 1, 128, 242, 27, 0, 0, 0>>)
(* Mutant: the revision is left out.                                        *)
Mut_get_lan_configuration_parameters(param) ==
    IF param = 5 THEN Says(0, MacBytes) ELSE Says(128, <<0>>)

get_lan_configuration_parameters(param) ==
    IF param = 5 THEN Says(0, <<0>> \o MacBytes) ELSE Says(128, <<0>>)

(* What the library answers by itself or by calling the handlers of module  *)
(* VirtualBMC: the answer, busy, invalid data, or 255 for an exception.  A  *)
(* reset is not implemented.                                                *)
Library == {<<6, 1>>, <<6, 72>>, <<6, 73>>, <<0, 1>>, <<0, 2>>, <<0, 8>>, <<0, 9>>}

handle_raw_request(netfn, cmd, param) ==
    CASE netfn = 6  /\ cmd = 65 -> {get_channel_access}
      [] netfn = 6  /\ cmd = 66 -> {get_channel_info}
      [] netfn = 12 /\ cmd = 2  -> {get_lan_configuration_parameters(param)}
      [] <<netfn, cmd>> \in Library -> {Says(code, <<>>) : code \in {0, 192, 204, 255}}
      [] OTHER -> {Says(193, <<>>)}

(* send_ipmi_response: the answer goes out under the request's own number.  *)
Reply(m, said) ==
    Session(Bmc, m.from, [m.msg EXCEPT !.netfn = @ + 1, !.code = said.code,
                                       !.data = said.data])

(* A datagram reaches the BMC; one of a session that is gone is not heard.  *)
(* When sessionless_data raises, listen() ends and with it the process and  *)
(* its sessions; a later pass of the daemon starts the BMC again.           *)
Reaches(m, rest) ==
    IF m.raw # <<>>
    THEN /\ net' = rest \cup {Raw(Bmc, m.from, d) : d \in sessionless_data(m.raw)}
         /\ session' = IF Raises(m.raw) THEN {}
                       ELSE IF IsOpen(m.raw) THEN session \cup {m.from} ELSE session
    ELSE /\ UNCHANGED session
         /\ IF m.from \in session
            THEN \E answer \in handle_raw_request(m.msg.netfn, m.msg.cmd, m.msg.param) :
                    net' = rest \cup {Reply(m, answer)}
            ELSE net' = rest

Receive(m) ==
    /\ m \in net /\ m.to = Bmc
    /\ Reaches(m, net \ {m})
    /\ UNCHANGED <<client, faults>>

-----------------------------------------------------------------------------
(* The client again.                                                        *)

(* It takes an answer to the capabilities for its own if the packet is of   *)
(* the version it speaks, its length is the one announced, the checksums    *)
(* are right, and addresses, number and command are those of the question.  *)
WellFormed(v2, d) ==
    LET h    == IF v2 THEN 16 ELSE 14
        body == From(d, h)
    IN /\ Len(d) > h + 6
       /\ SubSeq(d, 1, 5) = <<6, 0, 255, 7, IF v2 THEN 6 ELSE 0>>
       /\ Len(body) = (IF v2 THEN At(d, 14) + 256 * At(d, 15) ELSE At(d, 13))
       /\ SumOf(SubSeq(body, 1, 3)) % 256 = 0
       /\ SumOf(From(body, 3)) % 256 = 0

CapsFor(v2, seq, d) ==
    /\ WellFormed(v2, d)
    /\ LET body == From(d, IF v2 THEN 16 ELSE 14)
       IN /\ body[1] = ConsoleAddr /\ body[2] = 7 * 4
          /\ body[4] = BmcAddr /\ body[5] = seq * 4 /\ body[6] = 56

(* One to the cipher suites by the addresses, the number and the command.   *)
SuitesFor(seq) == CipherSuites(BmcAddr, 0, ConsoleAddr, 0, seq)

Pongs         == {Pong(tag) : tag \in 0 .. 63}
SuitesAnswers == {SuitesFor(seq) : seq \in 0 .. 63}

Fits(c, m) ==
    LET q == Asks(c)
        seq == client[c].seq
    IN CASE q = "ping" -> m.raw = Pong(seq)
         [] q = "caps" -> CapsFor(client[c].v2, seq, m.raw)
         [] q = "ciphers" -> m.raw = SuitesFor(seq)
         [] q = "open" -> m.raw = OpenAnswer
         [] OTHER -> /\ m.raw = <<>>
                     /\ m.msg.seq = seq
                     /\ m.msg.netfn = Inside[q][1] + 1 /\ m.msg.cmd = Inside[q][2]

(* It asks, and asks again as often as it likes.                            *)
Ask(c) ==
    /\ ~Done(c)
    /\ Request(c) \notin net
    /\ Cardinality(net) < MaxNet
    /\ net' = net \cup {Request(c)}
    /\ UNCHANGED <<client, session, faults>>

Take(c, m) ==
    /\ m \in net /\ m.to = c
    /\ net' = net \ {m}
    /\ client' = IF Done(c) \/ ~Fits(c, m) THEN client
                 ELSE [client EXCEPT ![c].at = @ + 1, ![c].seq = (@ + 1) % 64,
                          ![c].mac = IF Asks(c) = "mac" THEN Tail(m.msg.data) ELSE @]
    /\ UNCHANGED <<session, faults>>

(* Unanswered for long, it begins again.                                    *)
BeginAgain(c) ==
    /\ ~Done(c)
    /\ Asks(c) \in DOMAIN Inside
    /\ c \notin session
    /\ client' = [client EXCEPT ![c].at = 1, ![c].seq = (@ + 1) % 64]
    /\ UNCHANGED <<net, session, faults>>

-----------------------------------------------------------------------------
(* The network, and a stop and start of the BMC.                            *)

Lose(m) ==
    /\ m \in net
    /\ Fault("lose")
    /\ net' = net \ {m}
    /\ UNCHANGED <<client, session>>

(* A copy of a request arrives, and the request stays under way.            *)
Duplicate(m) ==
    /\ m \in net /\ m.to = Bmc
    /\ Fault("duplicate")
    /\ Reaches(m, net)
    /\ UNCHANGED client

Restart ==
    /\ Fault("restart")
    /\ session' = {}
    /\ UNCHANGED <<client, net>>

Hears(c)  == \E m \in net : m.from = c /\ Receive(m)
Learns(c) == \E m \in net : Take(c, m)

Next ==
    \/ \E m \in net : Receive(m) \/ Lose(m) \/ Duplicate(m)
    \/ \E c \in Client : Ask(c) \/ Learns(c) \/ BeginAgain(c)
    \/ Restart

(* The BMC and the clients read what has come; a client goes on asking.     *)
Spec ==
    /\ Init /\ [][Next]_vars
    /\ \A c \in Client : /\ WF_vars(Hears(c)) /\ WF_vars(Learns(c))
                         /\ WF_vars(Ask(c)) /\ WF_vars(BeginAgain(c))

-----------------------------------------------------------------------------
(* Every variable keeps its type; what is sent is made of bytes.            *)
TypeOK ==
    /\ \A c \in Client : /\ client[c].script \in Scripts[c]
                         /\ client[c].at \in 1 .. Len(client[c].script) + 1
                         /\ client[c].seq \in 0 .. 63
    /\ \A m \in net : /\ {m.from, m.to} \subseteq Client \cup {Bmc}
                      /\ m.raw \in Seq(Byte) /\ m.msg.data \in Seq(Byte)
    /\ session \subseteq Client
    /\ faults \in 0 .. MaxFaults

(* Whatever the BMC sends outside of a session is either a pong, the answer *)
(* to an open request, cipher suites addressed to the client by the BMC, or *)
(* capabilities that the client's own checks accept: in the version it      *)
(* speaks, as long as announced, with both sums right (sessionless_data,    *)
(* send_auth_cap_v2 beside the library's send_auth_cap).                    *)
AnswersFit ==
    \A m \in net :
        m.from = Bmc /\ m.raw # <<>> =>
            \/ m.raw = OpenAnswer
            \/ m.raw \in Pongs \cup SuitesAnswers
            \/ WellFormed(client[m.to].v2, m.raw)

(* A client that is done has been told the MAC address the BMC was given,   *)
(* the one vCenter compares with the host's.                                *)
RightMac ==
    \A c \in Client :
        Done(c) /\ "mac" \in {client[c].script[i] : i \in DOMAIN client[c].script}
            => client[c].mac = MacBytes

(* Every client is answered to the end, in either version, from any         *)
(* sequence number on, through losses, duplicates and a restart of the BMC. *)
Registers == \A c \in Client : <>Done(c)

=============================================================================
