------------------------------- MODULE Tftpc --------------------------------
(* The TFTP client of netutils/tftpc: tftpget and tftpput, with a server     *)
(* and a network that loses, duplicates, delays and reorders packets.        *)
(*                                                                           *)
(* A file is a sequence of blocks; the last one, and only it, is shorter     *)
(* than TFTP_DATASIZE.  The network is the set of the packets ever sent: a   *)
(* packet that is never taken is lost, one that is taken twice is            *)
(* duplicated.  The direction of a packet follows from the operation: with   *)
(* tftpget the server sends DATA and the client ACK, with tftpput the other  *)
(* way round.  The server (which is not part of the repository) opens a new  *)
(* port for every request it takes and otherwise follows RFC 1350.           *)
EXTENDS Integers, Sequences

CONSTANTS
    Blocks,         \* contents of a DATA packet
    Short,          \* those of fewer than TFTP_DATASIZE bytes
    File,           \* the file to be transferred
    Ports,          \* transfer ports of the server
    WellKnown,      \* CONFIG_NETUTILS_TFTP_PORT
    NoPort,         \* port 0: not known yet
    NoData,         \* what packets other than DATA carry
    BlockMod,       \* number of block numbers, 2^16 in the code
    TFTP_RETRIES

ASSUME FileAssumption ==
    /\ Short \subseteq Blocks /\ NoData \notin Blocks
    /\ File \in Seq(Blocks) /\ File # <<>>
    /\ \A i \in 1..Len(File) : File[i] \in Short <=> i = Len(File)
ASSUME PortAssumption == WellKnown \notin Ports /\ NoPort \notin Ports /\ NoPort # WellKnown
ASSUME NumAssumption == TFTP_RETRIES \in Nat \ {0} /\ BlockMod \in Nat \ {0, 1}

VARIABLES
    op,         \* "get" or "put"
    pc,         \* where the client is; "ok", "error" and "crash" are final
    phase,      \* tftpput: "req" until the request is acknowledged, then "data"
    blockno,    \* block number, a uint16_t
    offset,     \* tftpput: blocks of the file behind the current one
    retry,      \* retry counter of tftpget_cb and tftpput_cb
    tries,      \* retry counter of tftp_rcvack
    port,       \* server.sin_port as far as the server has chosen it
    file,       \* tftpget: blocks passed to the callback
    net,        \* packets sent so far
    open,       \* ports of the server in use
    blocks,     \* blocks the server has sent (get) or stored (put), by port
    aborted     \* ports to which tftpget has sent TFTP_ERR_UNKID

client == <<pc, phase, blockno, offset, retry, tries, port, file>>
server == <<open, blocks>>
vars == <<op, client, net, server, aborted>>

Packet(kind, p, num, data) == [kind |-> kind, port |-> p, num |-> num, data |-> data]
Packets == [kind : {"req", "data", "ack"}, port : Ports \cup {WellKnown},
            num : 0..(BlockMod - 1), data : Blocks \cup {NoData}]
Request(p)   == Packet("req", p, 0, NoData)
Data(p, n, b) == Packet("data", p, n, b)
Ack(p, n)    == Packet("ack", p, n, NoData)
Send(m)      == net' = net \cup {m}

Done == pc \in {"ok", "error", "crash"}

Init ==
    /\ op \in {"get", "put"}
    /\ pc = IF op = "get" THEN "rrq" ELSE "wrq"
    /\ phase = "req" /\ blockno = 1 /\ offset = 0 /\ retry = 0 /\ tries = 0
    /\ port = NoPort /\ file = <<>>
    /\ net = {} /\ open = {} /\ blocks = [p \in Ports |-> <<>>] /\ aborted = {}

-----------------------------------------------------------------------------
(* tftpget_cb.  "rrq": the request has to be sent; "recv": in tftp_recvfrom. *)

\* Next try for a block: the request goes out again for block number 1.
Await(b) == IF b = 1 THEN "rrq" ELSE "recv"

SendRRQ ==
    /\ op = "get" /\ pc = "rrq"
    /\ \/ Send(Request(WellKnown)) /\ port' = NoPort /\ pc' = "recv"
       \/ pc' = "error" /\ UNCHANGED <<net, port>>
    /\ UNCHANGED <<op, phase, blockno, offset, retry, tries, file, server, aborted>>

\* One of TFTP_RETRIES tries is used up.
GetCounted ==
    /\ retry' = retry + 1
    /\ pc' = IF retry + 1 = TFTP_RETRIES THEN "error" ELSE Await(blockno)
    /\ UNCHANGED <<op, phase, blockno, offset, tries, port, file, net, server, aborted>>

\* A timeout, an empty packet, or another error of recvfrom.
GetTimeout == op = "get" /\ pc = "recv" /\ GetCounted

\* A packet from another host does not count.
GetForeign ==
    /\ op = "get" /\ pc = "recv" /\ pc' = Await(blockno)
    /\ UNCHANGED <<op, phase, blockno, offset, retry, tries, port, file, net, server, aborted>>

\* Mutant: port 0 is compared like any other port.
GetWrongPortZero(p) ==
    /\ op = "get" /\ pc = "recv" /\ port # p
    /\ pc' = Await(blockno) /\ aborted' = aborted \cup {p}
    /\ UNCHANGED <<op, phase, blockno, offset, retry, tries, port, file, net, server>>

\* Neither does one from another port; its sender is told so.
GetWrongPort(p) ==
    /\ op = "get" /\ pc = "recv" /\ port \notin {NoPort, p}
    /\ pc' = Await(blockno) /\ aborted' = aborted \cup {p}
    /\ UNCHANGED <<op, phase, blockno, offset, retry, tries, port, file, net, server>>

\* A packet that is too small, or not DATA.
GetBadPacket(p) == op = "get" /\ pc = "recv" /\ port \in {NoPort, p} /\ GetCounted

GetOtherBlock(m) ==
    /\ op = "get" /\ pc = "recv" /\ m.kind = "data" /\ port \in {NoPort, m.port}
    /\ m.num # blockno
    /\ GetCounted

\* Mutant: the number of a received block is not compared.
GetBlockAnyNumber(m) ==
    /\ op = "get" /\ pc = "recv" /\ m.kind = "data" /\ port \in {NoPort, m.port}
    /\ port' = m.port /\ file' = Append(file, m.data) /\ Send(Ack(m.port, blockno))
    /\ IF m.data \in Short
       THEN pc' = "ok" /\ UNCHANGED <<blockno, retry>>
       ELSE blockno' = (blockno + 1) % BlockMod /\ retry' = 0 /\ pc' = Await(blockno')
    /\ UNCHANGED <<op, phase, offset, tries, server, aborted>>

\* The expected block: it is written and acknowledged.  The callback may fail,
\* and then the ACK is not sent, and so may sending the ACK.
GetBlock(m) ==
    /\ op = "get" /\ pc = "recv" /\ m.kind = "data" /\ port \in {NoPort, m.port}
    /\ m.num = blockno
    /\ port' = m.port
    /\ \/ /\ file' = Append(file, m.data) /\ Send(Ack(m.port, blockno))
          /\ IF m.data \in Short
             THEN pc' = "ok" /\ UNCHANGED <<blockno, retry>>
             ELSE /\ blockno' = (blockno + 1) % BlockMod
                  /\ retry' = 0 /\ pc' = Await(blockno')
       \/ /\ file' \in {file, Append(file, m.data)}
          /\ pc' = "error" /\ UNCHANGED <<blockno, retry, net>>
    /\ UNCHANGED <<op, phase, offset, tries, server, aborted>>

-----------------------------------------------------------------------------
(* tftpput_cb.  "wrq" and "data": the request, or the current block, has to  *)
(* be sent; "ack": in tftp_rcvack.                                           *)

SendWRQ ==
    /\ op = "put" /\ pc = "wrq"
    /\ \/ Send(Request(IF port = NoPort THEN WellKnown ELSE port)) /\ pc' = "ack"
       \/ pc' = "error" /\ UNCHANGED net
    /\ tries' = 0
    /\ UNCHANGED <<op, phase, blockno, offset, retry, port, file, server, aborted>>

\* The block is read through the callback each time it is sent.
SendData ==
    /\ op = "put" /\ pc = "data"
    /\ \/ Send(Data(port, blockno, File[offset + 1])) /\ pc' = "ack"
       \/ pc' = "error" /\ UNCHANGED net
    /\ tries' = 0
    /\ UNCHANGED <<op, phase, blockno, offset, retry, port, file, server, aborted>>

\* Mutant: retries are not counted.
ResendUncounted ==
    /\ pc' = IF phase = "req" THEN "wrq" ELSE "data"
    /\ UNCHANGED <<retry, phase, blockno, offset>>

\* The request or the block goes out again, unless that was the last retry.
Resend ==
    /\ retry' = retry + 1
    /\ pc' = IF retry + 1 > TFTP_RETRIES THEN "error"
             ELSE IF phase = "req" THEN "wrq" ELSE "data"
    /\ UNCHANGED <<phase, blockno, offset>>

\* tftp_rcvack gives up after TFTP_RETRIES tries.
RcvCounted ==
    /\ tries' = tries + 1
    /\ IF tries + 1 = TFTP_RETRIES THEN Resend ELSE UNCHANGED <<pc, phase, blockno, offset, retry>>
    /\ UNCHANGED <<op, file, net, server, aborted>>

\* Mutant: every packet sets the port.
FixPortAlways(p) == port' = p

\* The port of the first packet is the server's, whoever sent that packet.
FixPort(p) == port' = IF port = NoPort THEN p ELSE port

\* A timeout, a packet that is too small, or another error of recvfrom.
RcvTimeout == op = "put" /\ pc = "ack" /\ RcvCounted /\ UNCHANGED port

RcvForeign(p) ==
    /\ op = "put" /\ pc = "ack" /\ FixPort(p)
    /\ UNCHANGED <<op, pc, phase, blockno, offset, retry, tries, file, net, server, aborted>>

\* Not an ACK.
RcvBadPacket(p) == op = "put" /\ pc = "ack" /\ FixPort(p) /\ RcvCounted

\* The ACK of the request, whatever its number and, once the port is fixed,
\* whatever port it comes from.  The number is stored through a null pointer:
\* the program goes on, or ends there.
RcvRequestAck(m) ==
    /\ op = "put" /\ pc = "ack" /\ phase = "req" /\ m.kind = "ack" /\ FixPort(m.port)
    /\ phase' = "data" /\ retry' = 0 /\ pc' \in {"data", "crash"}
    /\ UNCHANGED <<op, blockno, offset, tries, file, net, server, aborted>>

\* Mutant: any ACK is taken for that of the current block.
RcvBlockAckAny(m) ==
    /\ op = "put" /\ pc = "ack" /\ phase = "data" /\ m.kind = "ack"
    /\ IF File[offset + 1] \in Short
       THEN pc' = "ok" /\ UNCHANGED <<blockno, offset, retry>>
       ELSE /\ pc' = "data" /\ retry' = 0
            /\ blockno' = (blockno + 1) % BlockMod /\ offset' = offset + 1
    /\ UNCHANGED <<op, phase, tries, port, file, net, server, aborted>>

\* The ACK of the current block, from any port.
RcvBlockAck(m) ==
    /\ op = "put" /\ pc = "ack" /\ phase = "data" /\ m.kind = "ack" /\ m.num = blockno
    /\ IF File[offset + 1] \in Short
       THEN pc' = "ok" /\ UNCHANGED <<blockno, offset, retry>>
       ELSE /\ pc' = "data" /\ retry' = 0
            /\ blockno' = (blockno + 1) % BlockMod /\ offset' = offset + 1
    /\ UNCHANGED <<op, phase, tries, port, file, net, server, aborted>>

\* Any other ACK makes the client send the same block again.
RcvOtherAck(m) ==
    /\ op = "put" /\ pc = "ack" /\ phase = "data" /\ m.kind = "ack" /\ m.num # blockno
    /\ Resend
    /\ UNCHANGED <<op, tries, port, file, net, server, aborted>>

-----------------------------------------------------------------------------
(* The server.                                                               *)

ServeRequest(p) ==
    /\ Request(WellKnown) \in net /\ p \in Ports \ open
    /\ open' = open \cup {p}
    /\ IF op = "get"
       THEN /\ blocks' = [q \in Ports |-> IF q = p THEN <<File[1]>> ELSE blocks[q]]
            /\ Send(Data(p, 1 % BlockMod, File[1]))
       ELSE Send(Ack(p, 0)) /\ UNCHANGED blocks
    /\ UNCHANGED <<op, client, aborted>>

\* The ACK of the last block sent lets the server send the next one.
ServeAck(p) ==
    LET n == Len(blocks[p]) IN
    /\ op = "get" /\ p \in open /\ n < Len(File) /\ Ack(p, n % BlockMod) \in net
    /\ blocks' = [q \in Ports |-> IF q = p THEN Append(blocks[p], File[n + 1]) ELSE blocks[q]]
    /\ Send(Data(p, (n + 1) % BlockMod, File[n + 1]))
    /\ UNCHANGED <<op, client, open, aborted>>

\* The next block is stored and acknowledged; a short one ends the file.
ServeData(p, m) ==
    LET n == Len(blocks[p]) IN
    /\ op = "put" /\ p \in open /\ m.kind = "data" /\ m.port = p
    /\ m.num = (n + 1) % BlockMod /\ (n > 0 => blocks[p][n] \notin Short)
    /\ blocks' = [q \in Ports |-> IF q = p THEN Append(blocks[p], m.data) ELSE blocks[q]]
    /\ Send(Ack(p, m.num))
    /\ UNCHANGED <<op, client, open, aborted>>

-----------------------------------------------------------------------------
\* Packets that do not count as a try, from other hosts or other ports.
Stray ==
    \/ GetForeign
    \/ \E p \in open : GetWrongPort(p)
    \/ \E p \in Ports : RcvForeign(p)

\* ERR and malformed packets of the server.
Bad == \E p \in open : GetBadPacket(p) \/ RcvBadPacket(p)

GetStep ==
    \/ SendRRQ \/ GetTimeout
    \/ \E m \in net : GetOtherBlock(m) \/ GetBlock(m)
PutStep ==
    \/ SendWRQ \/ SendData \/ RcvTimeout
    \/ \E m \in net : RcvRequestAck(m) \/ RcvBlockAck(m) \/ RcvOtherAck(m)
ServerStep ==
    \E p \in Ports :
        \/ ServeRequest(p) \/ ServeAck(p)
        \/ \E m \in net : ServeData(p, m)

Next == GetStep \/ PutStep \/ Stray \/ Bad \/ ServerStep

Spec == Init /\ [][Next]_vars

\* recvfrom has a timeout, so the client does not wait for ever.
FairSpec == Spec /\ WF_vars(GetStep \/ PutStep)

-----------------------------------------------------------------------------
(* Properties                                                                *)

TypeOK ==
    /\ op \in {"get", "put"}
    /\ pc \in {"rrq", "recv", "wrq", "data", "ack", "ok", "error", "crash"}
    /\ phase \in {"req", "data"}
    /\ blockno \in 0..(BlockMod - 1) /\ offset \in 0..(Len(File) - 1)
    /\ retry \in 0..(TFTP_RETRIES + 1) /\ tries \in 0..TFTP_RETRIES
    /\ port \in Ports \cup {NoPort}
    /\ file \in Seq(Blocks)
    /\ net \subseteq Packets
    /\ open \subseteq Ports /\ blocks \in [Ports -> Seq(Blocks)] /\ aborted \subseteq Ports

\* What the receiving side of the transfer holds.
Received ==
    IF op = "get" THEN file ELSE IF port = NoPort THEN <<>> ELSE blocks[port]

\* What the caller knows of it.
Status == IF pc = "ok" THEN "ok" ELSE IF Done THEN "error" ELSE "busy"

\* tftpget_cb and tftpput_cb return OK only when the whole file has arrived,
\* unchanged, whatever was lost, repeated or reordered: for tftpput in the one
\* transfer the client talks to.
Intact == pc = "ok" => Received = File

\* A repeated write request opens several transfers on the server; the client
\* sends blocks to the first one that answered and to no other, although
\* tftp_rcvack takes ACKs from all of them.
OneSession == op = "put" => \A p \in Ports : blocks[p] # <<>> => p = port

\* tftpget_cb tells servers of other transfers to give up
\* (TFTP_ERR_UNKID), but never the one it receives the file from.
SessionKept == port # NoPort => port \notin aborted

\* The read request is sent only before the first block has been received:
\* "Each retry of the first block will re-send the request" (tftpc_get.c:152).
\* The test is on the block number, so this is for files of fewer than 2^16
\* blocks.
RequestFirst == pc = "rrq" => file = <<>>

\* The client implements TftpAbs: blocks are delivered in order and once, and
\* success is reported after the last of them.
Transfer == INSTANCE TftpAbs WITH received <- Received, status <- Status
Delivers == Transfer!Spec

\* A transfer ends, with success or not, unless packets of other hosts or other
\* ports keep arriving: those are not counted as tries.
Terminates == []<><<Stray>>_vars \/ <>Done
=============================================================================
