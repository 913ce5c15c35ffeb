------------------------------- MODULE Ymodem -------------------------------
(* system/ymodem: sb sends a list of files to rb over a serial line.         *)
(*                                                                           *)
(* Contents are units; file f has the units <<f, 1>>, <<f, 2>> and so on.    *)
(* The line keeps the order.  A packet may be lost or arrive with a wrong    *)
(* checksum, a byte may be lost or garbled, MaxFaults times in a session.    *)
(* Damage to the first byte of a packet is left out: the receiver would read *)
(* the rest of the packet as commands.                                       *)
(*                                                                           *)
(* The sender has no timeout.  The receiver's is longer than a packet and    *)
(* its answer take; a receiver that is "hasty" has a shorter one.            *)
EXTENDS Integers, Sequences

CONSTANTS
    Lengths,        \* the files: their lengths, in units
    Small, Big,     \* YMODEM_PACKET_SIZE, and 1K or custom_size, in units
    Moduli,         \* where packet numbers may wrap; at 2^8 in the code
    RETRY,          \* ctx->retry
    BufferSize,     \* buffersize of rb, if it writes asynchronously
    Threshold,      \* threshold of rb
    MaxFaults,      \* bound on the faults of the line in a session
    HastyMax        \* bound on the replies on the line when a hasty receiver times out

ASSUME YmodemAssumption ==
    /\ Lengths \in Seq(Nat) /\ Small \in Nat \ {0} /\ Big \in Nat \ {0}
    /\ Moduli \subseteq Nat \ {0, 1} /\ RETRY \in Nat \ {0} /\ MaxFaults \in Nat /\ HastyMax \in Nat
    /\ Threshold \in Nat /\ BufferSize \in Nat
    /\ BufferSize >= Threshold /\ BufferSize >= Small /\ BufferSize >= Big

VARIABLES
  (* sb *)
    spc,        \* the reply that ymodem_send_file waits for
    packet,     \* the packet in its buffer
    tries,      \* replies that were not 'C' at the start
  (* rb *)
    rpc,        \* the state of ymodem_recv_file, and of main
    total,      \* total_seq
    started,    \* str: a file name has been received
    retries,    \* errors since the last data packet
    file,       \* the file open for writing; 0 if none, or one that is not in the list
    saved,      \* file_saved_size
    circ,       \* the asynchronous buffer
    disk,       \* the files on disk
    writer,     \* the thread of async_write: "up", or "dead" after an error
    buffersize, \* 0 or BufferSize
    hasty,      \* the receiver's timeout is too short
    seqmod,     \* one of Moduli
  (* line *)
    fwd, back,  \* from sb to rb, and from rb to sb
    faults,     \* faults so far
    spoiled     \* history: a fault has happened that the protocol does not repair

sender   == <<spc, packet, tries>>
store    == <<file, saved, circ, disk, writer>>
options  == <<buffersize, hasty, seqmod>>
receiver == <<rpc, total, started, retries, store>>
line     == <<fwd, back, faults, spoiled>>
vars     == <<sender, receiver, options, line>>

Files == 1 .. Len(Lengths)
Name(f)  == [kind |-> "name", seq |-> 0, file |-> f, at |-> 0, size |-> Small]
Empty(f) == [kind |-> "empty", seq |-> 0, file |-> f, at |-> 0, size |-> Small]
EOT == [kind |-> "eot"]
Bad == [kind |-> "bad"]
Old == <<0, 0>>

Init ==
    /\ spc = "hello" /\ packet = Name(0) /\ tries = 0
    /\ rpc = "start" /\ total = 0 /\ started = FALSE /\ retries = 0
    /\ file = 0 /\ saved = 0 /\ circ = << >> /\ writer = "up"
    /\ disk = [f \in Files |-> [u \in 1 .. Lengths[f] |-> Old]]
    /\ buffersize \in {0, BufferSize} /\ hasty \in BOOLEAN /\ seqmod \in Moduli
    /\ fwd = << >> /\ back = << >> /\ faults = 0 /\ spoiled = hasty

-----------------------------------------------------------------------------
(* The line                                                                  *)

\* ymodem_send_buffer of the sender: m arrives, is damaged or is lost.  After a
\* short write the packet is begun anew, and arrives damaged.
Transmit(m) ==
    \/ fwd' = Append(fwd, m) /\ UNCHANGED <<faults, spoiled>>
    \/ /\ faults < MaxFaults /\ faults' = faults + 1
       /\ spoiled' = (spoiled \/ m \in {Name(1), Empty(1)})
       /\ fwd' \in {fwd, Append(fwd, Bad)}

\* ymodem_send_buffer of the receiver: one of the bytes may be lost or garbled.
Answer(bytes, mended) ==
    \/ back' = back \o bytes /\ UNCHANGED <<faults, spoiled>>
    \/ /\ faults < MaxFaults /\ faults' = faults + 1
       /\ \E i \in DOMAIN bytes :
            LET before == back \o SubSeq(bytes, 1, i - 1)
                after  == SubSeq(bytes, i + 1, Len(bytes))
            IN  \/ back' = before \o after /\ spoiled' = (spoiled \/ ~mended)
                \/ back' = before \o <<"junk">> \o after /\ spoiled' = TRUE

-----------------------------------------------------------------------------
(* ymodem_send_file and the handler of sb                                    *)

\* ymodem_recv_cmd
Got(reply) == back # << >> /\ Head(back) = reply /\ back' = Tail(back)
Expected == IF spc \in {"hello", "nameC", "eotC"} THEN "C" ELSE "ACK"
SenderEnds(s) == spc' = s /\ UNCHANGED <<packet, tries, fwd, faults, spoiled>>

\* send_start: the next file is announced.  At the end of the list, and at a
\* file that cannot be opened, the session is closed with an empty packet.
SendName(f) ==
    \/ /\ f \in Files /\ packet' = Name(f) /\ spc' = "name" /\ UNCHANGED tries
       /\ Transmit(packet')
    \/ /\ packet' = Empty(f) /\ spc' = "last" /\ UNCHANGED tries
       /\ Transmit(packet')

\* send_packet: the units from at on.
SendData(f, at) ==
    /\ packet' = [kind |-> "data", seq |-> (packet.seq + 1) % seqmod, file |-> f, at |-> at,
                  size |-> IF Lengths[f] - at <= Small THEN Small ELSE Big]
    /\ spc' = "data" /\ UNCHANGED tries
    /\ Transmit(packet')

\* The handshake: anything but 'C' counts as a try.
Hello ==
    /\ spc = "hello" /\ Got("C") /\ SendName(1)
NoHello ==
    /\ spc = "hello" /\ back # << >> /\ Head(back) # "C" /\ back' = Tail(back)
    /\ tries' = tries + 1 /\ spc' = IF tries' < RETRY THEN "hello" ELSE "fail"
    /\ UNCHANGED <<packet, fwd, faults, spoiled>>

NameAck == spc = "name" /\ Got("ACK") /\ SenderEnds("nameC")
NameCrc == spc = "nameC" /\ Got("C") /\ SendData(packet.file, 0)

DataAck ==
    /\ spc = "data" /\ Got("ACK")
    /\ IF packet.at + packet.size < Lengths[packet.file]
       THEN SendData(packet.file, packet.at + packet.size)
       ELSE spc' = "eot" /\ UNCHANGED <<packet, tries>> /\ Transmit(EOT)

EotAck == spc = "eot" /\ Got("ACK") /\ SenderEnds("eotC")
EotCrc == spc = "eotC" /\ Got("C") /\ SendName(packet.file + 1)
LastAck == spc = "last" /\ Got("ACK") /\ SenderEnds("ok")

\* Mutant: a NAK moves the sender on.
SendAgainNot ==
    /\ spc \notin {"hello", "ok", "fail"} /\ Got("NAK")
    /\ IF spc = "data" THEN spc' = "eot" /\ Transmit(EOT)
       ELSE UNCHANGED spc /\ Transmit(IF spc \in {"eot", "eotC"} THEN EOT ELSE packet)
    /\ UNCHANGED <<packet, tries>>

\* A NAK: the same packet again.
SendAgain ==
    /\ spc \notin {"hello", "ok", "fail"} /\ Got("NAK")
    /\ spc' = CASE spc = "nameC" -> "name" [] spc = "eotC" -> "eot" [] OTHER -> spc
    /\ Transmit(IF spc' = "eot" THEN EOT ELSE packet)
    /\ UNCHANGED <<packet, tries>>

\* A read of the file, or a write to the line, fails when it is the sender's
\* turn.  To the receiver, the beginning of a packet is as good as nothing.
SendFails ==
    /\ \/ spc \in {"hello", "nameC", "eotC"} /\ Got("C")
       \/ spc = "data" /\ Got("ACK")
       \/ spc \notin {"hello", "ok", "fail"} /\ Got("NAK")
    /\ spc' = "fail" /\ UNCHANGED <<packet, tries, fwd, faults>> /\ spoiled' = TRUE

\* Anything else, CAN included, ends the sender.
Unexpected ==
    /\ spc \notin {"hello", "ok", "fail"}
    /\ back # << >> /\ Head(back) \notin {Expected, "NAK"} /\ back' = Tail(back)
    /\ SenderEnds("fail")

SenderStep ==
    /\ \/ Hello \/ NoHello \/ NameAck \/ NameCrc \/ DataAck
       \/ EotAck \/ EotCrc \/ LastAck \/ SendAgain \/ SendFails \/ Unexpected
    /\ UNCHANGED <<receiver, options>>

-----------------------------------------------------------------------------
(* ymodem_recv_file and the handler of rb                                    *)

\* Units written to file f of disk d from position pos on.
Written(d, f, pos, units) ==
    [d EXCEPT ![f] = [u \in DOMAIN @ |->
        IF u > pos /\ u <= pos + Len(units) THEN units[u - pos] ELSE @[u]]]

\* flush_data; of what was saved, circ is not yet written.
Flushed == IF circ = << >> THEN disk ELSE Written(disk, file, saved - Len(circ), circ)

\* Mutant: a packet is written as it is.
SizeOfWhole(m) == m.size

\* The padding of the last packet is cut off.  What goes to a file that is
\* not one of the list is left out.
SizeOf(m) ==
    IF file = 0 THEN 0
    ELSE IF saved + m.size > Lengths[file] THEN Lengths[file] - saved ELSE m.size

\* write_data: a buffer that runs full is flushed on the way.
WriteData(units) ==
    LET q == circ \o units IN
    IF buffersize = 0
    THEN disk' = (IF units = << >> THEN disk ELSE Written(disk, file, saved, units)) /\ UNCHANGED circ
    ELSE IF Len(q) <= buffersize
    THEN circ' = q /\ UNCHANGED disk
    ELSE /\ disk' = Written(disk, file, saved - Len(circ), SubSeq(q, 1, buffersize))
         /\ circ' = SubSeq(q, buffersize + 1, Len(q))

\* The label cancel.
Cancelled == rpc' = "fail" /\ Answer(<<"CAN", "CAN">>, FALSE)

\* An error of the file system in the handler.
HandlerFails ==
    /\ rpc' = "fail" /\ back' = back \o <<"CAN", "CAN">> /\ spoiled' = TRUE
    /\ UNCHANGED <<total, started, retries, store, faults>>

Start ==
    /\ rpc = "start" /\ rpc' = "run" /\ Answer(<<"C">>, FALSE)
    /\ UNCHANGED <<total, started, retries, store, fwd>>

Received(kinds) == rpc = "run" /\ fwd # << >> /\ Head(fwd).kind \in kinds /\ fwd' = Tail(fwd)

\* EOT, whether or not the file is complete.
RecvEot ==
    /\ Received({"eot"}) /\ total' = 0
    /\ Answer(<<"ACK", "C">>, FALSE)
    /\ UNCHANGED <<rpc, started, retries, store>>

\* Mutant: errors are not counted.
CountErrorNot ==
    /\ Answer(IF started THEN <<"NAK">> ELSE <<"C">>, TRUE)
    /\ UNCHANGED <<rpc, retries>>

\* Mutant: the sender is always asked with 'C'.
CountErrorCrc ==
    \/ /\ retries < RETRY /\ retries' = retries + 1 /\ UNCHANGED rpc
       /\ Answer(<<"C">>, TRUE)
    \/ retries = RETRY /\ UNCHANGED retries /\ Cancelled

\* An error: the sender is asked again, with 'C' as long as no name has come,
\* or given up.
CountError ==
    \/ /\ retries < RETRY /\ retries' = retries + 1 /\ UNCHANGED rpc
       /\ Answer(IF started THEN <<"NAK">> ELSE <<"C">>, TRUE)
    \/ retries = RETRY /\ UNCHANGED retries /\ Cancelled

\* A damaged packet.  What has arrived behind it is flushed.
RecvBad ==
    /\ rpc = "run" /\ fwd # << >> /\ Head(fwd).kind = "bad"
    /\ \E n \in 2 .. Len(fwd) + 1 : fwd' = SubSeq(fwd, n, Len(fwd))
    /\ CountError /\ UNCHANGED <<total, started, store>>

\* Nothing has come for a while.  The flush, which is of the output too, finds
\* the last answer sent, and no packet half received.
RecvTimeout ==
    /\ rpc = "run" /\ fwd = << >>
    /\ back = << >> \/ spc \in {"ok", "fail"} \/ (hasty /\ Len(back) < HastyMax)
    /\ CountError /\ UNCHANGED <<total, started, store, fwd>>

Packets == {"name", "data", "empty"}
Previous(m) == m.seq = (total % seqmod) - 1

\* Mutant: every packet is taken for the next one.
InSequenceAny(m) == TRUE
InSequence(m) == m.seq = total % seqmod

\* The previous packet once more.
RecvPrevious ==
    /\ Received(Packets) /\ Previous(Head(fwd)) /\ ~InSequence(Head(fwd))
    /\ Answer(<<"ACK">>, TRUE)
    /\ UNCHANGED <<rpc, total, started, retries, store>>

\* Any other packet that is not the next one is answered with 'C'.
RecvWrong ==
    /\ Received(Packets) /\ ~Previous(Head(fwd)) /\ ~InSequence(Head(fwd))
    /\ Answer(<<"C">>, FALSE)
    /\ UNCHANGED <<rpc, total, started, retries, store>>

\* The empty name that ends the session, or data that begin with a zero.
RecvLast ==
    /\ Received({"empty", "data"}) /\ InSequence(Head(fwd)) /\ total = 0
    /\ rpc' = "ok" /\ Answer(<<"ACK">>, FALSE)
    /\ UNCHANGED <<total, started, retries, store>>

\* The name of a file, or data taken for it: the previous one is flushed and
\* closed.
RecvName ==
    /\ Received({"name", "data"}) /\ InSequence(Head(fwd)) /\ total = 0
    /\ \/ /\ disk' = Flushed /\ circ' = << >>
          /\ file' = (IF Head(fwd).kind = "name" THEN Head(fwd).file ELSE 0) /\ saved' = 0
          /\ total' = 1 /\ started' = TRUE
          /\ Answer(<<"ACK", "C">>, FALSE)
          /\ UNCHANGED <<rpc, retries, writer>>
       \/ HandlerFails

\* A data packet.
RecvData ==
    LET m == Head(fwd) IN
    /\ Received(Packets) /\ InSequence(m) /\ total > 0
    /\ \/ /\ WriteData([i \in 1 .. SizeOf(m) |-> <<m.file, m.at + i>>])
          /\ saved' = saved + SizeOf(m)
          /\ total' = total + 1 /\ retries' = 0
          /\ Answer(<<"ACK">>, total' % seqmod # 0)
          /\ UNCHANGED <<rpc, started, file, writer>>
       \/ HandlerFails

\* A flush of the writer thread, which ends at an error.
Flush ==
    /\ writer = "up"
    /\ \/ disk' = Flushed /\ circ' = << >> /\ UNCHANGED <<writer, spoiled>>
       \/ circ # << >> /\ writer' = "dead" /\ UNCHANGED <<disk, circ>> /\ spoiled' = TRUE
    /\ UNCHANGED <<total, started, retries, file, saved, fwd, back, faults>>

\* async_write
AsyncWrite ==
    /\ rpc \in {"run", "ok", "fail"} /\ Len(circ) > Threshold /\ Flush /\ UNCHANGED rpc

\* async_uninit and the end of main.
Exit ==
    /\ rpc \in {"ok", "fail"} /\ rpc' = IF rpc = "ok" THEN "exit_ok" ELSE "exit_fail"
    /\ \/ Flush
       \/ writer = "dead" /\ UNCHANGED <<total, started, retries, store, line>>

ReceiverLoop ==
    /\ \/ Start \/ RecvEot \/ RecvBad \/ RecvTimeout \/ RecvPrevious \/ RecvWrong
       \/ RecvLast \/ RecvName \/ RecvData
    /\ UNCHANGED <<sender, options>>
ReceiverStep == ReceiverLoop \/ ((AsyncWrite \/ Exit) /\ UNCHANGED <<sender, options>>)

Next == SenderStep \/ ReceiverStep
Spec == Init /\ [][Next]_vars

\* Both programs run, and the receiver's read has a timeout.
FairSpec == Spec /\ WF_vars(SenderStep) /\ WF_vars(ReceiverLoop) /\ WF_vars(ReceiverStep)

-----------------------------------------------------------------------------
(* Properties                                                                *)

TypeOK ==
    /\ spc \in {"hello", "name", "nameC", "data", "eot", "eotC", "last", "ok", "fail"}
    /\ packet.kind \in Packets /\ packet.seq \in 0 .. seqmod - 1
    /\ packet.file \in 0 .. Len(Lengths) + 1
    /\ tries \in 0 .. RETRY /\ retries \in 0 .. RETRY
    /\ rpc \in {"start", "run", "ok", "fail", "exit_ok", "exit_fail"}
    /\ file \in 0 .. Len(Lengths) /\ Len(circ) <= buffersize
    /\ saved >= Len(circ) /\ (file # 0 => saved <= Lengths[file])
    /\ faults \in 0 .. MaxFaults

\* Unit u of file f as it is, or will be, on disk.
Stored(f, u) ==
    IF f = file /\ u > saved - Len(circ) /\ u <= saved
    THEN circ[u - (saved - Len(circ))] ELSE disk[f][u]

\* What rb has written of the file in hand is the beginning of that file:
\* no packet is written twice, left out or out of place, whatever the line
\* does, and wherever the packet numbers wrap; and a timeout that is too short
\* does not change that, as long as the line is good.  (With both, answers to
\* repeated packets can lead sb past packets that were lost, up to the data of
\* another file.)
InOrder ==
    (hasty => faults = 0) /\ file # 0 => \A u \in 1 .. saved : Stored(file, u) = <<file, u>>

\* The units of file f that sb knows to have arrived.
AckedUnits(f) ==
    IF f < packet.file \/ (f = packet.file /\ spc \in {"eot", "eotC"}) THEN Lengths[f]
    ELSE IF f = packet.file THEN packet.at ELSE 0

\* What was acknowledged is stored.  In particular a session that sb ends with
\* success has left complete files at rb: although rb takes an EOT for the end
\* of a file without looking at its length, it never comes too early.  It needs
\* a timeout that is not too short, and the writer thread to work.
Acked ==
    ~hasty /\ writer = "up" =>
        \A f \in Files : \A u \in 1 .. AckedUnits(f) : Stored(f, u) = <<f, u>>

\* rb ends: it does not wait for ever, nor ask for ever, for a sender that has
\* gone or a line that stays bad.
ReceiverEnds == <>(rpc \in {"exit_ok", "exit_fail"})

\* A session in which only packets are damaged or lost, and single ACKs and
\* NAKs are lost, RETRY times at most, is repaired and completed; rb cancels at
\* one error more between two data packets.  Not so if the fault hits the
\* first packet, the answer to a name or to an EOT, or the ACK of a packet whose
\* successor has number 0.
Repaired ==
    [](~spoiled /\ faults <= RETRY) => <>(spc = "ok" /\ rpc = "exit_ok")
=============================================================================
