------------------------------- MODULE Modbus -------------------------------
(* modbus: a slave on a serial line, in RTU or in ASCII mode: mb.c with      *)
(* rtu/mbrtu.c or ascii/mbascii.c on top of nuttx/portevent.c, portserial.c  *)
(* and porttimer.c.  One thread calls the API; the master sends when it      *)
(* likes.                                                                    *)
(*                                                                           *)
(* Byte k of the n bytes of the i-th frame is <<i, k, n>>, and <<-i, k, n>>  *)
(* in the reply to it; its two characters in ASCII mode are numbered 2k - 1  *)
(* and 2k of 2n.  A checksum fits a whole frame and nothing else.            *)
(*                                                                           *)
(* A "polite" environment damages nothing, keeps the characters of a frame   *)
(* together, sends when the slave is waiting, and leaves it enabled.  Any    *)
(* other one does what it likes.  Assertions are compiled out.               *)
EXTENDS Integers, Sequences

CONSTANTS
    Modes,          \* of "RTU" and "ASCII"
    FrameKinds,     \* the frames a master may send: [to, fn, size]
    SizeMin,        \* MB_SER_PDU_SIZE_MIN
    SizeMax,        \* MB_SER_PDU_SIZE_MAX
    BuiltIn,        \* the entries xFuncHandlers has at the start: [code, h]
    Registrations,  \* what may be given to eMBRegisterCB: <<code, handler or None>>
    Codes,          \* function codes
    HandlersMax,    \* CONFIG_MB_FUNC_HANDLERS_MAX
    MaxFrames,      \* bound on the frames of the master
    MaxFaults,      \* bound on lost and garbled characters and failed calls
    MaxCalls        \* bound on calls of the API other than eMBEnable and eMBPoll

Own == "own"            \* ucMBAddress
Other == "other"
Broadcast == "all"      \* MB_ADDRESS_BROADCAST
None == "none"

ASSUME ModbusAssumption ==
    /\ Modes \subseteq {"RTU", "ASCII"}
    /\ FrameKinds \subseteq [to : {Own, Other, Broadcast}, fn : Codes, size : Nat \ {0}]
    /\ SizeMin \in Nat \ {0} /\ SizeMax \in Nat /\ SizeMin <= SizeMax
    /\ Codes \subseteq 1 .. 127 /\ \A r \in Registrations : r[1] \in Codes
    /\ \A i \in DOMAIN BuiltIn : BuiltIn[i] \in [code : Codes, h : {BuiltIn[i].h} \ {None}]
    /\ \E n \in 0 .. HandlersMax : DOMAIN BuiltIn = 1 .. n
    /\ HandlersMax \in Nat /\ MaxFrames \in Nat /\ MaxFaults \in Nat /\ MaxCalls \in Nat

VARIABLES
  (* options *)
    mode, polite,
  (* mb.c *)
    eMBState,       \* STATE_ENABLED, STATE_DISABLED or STATE_NOT_INITIALIZED
    handlers,       \* xFuncHandlers
    addr, len,      \* ucRcvAddress and usLength, as the size of the whole frame
  (* port *)
    pc,             \* in eMBPoll: "rx" and "timer", the rest of xMBPortEventGet
    queued,         \* eQueuedEvent, or None
    open,           \* iSerialFd is open
    rx, tx,         \* bRxEnabled, bTxEnabled
    timer,          \* bTimeoutEnable
  (* mbrtu.c or mbascii.c *)
    rcv,            \* eRcvState
    snd,            \* eSndState; "XMIT" is every state but STATE_TX_IDLE
    buf, pos,       \* ucRTUBuf, usRcvBufferPos
    low,            \* eBytePos is BYTE_LOW_NIBBLE
    count,          \* usSndBufferCount
  (* master and line *)
    frames,         \* history: the frames sent
    out, line,      \* characters of the last frame still to come; input of the driver
    faults, calls,  \* used up of MaxFaults and MaxCalls
  (* history *)
    log,            \* frames executed and replies written
    removed,        \* a handler has been removed
    cut,            \* eMBDisable has cut a transmission
    late,           \* a timer has not expired after silence
    stray           \* a character other than LF and ':' has followed CR

options == <<mode, polite>>
upper   == <<eMBState, handlers, addr, len, removed>>
serial  == <<open, rx, tx>>
clock   == <<timer, late>>
receiver == <<rcv, buf, pos, low, stray>>
transmitter == <<snd, count, cut>>
master  == <<frames, out>>
vars == <<options, upper, pc, queued, serial, clock, receiver, transmitter,
          master, line, faults, calls, log>>

Junk == <<0, 0, 0>>
Colon == <<0, 1, 0>>
CR == <<0, 2, 0>>
LF == <<0, 3, 0>>
Free == [code |-> 0, h |-> None]

Init ==
    /\ mode \in Modes /\ polite \in BOOLEAN
    /\ eMBState = "NOT_INITIALIZED" /\ addr = None /\ len = 0
    /\ handlers = [i \in 1 .. HandlersMax |-> IF i \in DOMAIN BuiltIn THEN BuiltIn[i] ELSE Free]
    /\ pc = "user" /\ queued = None
    /\ open = FALSE /\ rx = FALSE /\ tx = FALSE /\ timer = FALSE
    /\ rcv = (IF mode = "RTU" THEN "INIT" ELSE "IDLE") /\ snd = "IDLE"
    /\ buf = [k \in 1 .. SizeMax |-> Junk] /\ pos = 0 /\ low = FALSE /\ count = 0
    /\ frames = << >> /\ out = << >> /\ line = << >> /\ faults = 0 /\ calls = 0
    /\ log = << >> /\ late = FALSE /\ removed = FALSE /\ cut = FALSE /\ stray = FALSE

-----------------------------------------------------------------------------
(* Frames                                                                    *)

\* Mutant: the shortest frame is refused.
WholeLong(bytes) ==
    /\ Len(bytes) > SizeMin /\ bytes[1][1] # 0
    /\ \A k \in DOMAIN bytes : bytes[k] = <<bytes[1][1], k, Len(bytes)>>

\* Length and checksum are right.
Whole(bytes) ==
    /\ Len(bytes) >= SizeMin /\ bytes[1][1] # 0
    /\ \A k \in DOMAIN bytes : bytes[k] = <<bytes[1][1], k, Len(bytes)>>

\* A reply begins with the address of the slave, and has the function code of
\* the request.
To(byte) == IF byte[1] < 0 THEN Own ELSE frames[byte[1]].to
Fn(byte) == frames[IF byte[1] < 0 THEN -byte[1] ELSE byte[1]].fn

Characters(i, n) ==
    IF mode = "RTU" THEN [k \in 1 .. n |-> <<i, k, n>>]
    ELSE <<Colon>> \o [k \in 1 .. 2 * n |-> <<i, k, 2 * n>>] \o <<CR, LF>>

\* What two characters, high nibble first, stand for.
Byte(hi, lo) ==
    IF hi[1] = lo[1] /\ hi[3] = lo[3] /\ hi[2] % 2 = 1 /\ lo[2] = hi[2] + 1
    THEN <<hi[1], lo[2] \div 2, hi[3] \div 2>> ELSE Junk

-----------------------------------------------------------------------------
(* The application                                                           *)

Call == pc = "user" /\ calls < MaxCalls /\ calls' = calls + 1
Idle == UNCHANGED <<options, pc, receiver, snd, count, master, log, faults>>

\* The port is opened and the event queue emptied.
eMBInit ==
    /\ pc = "user" /\ eMBState # "ENABLED" /\ ~open
    /\ eMBState' = "DISABLED" /\ open' = TRUE /\ queued' = None
    /\ rx' = FALSE /\ tx' = FALSE
    /\ UNCHANGED <<handlers, addr, len, removed, clock, line, cut, calls>> /\ Idle

\* An RTU slave waits for silence first.
eMBRTUStart == mode = "RTU" /\ rcv' = "INIT" /\ timer' = TRUE /\ UNCHANGED queued
eMBASCIIStart == mode = "ASCII" /\ rcv' = "IDLE" /\ queued' = "READY" /\ UNCHANGED timer

\* What the driver has received is flushed.
eMBEnable ==
    /\ pc = "user" /\ eMBState = "DISABLED" /\ eMBState' = "ENABLED"
    /\ rx' = TRUE /\ tx' = FALSE /\ line' = << >>
    /\ eMBRTUStart \/ eMBASCIIStart
    /\ UNCHANGED <<options, pc, handlers, addr, len, removed, late, open, buf, pos, low, stray,
                   transmitter, master, log, faults, calls>>

\* eMBRTUStop and eMBASCIIStop
eMBDisable ==
    /\ Call /\ ~polite /\ eMBState = "ENABLED" /\ eMBState' = "DISABLED"
    /\ rx' = FALSE /\ tx' = FALSE /\ timer' = FALSE
    /\ cut' = (cut \/ tx)
    /\ UNCHANGED <<handlers, addr, len, removed, queued, late, open, line>> /\ Idle

\* The state remains STATE_DISABLED.
eMBClose ==
    /\ Call /\ ~polite /\ eMBState = "DISABLED" /\ open /\ open' = FALSE
    /\ UNCHANGED <<upper, queued, rx, tx, clock, line, cut>> /\ Idle

First(P) == {i \in DOMAIN P : P[i] /\ \A j \in 1 .. i - 1 : ~P[j]}

eMBRegisterCB(c, h) ==
    LET fits == [i \in 1 .. HandlersMax |->
                    IF h = None THEN handlers[i].code = c ELSE handlers[i].h \in {None, h}]
    IN
    /\ Call /\ polite    \* a bound: disturbances do not matter to the table
    /\ handlers' = [i \in 1 .. HandlersMax |->
                       IF i \notin First(fits) THEN handlers[i]
                       ELSE IF h = None THEN Free ELSE [code |-> c, h |-> h]]
    /\ removed' = (removed \/ h = None)
    /\ UNCHANGED <<eMBState, addr, len, queued, serial, clock, line, cut>> /\ Idle

Application ==
    \/ eMBInit \/ eMBEnable \/ eMBDisable \/ eMBClose
    \/ \E r \in Registrations : eMBRegisterCB(r[1], r[2])

-----------------------------------------------------------------------------
(* eMBPoll with an event in the queue                                        *)

Event(e) == pc = "user" /\ eMBState = "ENABLED" /\ queued = e
Received == SubSeq(buf, 1, pos)

\* EV_READY and EV_FRAME_SENT
NothingToDo ==
    /\ \/ Event("READY") \/ Event("FRAME_SENT")
    /\ queued' = None
    /\ UNCHANGED <<options, upper, pc, serial, clock, receiver, transmitter, master, line, faults,
                   calls, log>>

\* EV_FRAME_RECEIVED: length, checksum and address are checked.
FrameReceived ==
    /\ Event("FRAME_RECEIVED")
    /\ \/ /\ Whole(Received)
          /\ addr' = To(buf[1]) /\ len' = pos
          /\ queued' = IF addr' \in {Own, Broadcast} THEN "EXECUTE" ELSE None
       \/ ~Whole(Received) /\ queued' = None /\ UNCHANGED <<addr, len>>
    /\ UNCHANGED <<options, eMBState, handlers, removed, pc, serial, clock, receiver, transmitter,
                   master, line, faults, calls, log>>

\* The handler found for code c: the search ends at the first free entry.
Lookup(c) ==
    LET at == First([i \in 1 .. HandlersMax |-> handlers[i].code \in {0, c}])
    IN  IF \E i \in at : handlers[i].code = c
        THEN handlers[CHOOSE i \in at : TRUE].h ELSE None

\* The buffer with the reply to the frame in it, of n bytes.
Reply(n) == [k \in 1 .. SizeMax |-> IF k <= n THEN <<-buf[1][1], k, n>> ELSE buf[k]]

\* Mutants: broadcasts are answered; the receiver is not looked at.
MustReplyAll == rcv = "IDLE"
MustReplyNow == addr # Broadcast

MustReply == addr # Broadcast /\ rcv = "IDLE"

\* EV_EXECUTE: the handler turns the request into the reply, in place.  It is
\* sent, with address and checksum, unless the request was a broadcast or the
\* receiver is not idle.  Some replies repeat the request.
Execute ==
    /\ Event("EXECUTE") /\ queued' = None
    /\ log' = Append(log, [what |-> "exec", bytes |-> SubSeq(buf, 1, len), to |-> addr,
                           by |-> Lookup(Fn(buf[1])),
                           due |-> ~removed /\ \E i \in DOMAIN handlers : handlers[i].code = Fn(buf[1])])
    /\ \E n \in SizeMin .. SizeMax :
         /\ Lookup(Fn(buf[1])) = None => n = SizeMin
         /\ \/ /\ MustReply
               /\ buf' = Reply(n) /\ count' = n /\ snd' = "XMIT" /\ rx' = FALSE /\ tx' = TRUE
            \/ /\ ~MustReply
               /\ buf' \in {buf, [Reply(n) EXCEPT ![1] = buf[1]]} /\ UNCHANGED <<count, snd, rx, tx>>
    /\ UNCHANGED <<options, upper, pc, open, clock, rcv, pos, low, stray, cut, master, line, faults,
                   calls>>

-----------------------------------------------------------------------------
(* eMBPoll without one: xMBPortSerialPoll, then vMBPortTimerPoll             *)

\* Mutant: the line is read although an event is waiting.
NoEventAny == pc = "user" /\ eMBState = "ENABLED"
NoEvent == pc = "user" /\ eMBState = "ENABLED" /\ queued = None

\* The receiver is enabled: characters are read until none comes for 50 ms.
Listen ==
    /\ NoEvent /\ rx /\ pc' = "rx"
    /\ UNCHANGED <<options, upper, queued, serial, clock, receiver, transmitter, master, line,
                   faults, calls, log>>

\* Mutant: off by one.
RoomOne == pos <= SizeMax
Room == pos < SizeMax

\* xMBRTUReceiveFSM
RTUReceiveFSM(c) ==
    /\ timer' = TRUE
    /\ \/ rcv \in {"INIT", "ERROR"} /\ UNCHANGED <<rcv, buf, pos>>
       \/ rcv = "IDLE" /\ rcv' = "RCV" /\ buf' = [buf EXCEPT ![1] = c] /\ pos' = 1
       \/ /\ rcv = "RCV" /\ Room /\ buf' = [buf EXCEPT ![pos + 1] = c] /\ pos' = pos + 1
          /\ UNCHANGED rcv
       \/ rcv = "RCV" /\ ~Room /\ rcv' = "ERROR" /\ UNCHANGED <<buf, pos>>
    /\ UNCHANGED <<low, stray, queued>>

\* ':' in any state: a new frame.
ASCIIColon ==
    /\ rcv' = "RCV" /\ pos' = 0 /\ low' = FALSE /\ timer' = TRUE /\ stray' = FALSE
    /\ UNCHANGED <<buf, queued>>

\* A digit.  If the buffer is full, the frame is given up.
ASCIIDigit(c) ==
    \/ /\ ~low /\ Room /\ buf' = [buf EXCEPT ![pos + 1] = c] /\ low' = TRUE
       /\ timer' = TRUE /\ UNCHANGED <<rcv, pos>>
    \/ /\ ~low /\ ~Room /\ rcv' = "IDLE" /\ timer' = FALSE /\ UNCHANGED <<buf, pos, low>>
    \/ /\ low /\ buf' = [buf EXCEPT ![pos + 1] = Byte(@, c)] /\ pos' = pos + 1 /\ low' = FALSE
       /\ timer' = TRUE /\ UNCHANGED rcv

\* xMBASCIIReceiveFSM
ASCIIReceiveFSM(c) ==
    \/ c = Colon /\ ASCIIColon
    \/ /\ c # Colon /\ rcv = "RCV" /\ UNCHANGED <<queued, stray>>
       /\ \/ c = CR /\ rcv' = "WAIT_EOF" /\ timer' = TRUE /\ UNCHANGED <<buf, pos, low>>
          \/ c # CR /\ ASCIIDigit(c)
    \/ /\ c # Colon /\ rcv = "WAIT_EOF" /\ rcv' = "IDLE" /\ UNCHANGED <<buf, pos, low>>
       /\ \/ c = LF /\ timer' = FALSE /\ queued' = "FRAME_RECEIVED" /\ UNCHANGED stray
          \/ c # LF /\ stray' = TRUE /\ UNCHANGED <<timer, queued>>
    \/ c # Colon /\ rcv = "IDLE" /\ UNCHANGED <<rcv, buf, pos, low, stray, timer, queued>>

\* A character is received.
Read ==
    /\ pc = "rx" /\ open /\ line # << >> /\ line' = Tail(line)
    /\ \/ mode = "RTU" /\ RTUReceiveFSM(Head(line))
       \/ mode = "ASCII" /\ ASCIIReceiveFSM(Head(line))
    /\ UNCHANGED <<options, upper, pc, late, serial, transmitter, master, faults, calls, log>>

\* Silence.
Quiet ==
    /\ pc = "rx" /\ open /\ line = << >> /\ (polite => out = << >>) /\ pc' = "timer"
    /\ UNCHANGED <<options, upper, queued, serial, clock, receiver, transmitter, master, line,
                   faults, calls, log>>

\* The port is closed, so that every read fails: the loop does not end.
ReadFails == pc = "rx" /\ ~open /\ UNCHANGED vars

\* prvbMBPortSerialWrite of n bytes.  If it fails, some of them have been written.
SerialWrite(n) ==
    \/ log' = Append(log, [what |-> "reply", bytes |-> SubSeq(buf, 1, n)]) /\ UNCHANGED faults
    \/ /\ ~polite /\ faults < MaxFaults /\ faults' = faults + 1
       /\ \/ UNCHANGED log
          \/ \E k \in 1 .. n - 1 :
                log' = Append(log, [what |-> "part", bytes |-> SubSeq(buf, 1, k)])

\* The transmitter is enabled.  xMBRTUTransmitFSM or xMBASCIITransmitFSM runs
\* until everything is in the port's buffer; the receiver is enabled, with a
\* flush of its input, and the buffer is written.
Transmit ==
    /\ NoEvent /\ tx /\ pc' = "timer"
    /\ queued' = "FRAME_SENT" /\ snd' = "IDLE" /\ count' = 0 /\ cut' = FALSE
    /\ tx' = FALSE /\ rx' = TRUE /\ line' = << >>
    /\ SerialWrite(count)
    /\ UNCHANGED <<options, upper, open, clock, receiver, master, calls>>

\* Mutant: a damaged frame is not left behind.
RTUTimerT35ExpiredStuck ==
    /\ rcv' = IF rcv = "ERROR" THEN rcv ELSE "IDLE"
    /\ queued' = CASE rcv = "INIT" -> "READY" [] rcv = "RCV" -> "FRAME_RECEIVED" [] OTHER -> queued

\* xMBRTUTimerT35Expired
RTUTimerT35Expired ==
    /\ rcv' = "IDLE"
    /\ queued' = CASE rcv = "INIT" -> "READY" [] rcv = "RCV" -> "FRAME_RECEIVED" [] OTHER -> queued

\* Mutant: the receiver goes on with the frame.
ASCIITimerT1SExpiredStays == UNCHANGED <<rcv, queued>>

\* xMBASCIITimerT1SExpired
ASCIITimerT1SExpired == rcv' = "IDLE" /\ UNCHANGED queued

TimerPoll ==
    /\ pc = "timer" /\ pc' = "user"
    /\ \/ /\ timer /\ timer' = FALSE /\ stray' = FALSE
          /\ IF mode = "RTU" THEN RTUTimerT35Expired ELSE ASCIITimerT1SExpired
          /\ UNCHANGED <<faults, late>>
       \/ /\ timer /\ ~polite /\ faults < MaxFaults /\ faults' = faults + 1  \* no time to be had
          /\ late' = TRUE /\ UNCHANGED <<timer, rcv, queued, stray>>
       \/ ~timer /\ UNCHANGED <<clock, rcv, queued, faults, stray>>
    /\ UNCHANGED <<options, upper, serial, buf, pos, low, transmitter, master, line, calls, log>>

Poll ==
    \/ NothingToDo \/ FrameReceived \/ Execute
    \/ Listen \/ Read \/ Quiet \/ ReadFails \/ Transmit \/ TimerPoll

-----------------------------------------------------------------------------
(* The master and the line                                                   *)

Ready == pc = "rx" /\ open /\ rcv = "IDLE" /\ line = << >> /\ queued = None
Slave == UNCHANGED <<options, upper, pc, queued, serial, clock, receiver, transmitter, calls, log>>

Send(f) ==
    /\ out = << >> /\ Len(frames) < MaxFrames /\ (polite => Ready)
    /\ frames' = Append(frames, f) /\ out' = Characters(Len(frames'), f.size)
    /\ UNCHANGED <<line, faults>> /\ Slave

\* A character comes while the slave listens, and is read before the next one,
\* or when the next thing the slave may do to its input is to flush it.  In any
\* other order the slave sees the same.
Coming ==
    /\ out # << >>
    /\ \/ pc = "rx" /\ line = << >>
       \/ pc = "user" /\ (tx \/ eMBState # "ENABLED")

Arrive ==
    /\ Coming /\ line' = Append(line, Head(out)) /\ out' = Tail(out)
    /\ UNCHANGED <<frames, faults>> /\ Slave

\* What noise may make of a character; RTU knows no special ones.
Noise == IF mode = "RTU" THEN {Junk} ELSE {Junk, Colon, CR, LF}

\* A character is lost or garbled, or one that nobody has sent comes before it.
Damage ==
    /\ Coming /\ ~polite /\ faults < MaxFaults /\ faults' = faults + 1
    /\ \/ out' = Tail(out) /\ UNCHANGED line
       \/ /\ out' \in {out, Tail(out)}
          /\ \E c \in Noise : line' = Append(line, c)
    /\ UNCHANGED frames /\ Slave

Master == (\E f \in FrameKinds : Send(f)) \/ Arrive \/ Damage

Next == Application \/ Poll \/ Master
Spec == Init /\ [][Next]_vars

\* The application goes on polling, and a frame once begun arrives.
FairSpec == Spec /\ WF_vars(Poll) /\ WF_vars(Arrive)
-----------------------------------------------------------------------------
(* Properties                                                                *)

TypeOK ==
    /\ eMBState \in {"NOT_INITIALIZED", "DISABLED", "ENABLED"} /\ pc \in {"user", "rx", "timer"}
    /\ queued \in {None, "READY", "FRAME_RECEIVED", "EXECUTE", "FRAME_SENT"}
    /\ rcv \in (IF mode = "RTU" THEN {"INIT", "IDLE", "RCV", "ERROR"} ELSE {"IDLE", "RCV", "WAIT_EOF"})
    /\ DOMAIN buf = 1 .. SizeMax /\ pos \in 0 .. SizeMax /\ len \in 0 .. SizeMax
    /\ low => pos < SizeMax
    /\ snd \in {"IDLE", "XMIT"} /\ count \in 0 .. SizeMax
    /\ addr \in {None, Own, Other, Broadcast}
    /\ DOMAIN handlers = 1 .. HandlersMax

Executed == {j \in DOMAIN log : log[j].what = "exec"}
Frame(j) == log[j].bytes[1][1]

\* What a handler is given is a whole frame as the master has sent it, to this
\* slave or to all, with the address that was checked: nothing that arrives
\* between EV_FRAME_RECEIVED, EV_EXECUTE and the reply gets into the buffer
\* that all of them share.  And there is a handler for it if its function has
\* an entry in the table, as long as no entry was removed: the search ends at
\* the first free one.
Genuine ==
    \A j \in Executed :
        /\ Whole(log[j].bytes) /\ Frame(j) > 0
        /\ frames[Frame(j)].to = log[j].to /\ log[j].to \in {Own, Broadcast}
        /\ log[j].due => log[j].by # None

\* No frame is executed twice, not even across eMBDisable and eMBEnable, which
\* leave the event queue of an RTU slave as it is.  In ASCII mode it takes a
\* timer that has expired after 50 ms of silence, well before the time it is set
\* to: otherwise the event of a frame that was overwritten is spent on the next
\* one, which is executed before its LF, and once more after it.
AtMostOnce ==
    mode = "RTU" \/ ~late => \A i, j \in Executed : Frame(i) = Frame(j) => i = j

\* An entry of the log with a reply, or with the beginning of one.
ReplyOrPart(e) ==
    \/ e.what = "reply" /\ Whole(e.bytes)
    \/ /\ e.what = "part"
       /\ \E n \in 1 .. SizeMax : \A k \in DOMAIN e.bytes : e.bytes[k] = <<e.bytes[1][1], k, n>>

\* Every reply on the line answers the frame that was executed last, once, and
\* that frame was not a broadcast.  It is whole, or, if its write has failed, the
\* beginning of a reply.
ReplyMatches ==
    \A j \in DOMAIN log \ Executed :
        /\ j - 1 \in Executed /\ log[j - 1].to = Own
        /\ ReplyOrPart(log[j]) /\ Frame(j) = -Frame(j - 1)

\* The assertions of the receivers, transmitters and timers: a character
\* comes only when nothing is being sent, the transmitter runs only when the
\* receiver is idle, a timer only when it is not, and never are both enabled.
\* There are two exceptions.  eMBDisable leaves the state of a transmission
\* it cuts, and an ASCII frame whose CR is not followed by LF leaves its timer.
\* Left out is that usRcvBufferPos is below MB_SER_PDU_SIZE_MAX when a frame is
\* checked, which a frame of that size contradicts.
AssertsHold ==
    /\ ~(rx /\ tx)
    /\ rx => snd = "IDLE" \/ cut
    /\ tx => rcv = "IDLE" /\ snd = "XMIT"
    /\ timer => rcv # "IDLE" \/ stray

\* The queue has room for one event.  While the slave is enabled none is
\* overwritten by one of another kind, and in RTU mode none at all: the timer
\* that ends a frame never runs out on an event.  (In ASCII mode two frames
\* may end before eMBPoll looks at the queue; the first one is lost.)
NoEventLost ==
    [][eMBState = "ENABLED" /\ queued # None =>
          /\ queued' \notin {None, queued} => FrameReceived
          /\ TimerPoll /\ timer => mode = "ASCII"]_vars

\* After whatever has happened on the line, the slave listens for a new frame.
Recovers == eMBState = "ENABLED" /\ open ~> Ready \/ eMBState # "ENABLED"

\* A request that reaches a slave at rest is answered.
Asked(i) ==
    /\ i \in DOMAIN frames /\ frames[i].to = Own
    /\ frames[i].size >= SizeMin /\ frames[i].size <= SizeMax
Answered ==
    \A i \in 1 .. MaxFrames :
        polite /\ Asked(i) ~> \E j \in DOMAIN log : log[j].what = "reply" /\ Frame(j) = -i
=============================================================================
