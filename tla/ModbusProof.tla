---------------------------- MODULE ModbusProof -----------------------------
(* Proofs about the Modbus slave, for frames and buffers of every size,      *)
(* every table of handlers, and a master and a line that do what they like.  *)
EXTENDS Modbus, WellFoundedInduction, TLAPS

Char == Int \X Int \X Int
Handlers == {BuiltIn[i].h : i \in DOMAIN BuiltIn} \cup {r[2] : r \in Registrations} \cup {None}
Entry == [code : Codes \cup {0}, h : Handlers]
Record ==
    [what : {"exec"}, bytes : Seq(Char), to : {None, Own, Other, Broadcast}, by : Handlers, due : BOOLEAN]
        \cup [what : {"reply", "part"}, bytes : Seq(Char)]

\* The types that TypeOK does not state.
Data ==
    /\ buf \in [1 .. SizeMax -> Char] /\ out \in Seq(Char) /\ line \in Seq(Char)
    /\ frames \in Seq(FrameKinds) /\ log \in Seq(Record)
    /\ handlers \in [1 .. HandlersMax -> Entry]
Flags ==
    /\ mode \in {"RTU", "ASCII"} /\ polite \in BOOLEAN
    /\ open \in BOOLEAN /\ rx \in BOOLEAN /\ tx \in BOOLEAN /\ timer \in BOOLEAN /\ low \in BOOLEAN
    /\ removed \in BOOLEAN /\ cut \in BOOLEAN /\ late \in BOOLEAN /\ stray \in BOOLEAN
    /\ mode = "RTU" => ~low /\ ~stray
Types == TypeOK /\ Data /\ Flags

\* What is enabled, and what the event in the queue can be, at each place in
\* eMBPoll.
Control ==
    /\ AssertsHold
    /\ eMBState # "ENABLED" => pc = "user" /\ ~rx /\ ~tx /\ ~timer
    /\ pc = "rx" => rx /\ queued \in {None, "FRAME_RECEIVED"}
    /\ pc = "timer" => ~tx /\ queued \in {None, "FRAME_RECEIVED", "FRAME_SENT"}
    /\ pc = "timer" /\ queued = "FRAME_SENT" => rcv = "IDLE"
    /\ tx => queued = None /\ pc = "user"
    /\ snd = "XMIT" => tx \/ cut
    /\ mode = "RTU" /\ queued \in {"FRAME_RECEIVED", "EXECUTE"} => pc = "user" /\ rcv \in {"IDLE", "INIT"}
    /\ mode = "ASCII" /\ ~late /\ rcv # "IDLE" => pc # "user" /\ timer

\* The characters on their way come in the order in which they were sent;
\* number 0 is noise.
Before(c, d) == c[1] = 0 \/ d[1] = 0 \/ c[1] < d[1] \/ (c[1] = d[1] /\ c[2] < d[2])
Ordered(s) == \A a, b \in DOMAIN s : a < b => Before(s[a], s[b])
Crossing(s, t) == \A a \in DOMAIN s, b \in DOMAIN t : Before(s[a], t[b])
Known(s) == \A a \in DOMAIN s : s[a][1] \in 0 .. Len(frames)
Line == Known(line) /\ Known(out) /\ Ordered(line) /\ Ordered(out) /\ Crossing(line, out)

\* What is in the buffer belongs to frames that were sent.
Indices == \A k \in 1 .. SizeMax : buf[k][1] \in -Len(frames) .. Len(frames)

\* A frame that is being received, or waits to be checked, is not a reply.
Receiving == rcv \in {"RCV", "WAIT_EOF"}
FirstByte ==
    (Receiving \/ queued = "FRAME_RECEIVED") /\ (pos > 0 \/ low) => buf[1][1] >= 0

\* What has been checked is still there when it is executed.
Checked ==
    queued = "EXECUTE" =>
        /\ len >= SizeMin /\ buf[1][1] > 0 /\ \A k \in 1 .. len : buf[k] = <<buf[1][1], k, len>>
        /\ frames[buf[1][1]].to = addr /\ addr \in {Own, Broadcast}

\* The table of handlers has no gaps, unless a handler was removed.
Packed ==
    ~removed =>
        /\ \A i \in 1 .. HandlersMax : handlers[i].code = 0 <=> handlers[i].h = None
        /\ \A i, j \in 1 .. HandlersMax : i < j /\ handlers[j].code # 0 => handlers[i].code # 0

\* What was executed was sent, whole, to this slave; and there was a handler
\* if one was due.
Good(e) ==
    /\ Whole(e.bytes) /\ e.bytes[1][1] \in 1 .. Len(frames)
    /\ frames[e.bytes[1][1]].to = e.to /\ e.to \in {Own, Broadcast}
    /\ e.due => e.by # None
Log == \A j \in Executed : Good(log[j])

\* The transmitter sends the reply to the frame executed last.
Sending ==
    tx => LET n == Len(log) IN
          /\ n \in Executed /\ log[n].to = Own
          /\ count >= SizeMin
          /\ \A k \in 1 .. count : buf[k] = <<-Frame(n), k, count>>

\* A frame is executed once.  Its first byte, in ASCII mode the low nibble of
\* it, has to be read for that, and is read once.
Key == IF mode = "RTU" THEN 1 ELSE 2
Past(s, i) == \A a \in DOMAIN s : s[a][1] = i => s[a][2] > Key
Gone(i) == Past(line, i) /\ Past(out, i)
New(i) == Gone(i) /\ \A j \in Executed : Frame(j) # i
Pending ==
    \/ (Receiving \/ queued = "FRAME_RECEIVED") /\ pos > 0
    \/ queued = "EXECUTE"
Once ==
    mode = "RTU" \/ ~late =>
        /\ \A i, j \in Executed : Frame(i) = Frame(j) => i = j
        /\ \A j \in Executed : Gone(Frame(j))
        /\ Pending /\ buf[1][1] > 0 /\ buf[1][2] = 1 => New(buf[1][1])

\* The inductive invariant.
IInv ==
    /\ Types /\ Control /\ Line /\ Indices /\ FirstByte /\ Checked
    /\ Packed /\ Log /\ Sending /\ ReplyMatches /\ Once

-----------------------------------------------------------------------------
(* Types                                                                     *)

LEMMA Sizes ==
    /\ SizeMin \in Nat \ {0} /\ SizeMax \in Nat \ {0} /\ SizeMin <= SizeMax
    /\ HandlersMax \in Nat
BY ModbusAssumption

LEMMA SequenceDomain == ASSUME NEW S, NEW s \in Seq(S) PROVE DOMAIN s = 1 .. Len(s)
OBVIOUS

LEMMA ConcatFacts ==
    ASSUME NEW S, NEW s \in Seq(S), NEW t \in Seq(S)
    PROVE  /\ s \o t \in Seq(S) /\ Len(s \o t) = Len(s) + Len(t)
           /\ \A k \in 1 .. Len(s) + Len(t) :
                 (s \o t)[k] = IF k <= Len(s) THEN s[k] ELSE t[k - Len(s)]
OBVIOUS

LEMMA FirstElements ==
    ASSUME NEW S, NEW s, NEW n \in Nat, \A k \in 1 .. n : s[k] \in S
    PROVE  /\ SubSeq(s, 1, n) \in Seq(S) /\ Len(SubSeq(s, 1, n)) = n
           /\ \A k \in 1 .. n : SubSeq(s, 1, n)[k] = s[k]
OBVIOUS

\* The first n bytes of the buffer, as a sequence.
LEMMA Prefix ==
    ASSUME Data, NEW n \in 0 .. SizeMax
    PROVE  /\ SubSeq(buf, 1, n) \in Seq(Char) /\ Len(SubSeq(buf, 1, n)) = n
           /\ \A k \in 1 .. n : SubSeq(buf, 1, n)[k] = buf[k]
<1>1. n \in Nat /\ \A k \in 1 .. n : buf[k] \in Char
  BY Sizes DEF Data
<1> QED BY <1>1, FirstElements

\* Length and checksum, in terms of the buffer.
LEMMA WholePrefix ==
    ASSUME Data, NEW n \in 0 .. SizeMax
    PROVE  Whole(SubSeq(buf, 1, n)) <=>
               n >= SizeMin /\ buf[1][1] # 0 /\ \A k \in 1 .. n : buf[k] = <<buf[1][1], k, n>>
<1> DEFINE s == SubSeq(buf, 1, n)
<1> SUFFICES Whole(s) <=>
                 n >= SizeMin /\ buf[1][1] # 0 /\ \A k \in 1 .. n : buf[k] = <<buf[1][1], k, n>>
  BY Zenon
<1>1. s \in Seq(Char) /\ Len(s) = n /\ \A k \in 1 .. n : s[k] = buf[k]
  BY Prefix, Zenon
<1>2. DOMAIN s = 1 .. n
  BY <1>1, SequenceDomain, Zenon
<1> HIDE DEF s
<1>3. CASE n = 0
  BY <1>1, <1>3, Sizes DEF Whole
<1>4. CASE n # 0
  <2>1. 1 \in 1 .. n
    BY <1>4
  <2>2. s[1] = buf[1]
    BY <1>1, <2>1, Zenon
  <2> QED BY <1>1, <1>2, <2>2, Zenon DEF Whole
<1> QED BY <1>3, <1>4, Zenon

\* The frame that a byte of the buffer belongs to.
LEMMA KnownByte ==
    ASSUME Data, Indices, buf[1][1] # 0
    PROVE  /\ Fn(buf[1]) \in Codes
           /\ To(buf[1]) \in {Own, Other, Broadcast}
           /\ buf[1][1] > 0 => buf[1][1] \in 1 .. Len(frames) /\ To(buf[1]) = frames[buf[1][1]].to
<1> DEFINE i == buf[1][1]
<1>1. buf[1] \in Char /\ i \in -Len(frames) .. Len(frames) /\ Len(frames) \in Nat
  BY Sizes DEF Data, Indices
<1>2. i \in Int
  BY <1>1, Zenon DEF Char
<1>3. \A j \in 1 .. Len(frames) : frames[j].to \in {Own, Other, Broadcast} /\ frames[j].fn \in Codes
  BY ModbusAssumption DEF Data
<1> HIDE DEF i
<1>4. CASE i > 0
  BY <1>1, <1>2, <1>3, <1>4 DEF To, Fn, i
<1>5. CASE i < 0
  BY <1>1, <1>2, <1>3, <1>5 DEF To, Fn, i
<1> QED BY <1>2, <1>4, <1>5 DEF i

\* What the table holds.
LEMMA LookupType ==
    ASSUME Data, NEW c \in Codes
    PROVE  Lookup(c) \in Handlers
<1> DEFINE at == First([i \in 1 .. HandlersMax |-> handlers[i].code \in {0, c}])
<1>1. at \subseteq 1 .. HandlersMax
  BY Zenon DEF First
<1>2. \A i \in 1 .. HandlersMax : handlers[i].h \in Handlers
  BY Zenon DEF Data, Entry
<1>3. None \in Handlers
  BY Zenon DEF Handlers
<1> DEFINE x == CHOOSE i \in at : TRUE
<1>4. Lookup(c) = IF \E i \in at : handlers[i].code = c THEN handlers[x].h ELSE None
  BY Zenon DEF Lookup
<1> HIDE DEF at
<1>5. (\E i \in at : handlers[i].code = c) => x \in at
  BY Zenon
<1> HIDE DEF x
<1>6. CASE \E i \in at : handlers[i].code = c
  <2>1. x \in 1 .. HandlersMax
    BY <1>1, <1>5, <1>6, Zenon
  <2>2. Lookup(c) = handlers[x].h
    BY <1>4, <1>6, Zenon
  <2> QED BY <1>2, <2>1, <2>2, Zenon
<1>7. CASE ~\E i \in at : handlers[i].code = c
  BY <1>3, <1>4, <1>7, Zenon
<1> QED BY <1>6, <1>7, Zenon

LEMMA JunkChar == Junk \in Char /\ Colon \in Char /\ CR \in Char /\ LF \in Char
BY DEF Junk, Colon, CR, LF, Char

LEMMA NoiseChar ==
    ASSUME NEW c \in Noise
    PROVE  c \in Char /\ c[1] = 0
<1>1. c \in {Junk, Colon, CR, LF}
  BY Zenon DEF Noise
<1> QED BY <1>1 DEF Junk, Colon, CR, LF, Char

LEMMA ByteChar ==
    ASSUME NEW hi \in Char, NEW lo \in Char
    PROVE  Byte(hi, lo) \in Char
BY DEF Byte, Junk, Char

LEMMA StoreType ==
    \A f \in [1 .. SizeMax -> Char], e \in Char, k \in 1 .. SizeMax :
        [f EXCEPT ![k] = e] \in [1 .. SizeMax -> Char]
BY Sizes, Zenon

LEMMA ReplyType ==
    ASSUME Data, NEW n \in SizeMin .. SizeMax
    PROVE  /\ Reply(n) \in [1 .. SizeMax -> Char]
           /\ [Reply(n) EXCEPT ![1] = buf[1]] \in [1 .. SizeMax -> Char]
<1>1. buf[1] \in Char /\ n \in Int
  BY Sizes DEF Data
<1>2. \A k \in 1 .. SizeMax : <<-buf[1][1], k, n>> \in Char
  BY <1>1, Sizes DEF Char
<1>3. Reply(n) \in [1 .. SizeMax -> Char]
  BY <1>1, <1>2, Zenon DEF Reply, Data
<1>4. 1 \in 1 .. SizeMax
  BY Sizes
<1> QED BY <1>1, <1>3, <1>4, StoreType, Zenon

\* A frame on its way is a sequence of characters.
LEMMA CharactersType ==
    ASSUME NEW i \in Int, NEW n \in Nat
    PROVE  /\ Characters(i, n) \in Seq(Char)
           /\ mode = "RTU" => /\ Len(Characters(i, n)) = n
                              /\ \A k \in 1 .. n : Characters(i, n)[k] = <<i, k, n>>
           /\ mode # "RTU" =>
                 /\ Len(Characters(i, n)) = 2 * n + 3
                 /\ Characters(i, n)[1] = Colon
                 /\ \A k \in 1 .. 2 * n : Characters(i, n)[k + 1] = <<i, k, 2 * n>>
                 /\ Characters(i, n)[2 * n + 2] = CR /\ Characters(i, n)[2 * n + 3] = LF
<1>1. CASE mode = "RTU"
  <2>1. [k \in 1 .. n |-> <<i, k, n>>] \in Seq(Char)
    BY DEF Char
  <2> QED BY <1>1, <2>1 DEF Characters
<1>2. CASE mode # "RTU"
  <2> DEFINE m == 2 * n
             s == [k \in 1 .. m |-> <<i, k, m>>]
  <2>1. m \in Nat /\ Characters(i, n) = <<Colon>> \o s \o <<CR, LF>>
    BY <1>2 DEF Characters
  <2> HIDE DEF m
  <2>2. s \in Seq(Char) /\ Len(s) = m /\ \A k \in 1 .. m : s[k] = <<i, k, m>>
    BY <2>1 DEF Char
  <2> HIDE DEF s
  <2>3. <<Colon>> \in Seq(Char) /\ Len(<<Colon>>) = 1 /\ <<CR, LF>> \in Seq(Char) /\ Len(<<CR, LF>>) = 2
    BY JunkChar
  <2>4. /\ <<Colon>> \o s \in Seq(Char) /\ Len(<<Colon>> \o s) = m + 1
        /\ \A k \in 1 .. m + 1 :
              (<<Colon>> \o s)[k] = IF k <= 1 THEN <<Colon>>[k] ELSE s[k - 1]
    BY <2>1, <2>2, <2>3, ConcatFacts
  <2> DEFINE t == <<Colon>> \o s
  <2> HIDE DEF t
  <2>5. /\ t \o <<CR, LF>> \in Seq(Char) /\ Len(t \o <<CR, LF>>) = m + 3
        /\ \A k \in 1 .. m + 3 :
              (t \o <<CR, LF>>)[k] = IF k <= m + 1 THEN t[k] ELSE <<CR, LF>>[k - (m + 1)]
    BY <2>1, <2>3, <2>4, ConcatFacts DEF t
  <2> DEFINE u == t \o <<CR, LF>>
  <2> HIDE DEF u
  <2>6. u[1] = Colon /\ u[m + 2] = CR /\ u[m + 3] = LF
    <3> DEFINE e == <<CR, LF>>
    <3>1. /\ \A k \in 1 .. m + 3 : u[k] = IF k <= m + 1 THEN t[k] ELSE e[k - (m + 1)]
          /\ e[1] = CR /\ e[2] = LF
      BY <2>5, Zenon DEF u
    <3> HIDE DEF e
    <3>3. u[1] = t[1] /\ u[m + 2] = e[1] /\ u[m + 3] = e[2]
      BY <2>1, <3>1
    <3>2. t[1] = <<Colon>>[1]
      BY <2>1, <2>4 DEF t
    <3> QED BY <3>1, <3>2, <3>3, Zenon
  <2>7. \A k \in 1 .. m : u[k + 1] = <<i, k, m>>
    <3> TAKE k \in 1 .. m
    <3>1. u[k + 1] = t[k + 1]
      BY <2>1, <2>5 DEF u
    <3>2. t[k + 1] = s[k]
      BY <2>1, <2>4 DEF t
    <3> QED BY <2>2, <3>1, <3>2, Zenon
  <2>8. u \in Seq(Char) /\ Len(u) = m + 3 /\ Characters(i, n) = u
    BY <2>1, <2>5, Zenon DEF t, u
  <2>9. m = 2 * n
    BY Zenon DEF m
  <2> QED BY <1>2, <2>6, <2>7, <2>8, <2>9, Zenon
<1> QED BY <1>1, <1>2, Zenon

\* What Transmit adds to the log: the reply, or a beginning of it.
Reported(e, k) ==
    /\ e.bytes = SubSeq(buf, 1, k)
    /\ (e.what = "reply" /\ k = count) \/ (e.what = "part" /\ k \in 1 .. count - 1)

LEMMA TransmitLog ==
    ASSUME Data, TypeOK, Transmit
    PROVE  \/ log' = log
           \/ \E e \in Record, k \in 0 .. SizeMax : log' = Append(log, e) /\ Reported(e, k)
<1>1. count \in 0 .. SizeMax /\ \A k \in 1 .. count - 1 : k \in 0 .. SizeMax
  BY Sizes DEF TypeOK
<1>2. ASSUME NEW k \in 0 .. SizeMax, NEW w \in {"reply", "part"},
             log' = Append(log, [what |-> w, bytes |-> SubSeq(buf, 1, k)]),
             (w = "reply" /\ k = count) \/ (w = "part" /\ k \in 1 .. count - 1)
      PROVE  \E e \in Record, n \in 0 .. SizeMax : log' = Append(log, e) /\ Reported(e, n)
  <2>1. PICK e : e = [what |-> w, bytes |-> SubSeq(buf, 1, k)]
    BY Zenon
  <2>2. e \in Record /\ e.what = w /\ e.bytes = SubSeq(buf, 1, k)
    BY <2>1, Prefix, Zenon DEF Record
  <2>3. Reported(e, k)
    BY <1>2, <2>2, Zenon DEF Reported
  <2> QED BY <1>2, <2>1, <2>2, <2>3, Zenon
<1>3. \/ log' = log
      \/ log' = Append(log, [what |-> "reply", bytes |-> SubSeq(buf, 1, count)])
      \/ \E k \in 1 .. count - 1 : log' = Append(log, [what |-> "part", bytes |-> SubSeq(buf, 1, k)])
  BY Zenon DEF Transmit, SerialWrite
<1> QED BY <1>1, <1>2, <1>3, Zenon

\* What Execute adds to the log.
LEMMA ExecuteLog ==
    ASSUME IInv, Execute
    PROVE  \E e \in Record :
              /\ log' = Append(log, e) /\ e.what = "exec" /\ e.bytes = SubSeq(buf, 1, len) /\ e.to = addr
              /\ e.by = Lookup(Fn(buf[1]))
              /\ e.due => ~removed /\ \E i \in DOMAIN handlers : handlers[i].code = Fn(buf[1])
<1>1. /\ Data /\ Indices /\ Checked /\ queued = "EXECUTE"
      /\ len \in 0 .. SizeMax /\ addr \in {None, Own, Other, Broadcast}
  BY Zenon DEF IInv, Types, TypeOK, Execute, Event
<1>2. SubSeq(buf, 1, len) \in Seq(Char)
  BY <1>1, Prefix, Zenon
<1>3. buf[1][1] # 0
  BY <1>1, Sizes DEF Checked, Data, Char
<1>4. Lookup(Fn(buf[1])) \in Handlers
  BY <1>1, <1>3, KnownByte, LookupType, Zenon
<1> DEFINE due == ~removed /\ \E i \in DOMAIN handlers : handlers[i].code = Fn(buf[1])
           e == [what |-> "exec", bytes |-> SubSeq(buf, 1, len), to |-> addr,
                 by |-> Lookup(Fn(buf[1])), due |-> due]
<1>5. log' = Append(log, e)
  BY Zenon DEF Execute
<1>6. due \in BOOLEAN
  BY Zenon
<1>7. due => ~removed /\ \E i \in DOMAIN handlers : handlers[i].code = Fn(buf[1])
  BY Zenon
<1> HIDE DEF due
<1>8. e \in Record
  BY <1>1, <1>2, <1>4, <1>6, Zenon DEF Record
<1>9. /\ e.what = "exec" /\ e.bytes = SubSeq(buf, 1, len) /\ e.to = addr
      /\ e.by = Lookup(Fn(buf[1])) /\ e.due = due
  BY Zenon
<1> HIDE DEF e
<1> QED BY <1>5, <1>7, <1>8, <1>9, Zenon

LEMMA DataStep ==
    ASSUME IInv, [Next]_vars
    PROVE  Data'
<1> USE DEF options, upper, serial, clock, receiver, transmitter, master, Idle, Slave
<1>1. Data /\ TypeOK /\ Indices /\ Checked
  BY Zenon DEF IInv, Types
<1>2. CASE UNCHANGED <<buf, out, line, frames, log, handlers>>
  BY <1>1, <1>2, Zenon DEF Data
<1>3. CASE eMBEnable
  <2>1. line' = << >> /\ UNCHANGED <<buf, out, frames, log, handlers>>
    BY <1>3, Zenon DEF eMBEnable
  <2> QED BY <1>1, <2>1 DEF Data
<1>4. ASSUME NEW r \in Registrations, eMBRegisterCB(r[1], r[2])
      PROVE  Data'
  <2>1. r[1] \in Codes /\ r[2] \in Handlers /\ Free \in Entry
    BY ModbusAssumption, Zenon DEF Handlers, Free, Entry
  <2>2. [code |-> r[1], h |-> r[2]] \in Entry
    BY <2>1, Zenon DEF Entry
  <2>3. UNCHANGED <<buf, out, line, frames, log>>
    BY <1>4, Zenon DEF eMBRegisterCB
  <2>4. handlers' \in [1 .. HandlersMax -> Entry]
    BY <1>1, <1>4, <2>1, <2>2, Sizes, Zenon DEF eMBRegisterCB, Data
  <2> QED BY <1>1, <2>3, <2>4, Zenon DEF Data
<1>5. CASE Execute
  <2>1. UNCHANGED <<out, line, frames, handlers>>
    BY <1>5, Zenon DEF Execute
  <2>2. \E n \in SizeMin .. SizeMax : buf' \in {buf, Reply(n), [Reply(n) EXCEPT ![1] = buf[1]]}
    BY <1>5, Zenon DEF Execute
  <2>3. buf' \in [1 .. SizeMax -> Char]
    <3>1. buf \in [1 .. SizeMax -> Char]
      BY <1>1, Zenon DEF Data
    <3> QED BY <1>1, <2>2, <3>1, ReplyType, Zenon
  <2>4. log' \in Seq(Record)
    <3>1. \E e \in Record : log' = Append(log, e)
      BY <1>5, ExecuteLog, Zenon
    <3> QED BY <1>1, <3>1 DEF Data
  <2> QED BY <1>1, <2>1, <2>3, <2>4, Zenon DEF Data
<1>6. CASE Read
  <2>1. line # << >> /\ line' = Tail(line) /\ UNCHANGED <<out, frames, log, handlers>>
    BY <1>6, Zenon DEF Read
  <2>2. Head(line) \in Char /\ line' \in Seq(Char)
    BY <1>1, <2>1 DEF Data
  <2>3. pos \in Nat /\ (low \/ pos < SizeMax => pos + 1 \in 1 .. SizeMax)
    BY <1>1, Sizes DEF TypeOK
  <2>4. \/ buf' = buf \/ buf' = [buf EXCEPT ![1] = Head(line)]
        \/ pos < SizeMax /\ buf' = [buf EXCEPT ![pos + 1] = Head(line)]
        \/ low /\ buf' = [buf EXCEPT ![pos + 1] = Byte(@, Head(line))]
    BY <1>6, Zenon DEF Read, RTUReceiveFSM, ASCIIReceiveFSM, ASCIIColon, ASCIIDigit, Room
  <2>5. low => Byte(buf[pos + 1], Head(line)) \in Char
    <3>1. low => buf[pos + 1] \in Char
      BY <1>1, <2>3, Zenon DEF Data
    <3> QED BY <2>2, <3>1, ByteChar, Zenon
  <2>6. buf' \in [1 .. SizeMax -> Char]
    <3>1. buf \in [1 .. SizeMax -> Char] /\ 1 \in 1 .. SizeMax
      BY <1>1, Sizes DEF Data
    <3> QED BY <2>2, <2>3, <2>4, <2>5, <3>1, StoreType, Zenon
  <2> QED BY <1>1, <2>1, <2>2, <2>6, Zenon DEF Data
<1>7. CASE Transmit
  <2>1. line' = << >> /\ UNCHANGED <<buf, out, frames, handlers>>
    BY <1>7, Zenon DEF Transmit, upper, master
  <2>2. log' = log \/ \E e \in Record : log' = Append(log, e)
    BY <1>1, <1>7, TransmitLog, Zenon
  <2>3. log \in Seq(Record) /\ \A e \in Record : Append(log, e) \in Seq(Record)
    BY <1>1 DEF Data
  <2>5. log' \in Seq(Record)
    BY <2>2, <2>3, Zenon
  <2> QED BY <1>1, <2>1, <2>5 DEF Data
<1>8. ASSUME NEW f \in FrameKinds, Send(f)
      PROVE  Data'
  <2>1. /\ frames' = Append(frames, f) /\ out' = Characters(Len(frames'), f.size)
        /\ UNCHANGED <<buf, line, log, handlers>>
    BY <1>8, Zenon DEF Send
  <2>2. f.size \in Nat /\ frames' \in Seq(FrameKinds) /\ Len(frames') \in Int
    BY <1>1, <2>1, ModbusAssumption DEF Data
  <2>3. Characters(Len(frames'), f.size) \in Seq(Char)
    <3>1. \A i \in Int, n \in Nat : Characters(i, n) \in Seq(Char)
      BY CharactersType, Zenon
    <3>2. f.size \in Nat /\ Len(frames') \in Int
      BY <2>2, Zenon
    <3> QED BY <3>1, <3>2, Zenon
  <2> QED BY <1>1, <2>1, <2>2, <2>3, Zenon DEF Data
<1>9. CASE Arrive \/ Damage
  <2>1. /\ out # << >> /\ out' \in {out, Tail(out)}
        /\ line' = line \/ \E c \in {Head(out)} \cup Noise : line' = Append(line, c)
        /\ UNCHANGED <<buf, frames, log, handlers>>
    BY <1>9, Zenon DEF Arrive, Damage, Coming
  <2>2. out' \in Seq(Char) /\ Head(out) \in Char /\ line \in Seq(Char)
    <3>1. out # << >> => Tail(out) \in Seq(Char) /\ Head(out) \in Char
      BY <1>1 DEF Data
    <3> QED BY <1>1, <2>1, <3>1, Zenon DEF Data
  <2>3. line' \in Seq(Char)
    <3>1. \A e \in Char : Append(line, e) \in Seq(Char)
      BY <2>2
    <3> QED BY <2>1, <2>2, <3>1, NoiseChar, Zenon
  <2> QED BY <1>1, <2>1, <2>2, <2>3, Zenon DEF Data
<1>10. CASE eMBInit \/ eMBDisable \/ eMBClose \/ NothingToDo \/ FrameReceived \/ Listen \/ Quiet
  BY <1>2, <1>10, Zenon DEF eMBInit, eMBDisable, eMBClose, NothingToDo, FrameReceived, Listen, Quiet
<1>11. CASE ReadFails \/ TimerPoll \/ UNCHANGED vars
  BY <1>2, <1>11, Zenon DEF ReadFails, TimerPoll, vars
<1> QED
  BY <1>3, <1>4, <1>5, <1>6, <1>7, <1>8, <1>9, <1>10, <1>11 DEF Next, Application, Poll, Master

LEMMA ModeStep ==
    ASSUME [Next]_vars
    PROVE  mode' = mode
<1>1. CASE UNCHANGED options
  BY <1>1, Zenon DEF options
<1>2. CASE Application
  BY <1>1, <1>2, Zenon DEF Application, eMBInit, eMBEnable, eMBDisable, eMBClose, eMBRegisterCB, Idle
<1>3. CASE Poll
  BY <1>1, <1>3, Zenon DEF Poll, NothingToDo, FrameReceived, Execute, Listen, Read, Quiet, ReadFails,
                           Transmit, TimerPoll, vars
<1>4. CASE Master
  BY <1>1, <1>4, Zenon DEF Master, Send, Arrive, Damage, Slave
<1> QED BY <1>1, <1>2, <1>3, <1>4, Zenon DEF Next, vars

LEMMA FlagsStep ==
    ASSUME IInv, [Next]_vars
    PROVE  Flags'
<1> USE DEF options, upper, serial, clock, receiver, transmitter, Idle, Slave
<1>1. Flags
  BY Zenon DEF IInv, Types
<1>2. CASE UNCHANGED <<mode, polite, open, rx, tx, timer, low, removed, cut, late, stray>>
  BY <1>1, <1>2, Zenon DEF Flags
<1>3. CASE eMBInit \/ eMBDisable \/ eMBClose
  <2>1. CASE eMBInit \/ eMBClose
    <3>1. /\ UNCHANGED <<mode, polite, timer, low, removed, cut, late, stray>>
          /\ open' = TRUE \/ open' = FALSE
          /\ (rx' = rx /\ tx' = tx) \/ (rx' = FALSE /\ tx' = FALSE)
      BY <2>1, Zenon DEF eMBInit, eMBClose
    <3> QED BY <1>1, <3>1, ZenonT(60) DEF Flags
  <2>2. CASE eMBDisable
    <3>1. /\ UNCHANGED <<mode, polite, open, low, removed, late, stray>>
          /\ rx' = FALSE /\ tx' = FALSE /\ timer' = FALSE /\ cut' = (cut \/ tx)
      BY <2>2, Zenon DEF eMBDisable
    <3>2. (cut \/ tx) \in BOOLEAN
      BY Zenon
    <3> QED BY <1>1, <3>1, <3>2, Zenon DEF Flags
  <2> QED BY <1>3, <2>1, <2>2, Zenon
<1>4. CASE eMBEnable
  BY <1>1, <1>4, Zenon DEF Flags, eMBEnable, eMBRTUStart, eMBASCIIStart
<1>5. ASSUME NEW r \in Registrations, eMBRegisterCB(r[1], r[2])
      PROVE  Flags'
  BY <1>1, <1>5, Zenon DEF Flags, eMBRegisterCB
<1>6. CASE Execute
  <2>1. /\ UNCHANGED <<mode, polite, open, timer, low, removed, cut, late, stray>>
        /\ (rx' = rx /\ tx' = tx) \/ (rx' = FALSE /\ tx' = TRUE)
    BY <1>6, Zenon DEF Execute
  <2> QED BY <1>1, <2>1, ZenonT(60) DEF Flags
<1>7. CASE Read
  <2>1. UNCHANGED <<mode, polite, open, rx, tx, removed, cut, late>>
    BY <1>7, Zenon DEF Read
  <2>2. CASE mode = "RTU" /\ RTUReceiveFSM(Head(line))
    BY <1>1, <2>1, <2>2, Zenon DEF Flags, RTUReceiveFSM
  <2>3. CASE mode = "ASCII" /\ ASCIIReceiveFSM(Head(line))
    <3>1. /\ low' = low \/ low' = TRUE \/ low' = FALSE
          /\ timer' = timer \/ timer' = TRUE \/ timer' = FALSE
          /\ stray' = stray \/ stray' = TRUE \/ stray' = FALSE
      BY <2>3, Zenon DEF ASCIIReceiveFSM, ASCIIColon, ASCIIDigit
    <3>2. mode # "RTU"
      BY <2>3, Zenon
    <3>3. low' \in BOOLEAN /\ timer' \in BOOLEAN /\ stray' \in BOOLEAN
      <4>1. low \in BOOLEAN /\ timer \in BOOLEAN /\ stray \in BOOLEAN
        BY <1>1, Zenon DEF Flags
      <4>2. low' \in BOOLEAN
        BY <3>1, <4>1, Zenon
      <4>3. timer' \in BOOLEAN
        BY <3>1, <4>1, Zenon
      <4>4. stray' \in BOOLEAN
        BY <3>1, <4>1, Zenon
      <4> QED BY <4>2, <4>3, <4>4, Zenon
    <3> QED BY <1>1, <2>1, <3>2, <3>3, Zenon DEF Flags
  <2> QED BY <1>7, <2>2, <2>3, Zenon DEF Read
<1>8. CASE Transmit
  BY <1>1, <1>8, Zenon DEF Flags, Transmit
<1>9. CASE TimerPoll
  <2>1. /\ UNCHANGED <<mode, polite, open, rx, tx, low, removed, cut>>
        /\ timer' = timer \/ timer' = FALSE
        /\ late' = late \/ late' = TRUE
        /\ stray' = stray \/ stray' = FALSE
    BY <1>9, Zenon DEF TimerPoll
  <2>2. timer' \in BOOLEAN /\ late' \in BOOLEAN /\ stray' \in BOOLEAN
    BY <1>1, <2>1, ZenonT(60) DEF Flags
  <2>3. mode' = "RTU" => ~low' /\ ~stray'
    BY <1>1, <2>1, ZenonT(60) DEF Flags
  <2> QED BY <1>1, <2>1, <2>2, <2>3, Zenon DEF Flags
<1>10. CASE NothingToDo \/ FrameReceived \/ Listen \/ Quiet \/ ReadFails \/ UNCHANGED vars
  BY <1>2, <1>10, Zenon DEF NothingToDo, FrameReceived, Listen, Quiet, ReadFails, vars
<1>11. CASE Master
  BY <1>2, <1>11, Zenon DEF Master, Send, Arrive, Damage
<1> QED
  BY <1>3, <1>4, <1>5, <1>6, <1>7, <1>8, <1>9, <1>10, <1>11, Zenon DEF Next, Application, Poll

LEMMA TypeOKStep ==
    ASSUME IInv, [Next]_vars
    PROVE  TypeOK'
<1> USE DEF options, upper, serial, clock, receiver, transmitter, Idle, Slave
<1>1. TypeOK /\ Data /\ Indices /\ mode \in {"RTU", "ASCII"} /\ mode' = mode /\ (mode = "RTU" => ~low)
  BY ModeStep, Zenon DEF IInv, Types, Flags
<1>2. CASE eMBInit \/ eMBDisable \/ eMBClose
  BY <1>1, <1>2, SMTT(30) DEF TypeOK, eMBInit, eMBDisable, eMBClose
<1>3. CASE eMBEnable
  BY <1>1, <1>3, Zenon DEF TypeOK, eMBEnable, eMBRTUStart, eMBASCIIStart
<1>4. ASSUME NEW r \in Registrations, eMBRegisterCB(r[1], r[2])
      PROVE  TypeOK'
  <2>1. /\ DOMAIN handlers' = 1 .. HandlersMax
        /\ UNCHANGED <<eMBState, addr, len, pc, queued, rcv, snd, buf, pos, low, count>>
    BY <1>4, Zenon DEF eMBRegisterCB
  <2> QED BY <1>1, <2>1 DEF TypeOK
<1>5. CASE NothingToDo \/ Listen \/ Quiet \/ ReadFails \/ UNCHANGED vars
  BY <1>1, <1>5, SMTT(30) DEF TypeOK, NothingToDo, Listen, Quiet, ReadFails, vars
<1>6. CASE FrameReceived
  <2>1. Whole(Received) => addr' \in {Own, Other, Broadcast}
    BY <1>1, <1>6, WholePrefix, KnownByte, Zenon DEF FrameReceived, Received, TypeOK
  <2> QED BY <1>1, <1>6, <2>1 DEF TypeOK, FrameReceived
<1>7. CASE Execute
  BY <1>1, <1>7, Sizes, SMTT(30) DEF TypeOK, Execute, Reply
<1>8. CASE Read
  <2>1. CASE mode = "RTU" /\ RTUReceiveFSM(Head(line))
    BY <1>1, <1>8, <2>1, Sizes, SMTT(30) DEF TypeOK, Read, RTUReceiveFSM, Room
  <2>2. CASE mode = "ASCII" /\ ASCIIReceiveFSM(Head(line))
    BY <1>1, <1>8, <2>2, Sizes, SMTT(30) DEF TypeOK, Read, ASCIIReceiveFSM, ASCIIColon, ASCIIDigit, Room
  <2> QED BY <1>8, <2>1, <2>2, Zenon DEF Read
<1>9. CASE Transmit
  BY <1>1, <1>9, Sizes DEF TypeOK, Transmit
<1>10. CASE TimerPoll
  BY <1>1, <1>10 DEF TypeOK, TimerPoll, RTUTimerT35Expired, ASCIITimerT1SExpired
<1>11. CASE Master
  BY <1>1, <1>11, SMTT(30) DEF TypeOK, Master, Send, Arrive, Damage
<1> QED
  BY <1>2, <1>3, <1>4, <1>5, <1>6, <1>7, <1>8, <1>9, <1>10, <1>11 DEF Next, Application, Poll

-----------------------------------------------------------------------------
(* Control                                                                   *)

LEMMA ControlStep ==
    ASSUME IInv, [Next]_vars
    PROVE  Control'
<1> USE DEF options, upper, serial, clock, receiver, transmitter, Idle, Slave, None
<1>1. /\ Control /\ TypeOK /\ mode \in {"RTU", "ASCII"} /\ mode' = mode
      /\ rx \in BOOLEAN /\ tx \in BOOLEAN /\ timer \in BOOLEAN /\ cut \in BOOLEAN /\ stray \in BOOLEAN
  BY ModeStep, Zenon DEF IInv, Types, Flags
<1>2. CASE eMBInit
  BY <1>1, <1>2, Zenon DEF Control, AssertsHold, eMBInit
<1>3. CASE eMBEnable
  BY <1>1, <1>3 DEF TypeOK, Control, AssertsHold, eMBEnable, eMBRTUStart, eMBASCIIStart
<1>4. CASE eMBDisable
  BY <1>1, <1>4, Zenon DEF Control, AssertsHold, eMBDisable, Call
<1>5. CASE eMBClose
  BY <1>1, <1>5, Zenon DEF Control, AssertsHold, eMBClose
<1>6. ASSUME NEW r \in Registrations, eMBRegisterCB(r[1], r[2])
      PROVE  Control'
  BY <1>1, <1>6, SMTT(30) DEF Control, AssertsHold, eMBRegisterCB
<1>7. CASE NothingToDo
  BY <1>1, <1>7, Zenon DEF Control, AssertsHold, NothingToDo, Event
<1>8. CASE FrameReceived
  BY <1>1, <1>8, Zenon DEF Control, AssertsHold, FrameReceived, Event
<1>9. CASE Execute
  BY <1>1, <1>9, SMTT(30) DEF Control, AssertsHold, Execute, Event, MustReply
<1>10. CASE Listen
  BY <1>1, <1>10, Zenon DEF Control, AssertsHold, Listen, NoEvent
<1>11. CASE Read
  <2>1. CASE mode = "RTU" /\ RTUReceiveFSM(Head(line))
    BY <1>1, <1>11, <2>1, Zenon DEF Control, AssertsHold, Read, RTUReceiveFSM
  <2>2. CASE mode = "ASCII" /\ ASCIIReceiveFSM(Head(line))
    BY <1>1, <1>11, <2>2, SMTT(30) DEF Control, AssertsHold, Read, ASCIIReceiveFSM, ASCIIColon, ASCIIDigit
  <2> QED BY <1>11, <2>1, <2>2, Zenon DEF Read
<1>12. CASE Quiet
  BY <1>1, <1>12, Zenon DEF Control, AssertsHold, Quiet
<1>13. CASE Transmit
  BY <1>1, <1>13, Zenon DEF Control, AssertsHold, Transmit, NoEvent
<1>14. CASE TimerPoll
  BY <1>1, <1>14 DEF Control, AssertsHold, TimerPoll, RTUTimerT35Expired, ASCIITimerT1SExpired
<1>15. CASE Master
  BY <1>1, <1>15, SMTT(30) DEF Control, AssertsHold, Master, Send, Arrive, Damage
<1>16. CASE ReadFails \/ UNCHANGED vars
  BY <1>1, <1>16, SMTT(30) DEF Control, AssertsHold, ReadFails, vars
<1> QED
  BY <1>2, <1>3, <1>4, <1>5, <1>6, <1>7, <1>8, <1>9, <1>10, <1>11, <1>12, <1>13, <1>14, <1>15, <1>16
     DEF Next, Application, Poll

-----------------------------------------------------------------------------
(* The characters on their way                                               *)

LEMMA TailFacts ==
    ASSUME NEW s \in Seq(Char), s # << >>
    PROVE  /\ Head(s) \in Char /\ Tail(s) \in Seq(Char)
           /\ 1 \in DOMAIN s /\ Head(s) = s[1]
           /\ \A a \in DOMAIN Tail(s) : a \in Nat \ {0} /\ a + 1 \in DOMAIN s /\ Tail(s)[a] = s[a + 1]
OBVIOUS

LEMMA AppendFacts ==
    ASSUME NEW s \in Seq(Char), NEW c \in Char
    PROVE  /\ Append(s, c) \in Seq(Char) /\ DOMAIN Append(s, c) = DOMAIN s \cup {Len(s) + 1}
           /\ \A a \in DOMAIN s : a \in Nat /\ a <= Len(s) /\ Append(s, c)[a] = s[a]
           /\ Append(s, c)[Len(s) + 1] = c /\ Len(s) \in Nat
OBVIOUS

\* Reading a character, or losing the first one.
LEMMA TailKeeps ==
    ASSUME NEW s \in Seq(Char), s # << >>, Ordered(s)
    PROVE  Ordered(Tail(s)) /\ \A a \in DOMAIN Tail(s) : Before(Head(s), Tail(s)[a])
<1>1. ASSUME NEW a \in DOMAIN Tail(s), NEW b \in DOMAIN Tail(s), a < b
      PROVE  Before(Tail(s)[a], Tail(s)[b])
  <2>1. a + 1 < b + 1 /\ a + 1 \in DOMAIN s /\ b + 1 \in DOMAIN s
    BY <1>1, TailFacts
  <2>2. Before(s[a + 1], s[b + 1])
    BY <2>1, Zenon DEF Ordered
  <2> QED BY <2>2, TailFacts, Zenon
<1>2. ASSUME NEW a \in DOMAIN Tail(s)
      PROVE  Before(Head(s), Tail(s)[a])
  <2>1. 1 < a + 1 /\ 1 \in DOMAIN s /\ a + 1 \in DOMAIN s
    BY TailFacts
  <2>2. Before(s[1], s[a + 1])
    BY <2>1, Zenon DEF Ordered
  <2> QED BY <2>2, TailFacts, Zenon
<1> QED BY <1>1, <1>2, Zenon DEF Ordered

LEMMA TailCrossing ==
    ASSUME NEW s \in Seq(Char), NEW t \in Seq(Char), Crossing(s, t)
    PROVE  /\ s # << >> => Crossing(Tail(s), t)
           /\ t # << >> => Crossing(s, Tail(t))
BY TailFacts DEF Crossing

LEMMA TailKnown ==
    ASSUME NEW s \in Seq(Char), s # << >>, Known(s)
    PROVE  Known(Tail(s)) /\ Head(s)[1] \in 0 .. Len(frames)
BY TailFacts DEF Known

\* A character arrives after those that are there.
LEMMA AppendKeeps ==
    ASSUME NEW s \in Seq(Char), NEW c \in Char, Ordered(s), \A a \in DOMAIN s : Before(s[a], c)
    PROVE  Ordered(Append(s, c))
BY AppendFacts DEF Ordered

LEMMA AppendCrossing ==
    ASSUME NEW s \in Seq(Char), NEW c \in Char, NEW t \in Seq(Char), Crossing(s, t),
           \A a \in DOMAIN t : Before(c, t[a])
    PROVE  Crossing(Append(s, c), t)
BY AppendFacts DEF Crossing

LEMMA AppendKnown ==
    ASSUME NEW s \in Seq(Char), NEW c \in Char, Known(s), c[1] \in 0 .. Len(frames)
    PROVE  Known(Append(s, c))
BY AppendFacts DEF Known

\* A frame is sent.
LEMMA CharactersOrdered ==
    ASSUME NEW i \in Nat, NEW n \in Nat
    PROVE  /\ Ordered(Characters(i, n))
           /\ \A a \in DOMAIN Characters(i, n) : Characters(i, n)[a][1] \in {0, i}
<1> DEFINE s == Characters(i, n)
<1>0. i \in Int
  OBVIOUS
<1>1. s \in Seq(Char)
  BY <1>0, CharactersType, Zenon
<1>2. CASE mode = "RTU"
  <2>1. Len(s) = n /\ \A k \in 1 .. n : s[k] = <<i, k, n>>
    BY <1>0, <1>2, CharactersType, Zenon
  <2>2. DOMAIN s = 1 .. n
    BY <1>1, <2>1
  <2> HIDE DEF s
  <2>3. Ordered(s) /\ \A a \in DOMAIN s : s[a][1] \in {0, i}
    BY <2>1, <2>2 DEF Ordered, Before
  <2> QED BY <2>3, Zenon DEF s
<1>3. CASE mode # "RTU"
  <2> DEFINE m == 2 * n
  <2>1. /\ Len(s) = m + 3 /\ s[1] = Colon /\ s[m + 2] = CR /\ s[m + 3] = LF
        /\ \A k \in 1 .. m : s[k + 1] = <<i, k, m>>
    BY <1>0, <1>3, CharactersType, Zenon
  <2>2. m \in Nat
    OBVIOUS
  <2> HIDE DEF m, s
  <2>3. DOMAIN s = 1 .. m + 3
    BY <1>1, <2>1
  <2>4. \A a \in 1 .. m + 3 : s[a][1] = 0 \/ (s[a][1] = i /\ s[a][2] = a - 1)
    <3> TAKE a \in 1 .. m + 3
    <3>1. CASE a \in {1, m + 2, m + 3}
      BY <2>1, <3>1 DEF Colon, CR, LF
    <3>2. CASE a - 1 \in 1 .. m
      <4>1. s[(a - 1) + 1] = <<i, a - 1, m>>
        BY <2>1, <3>2, Zenon
      <4> QED BY <4>1
    <3> QED BY <2>2, <3>1, <3>2
  <2>5. Ordered(s) /\ \A a \in DOMAIN s : s[a][1] \in {0, i}
    BY <2>3, <2>4 DEF Ordered, Before
  <2> QED BY <2>5, Zenon DEF s
<1> QED BY <1>2, <1>3, Zenon

\* What a step does to the line.
LEMMA LineFootprint ==
    ASSUME [Next]_vars
    PROVE  \/ UNCHANGED <<line, out, frames>>
           \/ line' = << >> /\ UNCHANGED <<out, frames>>
           \/ Read /\ line # << >> /\ line' = Tail(line) /\ UNCHANGED <<out, frames>>
           \/ \E f \in FrameKinds : /\ out = << >> /\ frames' = Append(frames, f)
                                    /\ out' = Characters(Len(frames'), f.size) /\ UNCHANGED line
           \/ /\ out # << >> /\ out' = Tail(out) /\ UNCHANGED frames
              /\ line' = line \/ \E c \in {Head(out)} \cup Noise : line' = Append(line, c)
           \/ UNCHANGED <<out, frames>> /\ \E c \in Noise : line' = Append(line, c)
<1>1. CASE Application
  BY <1>1, Zenon DEF Application, eMBInit, eMBEnable, eMBDisable, eMBClose, eMBRegisterCB, Idle, master
<1>2. CASE Poll
  BY <1>2, Zenon DEF Poll, NothingToDo, FrameReceived, Execute, Listen, Read, Quiet, ReadFails,
                     Transmit, TimerPoll, vars, master
<1>3. CASE Master
  BY <1>3, Zenon DEF Master, Send, Arrive, Damage, Coming
<1> QED BY <1>1, <1>2, <1>3, Zenon DEF Next, vars, master

LEMMA LineStep ==
    ASSUME IInv, [Next]_vars
    PROVE  Line'
<1>1. Line /\ line \in Seq(Char) /\ out \in Seq(Char) /\ frames \in Seq(FrameKinds) /\ mode' = mode
  BY ModeStep, Zenon DEF IInv, Types, Data
<1>2. CASE UNCHANGED <<line, out, frames>>
  BY <1>1, <1>2, Zenon DEF Line, Known, Ordered, Crossing
<1>3. CASE line' = << >> /\ UNCHANGED <<out, frames>>
  BY <1>1, <1>3, SMTT(30) DEF Line, Known, Ordered, Crossing
<1>4. CASE line # << >> /\ line' = Tail(line) /\ UNCHANGED <<out, frames>>
  <2>1. Known(Tail(line)) /\ Ordered(Tail(line)) /\ Crossing(Tail(line), out)
    BY <1>1, <1>4, TailKnown, TailKeeps, TailCrossing, Zenon DEF Line
  <2>2. Known(out) /\ Ordered(out)
    BY <1>1, Zenon DEF Line
  <2> QED BY <1>4, <2>1, <2>2, Zenon DEF Line, Known, Ordered, Crossing
<1>5. ASSUME NEW f \in FrameKinds, out = << >>, frames' = Append(frames, f),
             out' = Characters(Len(frames'), f.size), UNCHANGED line
      PROVE  Line'
  <2> DEFINE i == Len(frames')
             s == Characters(i, f.size)
  <2>1. i = Len(frames) + 1 /\ Len(frames) \in Nat /\ i \in Nat /\ i \in Int /\ f.size \in Nat
    BY <1>1, <1>5, ModbusAssumption
  <2> HIDE DEF i
  <2>2. s \in Seq(Char) /\ Ordered(s) /\ \A a \in DOMAIN s : s[a][1] \in {0, i}
    BY <2>1, CharactersType, CharactersOrdered, Zenon
  <2>3. out' = s
    BY <1>5, Zenon DEF i
  <2> HIDE DEF s
  <2>4. \A a \in DOMAIN s : s[a][1] \in 0 .. i
    BY <2>1, <2>2
  <2>5. \A a \in DOMAIN line : line[a][1] \in 0 .. i
    BY <1>1, <2>1 DEF Line, Known
  <2>6. Crossing(line, s)
    BY <1>1, <2>1, <2>2 DEF Line, Known, Crossing, Before
  <2>7. Ordered(line)
    BY <1>1, Zenon DEF Line
  <2> QED BY <1>5, <2>2, <2>3, <2>4, <2>5, <2>6, <2>7, Zenon DEF Line, Known, Ordered, Crossing, i
<1>6. \A c \in Noise : c \in Char /\ c[1] = 0 /\ c[1] \in 0 .. Len(frames)
  BY <1>1, NoiseChar
<1>7. CASE /\ out # << >> /\ out' = Tail(out) /\ UNCHANGED frames
           /\ line' = line \/ \E c \in {Head(out)} \cup Noise : line' = Append(line, c)
  <2>1. /\ Known(Tail(out)) /\ Ordered(Tail(out)) /\ Crossing(line, Tail(out))
        /\ \A a \in DOMAIN Tail(out) : Before(Head(out), Tail(out)[a])
        /\ Head(out)[1] \in 0 .. Len(frames) /\ Head(out) \in Char /\ Tail(out) \in Seq(Char)
    BY <1>1, <1>7, TailKnown, TailKeeps, TailCrossing, TailFacts, Zenon DEF Line
  <2>2. \A a \in DOMAIN line : Before(line[a], Head(out))
    BY <1>1, <1>7, TailFacts DEF Line, Crossing, Before
  <2>3. \A c \in Noise : /\ c \in Char /\ c[1] \in 0 .. Len(frames)
                         /\ \A a \in DOMAIN Tail(out) : Before(c, Tail(out)[a])
                         /\ \A a \in DOMAIN line : Before(line[a], c)
    BY <1>6, Zenon DEF Before
  <2>4. ASSUME NEW c \in {Head(out)} \cup Noise
        PROVE  /\ Known(Append(line, c)) /\ Ordered(Append(line, c))
               /\ Crossing(Append(line, c), Tail(out))
    <3>1. /\ c \in Char /\ c[1] \in 0 .. Len(frames) /\ \A a \in DOMAIN line : Before(line[a], c)
          /\ \A a \in DOMAIN Tail(out) : Before(c, Tail(out)[a])
      BY <2>1, <2>2, <2>3, <2>4, Zenon
    <3> QED BY <1>1, <2>1, <3>1, AppendKnown, AppendKeeps, AppendCrossing, Zenon DEF Line
  <2>5. CASE line' = line
    BY <1>1, <1>7, <2>1, <2>5, Zenon DEF Line, Known, Ordered, Crossing
  <2>6. ASSUME NEW c \in {Head(out)} \cup Noise, line' = Append(line, c)
        PROVE  Line'
    BY <1>7, <2>1, <2>4, <2>6, Zenon DEF Line, Known, Ordered, Crossing
  <2> QED BY <1>7, <2>5, <2>6, Zenon
<1>8. ASSUME NEW c \in Noise, line' = Append(line, c), UNCHANGED <<out, frames>>
      PROVE  Line'
  <2>1. /\ c \in Char /\ c[1] \in 0 .. Len(frames) /\ \A a \in DOMAIN line : Before(line[a], c)
        /\ \A a \in DOMAIN out : Before(c, out[a])
    BY <1>6, Zenon DEF Before
  <2>2. Known(Append(line, c)) /\ Ordered(Append(line, c)) /\ Crossing(Append(line, c), out)
    BY <1>1, <2>1, AppendKnown, AppendKeeps, AppendCrossing, Zenon DEF Line
  <2> QED BY <1>1, <1>8, <2>2, Zenon DEF Line, Known, Ordered, Crossing
<1> QED BY <1>2, <1>3, <1>4, <1>5, <1>7, <1>8, LineFootprint, Zenon

-----------------------------------------------------------------------------
(* The buffer                                                                *)

\* Only the receiver and the handlers write to it.
LEMMA BufferFootprint ==
    ASSUME [Next]_vars
    PROVE  Read \/ Execute \/ UNCHANGED <<buf, pos, low>>
<1> USE DEF receiver, Idle, Slave
<1>1. CASE Application
  BY <1>1, Zenon DEF Application, eMBInit, eMBEnable, eMBDisable, eMBClose, eMBRegisterCB
<1>2. CASE Poll
  BY <1>2, Zenon DEF Poll, NothingToDo, FrameReceived, Listen, Quiet, ReadFails, Transmit, TimerPoll,
                     vars
<1>3. CASE Master
  BY <1>3, Zenon DEF Master, Send, Arrive, Damage
<1> QED BY <1>1, <1>2, <1>3, Zenon DEF Next, vars

\* The first byte of the request stays, or that of the reply takes its place.
LEMMA ExecuteFootprint ==
    ASSUME IInv, Execute
    PROVE  /\ pc = "user" /\ eMBState = "ENABLED" /\ queued = "EXECUTE" /\ queued' = None
           /\ UNCHANGED <<pos, low, rcv, len, addr, frames, line, out, removed, handlers, late, pc>>
           /\ \/ /\ MustReply /\ tx' = TRUE /\ count' \in SizeMin .. SizeMax
                 /\ buf' = Reply(count')
              \/ /\ ~MustReply /\ UNCHANGED <<tx, count>> /\ buf'[1] = buf[1]
                 /\ \E n \in SizeMin .. SizeMax : \A k \in 2 .. SizeMax : buf'[k] \in {buf[k], Reply(n)[k]}
<1>1. /\ pc = "user" /\ eMBState = "ENABLED" /\ queued = "EXECUTE" /\ queued' = None
      /\ UNCHANGED <<pos, low, rcv, len, addr, frames, line, out, removed, handlers, late, pc>>
  BY Zenon DEF Execute, Event, upper, clock, master
<1>2. PICK n \in SizeMin .. SizeMax :
         \/ MustReply /\ buf' = Reply(n) /\ count' = n /\ tx' = TRUE
         \/ /\ ~MustReply /\ UNCHANGED <<tx, count>>
            /\ buf' \in {buf, [Reply(n) EXCEPT ![1] = buf[1]]}
  BY Zenon DEF Execute
<1>3. buf \in [1 .. SizeMax -> Char] /\ Reply(n) \in [1 .. SizeMax -> Char] /\ 1 \in 1 .. SizeMax
  BY ReplyType, Sizes DEF IInv, Types, Data
<1>4. [Reply(n) EXCEPT ![1] = buf[1]][1] = buf[1]
  BY <1>3, Zenon
<1>5. \A k \in 2 .. SizeMax : [Reply(n) EXCEPT ![1] = buf[1]][k] = Reply(n)[k]
  BY <1>3
<1> QED BY <1>1, <1>2, <1>4, <1>5, Zenon

\* What the receivers do to the buffer.
LEMMA ReadFootprint ==
    ASSUME IInv, Read
    PROVE  /\ pc = "rx" /\ rx /\ ~tx /\ queued \in {None, "FRAME_RECEIVED"}
           /\ queued' \in {queued, "FRAME_RECEIVED"} /\ (mode = "RTU" => UNCHANGED queued)
           /\ UNCHANGED <<frames, out, log, len, addr, pc, late, tx, count, handlers, removed>>
           /\ line # << >> /\ line' = Tail(line) /\ Head(line) \in Char
           /\ Head(line)[1] \in 0 .. Len(frames)
<1>1. /\ pc = "rx" /\ line # << >> /\ line' = Tail(line)
      /\ queued' \in {queued, "FRAME_RECEIVED"} /\ (mode = "RTU" => UNCHANGED queued)
      /\ UNCHANGED <<frames, out, log, len, addr, pc, late, tx, count, handlers, removed>>
  BY Zenon DEF Read, RTUReceiveFSM, ASCIIReceiveFSM, ASCIIColon, ASCIIDigit, upper, serial, transmitter, master
<1>2. rx /\ ~tx /\ queued \in {None, "FRAME_RECEIVED"}
  BY <1>1, Zenon DEF IInv, Control, AssertsHold
<1>3. Head(line) \in Char /\ Head(line)[1] \in 0 .. Len(frames)
  BY <1>1, TailFacts, TailKnown, Zenon DEF IInv, Types, Data, Line
<1> QED BY <1>1, <1>2, <1>3, Zenon

\* Every byte is that of a frame, or of the reply to one.
LEMMA ByteIndex ==
    ASSUME NEW hi \in Char, NEW lo \in Char
    PROVE  Byte(hi, lo)[1] \in {0, hi[1]}
BY Zenon DEF Byte, Junk, Char

LEMMA IndicesStep ==
    ASSUME IInv, [Next]_vars
    PROVE  Indices'
<1>1. /\ Indices /\ buf \in [1 .. SizeMax -> Char] /\ frames \in Seq(FrameKinds)
      /\ 1 \in 1 .. SizeMax /\ pos \in 0 .. SizeMax /\ (low => pos < SizeMax)
  BY Sizes DEF IInv, Types, TypeOK, Data
<1>2. CASE UNCHANGED <<buf, pos, low>>
  <2>1. Len(frames) \in Nat /\ Len(frames') \in Nat /\ Len(frames) <= Len(frames')
    BY <1>1, LineFootprint
  <2> QED BY <1>1, <1>2, <2>1 DEF Indices, Char
<1>3. CASE Execute
  <2>1. \A n \in SizeMin .. SizeMax : \A k \in 1 .. SizeMax :
            Reply(n)[k][1] \in -Len(frames) .. Len(frames)
    BY <1>1, Sizes DEF Reply, Indices, Char
  <2>2. \A k \in 1 .. SizeMax : buf'[k][1] \in -Len(frames) .. Len(frames)
    <3> TAKE k \in 1 .. SizeMax
    <3>1. k = 1 \/ k \in 2 .. SizeMax
      BY Sizes
    <3>2. \E n \in SizeMin .. SizeMax : buf'[k] \in {buf[k], Reply(n)[k]}
      <4>1. CASE MustReply
        BY <1>3, <4>1, ExecuteFootprint, Zenon
      <4>2. CASE ~MustReply
        <5>1. SizeMin \in SizeMin .. SizeMax
          BY Sizes
        <5> QED BY <1>3, <3>1, <4>2, <5>1, ExecuteFootprint, Zenon
      <4> QED BY <4>1, <4>2, Zenon
    <3> QED BY <1>1, <2>1, <3>2, Zenon DEF Indices
  <2> QED BY <1>3, <2>2, ExecuteFootprint, Zenon DEF Indices
<1>4. CASE Read
  <2>1. \A c \in Char, p \in 1 .. SizeMax : c[1] \in -Len(frames) .. Len(frames) =>
            \A k \in 1 .. SizeMax : [buf EXCEPT ![p] = c][k][1] \in -Len(frames) .. Len(frames)
    BY <1>1, Sizes, Zenon DEF Indices
  <2>2. /\ Head(line) \in Char /\ Head(line)[1] \in -Len(frames) .. Len(frames)
        /\ UNCHANGED frames
    BY <1>1, <1>4, ReadFootprint
  <2>3. low \/ pos < SizeMax => pos + 1 \in 1 .. SizeMax
    BY <1>1, Sizes
  <2>4. low => /\ Byte(buf[pos + 1], Head(line)) \in Char
               /\ Byte(buf[pos + 1], Head(line))[1] \in -Len(frames) .. Len(frames)
    <3>1. low => buf[pos + 1] \in Char /\ buf[pos + 1][1] \in -Len(frames) .. Len(frames)
      BY <1>1, <2>3, Zenon DEF Indices
    <3>2. 0 \in -Len(frames) .. Len(frames)
      BY <1>1
    <3> QED BY <2>2, <3>1, <3>2, ByteIndex, ByteChar, Zenon
  <2>5. \/ buf' = buf \/ buf' = [buf EXCEPT ![1] = Head(line)]
        \/ pos < SizeMax /\ buf' = [buf EXCEPT ![pos + 1] = Head(line)]
        \/ low /\ buf' = [buf EXCEPT ![pos + 1] = Byte(buf[pos + 1], Head(line))]
    BY <1>4, Zenon DEF Read, RTUReceiveFSM, ASCIIReceiveFSM, ASCIIColon, ASCIIDigit, Room
  <2>6. \A k \in 1 .. SizeMax : buf'[k][1] \in -Len(frames) .. Len(frames)
    BY <1>1, <2>1, <2>2, <2>3, <2>4, <2>5, Zenon DEF Indices
  <2> QED BY <2>2, <2>6, Zenon DEF Indices
<1> QED BY <1>2, <1>3, <1>4, BufferFootprint, Zenon

LEMMA FirstByteStep ==
    ASSUME IInv, [Next]_vars
    PROVE  FirstByte'
<1> USE DEF upper, serial, clock, receiver, transmitter, Idle, Slave
<1> DEFINE Waiting == Receiving \/ queued = "FRAME_RECEIVED"
           Begun == pos > 0 \/ low
           FromMaster == buf[1][1] >= 0
<1>1. /\ buf \in [1 .. SizeMax -> Char] /\ 1 \in 1 .. SizeMax /\ SizeMax \in Nat
      /\ pos \in 0 .. SizeMax /\ (low => pos < SizeMax)
      /\ mode \in {"RTU", "ASCII"} /\ mode' = mode
  BY Sizes, ModeStep DEF IInv, Types, TypeOK, Data, Flags
<1>2. (Waiting /\ Begun => FromMaster) /\ (FirstByte' <=> (Waiting' /\ Begun' => FromMaster'))
  BY Zenon DEF IInv, FirstByte
<1>3. CASE UNCHANGED <<buf, pos, low>> /\ (Waiting' => Waiting)
  BY <1>2, <1>3, Zenon
<1>4. CASE Application
  <2>1. UNCHANGED <<buf, pos, low>>
    BY <1>4, Zenon DEF Application, eMBInit, eMBEnable, eMBDisable, eMBClose, eMBRegisterCB
  <2>2. Waiting' => Waiting
    BY <1>4, Zenon DEF Application, eMBInit, eMBEnable, eMBRTUStart, eMBASCIIStart, eMBDisable, eMBClose,
                eMBRegisterCB, None, Receiving
  <2> QED BY <1>3, <2>1, <2>2, Zenon
<1>5. CASE Master \/ Listen \/ Quiet \/ ReadFails \/ UNCHANGED vars
  <2>1. UNCHANGED <<buf, pos, low, rcv, queued>>
    BY <1>5, Zenon DEF Master, Send, Arrive, Damage, Listen, Quiet, ReadFails, vars
  <2> QED BY <1>3, <2>1, Zenon DEF Receiving
<1>6. CASE NothingToDo \/ FrameReceived \/ Transmit
  <2>1. UNCHANGED <<buf, pos, low, rcv>>
    BY <1>6, Zenon DEF NothingToDo, FrameReceived, Transmit
  <2>2. queued' # "FRAME_RECEIVED"
    BY <1>6, Zenon DEF NothingToDo, FrameReceived, Transmit, None
  <2> QED BY <1>3, <2>1, <2>2, Zenon DEF Receiving
<1>7. CASE Execute
  <2>1. Receiving => ~MustReply
    BY Zenon DEF MustReply, Receiving
  <2>2. UNCHANGED <<rcv, pos, low>> /\ queued' = None /\ (~MustReply => buf'[1] = buf[1])
    BY <1>7, ExecuteFootprint, Zenon
  <2>3. queued' # "FRAME_RECEIVED"
    BY <2>2, Zenon DEF None
  <2> QED BY <1>2, <2>1, <2>2, <2>3, Zenon DEF Receiving
<1>8. CASE TimerPoll
  <2>1. UNCHANGED <<buf, pos, low>>
    BY <1>8, Zenon DEF TimerPoll
  <2>2. Waiting' => Waiting
    BY <1>8, Zenon DEF TimerPoll, RTUTimerT35Expired, ASCIITimerT1SExpired, Receiving
  <2> QED BY <1>3, <2>1, <2>2, Zenon
<1>9. CASE Read
  <2> DEFINE c == Head(line)
  <2>1. c \in Char /\ c[1] >= 0 /\ (mode = "RTU" => queued' # "FRAME_RECEIVED")
    BY <1>9, ReadFootprint, SMTT(30) DEF IInv, Types, Data, Control
  <2> HIDE DEF c
  <2>2. /\ \A e \in Char : [buf EXCEPT ![1] = e][1] = e
        /\ \A e \in Char, p \in 2 .. SizeMax : [buf EXCEPT ![p] = e][1] = buf[1]
    BY <1>1
  \* A byte is stored behind the others.
  <2>3. ASSUME NEW e \in Char, pos < SizeMax, buf' = [buf EXCEPT ![pos + 1] = e],
               pos = 0 => e[1] >= 0, pos > 0 => FromMaster
        PROVE  FromMaster'
    <3>1. CASE pos = 0
      <4>1. buf' = [buf EXCEPT ![1] = e]
        BY <2>3, <3>1
      <4> QED BY <2>2, <2>3, <3>1, <4>1, Zenon
    <3>2. CASE pos # 0
      <4>1. pos + 1 \in 2 .. SizeMax /\ pos > 0
        BY <1>1, <2>3, <3>2
      <4> QED BY <2>2, <2>3, <4>1, Zenon
    <3> QED BY <3>1, <3>2, Zenon
  <2>4. CASE mode = "RTU" /\ RTUReceiveFSM(c)
    <3>1. CASE UNCHANGED <<rcv, buf, pos>> \/ rcv' = "ERROR"
      <4>1. UNCHANGED <<low, queued>>
        BY <2>4, Zenon DEF RTUReceiveFSM
      <4> QED BY <1>2, <2>1, <2>4, <3>1, <4>1, Zenon DEF Receiving
    <3>2. CASE buf' = [buf EXCEPT ![1] = c]
      BY <1>2, <2>1, <2>2, <3>2, Zenon
    <3>3. CASE rcv = "RCV" /\ pos < SizeMax /\ buf' = [buf EXCEPT ![pos + 1] = c]
      <4>1. (pos > 0 => FromMaster) /\ (pos = 0 => c[1] >= 0)
        BY <1>2, <2>1, <3>3, Zenon DEF Receiving
      <4> QED BY <1>2, <2>1, <2>3, <3>3, <4>1, Zenon
    <3> QED BY <2>4, <3>1, <3>2, <3>3, Zenon DEF RTUReceiveFSM, Room
  <2>5. CASE mode = "ASCII" /\ ASCIIReceiveFSM(c)
    <3>1. CASE ASCIIColon
      <4>1. pos' = 0 /\ low' = FALSE
        BY <3>1, Zenon DEF ASCIIColon
      <4> QED BY <1>2, <4>1
    <3>2. CASE rcv = "RCV" /\ pos < SizeMax /\ buf' = [buf EXCEPT ![pos + 1] = c]
      <4>1. (pos > 0 => FromMaster) /\ (pos = 0 => c[1] >= 0)
        BY <1>2, <2>1, <3>2, Zenon DEF Receiving
      <4> QED BY <1>2, <2>1, <2>3, <3>2, <4>1, Zenon
    <3>3. CASE rcv = "RCV" /\ low /\ buf' = [buf EXCEPT ![pos + 1] = Byte(buf[pos + 1], c)]
      <4>1. buf[pos + 1] \in Char /\ pos < SizeMax
        BY <1>1, <3>3
      <4>2. FromMaster
        BY <1>2, <3>3, Zenon DEF Receiving
      <4>3. /\ Byte(buf[pos + 1], c) \in Char
            /\ Byte(buf[pos + 1], c)[1] \in {0, buf[pos + 1][1]}
        BY <2>1, <4>1, ByteIndex, ByteChar, Zenon
      <4>4. pos = 0 => Byte(buf[pos + 1], c)[1] >= 0
        BY <4>2, <4>3
      <4> QED BY <1>2, <2>3, <3>3, <4>1, <4>2, <4>3, <4>4, SMTT(30)
    <3>4. CASE UNCHANGED <<buf, pos, low>> /\ rcv \in {"RCV", "WAIT_EOF"}
      BY <1>2, <3>4, Zenon DEF Receiving
    <3>5. CASE UNCHANGED <<rcv, buf, pos, low, queued>>
      BY <1>3, <3>5, Zenon DEF Receiving
    <3>6. ASCIIDigit(c) => \/ ~low /\ pos < SizeMax /\ buf' = [buf EXCEPT ![pos + 1] = c]
                           \/ UNCHANGED <<buf, pos, low>>
                           \/ low /\ buf' = [buf EXCEPT ![pos + 1] = Byte(buf[pos + 1], c)]
      BY Zenon DEF ASCIIDigit, Room
    <3> QED BY <2>5, <3>1, <3>2, <3>3, <3>4, <3>5, <3>6, Zenon DEF ASCIIReceiveFSM
  <2> QED BY <1>9, <2>4, <2>5, Zenon DEF Read, c
<1> QED BY <1>4, <1>5, <1>6, <1>7, <1>8, <1>9, Zenon DEF Next, Poll

\* The buffer is as it was checked until the frame is executed.
LEMMA CheckedStep ==
    ASSUME IInv, [Next]_vars
    PROVE  Checked'
<1> USE DEF upper, serial, clock, receiver, transmitter, Idle, Slave
<1>1. /\ Checked /\ buf \in [1 .. SizeMax -> Char] /\ 1 \in 1 .. SizeMax
      /\ frames \in Seq(FrameKinds) /\ Indices /\ FirstByte /\ Control /\ TypeOK /\ Data
  BY Sizes DEF IInv, Types, Data
<1>2. CASE UNCHANGED <<len, buf, addr>> /\ (queued' = queued \/ queued' # "EXECUTE")
  <2>1. \A i \in 1 .. Len(frames) : frames'[i] = frames[i]
    BY <1>1, LineFootprint
  <2>2. queued = "EXECUTE" => buf[1][1] \in 1 .. Len(frames)
    BY <1>1 DEF Checked, Indices
  <2> QED BY <1>1, <1>2, <2>1, <2>2, Zenon DEF Checked
<1>3. CASE Application
  <2>1. UNCHANGED <<len, buf, addr>> /\ (queued' = queued \/ queued' = None \/ queued' = "READY")
    BY <1>3, Zenon DEF Application, eMBInit, eMBEnable, eMBRTUStart, eMBASCIIStart, eMBDisable, eMBClose,
                       eMBRegisterCB
  <2> QED BY <1>2, <2>1, Zenon DEF None
<1>4. CASE Master \/ Listen \/ Quiet \/ ReadFails \/ UNCHANGED vars
  <2>1. UNCHANGED <<len, buf, addr, queued>>
    BY <1>4, Zenon DEF Master, Send, Arrive, Damage, Listen, Quiet, ReadFails, vars
  <2> QED BY <1>2, <2>1, Zenon
<1>5. CASE NothingToDo \/ Transmit
  BY <1>2, <1>5, Zenon DEF NothingToDo, Transmit, None
<1>6. CASE Execute \/ Read
  <2>1. queued' # "EXECUTE"
    <3>1. Execute => queued' = None
      BY ExecuteFootprint, Zenon
    <3>2. Read => queued' \in {queued, "FRAME_RECEIVED"} /\ queued \in {None, "FRAME_RECEIVED"}
      BY ReadFootprint, Zenon
    <3> QED BY <1>6, <3>1, <3>2, Zenon DEF None
  <2> QED BY <2>1, Zenon DEF Checked
<1>7. CASE TimerPoll
  BY <1>2, <1>7, Zenon DEF TimerPoll, RTUTimerT35Expired, ASCIITimerT1SExpired
<1>8. CASE FrameReceived
  <2>1. SUFFICES ASSUME Whole(Received), addr' = To(buf[1]), len' = pos, addr' \in {Own, Broadcast}
                 PROVE  Checked'
    <3>1. queued' = "EXECUTE" => queued' # None
      BY Zenon DEF None
    <3> QED BY <1>8, <3>1, Zenon DEF FrameReceived, Checked
  <2>2. UNCHANGED <<buf, frames>> /\ queued = "FRAME_RECEIVED"
    BY <1>8, Zenon DEF FrameReceived, Event, master
  <2>3. pos >= SizeMin /\ buf[1][1] # 0 /\ \A k \in 1 .. pos : buf[k] = <<buf[1][1], k, pos>>
    BY <1>1, <2>1, WholePrefix, Zenon DEF Received, TypeOK
  <2>4. buf[1][1] > 0
    BY <1>1, <2>2, <2>3, Sizes DEF FirstByte, Char
  <2>5. To(buf[1]) = frames[buf[1][1]].to
    BY <1>1, <2>3, <2>4, KnownByte, Zenon
  <2> QED BY <2>1, <2>2, <2>3, <2>4, <2>5, Zenon DEF Checked
<1> QED BY <1>3, <1>4, <1>5, <1>6, <1>7, <1>8 DEF Next, Poll

-----------------------------------------------------------------------------
(* The table of handlers                                                     *)

\* Unless P is never true, there is one first place where it is.
LEMMA FirstIs ==
    ASSUME NEW P, NEW n \in Nat, DOMAIN P = 1 .. n
    PROVE  /\ First(P) \subseteq 1 .. n
           /\ \A i \in First(P) : P[i] /\ \A j \in 1 .. i - 1 : ~P[j]
           /\ \A i, j \in First(P) : i = j
           /\ (\E i \in 1 .. n : P[i]) => First(P) # {}
<1>1. /\ First(P) \subseteq 1 .. n
      /\ \A i \in First(P) : P[i] /\ \A j \in 1 .. i - 1 : ~P[j]
  BY Zenon DEF First
<1>2. ASSUME NEW i \in First(P), NEW j \in First(P)
      PROVE  i = j
  <2>1. i \in 1 .. n /\ j \in 1 .. n
    BY <1>1, Zenon
  <2>2. i \notin 1 .. j - 1 /\ j \notin 1 .. i - 1
    BY <1>1, Zenon
  <2> QED BY <2>1, <2>2
<1>3. ASSUME NEW i \in 1 .. n, P[i]
      PROVE  First(P) # {}
  <2> DEFINE S == {k \in 1 .. n : P[k]}
  <2>1. S \in SUBSET Nat /\ S # {}
    BY <1>3
  <2>2. PICK m \in S : \A k \in S : m <= k
    <3> DEFINE R == {s \in Nat \X Nat : s[1] < s[2]}
    <3>1. IsWellFoundedOn(R, Nat)
      BY NatLessThanWellFounded, Zenon DEF OpToRel
    <3> HIDE DEF S
    <3>2. \A k, m \in S : k < m => <<k, m>> \in R
      BY <2>1, Zenon
    <3> HIDE DEF R
    <3>3. \E m \in S : \A k \in S : <<k, m>> \notin R
      BY <2>1, <3>1, WFMin, Zenon
    <3>4. \A k \in S : k \in Nat
      BY <2>1, Zenon
    <3>5. PICK m \in S : \A k \in S : ~(k < m)
      BY <3>2, <3>3, Zenon
    <3> QED BY <3>4, <3>5
  <2>3. \A k \in 1 .. m - 1 : k \in 1 .. n /\ ~(m <= k)
    BY <2>2
  <2>4. m \in First(P)
    BY <2>2, <2>3, Zenon DEF First
  <2> QED BY <2>4, Zenon
<1> QED BY <1>1, <1>2, <1>3, Zenon

\* While no entry has been removed, a function that has one is found.
LEMMA LookupFinds ==
    ASSUME Data, Packed, ~removed, NEW c \in Codes,
           NEW p \in 1 .. HandlersMax, handlers[p].code = c
    PROVE  Lookup(c) # None
<1> DEFINE P == [i \in 1 .. HandlersMax |-> handlers[i].code \in {0, c}]
           x == CHOOSE i \in First(P) : TRUE
<1>1. /\ DOMAIN P = 1 .. HandlersMax
      /\ \A i \in 1 .. HandlersMax : P[i] = (handlers[i].code \in {0, c})
  BY Zenon
<1>2. Lookup(c) = IF \E i \in First(P) : handlers[i].code = c THEN handlers[x].h ELSE None
  BY Zenon DEF Lookup
<1> HIDE DEF P
<1>3. /\ First(P) \subseteq 1 .. HandlersMax /\ First(P) # {}
      /\ \A i \in First(P) : P[i] /\ \A j \in 1 .. i - 1 : ~P[j]
  BY <1>1, FirstIs, Sizes, Zenon
<1>4. x \in First(P)
  BY <1>3, Zenon
<1> HIDE DEF x
<1>5. x \in 1 .. HandlersMax /\ P[x] /\ \A j \in 1 .. x - 1 : ~P[j]
  BY <1>3, <1>4, Zenon
<1>6. p \notin 1 .. x - 1
  BY <1>1, <1>5, Zenon
<1>7. p = x \/ x < p
  BY <1>5, <1>6, Sizes
<1>8. c # 0 /\ c \in Nat
  BY ModbusAssumption
<1>9. handlers[x].code = c
  <2>1. handlers[x].code \in {0, c}
    BY <1>1, <1>5, Zenon
  <2>2. handlers[x].code # 0
    BY <1>5, <1>7, <1>8, Zenon DEF Packed
  <2> QED BY <2>1, <2>2, Zenon
<1>10. handlers[x].h # None
  BY <1>5, <1>8, <1>9, Zenon DEF Packed
<1> QED BY <1>2, <1>4, <1>9, <1>10, Zenon

LEMMA PackedStep ==
    ASSUME IInv, [Next]_vars
    PROVE  Packed'
<1> USE DEF upper, Idle, Slave
<1>1. Packed /\ Data /\ removed \in BOOLEAN
  BY Zenon DEF IInv, Types, Flags
<1>2. CASE UNCHANGED <<handlers, removed>>
  BY <1>1, <1>2, Zenon DEF Packed
<1>3. CASE eMBInit \/ eMBEnable \/ eMBDisable \/ eMBClose
  BY <1>2, <1>3, Zenon DEF eMBInit, eMBEnable, eMBDisable, eMBClose
<1>4. CASE Poll
  BY <1>2, <1>4, Zenon DEF Poll, NothingToDo, FrameReceived, Execute, Listen, Read, Quiet, ReadFails,
                           Transmit, TimerPoll, vars
<1>5. CASE Master \/ UNCHANGED vars
  BY <1>2, <1>5, Zenon DEF Master, Send, Arrive, Damage, vars
<1>6. ASSUME NEW r \in Registrations, eMBRegisterCB(r[1], r[2])
      PROVE  Packed'
  <2> DEFINE c == r[1]
             h == r[2]
             P == [i \in 1 .. HandlersMax |->
                      IF h = None THEN handlers[i].code = c ELSE handlers[i].h \in {None, h}]
  <2>1. /\ handlers' = [i \in 1 .. HandlersMax |->
                          IF i \notin First(P) THEN handlers[i]
                          ELSE IF h = None THEN Free ELSE [code |-> c, h |-> h]]
        /\ removed' = (removed \/ h = None)
    BY <1>6, Zenon DEF eMBRegisterCB
  <2>2. SUFFICES ASSUME ~removed, h # None
                 PROVE  Packed'
    BY <2>1, Zenon DEF Packed
  <2>3. c # 0
    BY ModbusAssumption
  <2>4. DOMAIN P = 1 .. HandlersMax /\ \A i \in 1 .. HandlersMax : P[i] = (handlers[i].h \in {None, h})
    BY <2>2, Zenon
  <2> HIDE DEF P
  <2>5. /\ First(P) \subseteq 1 .. HandlersMax /\ \A i, j \in First(P) : i = j
        /\ \A i \in First(P) : \A j \in 1 .. i - 1 : ~P[j]
    BY <2>4, FirstIs, Sizes, Zenon
  <2>6. \A i \in 1 .. HandlersMax :
            handlers'[i] = IF i \notin First(P) THEN handlers[i] ELSE [code |-> c, h |-> h]
    BY <2>1, <2>2, Zenon
  <2> HIDE DEF c, h
  <2>7. \A i \in 1 .. HandlersMax : handlers'[i].code = 0 <=> handlers'[i].h = None
    BY <1>1, <2>2, <2>3, <2>6 DEF Packed
  <2>8. ASSUME NEW i \in 1 .. HandlersMax, NEW j \in 1 .. HandlersMax, i < j, handlers'[j].code # 0
        PROVE  handlers'[i].code # 0
    <3>1. CASE i \in First(P)
      BY <2>3, <2>6, <3>1
    <3>2. CASE i \notin First(P) /\ j \in First(P)
      <4>1. i \in 1 .. j - 1
        BY <2>8
      <4>2. handlers[i].h # None
        BY <2>4, <2>5, <3>2, <4>1, Zenon
      <4> QED BY <1>1, <2>2, <2>6, <3>2, <4>2, SMTT(30) DEF Packed
    <3>3. CASE i \notin First(P) /\ j \notin First(P)
      BY <1>1, <2>2, <2>6, <2>8, <3>3, SMTT(30) DEF Packed
    <3> QED BY <3>1, <3>2, <3>3, Zenon
  <2> QED BY <2>7, <2>8, Zenon DEF Packed
<1> QED BY <1>3, <1>4, <1>5, <1>6, Zenon DEF Next, Application

-----------------------------------------------------------------------------
(* The log                                                                   *)

\* Only handlers and replies are logged, and only Execute begins a reply.
LEMMA LogFootprint ==
    ASSUME [Next]_vars
    PROVE  \/ Execute \/ Transmit
           \/ UNCHANGED log /\ (tx' = FALSE \/ UNCHANGED <<tx, count>>)
<1> USE DEF serial, transmitter, Idle, Slave
<1>1. CASE Application
  BY <1>1, Zenon DEF Application, eMBInit, eMBEnable, eMBDisable, eMBClose, eMBRegisterCB
<1>2. CASE Poll
  BY <1>2, Zenon DEF Poll, NothingToDo, FrameReceived, Listen, Read, Quiet, ReadFails, TimerPoll, vars
<1>3. CASE Master
  BY <1>3, Zenon DEF Master, Send, Arrive, Damage
<1> QED BY <1>1, <1>2, <1>3, Zenon DEF Next, vars

\* One more entry.
LEMMA Logged ==
    ASSUME log \in Seq(Record), NEW e \in Record, log' = Append(log, e)
    PROVE  /\ Len(log) \in Nat /\ DOMAIN log = 1 .. Len(log)
           /\ DOMAIN log' = DOMAIN log \cup {Len(log) + 1} /\ Len(log') = Len(log) + 1
           /\ \A j \in DOMAIN log : log'[j] = log[j]
           /\ log'[Len(log) + 1] = e
           /\ \A j \in DOMAIN log : Frame(j)' = Frame(j) /\ (j \in Executed' <=> j \in Executed)
           /\ Len(log) + 1 \in Executed' <=> e.what = "exec"
           /\ Executed \subseteq DOMAIN log /\ Executed' \subseteq DOMAIN log'
<1>1. /\ Len(log) \in Nat /\ DOMAIN log = 1 .. Len(log)
      /\ DOMAIN log' = DOMAIN log \cup {Len(log) + 1} /\ Len(log') = Len(log) + 1
      /\ \A j \in DOMAIN log : log'[j] = log[j]
      /\ log'[Len(log) + 1] = e
  OBVIOUS
<1> QED BY <1>1, Zenon DEF Executed, Frame

\* What a frame is does not change when others are sent.
LEMMA GoodStays ==
    ASSUME IInv, [Next]_vars, NEW e, Good(e)
    PROVE  Good(e)'
<1>1. frames \in Seq(FrameKinds)
  BY Zenon DEF IInv, Types, Data
<1>2. Len(frames') \in Nat /\ Len(frames) <= Len(frames') /\ \A i \in 1 .. Len(frames) : frames'[i] = frames[i]
  BY <1>1, LineFootprint
<1>3. Len(frames) \in Nat
  BY <1>1
<1>4. e.bytes[1][1] \in 1 .. Len(frames') /\ frames'[e.bytes[1][1]] = frames[e.bytes[1][1]]
  BY <1>2, <1>3, SMTT(30) DEF Good
<1> QED BY <1>4, Zenon DEF Good, Whole

\* A checked frame, executed.
LEMMA CheckedFacts ==
    ASSUME IInv, queued = "EXECUTE"
    PROVE  /\ Whole(SubSeq(buf, 1, len)) /\ SubSeq(buf, 1, len)[1] = buf[1]
           /\ buf[1] \in Char /\ buf[1][1] \in 1 .. Len(frames) /\ buf[1][2] = 1
           /\ frames[buf[1][1]].to = addr /\ addr \in {Own, Broadcast}
           /\ Fn(buf[1]) \in Codes
<1>1. /\ Data /\ Checked /\ Indices /\ len \in 0 .. SizeMax
  BY Zenon DEF IInv, Types, TypeOK
<1>2. len >= SizeMin /\ buf[1][1] > 0 /\ frames[buf[1][1]].to = addr /\ addr \in {Own, Broadcast}
  BY <1>1, Zenon DEF Checked
<1>3. buf[1] \in Char /\ 1 \in 1 .. len
  BY <1>1, <1>2, Sizes DEF Data
<1>4. \A k \in 1 .. len : buf[k] = <<buf[1][1], k, len>>
  BY <1>1, Zenon DEF Checked
<1>5. buf[1][1] # 0 /\ buf[1] = <<buf[1][1], 1, len>>
  <2>1. buf[1] = <<buf[1][1], 1, len>>
    BY <1>3, <1>4, Zenon
  <2> QED BY <1>2, <1>3, <2>1 DEF Char
<1>6. buf[1][1] \in 1 .. Len(frames) /\ Fn(buf[1]) \in Codes
  BY <1>1, <1>2, <1>5, KnownByte, Zenon
<1>7. Whole(SubSeq(buf, 1, len))
  BY <1>1, <1>2, <1>5, <1>4, WholePrefix, Zenon
<1>8. SubSeq(buf, 1, len)[1] = buf[1]
  BY <1>1, <1>3, Prefix, Zenon
<1>9. buf[1][2] = 1
  BY <1>5
<1> QED BY <1>2, <1>3, <1>6, <1>7, <1>8, <1>9, Zenon

LEMMA ExecutedGood ==
    ASSUME IInv, NEW e, queued = "EXECUTE",
           e.bytes = SubSeq(buf, 1, len), e.to = addr, e.by = Lookup(Fn(buf[1])),
           e.due => ~removed /\ \E i \in DOMAIN handlers : handlers[i].code = Fn(buf[1])
    PROVE  Good(e) /\ e.bytes[1][1] = buf[1][1]
<1>1. Data /\ Packed /\ DOMAIN handlers = 1 .. HandlersMax
  BY Zenon DEF IInv, Types, TypeOK
<1>2. e.due => e.by # None
  BY <1>1, CheckedFacts, LookupFinds, Zenon
<1> QED BY <1>2, CheckedFacts, Zenon DEF Good

LEMMA LogStep ==
    ASSUME IInv, [Next]_vars
    PROVE  Log'
<1>1. Log /\ log \in Seq(Record) /\ \A e : Good(e) => Good(e)'
  BY GoodStays, Zenon DEF IInv, Types, Data
<1>2. CASE UNCHANGED log
  BY <1>1, <1>2, Zenon DEF Log, Executed
<1>3. CASE Execute
  <2>1. PICK e \in Record :
              /\ log' = Append(log, e) /\ e.what = "exec" /\ e.bytes = SubSeq(buf, 1, len) /\ e.to = addr
              /\ e.by = Lookup(Fn(buf[1]))
              /\ e.due => ~removed /\ \E i \in DOMAIN handlers : handlers[i].code = Fn(buf[1])
    BY <1>3, ExecuteLog, Zenon
  <2>2. queued = "EXECUTE"
    BY <1>3, Zenon DEF Execute, Event
  <2>3. Good(e)'
    BY <1>1, <2>1, <2>2, ExecutedGood, Zenon
  <2> QED BY <1>1, <2>1, <2>3, Logged, Zenon DEF Log
<1>4. CASE Transmit
  <2>1. log' = log \/ \E e \in Record : log' = Append(log, e) /\ e.what # "exec"
    BY <1>4, TransmitLog, Zenon DEF IInv, Types, Reported
  <2>2. ASSUME NEW e \in Record, log' = Append(log, e), e.what # "exec"
        PROVE  Log'
    BY <1>1, <2>2, Logged, Zenon DEF Log
  <2> QED BY <1>2, <2>1, <2>2, Zenon
<1> QED BY <1>2, <1>3, <1>4, LogFootprint, Zenon

\* A reply that is to be sent stays as it is in the buffer.
LEMMA SendingStep ==
    ASSUME IInv, [Next]_vars
    PROVE  Sending'
<1>1. /\ Sending /\ log \in Seq(Record) /\ buf \in [1 .. SizeMax -> Char] /\ tx \in BOOLEAN
      /\ tx => queued = None /\ pc = "user"
  BY Zenon DEF IInv, Types, Data, Flags, Control
<1>2. ~tx' => Sending'
  BY Zenon DEF Sending
<1>3. CASE tx /\ UNCHANGED <<tx, count, log>>
  <2>1. ~Read /\ ~Execute
    <3>1. Read => ~tx
      BY ReadFootprint, Zenon
    <3>2. Execute => queued = "EXECUTE"
      BY Zenon DEF Execute, Event
    <3> QED BY <1>1, <1>3, <3>1, <3>2, Zenon DEF None
  <2>2. UNCHANGED buf
    BY <2>1, BufferFootprint, Zenon
  <2> QED BY <1>1, <1>3, <2>2, Zenon DEF Sending, Executed, Frame
<1>4. CASE Execute
  <2>1. PICK e \in Record : /\ log' = Append(log, e) /\ e.what = "exec"
                            /\ e.bytes = SubSeq(buf, 1, len) /\ e.to = addr
    BY <1>4, ExecuteLog, Zenon
  <2>2. queued = "EXECUTE" /\ ~tx
    BY <1>1, <1>4, Zenon DEF Execute, Event, None
  <2>3. CASE ~MustReply
    <3>1. tx' = tx
      BY <1>4, <2>3, ExecuteFootprint, Zenon
    <3> QED BY <1>2, <2>2, <3>1, Zenon
  <2>4. CASE MustReply
    <3> PICK n : n = Len(log) + 1
      BY Zenon
    <3> PICK i : i = buf[1][1]
      BY Zenon
    <3>1. n \in Executed' /\ log'[n] = e /\ Len(log') = n
      BY <1>1, <2>1, Logged, Zenon
    <3>2. addr = Own /\ e.bytes[1] = buf[1]
      <4>1. addr # Broadcast
        BY <2>4, Zenon DEF MustReply
      <4>2. addr \in {Own, Broadcast} /\ SubSeq(buf, 1, len)[1] = buf[1]
        BY <2>2, CheckedFacts, Zenon
      <4> QED BY <2>1, <4>1, <4>2, Zenon
    <3>3. Frame(n)' = i
      <4>1. log'[n].bytes[1][1] = i
        BY <2>1, <3>1, <3>2, Zenon
      <4> QED BY <4>1, Zenon DEF Frame
    <3>4. count' \in SizeMin .. SizeMax /\ buf' = Reply(count')
      BY <1>4, <2>4, ExecuteFootprint, Zenon
    <3>5. \A k \in 1 .. count' : buf'[k] = <<-i, k, count'>>
      BY <3>4, Sizes DEF Reply
    <3>6. count' >= SizeMin
      BY <3>4, Sizes
    <3> QED BY <2>1, <3>1, <3>2, <3>3, <3>5, <3>6, Zenon DEF Sending
  <2> QED BY <2>3, <2>4, Zenon
<1>5. CASE Transmit
  <2>1. tx' = FALSE
    BY <1>5, Zenon DEF Transmit
  <2> QED BY <1>2, <2>1, Zenon
<1> QED BY <1>1, <1>2, <1>3, <1>4, <1>5, LogFootprint, Zenon

LEMMA ReplyMatchesStep ==
    ASSUME IInv, [Next]_vars
    PROVE  ReplyMatches'
<1>1. /\ ReplyMatches /\ Sending /\ Log /\ Data /\ log \in Seq(Record) /\ count \in 0 .. SizeMax
  BY Zenon DEF IInv, Types, Data, TypeOK
<1>2. CASE UNCHANGED log
  BY <1>1, <1>2, Zenon DEF ReplyMatches, Executed, Frame
<1>3. ASSUME NEW e \in Record, log' = Append(log, e),
             e.what # "exec" =>
                 /\ Len(log) \in Executed /\ log[Len(log)].to = Own
                 /\ ReplyOrPart(e) /\ e.bytes[1][1] = -Frame(Len(log))
      PROVE  ReplyMatches'
  <2> SUFFICES ASSUME NEW j \in DOMAIN log', log'[j].what # "exec"
               PROVE  /\ j - 1 \in Executed' /\ log'[j - 1].to = Own
                      /\ ReplyOrPart(log'[j]) /\ log'[j].bytes[1][1] = -log'[j - 1].bytes[1][1]
    BY Zenon DEF ReplyMatches, Executed, Frame, ReplyOrPart, Whole
  <2>1. CASE j \in DOMAIN log
    <3>1. log'[j] = log[j]
      BY <1>1, <1>3, <2>1, Logged, Zenon
    <3>2. j \in DOMAIN log \ Executed
      BY <2>1, <3>1, Zenon DEF Executed
    <3>3. j - 1 \in Executed
      BY <1>1, <3>2, Zenon DEF ReplyMatches
    <3>4. log'[j - 1] = log[j - 1] /\ j - 1 \in Executed'
      BY <1>1, <1>3, <3>3, Logged, Zenon
    <3> QED BY <1>1, <3>1, <3>2, <3>4, Zenon DEF ReplyMatches, Frame
  <2>2. CASE j = Len(log) + 1
    <3>1. j - 1 = Len(log) /\ log'[j] = e
      BY <1>1, <2>2, Logged, <1>3, SMTT(30)
    <3>2. Len(log) \in Executed' /\ log'[Len(log)] = log[Len(log)]
      BY <1>1, <1>3, <3>1, Logged, Zenon
    <3> QED BY <1>3, <3>1, <3>2, Zenon DEF Frame
  <2> QED BY <1>1, <1>3, <2>1, <2>2, Logged, Zenon
<1>4. CASE Execute
  <2>1. PICK e \in Record : log' = Append(log, e) /\ e.what = "exec"
    BY <1>4, ExecuteLog, Zenon
  <2> QED BY <1>3, <2>1, Zenon
<1>5. CASE Transmit
  <2> DEFINE i == Frame(Len(log))
  <2>1. tx
    BY <1>5, Zenon DEF Transmit
  <2>2. /\ Len(log) \in Executed /\ log[Len(log)].to = Own
        /\ count >= SizeMin /\ \A k \in 1 .. count : buf[k] = <<-i, k, count>>
    BY <1>1, <2>1, Zenon DEF Sending
  <2>3. i \in Nat \ {0}
    <3>1. frames \in Seq(FrameKinds)
      BY <1>1, Zenon DEF Data
    <3>2. i \in 1 .. Len(frames)
      BY <1>1, <2>2, Zenon DEF Log, Good, Frame
    <3> QED BY <3>1, <3>2
  <2> HIDE DEF i
  <2>4. 1 \in 1 .. count
    BY <1>1, <2>2, Sizes
  <2>5. buf[1] = <<-i, 1, count>>
    BY <2>2, <2>4, Zenon
  <2>6. buf[1][1] = -i /\ buf[1][1] # 0
    BY <2>3, <2>5
  <2>7. ASSUME NEW e \in Record, NEW k \in 0 .. SizeMax, log' = Append(log, e), Reported(e, k)
        PROVE  ReplyMatches'
    <3>1. e.bytes = SubSeq(buf, 1, k) /\ 1 \in 1 .. k /\ \A x \in 1 .. k : x \in 1 .. count
      BY <1>1, <2>4, <2>7 DEF Reported
    <3>2. /\ e.bytes \in Seq(Char) /\ Len(e.bytes) = k
          /\ \A x \in 1 .. k : e.bytes[x] = buf[x]
      BY <1>1, <3>1, Prefix, Zenon
    <3>3. DOMAIN e.bytes = 1 .. k /\ e.bytes[1][1] = -i
      BY <2>6, <3>1, <3>2, SequenceDomain, Zenon
    <3>4. CASE e.what = "reply" /\ k = count
      <4>1. Whole(e.bytes)
        BY <1>1, <2>2, <2>6, <3>1, <3>4, WholePrefix, Zenon
      <4> QED BY <1>3, <2>2, <2>7, <3>3, <3>4, <4>1, Zenon DEF ReplyOrPart, i
    <3>5. CASE e.what = "part"
      <4>1. \A x \in DOMAIN e.bytes : e.bytes[x] = <<e.bytes[1][1], x, count>>
        BY <2>2, <3>1, <3>2, <3>3, Zenon
      <4>2. count \in 1 .. SizeMax
        BY <1>1, <2>4
      <4>3. ReplyOrPart(e)
        BY <3>5, <4>1, <4>2, Zenon DEF ReplyOrPart
      <4> QED BY <1>3, <2>2, <2>7, <3>3, <4>3, Zenon DEF i
    <3> QED BY <2>7, <3>4, <3>5, Zenon DEF Reported
  <2>8. log' = log \/ \E e \in Record, k \in 0 .. SizeMax : log' = Append(log, e) /\ Reported(e, k)
    BY <1>5, TransmitLog, Zenon DEF IInv, Types
  <2> QED BY <1>2, <2>7, <2>8, Zenon
<1> QED BY <1>2, <1>4, <1>5, LogFootprint, Zenon

-----------------------------------------------------------------------------
(* A frame is executed once                                                  *)

LEMMA ExecutedIndex ==
    ASSUME IInv, NEW j \in Executed
    PROVE  Frame(j) \in 1 .. Len(frames)
BY Zenon DEF IInv, Log, Good, Frame

\* The characters of a frame are not sent again.
LEMMA GoneStep ==
    ASSUME IInv, [Next]_vars, NEW i \in 1 .. Len(frames), Gone(i)
    PROVE  Gone(i)'
<1>1. /\ line \in Seq(Char) /\ out \in Seq(Char) /\ frames \in Seq(FrameKinds)
      /\ \A f \in FrameKinds : f.size \in Nat
  BY ModbusAssumption, Zenon DEF IInv, Types, Data
<1>2. Past(line, i) /\ Past(out, i) /\ i # 0
  BY <1>1 DEF Gone
<1>3. Key' = Key
  BY ModeStep, Zenon DEF Key
<1>4. ASSUME NEW s \in Seq(Char), s # << >>, Past(s, i)
      PROVE  Past(Tail(s), i) /\ (Head(s)[1] = i => Head(s)[2] > Key)
  BY <1>4, TailFacts, SMTT(30) DEF Past
<1>5. ASSUME NEW s \in Seq(Char), NEW c \in Char, Past(s, i), c[1] = i => c[2] > Key
      PROVE  Past(Append(s, c), i)
  BY <1>5, AppendFacts, SMTT(30) DEF Past
<1>6. ASSUME Past(line', i), Past(out', i)
      PROVE  Gone(i)'
  BY <1>3, <1>6, Zenon DEF Gone, Past
<1>7. CASE UNCHANGED <<line, out, frames>>
  BY <1>2, <1>6, <1>7, Zenon
<1>8. CASE line' = << >> /\ UNCHANGED <<out, frames>>
  <2>1. Past(<< >>, i)
    BY DEF Past
  <2> QED BY <1>2, <1>6, <1>8, <2>1, Zenon
<1>9. CASE line # << >> /\ line' = Tail(line) /\ UNCHANGED <<out, frames>>
  BY <1>1, <1>2, <1>4, <1>6, <1>9, Zenon
<1>10. ASSUME NEW f \in FrameKinds, frames' = Append(frames, f),
              out' = Characters(Len(frames'), f.size), UNCHANGED line
       PROVE  Gone(i)'
  <2>1. Len(frames') \in Nat /\ Len(frames') > i /\ f.size \in Nat
    BY <1>1, <1>10
  <2>2. \A a \in DOMAIN out' : out'[a][1] \in {0, Len(frames')}
    BY <1>10, <2>1, CharactersOrdered, Zenon
  <2>3. \A a \in DOMAIN out' : out'[a][1] # i
    BY <1>2, <2>1, <2>2
  <2>4. Past(out', i)
    BY <2>3, Zenon DEF Past
  <2> QED BY <1>2, <1>6, <1>10, <2>4, Zenon
<1>11. ASSUME NEW c \in Noise PROVE Past(Append(line, c), i)
  <2>1. c \in Char /\ c[1] # i
    BY <1>2, NoiseChar, Zenon
  <2> QED BY <1>1, <1>2, <1>5, <2>1, Zenon
<1>12. CASE /\ out # << >> /\ out' = Tail(out) /\ UNCHANGED frames
            /\ line' = line \/ \E c \in {Head(out)} \cup Noise : line' = Append(line, c)
  <2>1. Head(out) \in Char
    BY <1>1, <1>2, <1>12
  <2>2. Past(Tail(out), i) /\ (Head(out)[1] = i => Head(out)[2] > Key)
    BY <1>1, <1>2, <1>4, <1>12, Zenon
  <2>3. Past(Append(line, Head(out)), i)
    BY <1>1, <1>2, <1>5, <2>1, <2>2, Zenon
  <2> QED BY <1>2, <1>6, <1>12, <1>11, <2>2, <2>3, Zenon
<1> QED BY <1>2, <1>6, <1>7, <1>8, <1>9, <1>10, <1>12, <1>11, LineFootprint, Zenon

\* Between two characters nothing is received.
LEMMA PendingStep ==
    ASSUME IInv, [Next]_vars, ~Read, ~Execute, Pending'
    PROVE  Pending /\ UNCHANGED buf
<1>1. UNCHANGED <<buf, pos>>
  BY BufferFootprint, Zenon
<1>2. CASE UNCHANGED <<rcv, queued>>
  BY <1>1, <1>2, Zenon DEF Pending, Receiving
<1>3. CASE queued' \notin {"FRAME_RECEIVED", "EXECUTE"} /\ (UNCHANGED rcv \/ rcv' \notin {"RCV", "WAIT_EOF"})
  BY <1>1, <1>3, Zenon DEF Pending, Receiving
<1>4. CASE eMBInit
  BY <1>3, <1>4, Zenon DEF eMBInit, Idle, receiver, None
<1>5. CASE eMBEnable
  <2>1. CASE eMBRTUStart
    <3>1. rcv' = "INIT" /\ UNCHANGED queued
      BY <2>1, Zenon DEF eMBRTUStart
    <3> QED BY <1>1, <3>1, Zenon DEF Pending, Receiving
  <2>2. CASE eMBASCIIStart
    BY <1>3, <2>2, Zenon DEF eMBASCIIStart
  <2> QED BY <1>5, <2>1, <2>2, Zenon DEF eMBEnable
<1>6. CASE FrameReceived
  <2>1. queued = "FRAME_RECEIVED" /\ UNCHANGED rcv /\ queued' \in {"EXECUTE", None} /\ (queued' = "EXECUTE" => Whole(Received))
    BY <1>6, Zenon DEF FrameReceived, Event, receiver, None
  <2>2. CASE queued' = "EXECUTE"
    <3>1. Data /\ pos \in 0 .. SizeMax
      BY Zenon DEF IInv, Types, TypeOK
    <3>2. pos >= SizeMin
      BY <2>1, <2>2, <3>1, WholePrefix, Zenon DEF Received
    <3>3. pos > 0
      BY <3>1, <3>2, Sizes
    <3> QED BY <1>1, <2>1, <3>3, Zenon DEF Pending
  <2>3. CASE queued' = None
    BY <1>3, <2>1, <2>3, Zenon DEF None
  <2> QED BY <2>1, <2>2, <2>3, Zenon
<1>7. CASE NothingToDo
  BY <1>3, <1>7, Zenon DEF NothingToDo, receiver, None
<1>8. CASE Transmit
  BY <1>3, <1>8, Zenon DEF Transmit, receiver
<1>9. CASE TimerPoll
  <2>1. CASE RTUTimerT35Expired
    <3>1. /\ rcv' = "IDLE"
          /\ (rcv = "RCV" /\ queued' = "FRAME_RECEIVED") \/ queued' = queued \/ queued' = "READY"
      BY <2>1, Zenon DEF RTUTimerT35Expired
    <3> QED BY <1>1, <3>1, Zenon DEF Pending, Receiving
  <2>2. CASE ASCIITimerT1SExpired
    <3>1. rcv' = "IDLE" /\ UNCHANGED queued
      BY <2>2, Zenon DEF ASCIITimerT1SExpired
    <3> QED BY <1>1, <3>1, Zenon DEF Pending, Receiving
  <2> QED BY <1>2, <1>9, <2>1, <2>2, Zenon DEF TimerPoll
<1>10. CASE eMBDisable \/ eMBClose \/ (\E r \in Registrations : eMBRegisterCB(r[1], r[2])) \/ Listen \/ Quiet \/ ReadFails \/ Master \/ UNCHANGED vars
  <2>1. UNCHANGED <<rcv, queued>>
    BY <1>10, Zenon DEF eMBDisable, eMBClose, eMBRegisterCB, Listen, Quiet, ReadFails, Master, Send, Arrive, Damage, Slave, Idle, receiver, vars
  <2> QED BY <1>2, <2>1, Zenon
<1> QED BY <1>4, <1>5, <1>6, <1>7, <1>8, <1>9, <1>10, Zenon DEF Next, Application, Poll

\* The first byte of a frame is received.
LEMMA KeyRead ==
    ASSUME IInv, Read, Pending', buf'[1][1] > 0, buf'[1][2] = 1
    PROVE  \/ Pending /\ buf'[1] = buf[1]
           \/ Head(line)[1] = buf'[1][1] /\ Head(line)[2] = Key
<1> DEFINE c == Head(line)
<1>1. /\ c \in Char /\ pc = "rx" /\ queued \in {None, "FRAME_RECEIVED"}
      /\ queued' \in {queued, "FRAME_RECEIVED"}
  BY ReadFootprint, Zenon
<1>2. buf \in [1 .. SizeMax -> Char] /\ pos \in 0 .. SizeMax /\ 1 \in 1 .. SizeMax
  BY Sizes, SMTT(30) DEF IInv, Types, Data, TypeOK
<1>3. queued # "EXECUTE" /\ queued' # "EXECUTE"
  BY <1>1, Zenon DEF None
<1>4. (Receiving' \/ queued' = "FRAME_RECEIVED") /\ pos' > 0
  BY <1>3, Zenon DEF Pending, Receiving
<1> HIDE DEF c
<1>5. CASE buf'[1] = buf[1] /\ pos > 0 /\ (Receiving \/ UNCHANGED <<rcv, queued>>)
  BY <1>4, <1>5, Zenon DEF Pending, Receiving
<1>6. CASE mode = "RTU"
  <2>1. RTUReceiveFSM(c)
    BY <1>6, Zenon DEF Read, c
  <2>2. CASE rcv \in {"INIT", "ERROR"} /\ UNCHANGED <<rcv, buf, pos>>
    <3>1. UNCHANGED queued
      BY <2>1, Zenon DEF RTUReceiveFSM
    <3> QED BY <1>4, <1>5, <2>2, <3>1, Zenon
  <2>3. CASE buf' = [buf EXCEPT ![1] = c]
    <3>1. buf'[1] = c
      BY <1>2, <2>3, Zenon
    <3> QED BY <1>6, <3>1, Zenon DEF Key, c
  <2>4. CASE rcv = "RCV" /\ Room /\ buf' = [buf EXCEPT ![pos + 1] = c] /\ pos' = pos + 1
    <3>1. CASE pos = 0
      BY <2>3, <2>4, <3>1, SMTT(30)
    <3>2. CASE pos > 0
      <4>1. pos + 1 # 1
        BY <1>2, <3>2
      <4>2. buf'[1] = buf[1]
        BY <1>2, <2>4, <4>1, Zenon
      <4> QED BY <1>5, <2>4, <3>2, <4>2, Zenon DEF Receiving
    <3> QED BY <1>2, <3>1, <3>2
  <2>5. CASE rcv = "RCV" /\ UNCHANGED <<buf, pos>>
    BY <1>4, <1>5, <2>5, Zenon DEF Receiving
  <2> QED BY <2>1, <2>2, <2>3, <2>4, <2>5, Zenon DEF RTUReceiveFSM
<1>7. CASE mode = "ASCII"
  <2>1. ASCIIReceiveFSM(c)
    BY <1>7, Zenon DEF Read, c
  <2>2. CASE pos' = 0
    BY <1>4, <2>2
  <2>3. CASE UNCHANGED <<buf, pos>> /\ (Receiving \/ UNCHANGED <<rcv, queued>>)
    BY <1>4, <1>5, <2>3, Zenon
  <2>4. CASE ASCIIDigit(c) /\ rcv = "RCV"
    <3>1. Receiving
      BY <2>4, Zenon DEF Receiving
    <3>2. CASE UNCHANGED pos /\ buf' = [buf EXCEPT ![pos + 1] = c]
      <4>1. pos + 1 # 1
        BY <1>2, <1>4, <3>2
      <4>2. buf'[1] = buf[1]
        BY <1>2, <3>2, <4>1, Zenon
      <4> QED BY <1>4, <1>5, <3>1, <3>2, <4>2, Zenon
    <3>3. CASE buf' = [buf EXCEPT ![pos + 1] = Byte(@, c)]
      <4>1. CASE pos = 0
        <5>1. buf'[1] = Byte(buf[1], c) /\ buf[1] \in Char
          BY <1>2, <3>3, <4>1
        <5>2. c[1] = Byte(buf[1], c)[1] /\ c[2] = 2
          BY <1>1, <5>1, SMTT(30) DEF Byte, Junk, Char, c
        <5> QED BY <1>7, <5>1, <5>2, Zenon DEF Key, c
      <4>2. CASE pos > 0
        <5>1. pos + 1 # 1
          BY <1>2, <4>2
        <5>2. buf'[1] = buf[1]
          BY <1>2, <3>3, <5>1, Zenon
        <5> QED BY <1>5, <3>1, <4>2, <5>2, Zenon
      <4> QED BY <1>2, <4>1, <4>2, SMTT(30)
    <3> QED BY <2>3, <2>4, <3>1, <3>2, <3>3, Zenon DEF ASCIIDigit
  <2>5. CASE rcv \in {"RCV", "WAIT_EOF"} /\ UNCHANGED <<buf, pos>>
    BY <2>3, <2>5, Zenon DEF Receiving
  <2> QED BY <2>1, <2>2, <2>3, <2>4, <2>5, Zenon DEF ASCIIReceiveFSM, ASCIIColon
<1> QED BY <1>6, <1>7, Zenon DEF Read

\* A frame the first byte of which has just been read has not been executed,
\* for those of the frames that were are gone.
LEMMA NewRead ==
    ASSUME IInv, Read, mode = "RTU" \/ ~late, NEW i \in Nat \ {0},
           Head(line)[1] = i, Head(line)[2] = Key
    PROVE  New(i)'
<1>1. line \in Seq(Char) /\ out \in Seq(Char)
  BY Zenon DEF IInv, Types, Data
<1>2. line # << >> /\ line' = Tail(line) /\ UNCHANGED <<out, log>> /\ Head(line) \in Char
  BY ReadFootprint, Zenon
<1>3. Ordered(line) /\ Crossing(line, out) /\ \A j \in Executed : Gone(Frame(j))
  BY Zenon DEF IInv, Line, Once
<1>4. 1 \in DOMAIN line /\ line[1] = Head(line)
  BY <1>1, <1>2
<1>5. Key' = Key
  BY ModeStep, Zenon DEF Key, Next, Poll
<1>6. Past(line', i) /\ Past(out', i)
  <2>1. ASSUME NEW d \in Char, Before(Head(line), d), d[1] = i
        PROVE  d[2] > Key
    BY <2>1, <1>2 DEF Before, Char, Key
  <2>2. \A a \in DOMAIN line' : line'[a] \in Char /\ Before(Head(line), line'[a])
    <3>1. \A a \in DOMAIN Tail(line) : Before(Head(line), Tail(line)[a])
      BY <1>1, <1>2, <1>3, TailKeeps, Zenon
    <3>2. Tail(line) \in Seq(Char)
      BY <1>1, <1>2
    <3> QED BY <1>2, <3>1, <3>2, SMTT(30)
  <2>3. \A a \in DOMAIN out' : out'[a] \in Char /\ Before(Head(line), out'[a])
    BY <1>1, <1>2, <1>3, <1>4, SMTT(30) DEF Crossing
  <2> QED BY <2>1, <2>2, <2>3, Zenon DEF Past
<1>7. ~Past(line, i)
  BY <1>4 DEF Past, Key
<1>8. \A j \in Executed : Frame(j) # i
  BY <1>3, <1>7, Zenon DEF Gone
<1>9. Gone(i)'
  BY <1>5, <1>6, Zenon DEF Gone, Past
<1>10. \A j \in Executed' : Frame(j)' # i
  BY <1>2, <1>8, Zenon DEF Executed, Frame
<1> QED BY <1>9, <1>10, Zenon DEF New

\* Once late, always late.
LEMMA LateStep ==
    ASSUME [Next]_vars, ~late'
    PROVE  ~late
<1>1. UNCHANGED late \/ late' = TRUE
  BY Zenon DEF Next, Application, eMBInit, eMBEnable, eMBDisable, eMBClose, eMBRegisterCB, Poll,
     NothingToDo, FrameReceived, Execute, Listen, Read, Quiet, ReadFails, Transmit, TimerPoll,
     Master, Send, Arrive, Damage, Slave, clock, vars
<1> QED BY <1>1

\* Only eMBPoll with EV_EXECUTE executes a frame.
LEMMA ExecutedStep ==
    ASSUME IInv, log \in Seq(Record), [Next]_vars, ~Execute
    PROVE  Executed' = Executed /\ \A j \in Executed : Frame(j)' = Frame(j)
<1>1. CASE UNCHANGED log
  BY <1>1, Zenon DEF Executed, Frame
<1>2. CASE Transmit
  <2>1. ASSUME NEW e \in Record, log' = Append(log, e), e.what # "exec"
        PROVE  Executed' = Executed /\ \A j \in Executed : Frame(j)' = Frame(j)
    <3>1. ASSUME NEW j PROVE j \in Executed' <=> j \in Executed
      BY <2>1, Logged, Zenon
    <3>2. Executed' = Executed
      BY <3>1, Zenon
    <3> QED BY <2>1, <3>2, Logged, Zenon
  <2>2. log' = log \/ \E e \in Record : log' = Append(log, e) /\ e.what # "exec"
    BY <1>2, TransmitLog, Zenon DEF IInv, Types, Reported
  <2> QED BY <1>1, <2>1, <2>2, Zenon
<1> QED BY <1>1, <1>2, LogFootprint, Zenon

LEMMA OnceStep ==
    ASSUME IInv, [Next]_vars
    PROVE  Once'
<1> SUFFICES ASSUME mode' = "RTU" \/ ~late'
             PROVE  /\ \A i, j \in Executed' : Frame(i)' = Frame(j)' => i = j
                    /\ \A j \in Executed' : Gone(Frame(j))'
                    /\ Pending' /\ buf'[1][1] > 0 /\ buf'[1][2] = 1 => New(buf[1][1])'
  BY Zenon DEF Once
<1>1. mode = "RTU" \/ ~late
  BY ModeStep, LateStep, Zenon
<1>2. /\ \A i, j \in Executed : Frame(i) = Frame(j) => i = j
      /\ \A j \in Executed : Gone(Frame(j))
      /\ Pending /\ buf[1][1] > 0 /\ buf[1][2] = 1 => New(buf[1][1])
  BY <1>1, Zenon DEF IInv, Once
<1>3. log \in Seq(Record) /\ buf \in [1 .. SizeMax -> Char] /\ 1 \in 1 .. SizeMax /\ Indices
  BY Sizes DEF IInv, Types, Data
<1>4. ASSUME NEW i \in 1 .. Len(frames), Gone(i), NEW j, Frame(j)' = i
      PROVE  Gone(Frame(j))'
  <2>1. Gone(i)'
    BY <1>4, GoneStep, Zenon
  <2> QED BY <1>4, <2>1, Zenon DEF Gone, Past
<1>5. CASE ~Execute
  <2>1. Executed' = Executed /\ \A j \in Executed : Frame(j)' = Frame(j)
    BY <1>3, <1>5, ExecutedStep, Zenon
  <2>2. ASSUME NEW i \in Executed', NEW j \in Executed', Frame(i)' = Frame(j)'
        PROVE  i = j
    <3>1. i \in Executed /\ j \in Executed /\ Frame(i) = Frame(j)
      BY <2>1, <2>2, Zenon
    <3> QED BY <1>2, <3>1, Zenon
  <2>3. \A j \in Executed' : Gone(Frame(j))'
    BY <1>2, <1>4, <2>1, ExecutedIndex, Zenon
  <2>4. ASSUME Pending', buf'[1][1] > 0, buf'[1][2] = 1
        PROVE  New(buf[1][1])'
    <3> PICK i : i = buf'[1][1]
      BY Zenon
    <3>1. SUFFICES New(i)'
      BY Zenon DEF New, Gone, Past
    <3>2. CASE Pending /\ buf'[1] = buf[1]
      <4>1. New(i) /\ i = buf[1][1] /\ i > 0
        BY <1>2, <2>4, <3>2, Zenon
      <4>2. i \in 1 .. Len(frames)
        BY <1>3, <4>1, SMTT(30) DEF Indices, IInv, Types, Data
      <4>3. Gone(i)'
        BY <4>1, <4>2, GoneStep, Zenon DEF New
      <4> QED BY <2>1, <4>1, <4>3, Zenon DEF New
    <3>3. CASE Read /\ ~(Pending /\ buf'[1] = buf[1])
      <4>1. Head(line)[1] = i /\ Head(line)[2] = Key
        BY <2>4, <3>3, KeyRead, Zenon
      <4>2. Head(line)[1] \in 0 .. Len(frames)
        BY <3>3, ReadFootprint, Zenon
      <4>3. i \in Nat \ {0}
        BY <2>4, <4>1, <4>2, SMTT(30)
      <4> QED BY <1>1, <3>3, <4>1, <4>3, NewRead, Zenon
    <3>4. CASE ~Read
      <4>1. Pending /\ buf' = buf
        BY <1>5, <2>4, <3>4, PendingStep, Zenon
      <4> QED BY <3>2, <4>1, Zenon
    <3> QED BY <3>2, <3>3, <3>4, Zenon
  <2> QED BY <2>2, <2>3, <2>4, Zenon
<1>6. CASE Execute
  <2>1. PICK e \in Record : /\ log' = Append(log, e) /\ e.what = "exec"
                            /\ e.bytes = SubSeq(buf, 1, len)
    BY <1>6, ExecuteLog, Zenon
  <2>2. queued = "EXECUTE" /\ queued' = None /\ pc = "user" /\ UNCHANGED rcv
    BY <1>6, ExecuteFootprint, Zenon
  <2> PICK n : n = Len(log) + 1
    BY Zenon
  <2> PICK i : i = buf[1][1]
    BY Zenon
  <2>3. i \in 1 .. Len(frames) /\ buf[1][2] = 1 /\ e.bytes[1] = buf[1]
    BY <2>1, <2>2, CheckedFacts, Zenon
  <2>4. New(i)
    <3>1. buf[1][1] > 0
      BY <2>3
    <3> QED BY <1>2, <2>2, <2>3, <3>1, Zenon DEF Pending
  <2>5. /\ \A j \in Executed' : j \in Executed \/ j = n
        /\ \A j \in Executed : Frame(j)' = Frame(j)
        /\ log'[n] = e
    BY <1>3, <2>1, Logged, Zenon
  <2>6. Frame(n)' = i
    <3>1. log'[n].bytes[1][1] = i
      BY <2>3, <2>5, Zenon
    <3> QED BY <3>1, Zenon DEF Frame
  <2>7. ASSUME NEW j \in Executed', NEW k \in Executed', Frame(j)' = Frame(k)'
        PROVE  j = k
    <3>1. CASE j \in Executed /\ k \in Executed
      <4>1. Frame(j) = Frame(k)
        BY <2>5, <2>7, <3>1, Zenon
      <4> QED BY <1>2, <3>1, <4>1, Zenon
    <3>2. \A l \in Executed : Frame(l)' # i
      BY <2>4, <2>5, Zenon DEF New
    <3>3. j \in Executed /\ k = n => FALSE
      BY <2>6, <2>7, <3>2, Zenon
    <3>4. k \in Executed /\ j = n => FALSE
      BY <2>6, <2>7, <3>2, Zenon
    <3> QED BY <2>5, <3>1, <3>3, <3>4, Zenon
  <2>8. \A j \in Executed' : Gone(Frame(j))'
    <3>1. ASSUME NEW j \in Executed PROVE Gone(Frame(j))'
      BY <1>2, <1>4, <2>5, ExecutedIndex, Zenon
    <3>2. Gone(Frame(n))'
      BY <1>4, <2>3, <2>4, <2>6, Zenon DEF New
    <3> QED BY <2>5, <3>1, <3>2, Zenon
  <2>9. ~Pending'
    <3>1. rcv \notin {"RCV", "WAIT_EOF"}
      <4>1. Control /\ mode \in {"RTU", "ASCII"}
        BY Zenon DEF IInv, Types, Flags
      <4>2. mode = "RTU" => rcv \in {"IDLE", "INIT"}
        BY <2>2, <4>1, Zenon DEF Control
      <4>3. mode = "ASCII" => rcv = "IDLE"
        BY <1>1, <2>2, <4>1, Zenon DEF Control
      <4> QED BY <4>1, <4>2, <4>3, Zenon
    <3> QED BY <2>2, <3>1, Zenon DEF Pending, Receiving, None
  <2> QED BY <2>7, <2>8, <2>9, Zenon
<1> QED BY <1>5, <1>6, Zenon

-----------------------------------------------------------------------------
(* Events                                                                    *)

LEMMA EventStep ==
    ASSUME IInv, [Next]_vars, eMBState = "ENABLED", queued # None, queued' \notin {None, queued}
    PROVE  FrameReceived
<1>1. Control /\ TypeOK /\ mode \in {"RTU", "ASCII"}
  BY Zenon DEF IInv, Types, Flags
<1>2. CASE Read
  <2>1. queued \in {None, "FRAME_RECEIVED"} /\ queued' \in {queued, "FRAME_RECEIVED"}
    BY <1>2, ReadFootprint, Zenon
  <2> QED BY <2>1, Zenon
<1>3. CASE TimerPoll
  <2>1. pc = "timer" /\ queued \in {None, "FRAME_RECEIVED", "FRAME_SENT"}
    BY <1>1, <1>3, Zenon DEF TimerPoll, Control
  <2>2. CASE mode = "RTU" /\ RTUTimerT35Expired
    <3>1. queued # "FRAME_RECEIVED"
      BY <1>1, <2>1, <2>2, Zenon DEF Control
    <3>2. rcv = "IDLE"
      BY <1>1, <2>1, <3>1, Zenon DEF Control
    <3>3. queued' = queued
      BY <2>2, <3>2, Zenon DEF RTUTimerT35Expired
    <3> QED BY <3>3, Zenon
  <2>3. UNCHANGED queued \/ (mode = "RTU" /\ RTUTimerT35Expired)
    BY <1>3, Zenon DEF TimerPoll, ASCIITimerT1SExpired
  <2> QED BY <2>2, <2>3, Zenon
<1>4. CASE eMBInit \/ eMBEnable
  BY <1>4, Zenon DEF eMBInit, eMBEnable
<1>5. CASE eMBDisable \/ eMBClose \/ (\E r \in Registrations : eMBRegisterCB(r[1], r[2]))
           \/ Listen \/ Quiet \/ ReadFails \/ Master \/ UNCHANGED vars
  <2>1. UNCHANGED queued
    BY <1>5, Zenon DEF eMBDisable, eMBClose, eMBRegisterCB, Listen, Quiet, ReadFails, Master,
       Send, Arrive, Damage, Slave, vars
  <2> QED BY <2>1, Zenon
<1>6. CASE NothingToDo \/ Execute
  <2>1. queued' = None
    BY <1>6, Zenon DEF NothingToDo, Execute
  <2> QED BY <2>1, Zenon
<1>7. CASE Transmit
  BY <1>7, Zenon DEF Transmit, NoEvent
<1> QED BY <1>2, <1>3, <1>4, <1>5, <1>6, <1>7, Zenon DEF Next, Application, Poll

\* The timer does not run while an event waits.
LEMMA TimerStep ==
    ASSUME IInv, queued # None, TimerPoll, timer
    PROVE  mode = "ASCII"
<1>1. Control /\ Flags
  BY Zenon DEF IInv, Types
<1>2. pc = "timer"
  BY Zenon DEF TimerPoll
<1>3. CASE mode = "RTU"
  <2>1. queued = "FRAME_SENT"
    BY <1>1, <1>2, <1>3, Zenon DEF Control
  <2>2. rcv = "IDLE" /\ ~stray
    BY <1>1, <1>2, <1>3, <2>1, Zenon DEF Control, Flags
  <2> QED BY <1>1, <2>2, Zenon DEF Control, AssertsHold
<1> QED BY <1>1, <1>3, Zenon DEF Flags

-----------------------------------------------------------------------------
(* The invariant                                                             *)

LEMMA InitTypes ==
    ASSUME Init
    PROVE  Types
<1>1. mode \in {"RTU", "ASCII"}
  BY ModbusAssumption, Zenon DEF Init
<1>2. TypeOK
  <2>1. DOMAIN buf = 1 .. SizeMax /\ DOMAIN handlers = 1 .. HandlersMax
    BY Zenon DEF Init
  <2>2. pos \in 0 .. SizeMax /\ len \in 0 .. SizeMax /\ count \in 0 .. SizeMax
    BY Sizes, SMTT(30) DEF Init
  <2>3. rcv \in (IF mode = "RTU" THEN {"INIT", "IDLE", "RCV", "ERROR"} ELSE {"IDLE", "RCV", "WAIT_EOF"})
    BY Zenon DEF Init
  <2>4. ~low
    BY Zenon DEF Init
  <2> QED BY <2>1, <2>2, <2>3, <2>4, Zenon DEF Init, TypeOK
<1>3. Data
  <2>1. buf \in [1 .. SizeMax -> Char]
    BY JunkChar, Zenon DEF Init
  <2>2. out \in Seq(Char) /\ line \in Seq(Char) /\ frames \in Seq(FrameKinds) /\ log \in Seq(Record)
    BY SMTT(30) DEF Init
  <2>3. handlers \in [1 .. HandlersMax -> Entry]
    <3>1. Free \in Entry
      BY Zenon DEF Free, Entry, Handlers
    <3>2. ASSUME NEW i \in DOMAIN BuiltIn PROVE BuiltIn[i] \in Entry
      <4>1. BuiltIn[i] \in [code : Codes, h : {BuiltIn[i].h}]
        BY ModbusAssumption, Zenon
      <4>2. BuiltIn[i].h \in Handlers
        BY Zenon DEF Handlers
      <4> QED BY <4>1, <4>2, Zenon DEF Entry
    <3> QED BY <3>1, <3>2, Zenon DEF Init
  <2> QED BY <2>1, <2>2, <2>3, Zenon DEF Data
<1>4. Flags
  BY <1>1, Zenon DEF Flags, Init
<1> QED BY <1>2, <1>3, <1>4, Zenon DEF Types

LEMMA InitInv ==
    ASSUME Init
    PROVE  IInv
<1>1. Control
  <2>1. ~rx /\ ~tx /\ ~timer /\ ~late /\ pc = "user" /\ eMBState = "NOT_INITIALIZED"
    BY Zenon DEF Init
  <2>2. /\ snd = "IDLE" /\ queued = None /\ (mode = "ASCII" => rcv = "IDLE")
    BY Zenon DEF Init
  <2> QED BY <2>1, <2>2, Zenon DEF Control, AssertsHold, None
<1>2. log = << >> /\ line = << >> /\ out = << >> /\ frames = << >> /\ queued = None
  BY Zenon DEF Init
<1>3. Executed = {}
  BY <1>2 DEF Executed
<1>4. Line
  BY <1>2 DEF Line, Known, Ordered, Crossing
<1>5. \A k \in 1 .. SizeMax : buf[k][1] = 0
  BY Zenon DEF Init, Junk
<1>6. Indices
  BY <1>2, <1>5, SMTT(30) DEF Indices
<1>7. FirstByte
  BY <1>5, Sizes DEF FirstByte
<1>8. Checked
  BY <1>2, Zenon DEF Checked, None
<1>9. Packed
  <2>1. PICK n \in 0 .. HandlersMax : DOMAIN BuiltIn = 1 .. n
    BY ModbusAssumption, Zenon
  <2>2. /\ \A i \in DOMAIN BuiltIn : BuiltIn[i].code # 0 /\ BuiltIn[i].h # None
        /\ HandlersMax \in Nat
    BY ModbusAssumption, SMTT(30)
  <2>3. \A i \in 1 .. HandlersMax : handlers[i] = IF i <= n THEN BuiltIn[i] ELSE Free
    BY <2>1, <2>2, SMTT(30) DEF Init
  <2>4. \A i \in 1 .. HandlersMax : /\ i <= n <=> handlers[i].code # 0
                                    /\ i <= n <=> handlers[i].h # None
    BY <2>1, <2>2, <2>3, SMTT(30) DEF Free
  <2>5. \A i, j \in 1 .. HandlersMax : i < j /\ handlers[j].code # 0 => handlers[i].code # 0
    BY <2>1, <2>4, SMTT(30)
  <2> QED BY <2>4, <2>5, Zenon DEF Packed
<1>10. Log /\ ReplyMatches
  BY <1>2, <1>3 DEF Log, ReplyMatches
<1>11. Sending
  BY Zenon DEF Sending, Init
<1>12. Once
  <2>1. buf[1][1] = 0
    BY <1>5, Sizes, SMTT(30)
  <2> QED BY <1>3, <2>1, SMTT(30) DEF Once
<1> QED BY <1>1, <1>4, <1>6, <1>7, <1>8, <1>9, <1>10, <1>11, <1>12, InitTypes DEF IInv

LEMMA NextInv ==
    ASSUME IInv, [Next]_vars
    PROVE  IInv'
<1>1. Types'
  BY TypeOKStep, DataStep, FlagsStep, Zenon DEF Types
<1> QED BY <1>1, ControlStep, LineStep, IndicesStep, FirstByteStep, CheckedStep, PackedStep,
           LogStep, SendingStep, ReplyMatchesStep, OnceStep, Zenon DEF IInv

\* The inductive invariant of the slave.
THEOREM Invariance == Spec => []IInv
<1>1. Init => IInv
  BY InitInv, Zenon
<1>2. IInv /\ [Next]_vars => IInv'
  BY NextInv, Zenon
<1> QED BY <1>1, <1>2, PTL DEF Spec

\* The states of the protocol stack, the port and both receivers, and the
\* bounds of the buffer: usRcvBufferPos never leaves it, nor does the second
\* nibble of a character in ASCII mode.
THEOREM TypeCorrect == Spec => []TypeOK
<1>1. IInv => TypeOK
  BY Zenon DEF IInv, Types
<1> QED BY <1>1, Invariance, PTL

\* What a handler is given by eMBPoll is a whole frame as the master has sent
\* it, to this slave or to all, and a registered function finds its handler.
THEOREM FramesGenuine == Spec => []Genuine
<1>1. ASSUME IInv PROVE Genuine
  <2> SUFFICES ASSUME NEW j \in Executed
               PROVE  /\ Whole(log[j].bytes) /\ Frame(j) > 0
                      /\ frames[Frame(j)].to = log[j].to /\ log[j].to \in {Own, Broadcast}
                      /\ log[j].due => log[j].by # None
    BY Zenon DEF Genuine
  <2>1. /\ Whole(log[j].bytes) /\ Frame(j) \in 1 .. Len(frames)
        /\ frames[Frame(j)].to = log[j].to /\ log[j].to \in {Own, Broadcast}
        /\ log[j].due => log[j].by # None
    BY <1>1, Zenon DEF IInv, Log, Good, Frame
  <2>2. Frame(j) > 0
    BY <2>1, SMTT(30)
  <2> QED BY <2>1, <2>2, Zenon
<1> QED BY <1>1, Invariance, PTL

\* eMBPoll executes no frame twice, whatever is lost or garbled on the line and
\* whenever the application disables and enables the slave; in ASCII mode as
\* long as no timer was late.
THEOREM ExecutedOnce == Spec => []AtMostOnce
<1>1. IInv => AtMostOnce
  BY Zenon DEF IInv, Once, AtMostOnce
<1> QED BY <1>1, Invariance, PTL

\* Every reply the transmitter writes answers the frame executed last, which was
\* addressed to this slave, and is whole, or the beginning of one if
\* prvbMBPortSerialWrite failed.
THEOREM RepliesMatch == Spec => []ReplyMatches
<1>1. IInv => ReplyMatches
  BY Zenon DEF IInv
<1> QED BY <1>1, Invariance, PTL

\* The assertions of the state machines of mbrtu.c and mbascii.c hold, but for
\* a transmission cut off by eMBDisable and a timer left running by a stray CR.
THEOREM Asserts == Spec => []AssertsHold
<1>1. IInv => AssertsHold
  BY Zenon DEF IInv, Control
<1> QED BY <1>1, Invariance, PTL

\* While the slave is enabled, xMBPortEventPost overwrites an event that eMBPoll
\* has yet to take only with one of the same kind, and in RTU mode not at all.
THEOREM EventsKept == Spec => NoEventLost
<1>1. ASSUME IInv, [Next]_vars
      PROVE  [eMBState = "ENABLED" /\ queued # None =>
                  /\ queued' \notin {None, queued} => FrameReceived
                  /\ TimerPoll /\ timer => mode = "ASCII"]_vars
  BY <1>1, EventStep, TimerStep, Zenon
<1> QED BY <1>1, Invariance, PTL DEF Spec, NoEventLost
=============================================================================
