----------------------------- MODULE TftpcProof -----------------------------
(* Proofs about Tftpc, for files of fewer than BlockMod blocks, any number   *)
(* of ports, any retry limit and any behaviour of the network.               *)
EXTENDS Tftpc, TLAPS

SmallFile == Len(File) < BlockMod

Prefix(s) ==
    /\ s \in Seq(Blocks) /\ Len(s) <= Len(File)
    /\ \A i \in 1..Len(s) : s[i] = File[i]

\* Every DATA packet carries the block of its number, from whichever side.
GoodPacket(m) ==
    /\ m \in Packets
    /\ m.kind = "data" => m.port \in Ports /\ m.num \in 1..Len(File) /\ m.data = File[m.num]
    /\ m.kind = "ack" => m.port \in Ports

NetInv == \A m \in net : GoodPacket(m)

ServerInv ==
    /\ open \subseteq Ports
    /\ blocks \in [Ports -> Seq(Blocks)]
    /\ \A p \in Ports : Prefix(blocks[p])

GetInv ==
    /\ pc \in {"rrq", "recv", "ok", "error"}
    /\ Prefix(file)
    /\ pc \in {"rrq", "recv"} => blockno = Len(file) + 1 /\ blockno <= Len(File)
    /\ pc \in {"rrq", "recv"} => (blockno = 1 <=> port = NoPort)
    /\ port = NoPort => aborted = {}
    /\ port \notin aborted
    /\ pc = "rrq" => blockno = 1
    /\ pc = "ok" => Len(file) = Len(File)
    /\ blockno \in 1..Len(File) /\ offset = 0 /\ tries = 0
    /\ retry \in 0..TFTP_RETRIES
    /\ pc \in {"rrq", "recv"} => retry < TFTP_RETRIES

PutInv ==
    /\ pc \in {"wrq", "data", "ack", "ok", "error", "crash"}
    /\ file = <<>> /\ aborted = {}
    /\ offset \in 0..(Len(File) - 1) /\ blockno = offset + 1
    /\ pc = "wrq" => phase = "req"
    /\ pc \in {"data", "ok"} => phase = "data"
    /\ phase = "req" => offset = 0 /\ \A m \in net : m.kind # "data"
    /\ phase = "data" => port # NoPort /\ offset <= Len(blocks[port])
    /\ \A m \in net : m.kind = "data" => m.port = port
    /\ \A m \in net : m.kind = "ack" => m.num <= Len(blocks[m.port])
    /\ \A p \in Ports : blocks[p] # <<>> => p = port
    /\ pc = "ok" => Len(blocks[port]) = Len(File)
    /\ retry \in 0..(TFTP_RETRIES + 1) /\ tries \in 0..TFTP_RETRIES
    /\ pc # "error" => retry <= TFTP_RETRIES
    /\ pc = "ack" => tries < TFTP_RETRIES

IInv ==
    /\ op \in {"get", "put"}
    /\ phase \in {"req", "data"}
    /\ port \in Ports \cup {NoPort}
    /\ aborted \subseteq Ports
    /\ NetInv
    /\ ServerInv
    /\ op = "get" => GetInv
    /\ op = "put" => PutInv
-----------------------------------------------------------------------------
LEMMA ModSmall == \A n \in Nat : n < BlockMod => n % BlockMod = n
  BY NumAssumption

\* A sequence that is not empty has a length.
LEMMA EmptySequence ==
    ASSUME NEW S PROVE << >> \in Seq(S) /\ \A s \in Seq(S) : s # << >> => Len(s) # 0
  OBVIOUS

LEMMA EmptyLength == Len(<< >>) = 0
  OBVIOUS

LEMMA FileFacts ==
    /\ Len(File) \in Nat \ {0}
    /\ \A i \in 1..Len(File) : File[i] \in Blocks
    /\ File[Len(File)] \in Short
  BY FileAssumption

\* Adding the next block to a prefix of the file gives a prefix again.
LEMMA PrefixAppend ==
    ASSUME NEW s, Prefix(s), Len(s) < Len(File)
    PROVE  /\ Prefix(Append(s, File[Len(s) + 1]))
           /\ Len(Append(s, File[Len(s) + 1])) = Len(s) + 1
           /\ Append(s, File[Len(s) + 1]) # <<>>
  <1> DEFINE b == File[Len(s) + 1]
             a == Append(s, b)
  <1>1. s \in Seq(Blocks) /\ Len(s) \in Nat /\ b \in Blocks
    BY FileFacts DEF Prefix
  <1>2. a \in Seq(Blocks) /\ Len(a) = Len(s) + 1
    BY <1>1
  <1>0. a # <<>>
    <2>1. Len(a) # 0
      BY <1>1, <1>2
    <2>. QED
      BY <2>1, EmptyLength, Zenon
  <1>3. a[Len(s) + 1] = b /\ \A i \in 1..Len(s) : a[i] = s[i]
    BY <1>1
  <1>4. \A i \in 1..Len(a) : a[i] = File[i]
    BY <1>1, <1>2, <1>3 DEF Prefix
  <1>. QED
    BY <1>0, <1>1, <1>2, <1>4, FileFacts DEF Prefix

LEMMA PrefixWhole == ASSUME NEW s, Prefix(s), Len(s) = Len(File) PROVE s = File
  BY FileAssumption DEF Prefix

LEMMA RequestGood == \A p \in Ports \cup {WellKnown} : GoodPacket(Request(p))
  BY NumAssumption DEF GoodPacket, Request, Packet, Packets

LEMMA AckGood ==
    \A p \in Ports, n \in 0..(BlockMod - 1) : GoodPacket(Ack(p, n))
  BY Zenon DEF GoodPacket, Ack, Packet, Packets

LEMMA DataGood ==
    ASSUME SmallFile
    PROVE  \A p \in Ports, n \in 1..Len(File) : GoodPacket(Data(p, n, File[n]))
  BY FileFacts, NumAssumption DEF GoodPacket, Data, Packet, Packets, SmallFile

LEMMA NetSend == ASSUME NetInv, NEW m, GoodPacket(m), Send(m) PROVE NetInv'
  BY Zenon DEF NetInv, Send, GoodPacket

LEMMA InitIInv == ASSUME SmallFile, Init PROVE IInv
  <1> USE DEF Init, IInv
  <1>1. Prefix(<<>>)
    BY FileFacts DEF Prefix
  <1>2. NetInv
    BY Zenon DEF NetInv
  <1>3. ServerInv
    BY <1>1 DEF ServerInv
  <1>4. op = "get" => GetInv
    BY <1>1, FileFacts, NumAssumption DEF GetInv
  <1>5. op = "put" => PutInv
    BY FileFacts, NumAssumption DEF PutInv
  <1>. QED
    BY <1>2, <1>3, <1>4, <1>5, Zenon

-----------------------------------------------------------------------------
(* The steps of tftpget_cb.                                                  *)

LEMMA GetKeeps ==
    ASSUME SmallFile, IInv, op = "get",
           GetStep \/ GetForeign \/ (\E p \in open : GetWrongPort(p) \/ GetBadPacket(p))
    PROVE  IInv'
  <1> USE DEF IInv
  <1>t. BlockMod \in Nat /\ TFTP_RETRIES \in Nat \ {0}
    BY NumAssumption, Zenon
  <1>c. ASSUME GetCounted, pc = "recv" PROVE IInv'
    <2>1. NetInv'
      BY <1>c, Zenon DEF GetCounted, NetInv
    <2>2. ServerInv'
      BY <1>c, Zenon DEF GetCounted, ServerInv, server
    <2>3. GetInv'
      BY <1>c, <1>t DEF GetCounted, GetInv, Await
    <2>. QED
      BY <1>c, <2>1, <2>2, <2>3, Zenon DEF GetCounted
  <1>1. CASE SendRRQ
    <2>1. NetInv'
      BY <1>1, RequestGood, NetSend, Zenon DEF SendRRQ, NetInv
    <2>2. ServerInv'
      BY <1>1, Zenon DEF SendRRQ, ServerInv, server
    <2>3. GetInv'
      BY <1>1, Zenon DEF SendRRQ, GetInv
    <2>. QED
      BY <1>1, <2>1, <2>2, <2>3, Zenon DEF SendRRQ
  <1>2. CASE GetTimeout
    BY <1>2, <1>c, Zenon DEF GetTimeout
  <1>3. CASE GetForeign
    <2>1. NetInv'
      BY <1>3, Zenon DEF GetForeign, NetInv
    <2>2. ServerInv'
      BY <1>3, Zenon DEF GetForeign, ServerInv, server
    <2>3. GetInv'
      BY <1>3, Zenon DEF GetForeign, GetInv, Await
    <2>. QED
      BY <1>3, <2>1, <2>2, <2>3, Zenon DEF GetForeign
  <1>4. ASSUME NEW p \in open, GetWrongPort(p) PROVE IInv'
    <2>1. NetInv'
      BY <1>4, Zenon DEF GetWrongPort, NetInv
    <2>2. ServerInv'
      BY <1>4, Zenon DEF GetWrongPort, ServerInv, server
    <2>3. GetInv'
      BY <1>4, Zenon DEF GetWrongPort, GetInv, Await
    <2>. QED
      BY <1>4, <2>1, <2>2, <2>3, Zenon DEF GetWrongPort, ServerInv
  <1>5. ASSUME NEW p \in open, GetBadPacket(p) PROVE IInv'
    BY <1>5, <1>c, Zenon DEF GetBadPacket
  <1>6. ASSUME NEW m \in net, GetOtherBlock(m) PROVE IInv'
    BY <1>6, <1>c, Zenon DEF GetOtherBlock
  <1>7. ASSUME NEW m \in net, GetBlock(m) PROVE IInv'
    <2>1. /\ m.port \in Ports /\ m.num = blockno /\ m.data = File[blockno]
          /\ blockno = Len(file) + 1 /\ blockno \in 1..Len(File)
          /\ Prefix(file) /\ file \in Seq(Blocks)
      BY <1>7, Zenon DEF GetBlock, NetInv, GoodPacket, GetInv, Prefix
    <2>2. /\ Prefix(Append(file, m.data)) /\ Len(Append(file, m.data)) = Len(file) + 1
          /\ Append(file, m.data) # <<>>
      BY <2>1, PrefixAppend, FileFacts
    <2>3. m.data \in Short <=> blockno = Len(File)
      BY <2>1, FileAssumption, Zenon
    <2>4. m.data \notin Short => (blockno + 1) % BlockMod = blockno + 1
      BY <2>1, <2>3, <1>t, ModSmall, FileFacts DEF SmallFile
    <2>5. NetInv'
      <3>1. blockno \in 0..(BlockMod - 1)
        BY <2>1, <1>t, FileFacts DEF SmallFile
      <3>. QED
        BY <1>7, <2>1, <3>1, AckGood, NetSend, Zenon DEF GetBlock, NetInv
    <2>6. ServerInv'
      BY <1>7, Zenon DEF GetBlock, ServerInv, server
    <2>7. port' \in Ports /\ port' \notin aborted' /\ port' # NoPort
      BY <1>7, <2>1, PortAssumption, Zenon DEF GetBlock, GetInv
    <2>8. GetInv'
      <3>1. CASE pc' = "error"
        <4>0. file' \in {file, Append(file, m.data)}
          BY <1>7, <3>1, Zenon DEF GetBlock, Await
        <4>2. Prefix(file')
          BY <2>1, <2>2, <4>0, Zenon
        <4>1. UNCHANGED <<blockno, retry, offset, tries, aborted>>
          BY <1>7, <3>1, Zenon DEF GetBlock, Await
        <4>. QED
          BY <1>7, <1>t, <2>7, <3>1, <4>1, <4>2, Zenon DEF GetBlock, GetInv
      <3>2. CASE pc' = "ok"
        <4>1. /\ m.data \in Short /\ file' = Append(file, m.data)
              /\ UNCHANGED <<blockno, retry, offset, tries, aborted>>
          BY <1>7, <2>1, <3>2, Zenon DEF GetBlock, Await
        <4>. QED
          BY <1>7, <1>t, <2>1, <2>2, <2>3, <2>7, <3>2, <4>1, Zenon DEF GetBlock, GetInv
      <3>3. CASE pc' \notin {"ok", "error"}
        <4>1. /\ m.data \notin Short /\ file' = Append(file, m.data) /\ retry' = 0
              /\ blockno' = blockno + 1 /\ blockno' # 1 /\ pc' = "recv"
          BY <1>7, <2>1, <2>4, <3>3 DEF GetBlock, Await
        <4>. QED
          BY <1>7, <1>t, <2>1, <2>2, <2>3, <2>7, <4>1, FileFacts DEF GetBlock, GetInv
      <3>. QED
        BY <3>1, <3>2, <3>3, Zenon
    <2>. QED
      BY <1>7, <2>5, <2>6, <2>7, <2>8, Zenon DEF GetBlock
  <1>. QED
    BY <1>1, <1>2, <1>3, <1>4, <1>5, <1>6, <1>7, Zenon DEF GetStep, SendWRQ, SendData, RcvTimeout

-----------------------------------------------------------------------------
(* The steps of tftpput_cb.                                                  *)

LEMMA PutKeeps ==
    ASSUME SmallFile, IInv, op = "put",
           \/ PutStep
           \/ \E p \in Ports : RcvForeign(p)
           \/ \E p \in open : RcvBadPacket(p)
    PROVE  IInv'
  <1> USE DEF IInv
  <1>t. BlockMod \in Nat /\ TFTP_RETRIES \in Nat \ {0}
    BY NumAssumption, Zenon
  <1>n. ASSUME NEW p \in Ports, FixPort(p)
        PROVE  /\ port' \in Ports
               /\ port # NoPort => port' = port
    BY <1>n, Zenon DEF FixPort
  <1>1. CASE SendWRQ
    <2>1. NetInv'
      BY <1>1, RequestGood, NetSend, Zenon DEF SendWRQ, NetInv
    <2>2. ServerInv'
      BY <1>1, Zenon DEF SendWRQ, ServerInv, server
    <2>3. PutInv'
      BY <1>1, <1>t DEF SendWRQ, PutInv, Send, Request, Packet, server
    <2>. QED
      BY <1>1, <2>1, <2>2, <2>3, Zenon DEF SendWRQ
  <1>2. CASE SendData
    <2>0. port \in Ports /\ blockno = offset + 1 /\ blockno \in 1..Len(File)
      BY <1>2, FileFacts DEF SendData, PutInv
    <2>1. NetInv'
      BY <1>2, <2>0, DataGood, NetSend, Zenon DEF SendData, NetInv
    <2>2. ServerInv'
      BY <1>2, Zenon DEF SendData, ServerInv, server
    <2>3. PutInv'
      BY <1>2, <1>t DEF SendData, PutInv, Send, Data, Packet, server
    <2>. QED
      BY <1>2, <2>1, <2>2, <2>3, Zenon DEF SendData
  <1>c. ASSUME RcvCounted, pc = "ack",
               port' \in Ports \cup {NoPort}, port # NoPort => port' = port
        PROVE  IInv'
    <2>1. NetInv'
      BY <1>c, Zenon DEF RcvCounted, NetInv
    <2>2. ServerInv'
      BY <1>c, Zenon DEF RcvCounted, ServerInv, server
    <2>3. /\ pc' \in {"ack", "wrq", "data", "error"}
          /\ UNCHANGED <<phase, blockno, offset>>
          /\ pc' = "wrq" => phase = "req"
          /\ pc' = "data" => phase = "data"
          /\ retry' \in 0..(TFTP_RETRIES + 1) /\ tries' \in 0..TFTP_RETRIES
          /\ pc' # "error" => retry' <= TFTP_RETRIES
          /\ pc' = "ack" => tries' < TFTP_RETRIES
      BY <1>c, <1>t DEF RcvCounted, Resend, PutInv
    <2>4. PutInv'
      BY <1>c, <2>3, PortAssumption, Zenon DEF RcvCounted, PutInv, ServerInv, server
    <2>. QED
      BY <1>c, <2>1, <2>2, <2>3, <2>4, Zenon DEF RcvCounted
  <1>3. CASE RcvTimeout
    BY <1>3, <1>c, Zenon DEF RcvTimeout
  <1>4. ASSUME NEW p \in Ports, RcvForeign(p) PROVE IInv'
    <2>0. port' \in Ports /\ (port # NoPort => port' = port)
      BY <1>4, <1>n, Zenon DEF RcvForeign
    <2>1. NetInv'
      BY <1>4, Zenon DEF RcvForeign, NetInv
    <2>2. ServerInv'
      BY <1>4, Zenon DEF RcvForeign, ServerInv, server
    <2>3. PutInv'
      BY <1>4, <2>0, PortAssumption, Zenon DEF RcvForeign, PutInv, ServerInv, server
    <2>. QED
      BY <1>4, <2>0, <2>1, <2>2, <2>3, Zenon DEF RcvForeign
  <1>5. ASSUME NEW p \in open, RcvBadPacket(p) PROVE IInv'
    BY <1>5, <1>c, <1>n, Zenon DEF RcvBadPacket, ServerInv
  <1>6. ASSUME NEW m \in net, RcvRequestAck(m) PROVE IInv'
    <2>0. m.port \in Ports /\ port' \in Ports /\ (port # NoPort => port' = port)
      BY <1>6, <1>n, Zenon DEF RcvRequestAck, NetInv, GoodPacket
    <2>1. NetInv'
      BY <1>6, Zenon DEF RcvRequestAck, NetInv
    <2>2. ServerInv'
      BY <1>6, Zenon DEF RcvRequestAck, ServerInv, server
    <2>3. PutInv'
      <3>1. offset = 0 /\ offset' = 0 /\ Len(blocks[port']) \in Nat
        BY <1>6, <2>0 DEF RcvRequestAck, PutInv, ServerInv
      <3>. QED
        BY <1>6, <1>t, <2>0, <3>1, PortAssumption DEF RcvRequestAck, PutInv, ServerInv, server
    <2>. QED
      BY <1>6, <2>0, <2>1, <2>2, <2>3, Zenon DEF RcvRequestAck
  <1>7. ASSUME NEW m \in net, RcvBlockAck(m) PROVE IInv'
    \* Only the transfer in use has acknowledged a block other than 0.
    <2>1. /\ m.port \in Ports /\ m.num = offset + 1 /\ m.num <= Len(blocks[m.port])
          /\ port \in Ports /\ offset \in 0..(Len(File) - 1)
      BY <1>7, Zenon DEF RcvBlockAck, NetInv, GoodPacket, PutInv
    <2>2. blocks[m.port] # <<>>
      BY <2>1
    <2>3. offset + 1 <= Len(blocks[port]) /\ Len(blocks[port]) <= Len(File)
      BY <2>1, <2>2, Zenon DEF PutInv, ServerInv, Prefix
    <2>4. File[offset + 1] \in Short <=> offset + 1 = Len(File)
      BY <2>1, FileAssumption
    <2>5. NetInv'
      BY <1>7, Zenon DEF RcvBlockAck, NetInv
    <2>6. ServerInv'
      BY <1>7, Zenon DEF RcvBlockAck, ServerInv, server
    <2>7. PutInv'
      <3>1. CASE File[offset + 1] \in Short
        BY <1>7, <1>t, <2>1, <2>3, <2>4, <3>1, FileFacts DEF RcvBlockAck, PutInv, ServerInv, server
      <3>2. CASE File[offset + 1] \notin Short
        <4>1. offset' = offset + 1 /\ offset' \in 0..(Len(File) - 1)
          BY <1>7, <2>1, <2>4, <3>2, FileFacts DEF RcvBlockAck
        <4>2. blockno' = offset' + 1
          BY <1>7, <1>t, <2>1, <3>2, <4>1, ModSmall, FileFacts DEF RcvBlockAck, PutInv, SmallFile
        <4>. QED
          BY <1>7, <1>t, <2>1, <2>3, <3>2, <4>1, <4>2 DEF RcvBlockAck, PutInv, ServerInv, server
      <3>. QED
        BY <3>1, <3>2, Zenon
    <2>. QED
      BY <1>7, <2>5, <2>6, <2>7, Zenon DEF RcvBlockAck
  <1>8. ASSUME NEW m \in net, RcvOtherAck(m) PROVE IInv'
    <2>1. NetInv'
      BY <1>8, Zenon DEF RcvOtherAck, NetInv
    <2>2. ServerInv'
      BY <1>8, Zenon DEF RcvOtherAck, ServerInv, server
    <2>3. PutInv'
      BY <1>8, <1>t DEF RcvOtherAck, Resend, PutInv, ServerInv, server
    <2>. QED
      BY <1>8, <2>1, <2>2, <2>3, Zenon DEF RcvOtherAck, Resend
  <1>. QED
    BY <1>1, <1>2, <1>3, <1>4, <1>5, <1>6, <1>7, <1>8, Zenon DEF PutStep

-----------------------------------------------------------------------------
(* The steps of the server.                                                  *)

LEMMA ServerKeeps == ASSUME SmallFile, IInv, ServerStep PROVE IInv'
  <1> USE DEF IInv
  <1>t. BlockMod \in Nat \ {0, 1} /\ 1 % BlockMod = 1 /\ 1 \in 1..Len(File)
    BY NumAssumption, ModSmall, FileFacts
  <1>c. ASSUME UNCHANGED <<op, client, aborted>>, op = "get" PROVE GetInv'
    BY <1>c, Zenon DEF GetInv, Prefix, client
  <1>b. ASSUME NEW p \in Ports, NEW b, Prefix(b), open' \subseteq Ports,
               blocks' = [q \in Ports |-> IF q = p THEN b ELSE blocks[q]]
        PROVE  ServerInv'
    <2>1. \A q \in Ports : Prefix(blocks'[q])
      BY <1>b, Zenon DEF ServerInv
    <2>2. \A q \in Ports : blocks'[q] \in Seq(Blocks)
      BY <2>1, Zenon DEF Prefix
    <2>. QED
      BY <1>b, <2>1, <2>2, Zenon DEF ServerInv, Prefix
  <1>1. ASSUME NEW p \in Ports, ServeRequest(p) PROVE IInv'
    <2>0. UNCHANGED <<op, client, aborted, phase, port>> /\ open' \subseteq Ports
      BY <1>1, Zenon DEF ServeRequest, client, ServerInv
    <2>1. CASE op = "get"
      <3>1. NetInv'
        BY <1>1, <1>t, <2>1, DataGood, NetSend, Zenon DEF ServeRequest
      <3>2. Prefix(<<File[1]>>)
        BY <1>t, FileFacts DEF Prefix
      <3>3. ServerInv'
        BY <1>1, <1>b, <2>0, <2>1, <3>2, Zenon DEF ServeRequest
      <3>. QED
        BY <1>c, <2>0, <2>1, <3>1, <3>3, Zenon
    <2>2. CASE op = "put"
      <3>1. NetInv'
        BY <1>1, <1>t, <2>2, AckGood, NetSend DEF ServeRequest
      <3>2. ServerInv'
        BY <1>1, <2>0, <2>2, Zenon DEF ServeRequest, ServerInv
      <3>3. PutInv'
        BY <1>1, <2>0, <2>2 DEF ServeRequest, PutInv, ServerInv, Send, Ack, Packet, client
      <3>. QED
        BY <2>0, <2>2, <3>1, <3>2, <3>3, Zenon
    <2>. QED
      BY <2>1, <2>2, Zenon
  <1>2. ASSUME NEW p \in Ports, ServeAck(p) PROVE IInv'
    <2> DEFINE n == Len(blocks[p])
    <2>0. UNCHANGED <<op, client, aborted, phase, port, open>> /\ op = "get"
      BY <1>2, Zenon DEF ServeAck, client
    <2>1. n \in Nat /\ n + 1 \in 1..Len(File) /\ Prefix(blocks[p])
      BY <1>2, FileFacts DEF ServeAck, ServerInv
    <2>2. (n + 1) % BlockMod = n + 1
      <3>1. n + 1 \in Nat /\ n + 1 < BlockMod
        BY <1>t, <2>1, FileFacts DEF SmallFile
      <3> HIDE DEF n
      <3>. QED
        BY <3>1, ModSmall, Zenon
    <2>3. NetInv'
      BY <1>2, <2>1, <2>2, DataGood, NetSend, Zenon DEF ServeAck
    <2>4. Prefix(Append(blocks[p], File[n + 1]))
      BY <2>1, PrefixAppend, FileFacts
    <2>5. ServerInv'
      BY <1>2, <1>b, <2>0, <2>4, Zenon DEF ServeAck, ServerInv
    <2>. QED
      BY <1>c, <2>0, <2>3, <2>5, Zenon
  <1>3. ASSUME NEW p \in Ports, NEW m \in net, ServeData(p, m) PROVE IInv'
    <2> DEFINE n == Len(blocks[p])
    <2>0. /\ UNCHANGED <<op, client, aborted, phase, port, open>> /\ op = "put"
          /\ p = port /\ m.kind = "data" /\ m.num \in 1..Len(File) /\ m.data = File[m.num]
      BY <1>3, Zenon DEF ServeData, client, NetInv, GoodPacket, PutInv
    <2>1. n \in Nat /\ n < Len(File) /\ Prefix(blocks[p]) /\ blocks[p] \in Seq(Blocks)
      BY <1>3, FileFacts DEF ServeData, ServerInv, Prefix
    <2>2. m.num = n + 1
      <3>1. n + 1 \in Nat /\ n + 1 < BlockMod /\ m.num = (n + 1) % BlockMod
        BY <1>3, <1>t, <2>1, FileFacts DEF SmallFile, ServeData
      <3> HIDE DEF n
      <3>. QED
        BY <3>1, ModSmall, Zenon
    <2>3. m.num \in 0..(BlockMod - 1)
      BY <2>0, <1>t, FileFacts DEF SmallFile
    <2>4. NetInv'
      BY <1>3, <2>3, AckGood, NetSend, Zenon DEF ServeData
    <2>5. /\ Prefix(Append(blocks[p], m.data)) /\ Len(Append(blocks[p], m.data)) = n + 1
      BY <2>0, <2>1, <2>2, PrefixAppend, FileFacts, Zenon
    <2>6. ServerInv'
      <3>1. open' \subseteq Ports
        BY <2>0, Zenon DEF ServerInv
      <3>2. blocks' = [q \in Ports |-> IF q = p THEN Append(blocks[p], m.data) ELSE blocks[q]]
        BY <1>3, Zenon DEF ServeData
      <3>. QED
        BY <1>b, <2>5, <3>1, <3>2, Zenon
    <2>7. \A q \in Ports : Len(blocks[q]) \in Nat /\ Len(blocks[q]) <= Len(blocks'[q])
      BY <1>3, <2>1, <2>5 DEF ServeData, ServerInv
    <2>8. blocks'[p] = Append(blocks[p], m.data)
      BY <1>3, Zenon DEF ServeData
    <2>9. PutInv'
      <3>1. /\ pc \in {"wrq", "data", "ack", "ok", "error", "crash"}
            /\ phase = "data" /\ offset <= Len(blocks'[port])
            /\ pc = "ok" => Len(blocks'[port]) = Len(File)
        BY SMTT(30), <2>0, <2>1, <2>5, <2>7, <2>8 DEF PutInv, ServerInv
      <3>2. \A k \in net' : k.kind = "ack" => k.num <= Len(blocks'[k.port])
        BY SMTT(30), <1>3, <2>2, <2>5, <2>7, <2>8, <2>0
           DEF ServeData, PutInv, NetInv, GoodPacket, Packets, Send, Ack, Packet
      <3>3. \A k \in net' : k.kind = "data" => k.port = port
        BY <1>3 DEF ServeData, PutInv, Send, Ack, Packet
      <3>4. \A q \in Ports : blocks'[q] # <<>> => q = port
        BY <1>3, <2>0, Zenon DEF ServeData, PutInv
      <3>. QED
        BY <2>0, <3>1, <3>2, <3>3, <3>4, Zenon DEF PutInv, client
    <2>. QED
      BY <2>0, <2>4, <2>6, <2>9, Zenon
  <1>. QED
    BY <1>1, <1>2, <1>3, Zenon DEF ServerStep

LEMMA StutterKeeps == ASSUME IInv, UNCHANGED vars PROVE IInv'
  BY SMTT(30) DEF IInv, NetInv, GoodPacket, ServerInv, GetInv, PutInv, Prefix, vars, client, server

\* Each operation takes its own steps.
LEMMA GetMoves ==
    ASSUME op = "get", Next
    PROVE  \/ GetStep \/ GetForeign \/ (\E p \in open : GetWrongPort(p) \/ GetBadPacket(p))
           \/ ServerStep
  <1>1. op # "put"
    BY Zenon
  <1>2. ~PutStep /\ (\A p \in Ports : ~RcvForeign(p)) /\ (\A p \in open : ~RcvBadPacket(p))
    BY <1>1, Zenon DEF PutStep, SendWRQ, SendData, RcvTimeout, RcvRequestAck, RcvBlockAck,
       RcvOtherAck, RcvForeign, RcvBadPacket
  <1>. QED
    BY <1>2, Zenon DEF Next, Stray, Bad

LEMMA PutMoves ==
    ASSUME op = "put", Next
    PROVE  \/ PutStep \/ (\E p \in Ports : RcvForeign(p)) \/ (\E p \in open : RcvBadPacket(p))
           \/ ServerStep
  <1>1. op # "get"
    BY Zenon
  <1>2. ~GetStep /\ ~GetForeign /\ (\A p \in open : ~GetWrongPort(p) /\ ~GetBadPacket(p))
    BY <1>1, Zenon DEF GetStep, SendRRQ, GetTimeout, GetOtherBlock, GetBlock, GetForeign,
       GetWrongPort, GetBadPacket
  <1>. QED
    BY <1>2, Zenon DEF Next, Stray, Bad

LEMMA NextKeeps == ASSUME SmallFile, IInv, [Next]_vars PROVE IInv'
  <1>1. ASSUME op = "get", Next PROVE IInv'
    BY <1>1, GetMoves, GetKeeps, ServerKeeps, Zenon
  <1>2. ASSUME op = "put", Next PROVE IInv'
    BY <1>2, PutMoves, PutKeeps, ServerKeeps, Zenon
  <1>3. op = "get" \/ op = "put"
    BY Zenon DEF IInv
  <1>. QED
    BY <1>1, <1>2, <1>3, StutterKeeps, Zenon

-----------------------------------------------------------------------------
\* The inductive invariant IInv holds in every state of a transfer of a file
\* of fewer than BlockMod blocks.
THEOREM Invariance == ASSUME SmallFile PROVE Spec => []IInv
  BY InitIInv, NextKeeps, PTL DEF Spec

\* The variables of tftpget_cb, tftpput_cb and tftp_rcvack keep their ranges:
\* the retry counters stay within TFTP_RETRIES + 1.
THEOREM TypeCorrect == ASSUME SmallFile PROVE Spec => []TypeOK
  <1>1. ASSUME IInv, op = "get" PROVE TypeOK
    <2>1. net \subseteq Packets
      BY <1>1, Zenon DEF IInv, NetInv, GoodPacket
    <2>2. /\ op \in {"get", "put"} /\ phase \in {"req", "data"} /\ port \in Ports \cup {NoPort}
          /\ open \subseteq Ports /\ blocks \in [Ports -> Seq(Blocks)] /\ aborted \subseteq Ports
      BY <1>1, Zenon DEF IInv, ServerInv
    <2>3. /\ pc \in {"rrq", "recv", "ok", "error"} /\ file \in Seq(Blocks)
          /\ blockno \in 1..Len(File) /\ offset = 0 /\ tries = 0 /\ retry \in 0..TFTP_RETRIES
      BY <1>1, Zenon DEF IInv, GetInv, Prefix
    <2>4. /\ blockno \in 0..(BlockMod - 1) /\ offset \in 0..(Len(File) - 1)
          /\ retry \in 0..(TFTP_RETRIES + 1) /\ tries \in 0..TFTP_RETRIES
      BY <2>3, FileFacts, NumAssumption DEF SmallFile
    <2>5. pc \in {"rrq", "recv", "wrq", "data", "ack", "ok", "error", "crash"}
      BY <2>3, Zenon
    <2>. QED
      BY <2>1, <2>2, <2>3, <2>4, <2>5, Zenon DEF TypeOK
  <1>2. ASSUME IInv, op = "put" PROVE TypeOK
    <2>1. net \subseteq Packets
      BY <1>2, Zenon DEF IInv, NetInv, GoodPacket
    <2>2. /\ op \in {"get", "put"} /\ phase \in {"req", "data"} /\ port \in Ports \cup {NoPort}
          /\ open \subseteq Ports /\ blocks \in [Ports -> Seq(Blocks)] /\ aborted \subseteq Ports
      BY <1>2, Zenon DEF IInv, ServerInv
    <2>3. /\ pc \in {"wrq", "data", "ack", "ok", "error", "crash"} /\ file = <<>>
          /\ offset \in 0..(Len(File) - 1) /\ blockno = offset + 1
          /\ retry \in 0..(TFTP_RETRIES + 1) /\ tries \in 0..TFTP_RETRIES
      BY <1>2, Zenon DEF IInv, PutInv
    <2>4. blockno \in 0..(BlockMod - 1)
      BY <2>3, FileFacts, NumAssumption DEF SmallFile
    <2>5. /\ pc \in {"rrq", "recv", "wrq", "data", "ack", "ok", "error", "crash"}
          /\ file \in Seq(Blocks)
      BY <2>3, EmptySequence, Zenon
    <2>. QED
      BY <2>1, <2>2, <2>3, <2>4, <2>5, Zenon DEF TypeOK
  <1>3. IInv => TypeOK
    BY <1>1, <1>2, Zenon DEF IInv
  <1>. QED
    BY <1>3, Invariance, PTL

\* tftpget_cb and tftpput_cb return OK only when the whole file has arrived.
THEOREM TransferIntact == ASSUME SmallFile PROVE Spec => []Intact
  <1>1. IInv => Intact
    BY PrefixWhole, Zenon DEF IInv, Intact, Received, GetInv, PutInv, ServerInv
  <1>. QED
    BY <1>1, Invariance, PTL

\* All blocks that tftpput_cb sends are stored in one transfer of the server.
THEOREM StoredOnce == ASSUME SmallFile PROVE Spec => []OneSession
  <1>1. IInv => OneSession
    BY Zenon DEF IInv, OneSession, PutInv
  <1>. QED
    BY <1>1, Invariance, PTL

\* tftpget_cb never gives up the transfer it takes the file from, and sends its
\* request only before the first block.
THEOREM OneRequest == ASSUME SmallFile PROVE Spec => [](SessionKept /\ RequestFirst)
  <1>1. IInv => SessionKept
    BY Zenon DEF IInv, SessionKept, GetInv, PutInv
  <1>2. IInv => RequestFirst
    <2> SUFFICES ASSUME IInv, pc = "rrq" PROVE file = <<>>
      BY Zenon DEF RequestFirst
    <2>1. file \in Seq(Blocks) /\ Len(file) = 0
      BY DEF IInv, GetInv, PutInv, Prefix
    <2>. QED
      BY <2>1, EmptySequence, Zenon
  <1>. QED
    BY <1>1, <1>2, Invariance, PTL

-----------------------------------------------------------------------------
(* Refinement of TftpAbs.                                                    *)

AbsStep == [Transfer!Next]_<<Received, Status>>

\* A step that delivers nothing and does not report success.
LEMMA QuietStep ==
    ASSUME UNCHANGED Received, ~Done, pc' # "ok"
    PROVE  AbsStep
  <1>1. Status = "busy" /\ Status' \in {"busy", "error"}
    BY Zenon DEF Status, Done
  <1>. QED
    BY <1>1, Zenon DEF AbsStep, Transfer!Next, Transfer!Report

\* A step that delivers the next block; success is reported only after it.
LEMMA StoreStep ==
    ASSUME Prefix(Received), Len(Received) < Len(File),
           Received' = Append(Received, File[Len(Received) + 1]),
           \/ Status' = Status
           \/ Status = "busy" /\ Status' = "error"
           \/ Status = "busy" /\ Status' = "ok" /\ Received' = File
    PROVE  AbsStep
  BY Zenon DEF AbsStep, Transfer!Next, Transfer!Store, Transfer!Report

LEMMA GetImplements ==
    ASSUME IInv, IInv', op = "get",
           GetStep \/ GetForeign \/ (\E p \in open : GetWrongPort(p) \/ GetBadPacket(p))
    PROVE  AbsStep
  <1>c. ASSUME GetCounted, pc = "recv" PROVE AbsStep
    BY <1>c, QuietStep, Zenon DEF GetCounted, Received, Done, Await
  <1>1. CASE SendRRQ
    BY <1>1, QuietStep, Zenon DEF SendRRQ, Received, Done
  <1>2. CASE GetTimeout
    BY <1>2, <1>c, Zenon DEF GetTimeout
  <1>3. CASE GetForeign
    BY <1>3, QuietStep, Zenon DEF GetForeign, Received, Done, Await
  <1>4. ASSUME NEW p \in open, GetWrongPort(p) PROVE AbsStep
    BY <1>4, QuietStep, Zenon DEF GetWrongPort, Received, Done, Await
  <1>5. ASSUME NEW p \in open, GetBadPacket(p) PROVE AbsStep
    BY <1>5, <1>c, Zenon DEF GetBadPacket
  <1>6. ASSUME NEW m \in net, GetOtherBlock(m) PROVE AbsStep
    BY <1>6, <1>c, Zenon DEF GetOtherBlock
  <1>7. ASSUME NEW m \in net, GetBlock(m) PROVE AbsStep
    <2>1. /\ Received = file /\ Received' = file' /\ Status = "busy"
          /\ Status' \in {"busy", "ok", "error"} /\ (Status' = "ok" => pc' = "ok")
      BY <1>7, Zenon DEF GetBlock, Received, Status, Done
    <2>2. /\ Prefix(file) /\ Len(file) < Len(File) /\ m.data = File[Len(file) + 1]
      BY SMTT(30), <1>7, FileFacts DEF IInv, GetInv, GetBlock, NetInv, GoodPacket, Prefix
    <2>3. pc' = "ok" => file' = File
      BY <1>7, PrefixWhole, Zenon DEF IInv, GetInv, GetBlock
    <2>4. CASE file' = Append(file, m.data)
      BY <2>1, <2>2, <2>3, <2>4, StoreStep, Zenon
    <2>5. CASE file' = file /\ file' # Append(file, m.data)
      BY <1>7, <2>1, <2>5, QuietStep, Zenon DEF GetBlock, Done
    <2>. QED
      BY <1>7, <2>4, <2>5, Zenon DEF GetBlock
  <1>. QED
    BY <1>1, <1>2, <1>3, <1>4, <1>5, <1>6, <1>7, Zenon DEF GetStep

LEMMA PutImplements ==
    ASSUME IInv, IInv', op = "put",
           \/ PutStep
           \/ \E p \in Ports : RcvForeign(p)
           \/ \E p \in open : RcvBadPacket(p)
    PROVE  AbsStep
  \* Fixing the port changes nothing: no transfer has received a block yet.
  <1>n. ASSUME NEW p \in Ports, FixPort(p) \/ UNCHANGED port, UNCHANGED <<op, blocks>>
        PROVE  UNCHANGED Received
    <2>1. CASE port = NoPort
      <3>1. Received = <<>>
        BY <2>1, Zenon DEF Received
      <3>2. port' # NoPort => port' = p /\ blocks[p] = <<>>
        BY <1>n, <2>1, PortAssumption, Zenon DEF IInv, PutInv, FixPort
      <3>. QED
        BY <1>n, <3>1, <3>2, Zenon DEF Received
    <2>2. CASE port # NoPort
      BY <1>n, <2>2, Zenon DEF Received, FixPort
    <2>. QED
      BY <2>1, <2>2, Zenon
  <1>u. ASSUME UNCHANGED <<op, blocks, port>> PROVE UNCHANGED Received
    BY <1>u, Zenon DEF Received
  <1>1. CASE SendWRQ
    BY <1>1, <1>u, QuietStep, Zenon DEF SendWRQ, Done, server
  <1>2. CASE SendData
    BY <1>2, <1>u, QuietStep, Zenon DEF SendData, Done, server
  <1>3. CASE RcvTimeout
    BY <1>3, <1>u, QuietStep, Zenon DEF RcvTimeout, RcvCounted, Resend, Done, server
  <1>4. ASSUME NEW p \in Ports, RcvForeign(p) PROVE AbsStep
    BY <1>4, <1>n, QuietStep, Zenon DEF RcvForeign, Done, server
  <1>5. ASSUME NEW p \in open, RcvBadPacket(p) PROVE AbsStep
    BY <1>5, <1>n, QuietStep, Zenon DEF RcvBadPacket, RcvCounted, Resend, Done, server, IInv, ServerInv
  <1>6. ASSUME NEW m \in net, RcvRequestAck(m) PROVE AbsStep
    BY <1>6, <1>n, QuietStep, Zenon DEF RcvRequestAck, Done, server, IInv, NetInv, GoodPacket
  <1>7. ASSUME NEW m \in net, RcvBlockAck(m) PROVE AbsStep
    <2>1. UNCHANGED Received
      BY <1>7, <1>u, Zenon DEF RcvBlockAck, server
    <2>2. CASE pc' = "ok"
      <3>1. Received' = File
        BY <1>7, <2>2, PrefixWhole, Zenon DEF RcvBlockAck, Received, IInv, PutInv, ServerInv
      <3>2. Status = "busy" /\ Status' = "ok"
        BY <1>7, <2>2, Zenon DEF RcvBlockAck, Status, Done
      <3>. QED
        BY <2>1, <3>1, <3>2, Zenon DEF AbsStep, Transfer!Next, Transfer!Report
    <2>3. CASE pc' # "ok"
      BY <1>7, <2>1, <2>3, QuietStep, Zenon DEF RcvBlockAck, Done
    <2>. QED
      BY <2>2, <2>3, Zenon
  <1>8. ASSUME NEW m \in net, RcvOtherAck(m) PROVE AbsStep
    BY <1>8, <1>u, QuietStep, Zenon DEF RcvOtherAck, Resend, Done, server
  <1>. QED
    BY <1>1, <1>2, <1>3, <1>4, <1>5, <1>6, <1>7, <1>8, Zenon DEF PutStep

LEMMA ServerImplements == ASSUME SmallFile, IInv, ServerStep PROVE AbsStep
  <1>1. UNCHANGED <<op, port, file, pc>> /\ UNCHANGED Status
    BY Zenon DEF ServerStep, ServeRequest, ServeAck, ServeData, client, Status, Done
  <1>2. CASE op = "get"
    BY <1>1, <1>2, Zenon DEF Received, AbsStep
  <1>3. ASSUME op = "put", NEW p \in Ports, ServeRequest(p) PROVE AbsStep
    BY <1>1, <1>3, Zenon DEF Received, AbsStep, ServeRequest
  <1>4. ASSUME op = "put", NEW p \in Ports, NEW m \in net, ServeData(p, m) PROVE AbsStep
    <2> DEFINE n == Len(blocks[p])
    <2>1. /\ p = port /\ port # NoPort /\ m.num \in 1..Len(File) /\ m.data = File[m.num]
      BY <1>4, PortAssumption, Zenon DEF ServeData, IInv, NetInv, GoodPacket, PutInv
    <2>2. Received = blocks[p] /\ Received' = blocks'[p] /\ Prefix(Received) /\ n \in Nat
      BY <1>1, <1>4, <2>1 DEF Received, IInv, ServerInv
    <2>3. n < Len(File)
      BY SMTT(30), <1>4, <2>2, FileAssumption DEF ServeData, Prefix
    <2>4. m.num = n + 1
      <3>1. n + 1 \in Nat /\ n + 1 < BlockMod /\ m.num = (n + 1) % BlockMod
        BY <1>4, <2>2, <2>3, FileFacts, NumAssumption DEF SmallFile, ServeData
      <3> HIDE DEF n
      <3>. QED
        BY <3>1, ModSmall, Zenon
    <2>5. Received' = Append(Received, File[Len(Received) + 1])
      BY <1>4, <2>1, <2>2, <2>4, Zenon DEF ServeData
    <2>. QED
      BY <1>1, <2>2, <2>3, <2>5, StoreStep, Zenon
  <1>. QED
    BY <1>2, <1>3, <1>4, Zenon DEF ServerStep, IInv, ServeAck

\* The client, the server and the network together implement TftpAbs: blocks
\* are delivered in order and once, and success is reported last.
THEOREM Refinement == ASSUME SmallFile PROVE Spec => Delivers
  <1>1. Init => Transfer!Init
    BY Zenon DEF Init, Transfer!Init, Received, Status, Done
  <1>2. IInv /\ IInv' /\ [Next]_vars => AbsStep
    <2> SUFFICES ASSUME IInv, IInv', [Next]_vars PROVE AbsStep
      BY Zenon
    <2>1. CASE UNCHANGED vars
      BY <2>1, Zenon DEF vars, client, server, AbsStep, Received, Status, Done
    <2>2. ASSUME op = "get", Next PROVE AbsStep
      BY <2>2, GetMoves, GetImplements, ServerImplements, Zenon
    <2>3. ASSUME op = "put", Next PROVE AbsStep
      BY <2>3, PutMoves, PutImplements, ServerImplements, Zenon
    <2>. QED
      BY <2>1, <2>2, <2>3, Zenon DEF IInv
  <1>. QED
    BY <1>1, <1>2, Invariance, PTL DEF Spec, Delivers, Transfer!Spec, AbsStep
=============================================================================
