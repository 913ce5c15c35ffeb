---------------------------- MODULE YmodemProof -----------------------------
(* Proofs about sb and rb: for any files, packet sizes, wrap of the packet   *)
(* numbers, sizes of the buffer and numbers of faults of the line.           *)
EXTENDS Ymodem, TLAPS

Byte == {"C", "ACK", "NAK", "CAN", "junk"}
Unit == Nat \X Nat

\* What sb sends, and what arrives.
Names   == [kind : {"name"}, seq : {0}, file : Files, at : {0}, size : {Small}]
Empties == [kind : {"empty"}, seq : {0}, file : 1 .. Len(Lengths) + 1, at : {0}, size : {Small}]
Data    == [kind : {"data"}, seq : 0 .. seqmod - 1, file : Files, at : Nat, size : {Small, Big}]
Sent    == Names \cup Empties \cup Data
Item    == Sent \cup {EOT, Bad}

-----------------------------------------------------------------------------
(* Types                                                                     *)

Options == buffersize \in {0, BufferSize} /\ seqmod \in Nat \ {0, 1}

SenderOK ==
    /\ spc \in {"hello", "name", "nameC", "data", "eot", "eotC", "last", "ok", "fail"}
    /\ tries \in 0 .. RETRY /\ (spc = "hello" => tries < RETRY)
    /\ packet \in Sent \cup {Name(0)}
    /\ spc \in {"name", "nameC"} => packet \in Names
    /\ spc \in {"data", "eot", "eotC"} => packet \in Data
    /\ spc = "last" => packet \in Empties
    /\ packet \in Data => packet.at <= Lengths[packet.file]

ReceiverOK ==
    /\ rpc \in {"start", "run", "ok", "fail", "exit_ok", "exit_fail"}
    /\ total \in Nat /\ retries \in 0 .. RETRY

Contents == UNION {[1 .. n -> Unit] : n \in Nat}
IsDisk(d) ==
    /\ d \in [Files -> Contents]
    /\ \A f \in Files : d[f] \in [1 .. Lengths[f] -> Unit]

\* The file in hand, the buffer and the disk.
StoreOK ==
    /\ file \in Files \cup {0} /\ saved \in Nat /\ (file # 0 => saved <= Lengths[file])
    /\ circ \in Seq(Unit) /\ Len(circ) <= buffersize /\ Len(circ) <= saved
    /\ (file = 0 => circ = << >>) /\ IsDisk(disk)

LineOK == fwd \in Seq(Item) /\ back \in Seq(Byte) /\ faults \in 0 .. MaxFaults

Types == Options /\ SenderOK /\ ReceiverOK /\ StoreOK /\ LineOK

-----------------------------------------------------------------------------
(* One packet at a time                                                      *)

\* rb has not yet taken what sb sends, or it has.
Due ==
    /\ spc \in {"name", "last"} => total = 0
    /\ spc = "data" => /\ total > 0 /\ packet.seq = total % seqmod
                       /\ file = packet.file /\ saved = packet.at
    /\ spc = "eot" => total > 0 /\ file = packet.file /\ saved = Lengths[file]
    /\ spc \in {"name", "data", "eot", "last"}

Taken ==
    /\ spc \in {"name", "nameC"} => total = 1 /\ file = packet.file /\ saved = 0
    /\ spc = "data" =>
         /\ total > 1 /\ packet.seq = (total - 1) % seqmod /\ file = packet.file
         /\ saved = IF packet.at + packet.size > Lengths[file] THEN Lengths[file]
                    ELSE packet.at + packet.size
    /\ spc \in {"eot", "eotC"} => total = 0 /\ file = packet.file /\ saved = Lengths[file]
    /\ spc \in {"name", "nameC", "data", "eot", "eotC"}

Sync ==
    /\ spc = "hello" => total = 0
    /\ spc \in {"name", "data", "eot", "last"} => Due \/ Taken
    /\ spc \in {"nameC", "eotC"} => Taken

\* Between sb and rb there is one packet or one answer.
Turns ==
    /\ spc \in {"hello", "nameC", "eotC", "ok", "fail"} => fwd = << >>
    /\ fwd # << >> => /\ back = << >> /\ Len(fwd) = 1
                      /\ fwd[1] \in {Bad, IF spc = "eot" THEN EOT ELSE packet}
    /\ rpc = "start" => spc = "hello" /\ back = << >>
    /\ spc \notin {"ok", "fail"} /\ back # << >> =>
         /\ Len(back) <= 2
         /\ back[1] \in {"C", "NAK"} => Len(back) = 1
         /\ back[1] = "ACK" => Len(back) = 1 \/ spc \in {"name", "eot"}
         /\ back[1] = "ACK" /\ spc \in {"name", "data", "eot"} => Taken

\* What is written of the file in hand is right, and what sb knows to have
\* arrived is stored.
Prefix == \A f \in Files, u \in Nat : f = file /\ u \in 1 .. saved => Stored(f, u) = <<f, u>>
Kept   == \A f \in Files, u \in Nat : u \in 1 .. AckedUnits(f) => Stored(f, u) = <<f, u>>

Paced == Sync /\ Turns /\ Prefix /\ Kept

-----------------------------------------------------------------------------
(* A line without faults                                                     *)

\* What rb has saved after packet m.
End(m) == IF m.at + m.size > Lengths[m.file] THEN Lengths[m.file] ELSE m.at + m.size

\* sb sends n after m, packet numbers being taken modulo q.
Follows(q, m, n) ==
    \/ /\ m.kind = "name" /\ n.kind = "data"
       /\ n.file = m.file /\ n.at = 0 /\ n.seq = 1 % q
    \/ /\ m.kind = "data" /\ n.kind = "data"
       /\ n.file = m.file /\ n.at = End(m) /\ n.seq = (m.seq + 1) % q
    \/ m.kind = "data" /\ n.kind = "eot"
    \/ m.kind = "eot" /\ n.kind \in {"name", "empty"}

\* m is the last that rb has taken, or the next that it takes, when total_seq
\* is t and s units of file f are saved.
Last(q, m, t, f, s) ==
    \/ m.kind = "name" /\ t = 1 /\ f = m.file /\ s = 0
    \/ m.kind = "data" /\ t > 1 /\ m.seq = (t - 1) % q /\ f = m.file /\ s = End(m)
    \/ m.kind = "eot" /\ t = 0
Coming(q, m, t, f, s) ==
    \/ m.kind \in {"name", "empty"} /\ t = 0
    \/ m.kind = "data" /\ t > 0 /\ m.seq = t % q /\ f = m.file /\ s = m.at
    \/ m.kind = "eot" /\ t > 0

\* The packets w on the line follow one another, some of them repeated, and
\* the first one follows the last that rb has taken, or repeats it.
Flow(q, w, t, f, s) ==
    /\ \A i \in 1 .. Len(w) - 1 : w[i + 1] = w[i] \/ Follows(q, w[i], w[i + 1])
    /\ w # << >> => Last(q, w[1], t, f, s) \/ Coming(q, w[1], t, f, s)

\* The line ends with the packet that sb has in hand, which is not lost.
Current == IF spc \in {"eot", "eotC"} THEN EOT ELSE packet
Stream ==
    /\ Flow(seqmod, fwd, total, file, saved)
    /\ spc \notin {"ok", "fail"} /\ fwd # << >> => fwd[Len(fwd)] = Current
    /\ spc \notin {"hello", "ok", "fail"} /\ fwd = << >> =>
         Last(seqmod, Current, total, file, saved)
    /\ spc = "hello" => fwd = << >> /\ total = 0

Clean == Prefix /\ (rpc \in {"start", "run"} => Stream)

IInv == Types /\ (~hasty => Paced) /\ (faults = 0 => Clean)

-----------------------------------------------------------------------------
(* Packet numbers.                                                           *)

LEMMA ModRange ==
    ASSUME NEW a \in Nat, NEW q \in Nat \ {0}
    PROVE  a % q \in 0 .. q - 1
OBVIOUS

LEMMA ModUnique ==
    ASSUME NEW q \in Nat \ {0}, NEW d \in Nat, NEW r \in 0 .. q - 1
    PROVE  (q * d + r) % q = r
OBVIOUS

LEMMA DivMod ==
    ASSUME NEW a \in Int, NEW q \in Int, q > 0
    PROVE  a = q * (a \div q) + (a % q)
BY Z3

LEMMA ModDef ==
    ASSUME NEW a \in Nat, NEW q \in Nat \ {0}
    PROVE  \E d \in Nat, r \in 0 .. q - 1 : a = q * d + r /\ a % q = r
<1>1. a \div q \in Int /\ q > 0 /\ q \in Int /\ a \in Int
  OBVIOUS
<1>2. a = q * (a \div q) + (a % q)
  BY <1>1, DivMod, Zenon
<1>3. PICK d \in Int : d = a \div q
  BY <1>1, Zenon
<1>4. PICK r \in 0 .. q - 1 : r = a % q
  BY ModRange, Zenon
<1>5. a = q * d + r
  BY <1>2, <1>3, <1>4, Zenon
<1>6. d \in Nat
  <2> SUFFICES ASSUME d <= -1 PROVE FALSE
    OBVIOUS
  <2>1. q * d <= q * (-1)
    BY <1>1
  <2> QED BY <1>5, <2>1
<1> QED BY <1>4, <1>5, <1>6, Zenon

LEMMA ModStep ==
    ASSUME NEW a \in Nat, NEW q \in Nat \ {0, 1}
    PROVE  (a + 1) % q = IF a % q = q - 1 THEN 0 ELSE (a % q) + 1
<1>1. PICK d \in Nat, r \in 0 .. q - 1 : a = q * d + r /\ a % q = r
  BY ModDef, Zenon
<1>3. CASE r = q - 1
  <2>1. q * (d + 1) = q * d + q
    OBVIOUS
  <2>2. a + 1 = q * (d + 1) + 0
    BY <1>1, <2>1, <1>3
  <2>3. (q * (d + 1) + 0) % q = 0
    BY ModUnique
  <2> QED BY <1>1, <1>3, <2>2, <2>3, Zenon
<1>4. CASE r # q - 1
  <2>1. PICK s \in 0 .. q - 1 : s = r + 1
    BY <1>4
  <2>2. a + 1 = q * d + s
    BY <1>1, <2>1
  <2>3. (q * d + s) % q = s
    BY ModUnique, Zenon
  <2> QED BY <1>1, <1>4, <2>1, <2>2, <2>3, Zenon
<1> QED BY <1>3, <1>4, Zenon

-----------------------------------------------------------------------------
(* What is stored.                                                           *)

\* A sequence that is not empty has a length.
LEMMA EmptySequence ==
    ASSUME NEW S PROVE << >> \in Seq(S) /\ \A s \in Seq(S) : s # << >> => Len(s) # 0
OBVIOUS

LEMMA EmptyConcat == ASSUME NEW S, NEW s \in Seq(S) PROVE << >> \o s = s
OBVIOUS

LEMMA FilesType == Len(Lengths) \in Nat /\ Files \subseteq Nat \ {0} /\ \A f \in Files : Lengths[f] \in Nat
BY YmodemAssumption DEF Files

\* A write changes the units it writes.
Wrote(w, d, f, pos, s) ==
    /\ IsDisk(w)
    /\ \A g \in Files, u \in Nat : u \in 1 .. Lengths[g] =>
         w[g][u] = IF g = f /\ u > pos /\ u <= pos + Len(s) THEN s[u - pos] ELSE d[g][u]

LEMMA WrittenMeans ==
    ASSUME NEW d, IsDisk(d), NEW f \in Files, NEW pos \in Nat, NEW s \in Seq(Unit)
    PROVE  Wrote(Written(d, f, pos, s), d, f, pos, s)
<1> DEFINE w == Written(d, f, pos, s)
           c == [u \in 1 .. Lengths[f] |->
                  IF u > pos /\ u <= pos + Len(s) THEN s[u - pos] ELSE d[f][u]]
<1>1. w = [d EXCEPT ![f] = c]
  <2>1. DOMAIN d[f] = 1 .. Lengths[f]
    BY Zenon DEF IsDisk
  <2> QED BY <2>1, Zenon DEF Written
<1>2. c \in [1 .. Lengths[f] -> Unit]
  <2> SUFFICES ASSUME NEW u \in 1 .. Lengths[f]
               PROVE  (IF u > pos /\ u <= pos + Len(s) THEN s[u - pos] ELSE d[f][u]) \in Unit
    BY Zenon
  <2>1. d[f][u] \in Unit /\ u \in Int
    BY FilesType DEF IsDisk
  <2>2. CASE u > pos /\ u <= pos + Len(s)
    <3>1. u - pos \in 1 .. Len(s)
      BY <2>1, <2>2
    <3> QED BY <2>2, <3>1
  <2> QED BY <2>1, <2>2, Zenon
<1>4. \A u \in 1 .. Lengths[f] :
        c[u] = IF u > pos /\ u <= pos + Len(s) THEN s[u - pos] ELSE d[f][u]
  BY Zenon
<1> HIDE DEF c, w
<1>3. c \in Contents
  <2>1. PICK n \in Nat : n = Lengths[f]
    BY FilesType, Zenon
  <2> QED BY <1>2, <2>1, Zenon DEF Contents
<1>5. w \in [Files -> Contents] /\ w[f] = c /\ \A g \in Files : g # f => w[g] = d[g]
  BY <1>1, <1>3, Zenon DEF IsDisk
<1>6. IsDisk(w)
  BY <1>2, <1>5, Zenon DEF IsDisk
<1>7. ASSUME NEW g \in Files, NEW u \in Nat, u \in 1 .. Lengths[g]
      PROVE  w[g][u] = IF g = f /\ u > pos /\ u <= pos + Len(s) THEN s[u - pos] ELSE d[g][u]
  <2>1. CASE g = f
    BY <1>4, <1>5, <1>7, <2>1, Zenon
  <2>2. CASE g # f
    BY <1>5, <2>2, Zenon
  <2> QED BY <2>1, <2>2, Zenon
<1>8. Wrote(w, d, f, pos, s)
  BY <1>6, <1>7, Zenon DEF Wrote
<1> QED BY <1>8, Zenon DEF w

\* With nothing in the buffer, what is stored is on the disk.
LEMMA StoredOnDisk ==
    ASSUME NEW f \in Files, NEW u \in Nat, circ' = << >>, saved' \in Nat
    PROVE  Stored(f, u)' = disk'[f][u]
<1>1. Len(circ') = 0
  BY Zenon
<1>2. \A x, n \in Nat : n = 0 => ~(u > x - n /\ u <= x)
  OBVIOUS
<1>3. ~(u > saved' - Len(circ') /\ u <= saved')
  BY <1>1, <1>2, Zenon
<1> QED BY <1>3, Zenon DEF Stored

\* flush_data moves units from the buffer to the disk, and loses none.
LEMMA FlushStore ==
    ASSUME StoreOK, disk' = Flushed, circ' = << >>, saved' \in Nat
    PROVE  /\ IsDisk(disk')
           /\ \A f \in Files, u \in Nat : u \in 1 .. Lengths[f] => Stored(f, u)' = Stored(f, u)
<1>1. CASE circ = << >>
  <2>1. IsDisk(disk') /\ disk' = disk
    BY <1>1, Zenon DEF StoreOK, Flushed
  <2>2. ASSUME NEW f \in Files, NEW u \in Nat
        PROVE  Stored(f, u) = disk[f][u]
    BY <1>1 DEF Stored, StoreOK
  <2> QED BY <2>1, <2>2, StoredOnDisk
<1>2. CASE circ # << >>
  <2>1. PICK pos \in Nat : pos = saved - Len(circ)
    BY DEF StoreOK
  <2>2. /\ file \in Files /\ saved \in Nat /\ Len(circ) \in Nat /\ saved = pos + Len(circ)
        /\ circ \in Seq(Unit) /\ IsDisk(disk)
    BY <1>2, <2>1 DEF StoreOK
  <2>3. disk' = Written(disk, file, pos, circ)
    BY <1>2, <2>1, Zenon DEF Flushed
  <2>4. /\ IsDisk(disk')
        /\ \A g \in Files, u \in Nat : u \in 1 .. Lengths[g] =>
             disk'[g][u] = IF g = file /\ u > pos /\ u <= pos + Len(circ) THEN circ[u - pos] ELSE disk[g][u]
    <3>1. Wrote(disk', disk, file, pos, circ)
      BY <2>2, <2>3, WrittenMeans, Zenon
    <3> QED BY <3>1, Zenon DEF Wrote
  <2>5. ASSUME NEW f \in Files, NEW u \in Nat, u \in 1 .. Lengths[f]
        PROVE  Stored(f, u)' = Stored(f, u)
    <3>1. Stored(f, u) = IF f = file /\ u > pos /\ u <= pos + Len(circ) THEN circ[u - pos] ELSE disk[f][u]
      BY <2>1, <2>2, Zenon DEF Stored
    <3> QED BY <2>4, <2>5, <3>1, StoredOnDisk
  <2> QED BY <2>4, <2>5, Zenon
<1> QED BY <1>1, <1>2, Zenon

\* The units s, written at the end of the file in hand.
Extended(s) ==
    \A f \in Files, u \in Nat : u \in 1 .. Lengths[f] =>
        Stored(f, u)' = IF f = file /\ u > saved /\ u <= saved + Len(s) THEN s[u - saved]
                        ELSE Stored(f, u)

\* circ and then s; its first b units go to the disk, the others stay in circ.
Joined(q, s) ==
    /\ Len(q) = Len(circ) + Len(s)
    /\ \A i \in 1 .. Len(q) : q[i] = IF i <= Len(circ) THEN circ[i] ELSE s[i - Len(circ)]
Moved(q, b) ==
    \A g \in Files, u \in Nat : u \in 1 .. Lengths[g] =>
        disk'[g][u] = IF g = file /\ u > saved - Len(circ) /\ u <= saved - Len(circ) + b
                      THEN q[u - (saved - Len(circ))] ELSE disk[g][u]
Left(q, b) == Len(circ') = Len(q) - b /\ \A i \in 1 .. Len(q) - b : circ'[i] = q[b + i]

\* Of what is not yet on the disk and the new units, together q, the first b
\* are written and the others are left in the buffer.
LEMMA Spread ==
    ASSUME StoreOK, file \in Files, file' = file,
           NEW s \in Seq(Unit), saved' = saved + Len(s), saved + Len(s) <= Lengths[file],
           NEW q \in Seq(Unit), Joined(q, s), NEW b \in 0 .. Len(q), Moved(q, b), Left(q, b)
    PROVE  Extended(s)
<1> SUFFICES ASSUME NEW f \in Files, NEW u \in Nat, u \in 1 .. Lengths[f]
             PROVE  Stored(f, u)' = IF f = file /\ u > saved /\ u <= saved + Len(s) THEN s[u - saved]
                                    ELSE Stored(f, u)
  BY Zenon DEF Extended
<1>1. PICK c \in Nat : c = Len(circ)
  BY DEF StoreOK
<1>2. PICK pos \in Nat : pos = saved - c /\ saved = pos + c /\ saved \in Nat
  BY <1>1 DEF StoreOK
<1>3. PICK n \in Nat : n = Len(s) /\ Len(q) = c + n /\ b \in 0 .. c + n
  BY <1>1 DEF Joined
<1>4. saved' = pos + c + n /\ Len(circ') = c + n - b /\ saved' - Len(circ') = pos + b
  BY <1>1, <1>2, <1>3 DEF Left
<1>5. disk'[f][u] = IF f = file /\ u > pos /\ u <= pos + b THEN q[u - pos] ELSE disk[f][u]
  BY <1>1, <1>2, Zenon DEF Moved
<1>6. Stored(f, u) = IF f = file /\ u > pos /\ u <= pos + c THEN circ[u - pos] ELSE disk[f][u]
  BY <1>1, <1>2, Zenon DEF Stored
<1>7. Stored(f, u)' = IF f = file /\ u > pos + b /\ u <= pos + c + n THEN circ'[u - (pos + b)]
                      ELSE disk'[f][u]
  BY <1>4, Zenon DEF Stored
<1>8. \A i \in 1 .. c + n : q[i] = IF i <= c THEN circ[i] ELSE s[i - c]
  BY <1>1, <1>3, Zenon DEF Joined
<1>9. \A i \in 1 .. c + n - b : circ'[i] = q[b + i]
  BY <1>3 DEF Left
<1>10. CASE f = file /\ u > pos /\ u <= pos + c + n
  <2>1. PICK i \in 1 .. c + n : i = u - pos /\ u = pos + i
    BY <1>10, <1>3
  <2>2. Stored(f, u)' = q[i]
    <3>1. CASE i <= b
      <4>1. Stored(f, u)' = disk'[f][u]
        BY <1>3, <1>7, <2>1, <3>1
      <4> QED BY <1>3, <1>5, <1>10, <2>1, <3>1, <4>1
    <3>2. CASE i > b
      <4>1. PICK j \in 1 .. c + n - b : j = u - (pos + b) /\ i = b + j
        BY <1>3, <2>1, <3>2
      <4>2. Stored(f, u)' = circ'[j]
        BY <1>3, <1>7, <1>10, <2>1, <3>2, <4>1
      <4> QED BY <1>9, <4>1, <4>2, Zenon
    <3> QED BY <1>3, <3>1, <3>2
  <2>3. CASE i <= c
    <3>1. Stored(f, u) = circ[i]
      BY <1>6, <1>10, <2>1, <2>3
    <3>3. ~(u > saved)
      BY <1>2, <2>1, <2>3
    <3>2. q[i] = circ[i]
      BY <1>8, <2>3, Zenon
    <3> QED BY <2>2, <3>1, <3>2, <3>3, Zenon
  <2>4. CASE i > c
    <3>1. u > saved /\ u <= saved + Len(s) /\ i - c = u - saved
      BY <1>2, <1>3, <1>10, <2>1, <2>4
    <3>2. q[i] = s[i - c]
      BY <1>8, <2>1, <2>4
    <3> QED BY <1>10, <2>2, <3>1, <3>2, Zenon
  <2> QED BY <1>1, <2>3, <2>4
<1>11. CASE ~(f = file /\ u > pos /\ u <= pos + c + n)
  <2>1. Stored(f, u)' = disk'[f][u] /\ disk'[f][u] = disk[f][u]
    BY <1>3, <1>5, <1>7, <1>11
  <2>2. Stored(f, u) = disk[f][u]
    BY <1>3, <1>6, <1>11
  <2>3. ~(f = file /\ u > saved /\ u <= saved + Len(s))
    BY <1>2, <1>3, <1>11
  <2> QED BY <2>1, <2>2, <2>3, Zenon
<1> QED BY <1>10, <1>11, Zenon

LEMMA Concat ==
    ASSUME NEW S, NEW c \in Seq(S), NEW s \in Seq(S)
    PROVE  /\ c \o s \in Seq(S) /\ Len(c \o s) = Len(c) + Len(s)
           /\ \A i \in 1 .. Len(c \o s) : (c \o s)[i] = IF i <= Len(c) THEN c[i] ELSE s[i - Len(c)]
OBVIOUS

\* What write_data leaves behind.
Stores(s) ==
    /\ IsDisk(disk') /\ circ' \in Seq(Unit)
    /\ Len(circ') <= buffersize /\ Len(circ') <= saved + Len(s)
    /\ Extended(s)

LEMMA WriteFile ==
    ASSUME StoreOK, Options, file \in Files, file' = file,
           NEW s \in Seq(Unit), saved' = saved + Len(s), saved + Len(s) <= Lengths[file],
           Len(s) <= BufferSize, WriteData(s)
    PROVE  Stores(s)
<1>1. /\ circ \in Seq(Unit) /\ IsDisk(disk) /\ saved \in Nat /\ Len(circ) <= saved
      /\ buffersize \in Nat /\ Len(circ) <= buffersize /\ Len(circ) \in Nat
  BY YmodemAssumption DEF StoreOK, Options
<1>2. CASE buffersize = 0
  <2>1. Len(circ) = 0 /\ circ = << >> /\ circ' = circ
    BY <1>1, <1>2 DEF WriteData
  <2>2. Joined(s, s)
    BY <2>1 DEF Joined
  <2>3. Left(s, Len(s))
    BY <2>1 DEF Left
  <2>4. IsDisk(disk') /\ Moved(s, Len(s))
    <3>1. CASE s = << >>
      <4>1. disk' = disk /\ Len(s) = 0
        BY <1>2, <3>1, Zenon DEF WriteData
      <4>2. \A u \in Nat : ~(u > saved - Len(circ) /\ u <= saved - Len(circ) + Len(s))
        BY <1>1, <2>1, <4>1
      <4> QED BY <1>1, <4>1, <4>2, Zenon DEF Moved
    <3>2. CASE s # << >>
      <4>1. disk' = Written(disk, file, saved, s)
        BY <1>2, <3>2, Zenon DEF WriteData
      <4>2. Wrote(disk', disk, file, saved, s)
        BY <1>1, <4>1, WrittenMeans, Zenon
      <4>3. saved - Len(circ) = saved
        BY <1>1, <2>1
      <4> QED BY <4>2, <4>3, Zenon DEF Wrote, Moved
    <3> QED BY <3>1, <3>2, Zenon
  <2>5. Len(s) \in 0 .. Len(s)
    OBVIOUS
  <2>6. Extended(s)
    BY <2>2, <2>3, <2>4, <2>5, Spread, Zenon
  <2> QED BY <1>1, <2>1, <2>4, <2>6 DEF Stores
<1>3. PICK q \in Seq(Unit) : q = circ \o s /\ Joined(q, s) /\ Len(q) = Len(circ) + Len(s)
  <2>1. /\ circ \o s \in Seq(Unit) /\ Len(circ \o s) = Len(circ) + Len(s)
        /\ \A i \in 1 .. Len(circ \o s) : (circ \o s)[i] = IF i <= Len(circ) THEN circ[i] ELSE s[i - Len(circ)]
    BY <1>1, Concat, Zenon
  <2> QED BY <2>1, Zenon DEF Joined
<1>4. CASE buffersize # 0 /\ Len(q) <= buffersize
  <2>1. circ' = q /\ disk' = disk
    BY <1>3, <1>4, Zenon DEF WriteData
  <2>2. Left(q, 0)
    <3>1. Len(q) = Len(q) - 0 /\ \A i \in 1 .. Len(q) - 0 : q[i] = q[0 + i]
      OBVIOUS
    <3> QED BY <2>1, <3>1, Zenon DEF Left
  <2>3. Moved(q, 0)
    <3>1. \A u \in Nat : ~(u > saved - Len(circ) /\ u <= saved - Len(circ) + 0)
      BY <1>1
    <3> QED BY <2>1, <3>1, Zenon DEF Moved
  <2>4. 0 \in 0 .. Len(q)
    OBVIOUS
  <2>5. Extended(s)
    BY <1>3, <2>2, <2>3, <2>4, Spread, Zenon
  <2> QED BY <1>1, <1>3, <1>4, <2>1, <2>5 DEF Stores
<1>5. CASE buffersize # 0 /\ ~(Len(q) <= buffersize)
  <2>1. PICK b \in 0 .. Len(q) : b = buffersize
    BY <1>1, <1>5
  <2>2. PICK p \in Seq(Unit) : /\ p = SubSeq(q, 1, b) /\ Len(p) = b
                               /\ \A i \in 1 .. b : p[i] = q[i]
    <3>1. SubSeq(q, 1, b) \in Seq(Unit) /\ Len(SubSeq(q, 1, b)) = b
      OBVIOUS
    <3>2. \A i \in 1 .. b : SubSeq(q, 1, b)[i] = q[i]
      OBVIOUS
    <3> QED BY <3>1, <3>2, Zenon
  <2>3. PICK r \in Seq(Unit) : /\ r = SubSeq(q, b + 1, Len(q)) /\ Len(r) = Len(q) - b
                               /\ \A i \in 1 .. Len(q) - b : r[i] = q[b + i]
    <3>1. SubSeq(q, b + 1, Len(q)) \in Seq(Unit) /\ Len(SubSeq(q, b + 1, Len(q))) = Len(q) - b
      OBVIOUS
    <3>2. \A i \in 1 .. Len(q) - b : SubSeq(q, b + 1, Len(q))[i] = q[b + i]
      OBVIOUS
    <3> QED BY <3>1, <3>2, Zenon
  <2>4. disk' = Written(disk, file, saved - Len(circ), p) /\ circ' = r
    BY <1>3, <1>5, <2>1, <2>2, <2>3, Zenon DEF WriteData
  <2>5. PICK pos \in Nat : pos = saved - Len(circ)
    <3>1. \A x, y \in Nat : y <= x => x - y \in Nat
      OBVIOUS
    <3> QED BY <1>1, <3>1, Zenon
  <2>6. Wrote(disk', disk, file, pos, p)
    BY <1>1, <2>4, <2>5, WrittenMeans, Zenon
  <2>7. IsDisk(disk')
    BY <2>6, Zenon DEF Wrote
  <2>8. Moved(q, b)
    <3> SUFFICES ASSUME NEW g \in Files, NEW u \in Nat, u \in 1 .. Lengths[g]
                 PROVE  disk'[g][u] = IF g = file /\ u > pos /\ u <= pos + b
                                      THEN q[u - pos] ELSE disk[g][u]
      BY <2>5, Zenon DEF Moved
    <3>1. disk'[g][u] = IF g = file /\ u > pos /\ u <= pos + b THEN p[u - pos] ELSE disk[g][u]
      BY <2>2, <2>6, Zenon DEF Wrote
    <3>2. u > pos /\ u <= pos + b => u - pos \in 1 .. b
      OBVIOUS
    <3> QED BY <2>2, <3>1, <3>2, Zenon
  <2>9. Left(q, b)
    BY <2>3, <2>4, Zenon DEF Left
  <2>10. Extended(s)
    BY <1>3, <2>8, <2>9, Spread, Zenon
  <2>11. Len(r) <= buffersize /\ Len(r) <= saved + Len(s)
    <3>1. buffersize = BufferSize
      BY <1>5, Zenon DEF Options
    <3>2. PICK n \in Nat : n = Len(s) /\ Len(q) = Len(circ) + n /\ n <= buffersize
      BY <1>3, <3>1
    <3>3. Len(r) = Len(circ) + n - buffersize
      BY <2>1, <2>3, <3>2
    <3> QED BY <1>1, <3>2, <3>3
  <2> QED BY <2>3, <2>4, <2>7, <2>10, <2>11, Zenon DEF Stores
<1> QED BY <1>2, <1>4, <1>5, Zenon

\* A file that is not in the list takes no units.
LEMMA WriteNothing ==
    ASSUME StoreOK, Options, file = 0, file' = file, NEW s, s = << >>, WriteData(s)
    PROVE  Stores(s)
<1>1. circ = << >> /\ IsDisk(disk) /\ buffersize \in Nat /\ saved \in Nat
  BY YmodemAssumption DEF StoreOK, Options
<1>2. circ \o s = << >> /\ Len(circ \o s) = 0 /\ Len(s) = 0
  BY <1>1
<1>3. circ' = << >> /\ disk' = disk
  BY <1>1, <1>2 DEF WriteData
<1>4. file \notin Files
  BY FilesType, Zenon
<1>5. \A f \in Files, u \in Nat : Stored(f, u)' = disk[f][u] /\ Stored(f, u) = disk[f][u]
  BY <1>3, <1>4, Zenon DEF Stored
<1>6. Extended(s)
  BY <1>4, <1>5, Zenon DEF Extended
<1>7. circ' \in Seq(Unit) /\ Len(circ') = 0
  BY <1>3
<1> QED BY <1>1, <1>2, <1>3, <1>6, <1>7 DEF Stores

LEMMA WriteStore ==
    ASSUME StoreOK, Options, file' = file, buffersize' = buffersize,
           NEW s \in Seq(Unit), saved' = saved + Len(s), Len(s) <= BufferSize, WriteData(s),
           file = 0 => s = << >>, file # 0 => saved + Len(s) <= Lengths[file]
    PROVE  StoreOK' /\ Extended(s)
<1>1. Stores(s)
  <2>1. CASE file = 0
    BY <2>1, WriteNothing, Zenon
  <2>2. CASE file # 0
    <3>1. file \in Files
      BY <2>2, Zenon DEF StoreOK
    <3> QED BY <2>2, <3>1, WriteFile, Zenon
  <2> QED BY <2>1, <2>2, Zenon
<1>2. file = 0 => circ' = << >>
  <2>1. file = 0 => circ = << >> /\ s = << >>
    BY Zenon DEF StoreOK
  <2>2. circ = << >> /\ s = << >> => circ \o s = << >>
    OBVIOUS
  <2>3. circ = << >> /\ s = << >> => Len(circ \o s) = 0 /\ 0 <= buffersize
    BY YmodemAssumption DEF Options
  <2> QED BY <2>1, <2>2, <2>3, Zenon DEF WriteData
<1>3. saved' \in Nat /\ Len(circ') <= saved' /\ (file' # 0 => saved' <= Lengths[file'])
  BY <1>1 DEF StoreOK, Stores
<1>4. file' \in Files \cup {0}
  BY Zenon DEF StoreOK
<1>5. /\ circ' \in Seq(Unit) /\ Len(circ') <= buffersize' /\ IsDisk(disk') /\ Extended(s)
  BY <1>1, Zenon DEF Stores
<1> QED BY <1>2, <1>3, <1>4, <1>5, Zenon DEF StoreOK

-----------------------------------------------------------------------------
(* What the line does to a packet and to an answer.                          *)

LEMMA TransmitTypes ==
    ASSUME fwd \in Seq(Item), faults \in 0 .. MaxFaults, NEW m \in Item, Transmit(m)
    PROVE  fwd' \in Seq(Item) /\ faults' \in 0 .. MaxFaults
<1>1. Bad \in Item
  BY Zenon DEF Item
<1>2. fwd' \in {fwd, Append(fwd, m), Append(fwd, Bad)}
  BY Zenon DEF Transmit
<1>3. Append(fwd, m) \in Seq(Item) /\ Append(fwd, Bad) \in Seq(Item)
  BY <1>1
<1>4. faults' = faults \/ (faults < MaxFaults /\ faults' = faults + 1)
  BY Zenon DEF Transmit
<1>5. fwd' \in Seq(Item)
  BY <1>2, <1>3, Zenon
<1>6. faults' \in 0 .. MaxFaults
  BY <1>4, YmodemAssumption
<1> QED BY <1>5, <1>6, Zenon

LEMMA TransmitOne ==
    ASSUME fwd = << >>, NEW m, Transmit(m)
    PROVE  fwd' # << >> => Len(fwd') = 1 /\ fwd'[1] \in {Bad, m}
<1>1. fwd' \in {fwd, Append(fwd, m), Append(fwd, Bad)}
  BY Zenon DEF Transmit
<1>2. Append(fwd, m) = <<m>> /\ Append(fwd, Bad) = <<Bad>>
  OBVIOUS
<1> QED BY <1>1, <1>2

LEMMA AnswerTypes ==
    ASSUME back \in Seq(Byte), faults \in 0 .. MaxFaults,
           NEW bytes \in Seq(Byte), NEW mended, Answer(bytes, mended)
    PROVE  back' \in Seq(Byte) /\ faults' \in 0 .. MaxFaults
<1>1. CASE back' = back \o bytes /\ faults' = faults
  BY <1>1
<1>2. CASE /\ faults < MaxFaults /\ faults' = faults + 1
           /\ \E i \in DOMAIN bytes :
                LET before == back \o SubSeq(bytes, 1, i - 1)
                    after  == SubSeq(bytes, i + 1, Len(bytes))
                IN  \/ back' = before \o after
                    \/ back' = before \o <<"junk">> \o after
  <2>1. PICK i \in DOMAIN bytes :
          \/ back' = (back \o SubSeq(bytes, 1, i - 1)) \o SubSeq(bytes, i + 1, Len(bytes))
          \/ back' = ((back \o SubSeq(bytes, 1, i - 1)) \o <<"junk">>) \o SubSeq(bytes, i + 1, Len(bytes))
    BY <1>2, Zenon
  <2>2. PICK n \in 0 .. Len(bytes) : n = i - 1
    OBVIOUS
  <2>3. PICK k \in 0 .. Len(bytes) : k = i
    OBVIOUS
  <2>4. SubSeq(bytes, 1, n) \in Seq(Byte) /\ SubSeq(bytes, k + 1, Len(bytes)) \in Seq(Byte)
    OBVIOUS
  <2>5. <<"junk">> \in Seq(Byte)
    BY DEF Byte
  <2>6. \A x, y \in Seq(Byte) : x \o y \in Seq(Byte)
    OBVIOUS
  <2>7. back' \in Seq(Byte)
    <3>1. CASE back' = (back \o SubSeq(bytes, 1, i - 1)) \o SubSeq(bytes, i + 1, Len(bytes))
      <4>1. back \o SubSeq(bytes, 1, n) \in Seq(Byte)
        BY <2>4, <2>6, Zenon
      <4>2. (back \o SubSeq(bytes, 1, n)) \o SubSeq(bytes, k + 1, Len(bytes)) \in Seq(Byte)
        BY <4>1, <2>4, <2>6, Zenon
      <4> QED BY <3>1, <4>2, <2>2, <2>3, Zenon
    <3>2. CASE back' = ((back \o SubSeq(bytes, 1, i - 1)) \o <<"junk">>) \o SubSeq(bytes, i + 1, Len(bytes))
      <4>1. back \o SubSeq(bytes, 1, n) \in Seq(Byte)
        BY <2>4, <2>6, Zenon
      <4>2. (back \o SubSeq(bytes, 1, n)) \o <<"junk">> \in Seq(Byte)
        BY <4>1, <2>5, <2>6, Zenon
      <4>3. ((back \o SubSeq(bytes, 1, n)) \o <<"junk">>) \o SubSeq(bytes, k + 1, Len(bytes)) \in Seq(Byte)
        BY <4>2, <2>4, <2>6, Zenon
      <4> QED BY <3>2, <4>3, <2>2, <2>3, Zenon
    <3> QED BY <2>1, <3>1, <3>2, Zenon
  <2>8. faults' \in 0 .. MaxFaults
    BY <1>2, YmodemAssumption
  <2> QED BY <2>7, <2>8, Zenon
<1> QED BY <1>1, <1>2, Zenon DEF Answer

LEMMA Join ==
    ASSUME NEW p \in Seq(Byte), NEW r \in Seq(Byte)
    PROVE  /\ p \o r \in Seq(Byte) /\ Len(p \o r) = Len(p) + Len(r)
           /\ Len(p) > 0 => (p \o r)[1] = p[1]
           /\ Len(p) = 0 => p \o r = r
<1>1. Len(p) = 0 => p = << >>
  OBVIOUS
<1> QED BY <1>1

\* What an answer to a packet may become: at most one byte of it is damaged,
\* and a second byte does not come first unless the first one is lost.
Heard(bytes) ==
    /\ Len(back') <= Len(bytes)
    /\ back' # << >> => \/ back'[1] = "junk" \/ back'[1] = bytes[1]
                        \/ back'[1] = bytes[2] /\ Len(back') = 1 /\ Len(bytes) = 2

LEMMA BytesLen == ASSUME NEW p \in Seq(Byte) PROVE Len(p) \in Nat
OBVIOUS

LEMMA FirstOrSecond ==
    ASSUME NEW n \in Nat, NEW i \in 1 .. n, n <= 2 PROVE i = 1 \/ (i = 2 /\ n = 2)
OBVIOUS

LEMMA OneDamaged ==
    ASSUME NEW bytes \in Seq(Byte), NEW i \in 1 .. Len(bytes), Len(bytes) <= 2,
           NEW p \in Seq(Byte), Len(p) = i - 1, i = 2 => p[1] = bytes[1],
           NEW r \in Seq(Byte), Len(r) = Len(bytes) - i, i = 1 /\ Len(bytes) = 2 => r[1] = bytes[2],
           back' = p \o r \/ back' = (p \o <<"junk">>) \o r
    PROVE  Heard(bytes)
<1>1. Len(bytes) \in Nat /\ (i = 1 \/ (i = 2 /\ Len(bytes) = 2))
  BY BytesLen, FirstOrSecond, Zenon
<1>2. CASE back' = p \o r
  <2>1. CASE i = 1
    <3>1. back' = r
      BY <1>2, <2>1, Join
    <3>2. Len(r) = Len(bytes) - 1 /\ (r # << >> => Len(r) = 1 /\ Len(bytes) = 2 /\ r[1] = bytes[2])
      BY <1>1, <2>1
    <3> QED BY <1>1, <3>1, <3>2 DEF Heard
  <2>2. CASE i = 2 /\ Len(bytes) = 2
    <3>1. Len(p) = 1 /\ Len(r) = 0 /\ p[1] = bytes[1]
      BY <2>2
    <3>2. Len(p \o r) = 1 /\ (p \o r)[1] = bytes[1]
      BY <3>1, Join
    <3> QED BY <1>2, <2>2, <3>2 DEF Heard
  <2> QED BY <1>1, <2>1, <2>2, Zenon
<1>3. CASE back' = (p \o <<"junk">>) \o r
  <2>1. <<"junk">> \in Seq(Byte) /\ Len(<<"junk">>) = 1 /\ <<"junk">>[1] = "junk"
    BY DEF Byte
  <2>2. PICK q \in Seq(Byte) : /\ q = p \o <<"junk">> /\ Len(q) = Len(p) + 1
                               /\ Len(p) > 0 => q[1] = p[1]
                               /\ Len(p) = 0 => q[1] = "junk"
    <3>1. /\ p \o <<"junk">> \in Seq(Byte) /\ Len(p \o <<"junk">>) = Len(p) + Len(<<"junk">>)
          /\ Len(p) > 0 => (p \o <<"junk">>)[1] = p[1]
          /\ Len(p) = 0 => p \o <<"junk">> = <<"junk">>
      BY <2>1, Join, Zenon
    <3> QED BY <2>1, <3>1, Zenon
  <2>3. Len(q) > 0 /\ Len(q) + Len(r) = Len(bytes)
    BY <2>2
  <2>4. Len(q \o r) = Len(q) + Len(r) /\ (q \o r)[1] = q[1]
    BY <2>3, Join, Zenon
  <2>5. q[1] = "junk" \/ q[1] = bytes[1]
    BY <1>1, <2>2
  <2>6. Len(back') = Len(bytes) /\ (back'[1] = "junk" \/ back'[1] = bytes[1])
    BY <1>3, <2>2, <2>3, <2>4, <2>5, Zenon
  <2>7. Len(bytes) <= Len(bytes)
    OBVIOUS
  <2> QED BY <2>6, <2>7, Zenon DEF Heard
<1> QED BY <1>2, <1>3, Zenon

LEMMA AnswerHeard ==
    ASSUME back = << >>, NEW bytes \in Seq(Byte), Len(bytes) \in {1, 2}, NEW mended,
           Answer(bytes, mended)
    PROVE  Heard(bytes)
<1>1. CASE back' = back \o bytes
  <2>1. back' = bytes
    BY <1>1
  <2> QED BY <2>1 DEF Heard
<1>2. ASSUME NEW i \in DOMAIN bytes,
             \/ back' = (back \o SubSeq(bytes, 1, i - 1)) \o SubSeq(bytes, i + 1, Len(bytes))
             \/ back' = ((back \o SubSeq(bytes, 1, i - 1)) \o <<"junk">>) \o SubSeq(bytes, i + 1, Len(bytes))
      PROVE  Heard(bytes)
  <2> DEFINE p == SubSeq(bytes, 1, i - 1)
             r == SubSeq(bytes, i + 1, Len(bytes))
  <2>1. i \in 1 .. Len(bytes) /\ i - 1 \in 0 .. Len(bytes) /\ i + 1 \in 1 .. Len(bytes) + 1
    OBVIOUS
  <2>2. p \in Seq(Byte) /\ Len(p) = i - 1 /\ (i = 2 => p[1] = bytes[1])
    BY <2>1
  <2>3. r \in Seq(Byte) /\ Len(r) = Len(bytes) - i /\ (i = 1 /\ Len(bytes) = 2 => r[1] = bytes[2])
    BY <2>1
  <2>6. back' = (back \o p) \o r \/ back' = ((back \o p) \o <<"junk">>) \o r
    BY <1>2, Zenon
  <2> HIDE DEF p, r
  <2>4. (back \o p = p) /\ Len(bytes) <= 2
    <3>1. << >> \o p = p
      BY <2>2, EmptyConcat, Zenon
    <3>2. \A n \in {1, 2} : n <= 2
      OBVIOUS
    <3> QED BY <3>1, <3>2, Zenon
  <2>5. back' = p \o r \/ back' = (p \o <<"junk">>) \o r
    BY <2>4, <2>6, Zenon
  <2> QED BY <2>1, <2>2, <2>3, <2>4, <2>5, OneDamaged, Zenon
<1> QED BY <1>1, <1>2, Zenon DEF Answer

-----------------------------------------------------------------------------
(* sb and the types.                                                         *)

LEMMA Kinds ==
    ASSUME NEW m \in Item
    PROVE  /\ m.kind = "name" => m \in Names
           /\ m.kind = "empty" => m \in Empties
           /\ m.kind = "data" => m \in Data
           /\ m.kind = "eot" => m = EOT
           /\ m.kind = "bad" => m = Bad
           /\ m.kind \in {"name", "data", "empty", "eot", "bad"}
BY DEF Item, Sent, Names, Empties, Data, EOT, Bad

LEMMA SentFields ==
    ASSUME NEW m \in Sent, Options
    PROVE  /\ m.seq \in 0 .. seqmod - 1 /\ m.file \in 1 .. Len(Lengths) + 1 /\ m.at \in Nat
           /\ m.size \in {Small, Big} /\ m.kind \in {"name", "data", "empty"}
           /\ m \in Names \/ m \in Data => m.file \in Files
           /\ m \in Names \/ m \in Empties => m.seq = 0 /\ m.at = 0
BY FilesType DEF Sent, Names, Empties, Data, Options, Files

LEMMA ItemSame ==
    ASSUME seqmod' = seqmod
    PROVE  Item' = Item /\ Data' = Data /\ Sent' = Sent /\ Names' = Names /\ Empties' = Empties
<1>1. Data' = Data
  BY Zenon DEF Data
<1>2. Names' = Names /\ Empties' = Empties /\ EOT' = EOT /\ Bad' = Bad
  BY Zenon DEF Names, Empties, EOT, Bad
<1>3. Sent' = Sent
  BY <1>1, <1>2, Zenon DEF Sent
<1> QED BY <1>1, <1>2, <1>3, Zenon DEF Item

\* What sb has in hand after a step, with the packet on the line or not.
Handled == SenderOK' /\ fwd' \in Seq(Item) /\ faults' \in 0 .. MaxFaults

LEMMA SendNameTypes ==
    ASSUME Types, seqmod' = seqmod, NEW f \in 1 .. Len(Lengths) + 1, SendName(f)
    PROVE  Handled
<1>1. Name(f) \in Names \/ f \notin Files
  BY Zenon DEF Names, Name
<1>2. Empty(f) \in Empties
  BY Zenon DEF Empties, Empty
<1>3. CASE f \in Files /\ packet' = Name(f) /\ spc' = "name" /\ tries' = tries /\ Transmit(packet')
  <2>1. PICK m \in Names : m = packet' /\ Transmit(m)
    BY <1>1, <1>3, Zenon
  <2>2. m \in Item
    BY Zenon DEF Item, Sent
  <2>3. fwd' \in Seq(Item) /\ faults' \in 0 .. MaxFaults
    BY <2>1, <2>2, TransmitTypes, Zenon DEF Types, LineOK
  <2>4. packet' \in Names' /\ packet' \in Sent'
    BY <2>1, ItemSame, Zenon DEF Sent
  <2>5. tries' \in 0 .. RETRY
    BY <1>3, Zenon DEF Types, SenderOK
  <2>6. packet' \notin Data'
    BY <2>1, ItemSame, Zenon DEF Names, Data
  <2> QED BY <1>3, <2>3, <2>4, <2>5, <2>6, Zenon DEF Handled, SenderOK
<1>4. CASE packet' = Empty(f) /\ spc' = "last" /\ tries' = tries /\ Transmit(packet')
  <2>1. PICK m \in Empties : m = packet' /\ Transmit(m)
    BY <1>2, <1>4, Zenon
  <2>2. m \in Item
    BY Zenon DEF Item, Sent
  <2>3. fwd' \in Seq(Item) /\ faults' \in 0 .. MaxFaults
    BY <2>1, <2>2, TransmitTypes, Zenon DEF Types, LineOK
  <2>4. packet' \in Empties' /\ packet' \in Sent'
    BY <2>1, ItemSame, Zenon DEF Sent
  <2>5. tries' \in 0 .. RETRY
    BY <1>4, Zenon DEF Types, SenderOK
  <2>6. packet' \notin Data'
    BY <2>1, ItemSame, Zenon DEF Empties, Data
  <2> QED BY <1>4, <2>3, <2>4, <2>5, <2>6, Zenon DEF Handled, SenderOK
<1> QED BY <1>3, <1>4, Zenon DEF SendName

\* The packet that SendData makes.
DataOf(f, at) ==
    [kind |-> "data", seq |-> (packet.seq + 1) % seqmod, file |-> f, at |-> at,
     size |-> IF Lengths[f] - at <= Small THEN Small ELSE Big]

LEMMA DataOfType ==
    ASSUME Options, packet.seq \in Nat, NEW f \in Files, NEW at \in Nat
    PROVE  DataOf(f, at) \in Data
<1>1. packet.seq + 1 \in Nat /\ seqmod \in Nat \ {0}
  BY DEF Options
<1>2. (packet.seq + 1) % seqmod \in 0 .. seqmod - 1
  BY <1>1, ModRange, Zenon
<1>3. (IF Lengths[f] - at <= Small THEN Small ELSE Big) \in {Small, Big}
  BY Zenon
<1> QED BY <1>2, <1>3, Zenon DEF DataOf, Data

LEMMA SendDataTypes ==
    ASSUME Types, seqmod' = seqmod, packet.seq \in Nat,
           NEW f \in Files, NEW at \in Nat, at <= Lengths[f], SendData(f, at)
    PROVE  Handled
<1>1. tries \in 0 .. RETRY /\ packet \in Sent \cup {Name(0)}
  BY Zenon DEF Types, SenderOK
<1>2. CASE packet' = DataOf(f, at) /\ spc' = "data" /\ tries' = tries /\ Transmit(packet')
  <2>1. PICK m \in Data : m = packet' /\ m = DataOf(f, at) /\ Transmit(m)
    BY <1>2, DataOfType, Zenon DEF Types
  <2>2. m \in Item
    BY Zenon DEF Item, Sent
  <2>3. fwd' \in Seq(Item) /\ faults' \in 0 .. MaxFaults
    BY <2>1, <2>2, TransmitTypes, Zenon DEF Types, LineOK
  <2>4. packet' \in Data' /\ packet' \in Sent'
    BY <2>1, ItemSame, Zenon DEF Sent
  <2>5. m.file = f /\ m.at = at
    BY <2>1 DEF DataOf
  <2>6. packet'.at <= Lengths[packet'.file]
    BY <2>1, <2>5, Zenon
  <2> QED BY <1>1, <1>2, <2>3, <2>4, <2>6, Zenon DEF Handled, SenderOK
<1> QED BY <1>2, Zenon DEF SendData, DataOf

\* The sender ends, or goes on to wait for 'C', and sends nothing.
Ends(s) == spc' = s /\ UNCHANGED <<packet, tries, fwd, faults>>

LEMMA SenderEndsTypes ==
    ASSUME Types, seqmod' = seqmod, NEW s, Ends(s),
           s \in {"ok", "fail"} \/ (s = "nameC" /\ spc = "name") \/ (s = "eotC" /\ spc = "eot")
    PROVE  Handled
<1>1. spc' = s /\ packet' = packet /\ tries' = tries /\ fwd' = fwd /\ faults' = faults
  BY Zenon DEF Ends
<1>2. fwd' \in Seq(Item) /\ faults' \in 0 .. MaxFaults
  BY <1>1, Zenon DEF Types, LineOK
<1>3. tries' \in 0 .. RETRY
  BY <1>1, Zenon DEF Types, SenderOK
<1>4. packet' \in Sent' \cup {Name(0)}' /\ (packet \in Names => packet' \in Names') /\ (packet \in Data => packet' \in Data')
  <2>1. Name(0)' = Name(0)
    BY Zenon DEF Name
  <2>2. packet \in Sent \cup {Name(0)}
    BY Zenon DEF Types, SenderOK
  <2> QED BY <1>1, <2>1, <2>2, ItemSame, Zenon
<1>5. /\ s = "nameC" => packet' \in Names'
      /\ s = "eotC" => packet' \in Data'
  BY <1>1, <1>4, Zenon DEF Types, SenderOK
<1>6. packet' \in Data' => packet'.at <= Lengths[packet'.file]
  BY <1>1, ItemSame, Zenon DEF Types, SenderOK
<1> QED BY <1>1, <1>2, <1>3, <1>4, <1>5, <1>6, Zenon DEF Handled, SenderOK

LEMMA SendAgainTypes ==
    ASSUME Types, seqmod' = seqmod, SendAgain
    PROVE  Handled
<1>1. /\ spc \notin {"hello", "ok", "fail"} /\ packet' = packet /\ tries' = tries
      /\ spc' = CASE spc = "nameC" -> "name" [] spc = "eotC" -> "eot" [] OTHER -> spc
      /\ Transmit(IF spc' = "eot" THEN EOT ELSE packet)
  BY Zenon DEF SendAgain
<1>2. /\ spc = "nameC" => spc' = "name"
      /\ spc = "eotC" => spc' = "eot"
      /\ spc \notin {"nameC", "eotC"} => spc' = spc
  BY <1>1, Zenon
<1>3. packet \in Sent /\ tries \in 0 .. RETRY
  BY <1>1, Zenon DEF Types, SenderOK, Sent
<1>4. packet \in Item /\ EOT \in Item
  BY <1>3, Zenon DEF Item
<1>5. PICK m \in Item : Transmit(m)
  BY <1>1, <1>4, Zenon
<1>6. fwd' \in Seq(Item) /\ faults' \in 0 .. MaxFaults
  BY <1>5, TransmitTypes, Zenon DEF Types, LineOK
<1>7. /\ packet' \in Sent' /\ (packet \in Names => packet' \in Names')
      /\ (packet \in Empties => packet' \in Empties') /\ (packet \in Data => packet' \in Data')
  BY <1>1, <1>3, ItemSame, Zenon
<1>8. /\ spc' \in {"name", "data", "eot", "last"}
      /\ spc' = "name" => packet \in Names
      /\ spc' \in {"data", "eot"} => packet \in Data
      /\ spc' = "last" => packet \in Empties
  BY <1>1, <1>2, Zenon DEF Types, SenderOK
<1>9. packet' \in Data' => packet'.at <= Lengths[packet'.file]
  BY <1>1, ItemSame, Zenon DEF Types, SenderOK
<1> QED BY <1>1, <1>3, <1>6, <1>7, <1>8, <1>9, Zenon DEF Handled, SenderOK

LEMMA DataAckTypes ==
    ASSUME Types, seqmod' = seqmod, DataAck
    PROVE  Handled
<1>1. spc = "data" /\ packet \in Data /\ packet.at <= Lengths[packet.file] /\ Options
  BY Zenon DEF DataAck, Types, SenderOK
<1>2. packet.seq \in Nat /\ packet.file \in Files /\ packet.at \in Nat /\ packet.size \in Nat
  BY <1>1, YmodemAssumption DEF Data, Options
<1>3. CASE packet.at + packet.size < Lengths[packet.file] /\ SendData(packet.file, packet.at + packet.size)
  <2>1. PICK f \in Files : f = packet.file
    BY <1>2, Zenon
  <2>2. PICK at \in Nat : at = packet.at + packet.size
    BY <1>2
  <2>3. at <= Lengths[f] /\ SendData(f, at)
    BY <1>3, <2>1, <2>2, FilesType
  <2> QED BY <1>2, <2>3, SendDataTypes, Zenon
<1>4. CASE spc' = "eot" /\ packet' = packet /\ tries' = tries /\ Transmit(EOT)
  <2>1. EOT \in Item
    BY Zenon DEF Item
  <2>2. fwd' \in Seq(Item) /\ faults' \in 0 .. MaxFaults
    BY <1>4, <2>1, TransmitTypes, Zenon DEF Types, LineOK
  <2>3. packet' \in Data' /\ packet' \in Sent'
    BY <1>1, <1>4, ItemSame, Zenon DEF Sent
  <2>4. tries' \in 0 .. RETRY
    BY <1>4, Zenon DEF Types, SenderOK
  <2> QED BY <1>1, <1>4, <2>2, <2>3, <2>4, Zenon DEF Handled, SenderOK
<1> QED BY <1>3, <1>4, Zenon DEF DataAck

LEMMA NoHelloTypes ==
    ASSUME Types, seqmod' = seqmod, NoHello
    PROVE  Handled
<1>1. /\ spc = "hello" /\ tries' = tries + 1 /\ packet' = packet /\ fwd' = fwd /\ faults' = faults
      /\ spc' = IF tries' < RETRY THEN "hello" ELSE "fail"
  BY Zenon DEF NoHello
<1>2. fwd' \in Seq(Item) /\ faults' \in 0 .. MaxFaults
  BY <1>1, Zenon DEF Types, LineOK
<1>3. tries' \in 0 .. RETRY /\ (spc' = "hello" => tries' < RETRY) /\ spc' \in {"hello", "fail"}
  BY <1>1, YmodemAssumption DEF Types, SenderOK
<1>4. packet' \in Sent' \cup {Name(0)}'
  <2>1. Name(0)' = Name(0)
    BY Zenon DEF Name
  <2>2. packet \in Sent \cup {Name(0)}
    BY Zenon DEF Types, SenderOK
  <2> QED BY <1>1, <2>1, <2>2, ItemSame, Zenon
<1>5. packet' \in Data' => packet'.at <= Lengths[packet'.file]
  BY <1>1, ItemSame, Zenon DEF Types, SenderOK
<1> QED BY <1>2, <1>3, <1>4, <1>5, Zenon DEF Handled, SenderOK

\* Nothing of rb changes in a step of sb.
LEMMA SenderFrame ==
    ASSUME SenderStep
    PROVE  /\ rpc' = rpc /\ total' = total /\ retries' = retries
           /\ file' = file /\ saved' = saved /\ circ' = circ /\ disk' = disk
           /\ buffersize' = buffersize /\ hasty' = hasty /\ seqmod' = seqmod
           /\ back # << >> /\ back' = Tail(back)
BY Zenon DEF SenderStep, receiver, options, store, Hello, NoHello, NameAck, NameCrc, DataAck, EotAck,
       EotCrc, LastAck, SendAgain, SendFails, Unexpected, Got

LEMMA SenderTypes ==
    ASSUME Types, SenderStep
    PROVE  Types'
<1>1. Handled
  <2>1. seqmod' = seqmod
    BY SenderFrame, Zenon
  <2>2. CASE Hello
    <3>1. 1 \in 1 .. Len(Lengths) + 1
      BY FilesType
    <3> QED BY <2>1, <2>2, <3>1, SendNameTypes, Zenon DEF Hello
  <2>3. CASE NoHello
    BY <2>1, <2>3, NoHelloTypes, Zenon
  <2>4. CASE NameAck
    BY <2>1, <2>4, SenderEndsTypes, Zenon DEF NameAck, SenderEnds, Ends
  <2>5. CASE NameCrc
    <3>1. packet \in Names /\ SendData(packet.file, 0)
      BY <2>5, Zenon DEF NameCrc, Types, SenderOK
    <3>2. packet.seq \in Nat /\ packet.file \in Files
      BY <3>1 DEF Names
    <3>3. \A n \in Nat : 0 \in Nat /\ 0 <= n
      OBVIOUS
    <3>4. 0 \in Nat /\ 0 <= Lengths[packet.file]
      BY <3>2, <3>3, FilesType, Zenon
    <3> QED BY <2>1, <3>1, <3>2, <3>4, SendDataTypes, Zenon
  <2>6. CASE DataAck
    BY <2>1, <2>6, DataAckTypes, Zenon
  <2>7. CASE EotAck
    BY <2>1, <2>7, SenderEndsTypes, Zenon DEF EotAck, SenderEnds, Ends
  <2>8. CASE EotCrc
    <3>1. packet \in Data /\ SendName(packet.file + 1)
      BY <2>8, Zenon DEF EotCrc, Types, SenderOK
    <3>2. packet.file + 1 \in 1 .. Len(Lengths) + 1
      BY <3>1, FilesType DEF Data, Files
    <3> QED BY <2>1, <3>1, <3>2, SendNameTypes, Zenon
  <2>9. CASE LastAck
    BY <2>1, <2>9, SenderEndsTypes, Zenon DEF LastAck, SenderEnds, Ends
  <2>10. CASE SendAgain
    BY <2>1, <2>10, SendAgainTypes, Zenon
  <2>11. CASE Unexpected
    BY <2>1, <2>11, SenderEndsTypes, Zenon DEF Unexpected, SenderEnds, Ends
  <2>12. CASE SendFails
    BY <2>1, <2>12, SenderEndsTypes, Zenon DEF SendFails, Ends
  <2> QED BY <2>2, <2>3, <2>4, <2>5, <2>6, <2>7, <2>8, <2>9, <2>10, <2>11, <2>12, Zenon DEF SenderStep
<1>2. Options' /\ ReceiverOK'
  BY SenderFrame, Zenon DEF Types, Options, ReceiverOK
<1>3. StoreOK'
  BY SenderFrame, Zenon DEF Types, StoreOK, IsDisk
<1>4. back' \in Seq(Byte)
  BY SenderFrame DEF Types, LineOK
<1>5. LineOK'
  BY <1>1, <1>4, SenderFrame, ItemSame, Zenon DEF Handled, LineOK
<1> QED BY <1>1, <1>2, <1>3, <1>5, Zenon DEF Types, Handled

-----------------------------------------------------------------------------
(* rb and the types.                                                         *)

LEMMA Bytes ==
    /\ <<"C">> \in Seq(Byte) /\ <<"ACK">> \in Seq(Byte) /\ <<"NAK">> \in Seq(Byte)
    /\ <<"ACK", "C">> \in Seq(Byte) /\ <<"CAN", "CAN">> \in Seq(Byte)
<1>1. "C" \in Byte /\ "ACK" \in Byte /\ "NAK" \in Byte /\ "CAN" \in Byte
  BY Zenon DEF Byte
<1> QED BY <1>1

\* The store of rb left alone.
Idle == file' = file /\ saved' = saved /\ circ' = circ /\ disk' = disk

LEMMA AnswerLine ==
    ASSUME Types, NEW bytes \in Seq(Byte), NEW mended, Answer(bytes, mended)
    PROVE  back' \in Seq(Byte) /\ faults' \in 0 .. MaxFaults
BY AnswerTypes, Zenon DEF Types, LineOK

LEMMA CountErrorTypes ==
    ASSUME Types, CountError
    PROVE  /\ back' \in Seq(Byte) /\ faults' \in 0 .. MaxFaults
           /\ rpc' \in {rpc, "fail"} /\ retries' \in 0 .. RETRY
<1>1. CASE /\ retries < RETRY /\ retries' = retries + 1 /\ UNCHANGED rpc
           /\ Answer(IF started THEN <<"NAK">> ELSE <<"C">>, TRUE)
  <2>1. PICK b \in Seq(Byte) : Answer(b, TRUE)
    BY <1>1, Bytes, Zenon
  <2>2. back' \in Seq(Byte) /\ faults' \in 0 .. MaxFaults
    BY <2>1, AnswerLine, Zenon
  <2>3. retries' \in 0 .. RETRY
    BY <1>1, YmodemAssumption DEF Types, ReceiverOK
  <2> QED BY <1>1, <2>2, <2>3, Zenon
<1>2. CASE retries = RETRY /\ UNCHANGED retries /\ Cancelled
  <2>1. back' \in Seq(Byte) /\ faults' \in 0 .. MaxFaults
    BY <1>2, Bytes, AnswerLine, Zenon DEF Cancelled
  <2>2. retries' \in 0 .. RETRY
    BY <1>2, Zenon DEF Types, ReceiverOK
  <2> QED BY <1>2, <2>1, <2>2, Zenon DEF Cancelled
<1> QED BY <1>1, <1>2, Zenon DEF CountError

\* The steps of rb that leave the files alone.
Quiet ==
    \/ Start \/ RecvEot \/ RecvBad \/ RecvTimeout \/ RecvPrevious \/ RecvWrong \/ RecvLast
    \/ (RecvName /\ HandlerFails) \/ (RecvData /\ HandlerFails)

LEMMA QuietTypes ==
    ASSUME Types, Quiet
    PROVE  Idle /\ ReceiverOK' /\ fwd' \in Seq(Item) /\ back' \in Seq(Byte) /\ faults' \in 0 .. MaxFaults
<1>1. /\ rpc \in {"start", "run", "ok", "fail", "exit_ok", "exit_fail"}
      /\ total \in Nat /\ retries \in 0 .. RETRY
  BY Zenon DEF Types, ReceiverOK
<1>2. fwd \in Seq(Item) /\ back \in Seq(Byte) /\ (fwd # << >> => Tail(fwd) \in Seq(Item))
  BY DEF Types, LineOK
<1>3. CASE Start
  <2>1. rpc' = "run" /\ Idle /\ total' = total /\ retries' = retries /\ fwd' = fwd /\ Answer(<<"C">>, FALSE)
    BY <1>3, Zenon DEF Start, Idle, store
  <2>2. back' \in Seq(Byte) /\ faults' \in 0 .. MaxFaults
    BY <2>1, Bytes, AnswerLine, Zenon
  <2> QED BY <1>1, <1>2, <2>1, <2>2, Zenon DEF ReceiverOK
<1>4. CASE RecvEot
  <2>1. /\ rpc' = rpc /\ Idle /\ total' = 0 /\ retries' = retries /\ fwd # << >> /\ fwd' = Tail(fwd)
        /\ Answer(<<"ACK", "C">>, FALSE)
    BY <1>4, Zenon DEF RecvEot, Received, Idle, store
  <2>2. back' \in Seq(Byte) /\ faults' \in 0 .. MaxFaults
    BY <2>1, Bytes, AnswerLine, Zenon
  <2> QED BY <1>1, <1>2, <2>1, <2>2, Zenon DEF ReceiverOK
<1>5. CASE RecvBad
  <2>1. /\ Idle /\ total' = total /\ CountError
        /\ \E n \in 2 .. Len(fwd) + 1 : fwd' = SubSeq(fwd, n, Len(fwd))
    BY <1>5, Zenon DEF RecvBad, Idle, store
  <2>2. fwd' \in Seq(Item)
    BY <1>2, <2>1
  <2> QED BY <1>1, <2>1, <2>2, CountErrorTypes, Zenon DEF ReceiverOK
<1>6. CASE RecvTimeout
  <2>1. Idle /\ total' = total /\ CountError /\ fwd' = fwd
    BY <1>6, Zenon DEF RecvTimeout, Idle, store
  <2> QED BY <1>1, <1>2, <2>1, CountErrorTypes, Zenon DEF ReceiverOK
<1>7. CASE RecvPrevious \/ RecvWrong \/ RecvLast
  <2>1. /\ rpc' \in {rpc, "ok"} /\ Idle /\ total' = total /\ retries' = retries
        /\ fwd # << >> /\ fwd' = Tail(fwd)
        /\ Answer(<<"ACK">>, TRUE) \/ Answer(<<"C">>, FALSE) \/ Answer(<<"ACK">>, FALSE)
    BY <1>7, Zenon DEF RecvPrevious, RecvWrong, RecvLast, Received, Idle, store
  <2>2. back' \in Seq(Byte) /\ faults' \in 0 .. MaxFaults
    BY <2>1, Bytes, AnswerLine, Zenon
  <2> QED BY <1>1, <1>2, <2>1, <2>2, Zenon DEF ReceiverOK
<1>8. CASE (RecvName \/ RecvData) /\ HandlerFails
  <2>1. /\ rpc' = "fail" /\ Idle /\ total' = total /\ retries' = retries /\ faults' = faults
        /\ fwd # << >> /\ fwd' = Tail(fwd) /\ back' = back \o <<"CAN", "CAN">>
    BY <1>8, Zenon DEF RecvName, RecvData, Received, HandlerFails, Idle, store
  <2>2. back' \in Seq(Byte)
    BY <1>2, <2>1, Bytes
  <2>3. faults' \in 0 .. MaxFaults
    BY <2>1, Zenon DEF Types, LineOK
  <2> QED BY <1>1, <1>2, <2>1, <2>2, <2>3, Zenon DEF ReceiverOK
<1> QED BY <1>3, <1>4, <1>5, <1>6, <1>7, <1>8, Zenon DEF Quiet

\* A flush, by the writer thread, at the end or at the next name.
LEMMA FlushTypes ==
    ASSUME StoreOK, disk' = Flushed, circ' = << >>, buffersize' = buffersize,
           file' \in Files \cup {0}, saved' \in Nat, file' # 0 => saved' <= Lengths[file'],
           Options
    PROVE  StoreOK'
<1>1. IsDisk(disk')
  BY FlushStore, Zenon
<1>2. Len(circ') = 0 /\ circ' \in Seq(Unit)
  OBVIOUS
<1>3. Len(circ') <= buffersize' /\ Len(circ') <= saved'
  BY <1>2, YmodemAssumption DEF Options
<1> QED BY <1>1, <1>2, <1>3, Zenon DEF StoreOK

\* The units that a packet brings.
UnitsOf(m) == [i \in 1 .. SizeOf(m) |-> <<m.file, m.at + i>>]

LEMMA UnitsType ==
    ASSUME StoreOK, Options, NEW m \in Sent
    PROVE  /\ SizeOf(m) \in Nat /\ SizeOf(m) <= BufferSize /\ SizeOf(m) <= m.size
           /\ UnitsOf(m) \in Seq(Unit) /\ Len(UnitsOf(m)) = SizeOf(m)
           /\ \A i \in 1 .. SizeOf(m) : UnitsOf(m)[i] = <<m.file, m.at + i>>
           /\ file = 0 => UnitsOf(m) = << >>
           /\ file # 0 => saved + SizeOf(m) <= Lengths[file]
<1>1. m.file \in Nat /\ m.at \in Nat /\ m.size \in Nat /\ m.size <= BufferSize
  <2>1. m.file \in 1 .. Len(Lengths) + 1 /\ m.at \in Nat /\ m.size \in {Small, Big}
    BY SentFields, Zenon
  <2> QED BY <2>1, FilesType, YmodemAssumption
<1>2. /\ SizeOf(m) \in Nat /\ SizeOf(m) <= BufferSize /\ SizeOf(m) <= m.size
      /\ file # 0 => saved + SizeOf(m) <= Lengths[file]
      /\ file = 0 => SizeOf(m) = 0
  <2>1. CASE file = 0
    BY <1>1, <2>1, YmodemAssumption DEF SizeOf
  <2>2. CASE file # 0
    <3>1. Lengths[file] \in Nat /\ saved \in Nat /\ saved <= Lengths[file]
      BY <2>2, FilesType, Zenon DEF StoreOK
    <3>2. SizeOf(m) = IF saved + m.size > Lengths[file] THEN Lengths[file] - saved ELSE m.size
      BY <2>2, Zenon DEF SizeOf
    <3>3. \A x, y, z, b \in Nat : \A w : y <= x /\ z <= b /\ w = (IF y + z > x THEN x - y ELSE z) =>
            w \in Nat /\ w <= b /\ w <= z /\ y + w <= x
      OBVIOUS
    <3>4. BufferSize \in Nat
      BY YmodemAssumption, Zenon
    <3>5. /\ SizeOf(m) \in Nat /\ SizeOf(m) <= BufferSize /\ SizeOf(m) <= m.size
          /\ saved + SizeOf(m) <= Lengths[file]
      BY <1>1, <3>1, <3>2, <3>3, <3>4, Zenon
    <3> QED BY <2>2, <3>5, Zenon
  <2> QED BY <2>1, <2>2, Zenon
<1>3. PICK n \in Nat : n = SizeOf(m)
  BY <1>2, Zenon
<1>4. \A i \in 1 .. n : <<m.file, m.at + i>> \in Unit
  BY <1>1 DEF Unit
<1>5. UnitsOf(m) = [i \in 1 .. n |-> <<m.file, m.at + i>>]
  BY <1>3, Zenon DEF UnitsOf
<1>6. UnitsOf(m) \in Seq(Unit) /\ Len(UnitsOf(m)) = n
  BY <1>4, <1>5
<1>7. \A i \in 1 .. n : UnitsOf(m)[i] = <<m.file, m.at + i>>
  BY <1>5, Zenon
<1>8. n = 0 => UnitsOf(m) = << >>
  BY <1>6
<1> QED BY <1>2, <1>3, <1>6, <1>7, <1>8, Zenon

\* The next file is opened.
Opened ==
    /\ disk' = Flushed /\ circ' = << >>
    /\ file' = (IF Head(fwd).kind = "name" THEN Head(fwd).file ELSE 0) /\ saved' = 0
    /\ total' = 1 /\ rpc' = rpc /\ retries' = retries
    /\ fwd # << >> /\ fwd' = Tail(fwd) /\ Answer(<<"ACK", "C">>, FALSE)

LEMMA OpenedTypes ==
    ASSUME Types, Opened, buffersize' = buffersize
    PROVE  StoreOK' /\ ReceiverOK' /\ fwd' \in Seq(Item) /\ back' \in Seq(Byte) /\ faults' \in 0 .. MaxFaults
<1>1. back' \in Seq(Byte) /\ faults' \in 0 .. MaxFaults
  BY Bytes, AnswerLine, Zenon DEF Opened
<1>2. ReceiverOK'
  BY Zenon DEF Opened, Types, ReceiverOK
<1>3. fwd \in Seq(Item) /\ fwd # << >> /\ fwd' \in Seq(Item)
  BY DEF Opened, Types, LineOK
<1>4. PICK m \in Item : m = Head(fwd)
  BY <1>3
<1>5. file' \in Files \cup {0}
  BY <1>4, Kinds, Zenon DEF Opened, Names
<1>6. saved' \in Nat /\ (file' # 0 => saved' <= Lengths[file'])
  BY <1>5, FilesType DEF Opened
<1>7. StoreOK'
  BY <1>5, <1>6, FlushTypes, Zenon DEF Opened, Types
<1> QED BY <1>1, <1>2, <1>3, <1>7, Zenon

\* A data packet is taken.
Accepted(m) ==
    /\ WriteData(UnitsOf(m)) /\ saved' = saved + SizeOf(m)
    /\ total' = total + 1 /\ retries' = 0 /\ rpc' = rpc /\ file' = file
    /\ fwd # << >> /\ fwd' = Tail(fwd) /\ Answer(<<"ACK">>, total' % seqmod # 0)

LEMMA AcceptedTypes ==
    ASSUME Types, NEW m \in Sent, Accepted(m), buffersize' = buffersize
    PROVE  /\ StoreOK' /\ ReceiverOK' /\ fwd' \in Seq(Item) /\ back' \in Seq(Byte)
           /\ faults' \in 0 .. MaxFaults /\ Extended(UnitsOf(m))
<1>1. back' \in Seq(Byte) /\ faults' \in 0 .. MaxFaults
  BY Bytes, AnswerLine, Zenon DEF Accepted
<1>2. ReceiverOK'
  BY YmodemAssumption DEF Accepted, Types, ReceiverOK
<1>3. fwd' \in Seq(Item)
  BY DEF Accepted, Types, LineOK
<1>4. PICK s \in Seq(Unit) : s = UnitsOf(m) /\ Len(s) = SizeOf(m)
  BY UnitsType, Zenon DEF Types
<1>5. /\ Len(s) <= BufferSize /\ (file = 0 => s = << >>)
      /\ (file # 0 => saved + Len(s) <= Lengths[file])
  BY <1>4, UnitsType, Zenon DEF Types
<1>6. WriteData(s) /\ saved' = saved + Len(s) /\ file' = file
  BY <1>4, Zenon DEF Accepted
<1>7. StoreOK' /\ Extended(s)
  BY <1>5, <1>6, WriteStore, Zenon DEF Types
<1> QED BY <1>1, <1>2, <1>3, <1>4, <1>7, Zenon

\* A flush by the writer thread, or its end.
Flushes ==
    /\ (disk' = Flushed /\ circ' = << >>) \/ (disk' = disk /\ circ' = circ)
    /\ total' = total /\ retries' = retries /\ file' = file /\ saved' = saved
    /\ fwd' = fwd /\ back' = back /\ faults' = faults
    /\ rpc' \in {rpc, "exit_ok", "exit_fail"} /\ rpc # "start"

LEMMA FlushesTypes ==
    ASSUME Types, Flushes, buffersize' = buffersize
    PROVE  StoreOK' /\ ReceiverOK' /\ fwd' \in Seq(Item) /\ back' \in Seq(Byte) /\ faults' \in 0 .. MaxFaults
<1>1. ReceiverOK' /\ fwd' \in Seq(Item) /\ back' \in Seq(Byte) /\ faults' \in 0 .. MaxFaults
  BY Zenon DEF Flushes, Types, LineOK, ReceiverOK
<1>2. /\ StoreOK /\ Options /\ file' = file /\ saved' = saved
      /\ file' \in Files \cup {0} /\ saved' \in Nat /\ (file' # 0 => saved' <= Lengths[file'])
  BY Zenon DEF Flushes, Types, StoreOK
<1>3. CASE disk' = Flushed /\ circ' = << >>
  BY <1>1, <1>2, <1>3, FlushTypes, Zenon
<1>4. CASE disk' = disk /\ circ' = circ
  <2>1. StoreOK'
    BY <1>2, <1>4, Zenon DEF StoreOK, IsDisk
  <2> QED BY <1>1, <2>1, Zenon
<1> QED BY <1>3, <1>4, Zenon DEF Flushes

\* Every step of rb is one of these.
LEMMA ReceiverFrame ==
    ASSUME ReceiverStep
    PROVE  /\ spc' = spc /\ packet' = packet /\ tries' = tries
           /\ buffersize' = buffersize /\ hasty' = hasty /\ seqmod' = seqmod
           /\ \/ Quiet
              \/ RecvName /\ Opened
              \/ RecvData /\ Accepted(Head(fwd))
              \/ Flushes
<1>1. /\ spc' = spc /\ packet' = packet /\ tries' = tries
      /\ buffersize' = buffersize /\ hasty' = hasty /\ seqmod' = seqmod
  BY Zenon DEF ReceiverStep, ReceiverLoop, sender, options
<1>2. CASE ReceiverLoop
  <2>1. CASE RecvName
    <3>1. Opened \/ HandlerFails
      BY <2>1, Zenon DEF RecvName, Received, Opened
    <3> QED BY <1>1, <2>1, <3>1, Zenon DEF Quiet
  <2>2. CASE RecvData
    <3>1. Accepted(Head(fwd)) \/ HandlerFails
      BY <2>2, Zenon DEF RecvData, Received, Accepted, UnitsOf
    <3> QED BY <1>1, <2>2, <3>1, Zenon DEF Quiet
  <2> QED BY <1>1, <1>2, <2>1, <2>2, Zenon DEF ReceiverLoop, Quiet
<1>3. CASE AsyncWrite
  <2>1. Flushes
    BY <1>3, Zenon DEF AsyncWrite, Flush, Flushes
  <2> QED BY <1>1, <2>1, Zenon
<1>4. CASE Exit
  <2>1. CASE Flush
    BY <1>1, <1>4, <2>1, Zenon DEF Exit, Flush, Flushes
  <2>2. CASE UNCHANGED <<total, started, retries, store, line>>
    BY <1>1, <1>4, <2>2, Zenon DEF Exit, Flushes, store, line
  <2> QED BY <1>4, <2>1, <2>2, Zenon DEF Exit
<1> QED BY <1>2, <1>3, <1>4, Zenon DEF ReceiverStep

LEMMA ReceiverTypes ==
    ASSUME Types, ReceiverStep
    PROVE  Types'
<1>1. /\ StoreOK' /\ ReceiverOK' /\ fwd' \in Seq(Item) /\ back' \in Seq(Byte)
      /\ faults' \in 0 .. MaxFaults
  <2>1. CASE Quiet
    <3>1. Idle /\ ReceiverOK' /\ fwd' \in Seq(Item) /\ back' \in Seq(Byte) /\ faults' \in 0 .. MaxFaults
      BY <2>1, QuietTypes, Zenon
    <3>2. StoreOK'
      BY <3>1, ReceiverFrame, Zenon DEF Idle, Types, StoreOK, IsDisk
    <3> QED BY <3>1, <3>2, Zenon
  <2>2. CASE Opened
    BY <2>2, OpenedTypes, ReceiverFrame, Zenon
  <2>3. CASE RecvData /\ Accepted(Head(fwd))
    <3>1. fwd \in Seq(Item) /\ fwd # << >> /\ Head(fwd).kind \in {"name", "data", "empty"}
      BY <2>3, Zenon DEF RecvData, Received, Packets, Types, LineOK
    <3>2. PICK m \in Item : m = Head(fwd)
      BY <3>1
    <3>3. m \in Sent
      BY <3>1, <3>2, Kinds, Zenon DEF Sent
    <3>4. Accepted(m)
      BY <2>3, <3>2, Zenon
    <3> QED BY <3>3, <3>4, AcceptedTypes, ReceiverFrame, Zenon
  <2>4. CASE Flushes
    BY <2>4, FlushesTypes, ReceiverFrame, Zenon
  <2> QED BY <2>1, <2>2, <2>3, <2>4, ReceiverFrame, Zenon
<1>2. Options'
  BY ReceiverFrame, Zenon DEF Types, Options
<1>3. SenderOK'
  <2>1. SenderOK /\ Name(0)' = Name(0)
    BY Zenon DEF Types, Name
  <2> QED BY <2>1, ReceiverFrame, ItemSame, Zenon DEF SenderOK
<1>4. LineOK'
  BY <1>1, ReceiverFrame, ItemSame, Zenon DEF LineOK
<1> QED BY <1>1, <1>2, <1>3, <1>4, Zenon DEF Types

-----------------------------------------------------------------------------
(* A receiver that is not hasty: steps of sb.                                *)

LEMMA IdleStored ==
    ASSUME Idle
    PROVE  \A f, u : Stored(f, u)' = Stored(f, u)
BY Zenon DEF Idle, Stored

LEMMA AckedUnitsType ==
    Types => \A f \in Files : AckedUnits(f) \in Nat
<1> SUFFICES ASSUME Types PROVE \A f \in Files : AckedUnits(f) \in Nat
  BY Zenon
<1>1. packet.at \in Nat
  <2>1. CASE packet \in Sent
    BY <2>1, SentFields, Zenon DEF Types
  <2>2. CASE packet = Name(0)
    BY <2>2, Zenon DEF Name
  <2> QED BY <2>1, <2>2, Zenon DEF Types, SenderOK
<1> QED BY <1>1, FilesType, Zenon DEF AckedUnits

\* sb learns only of what it knew before or what rb has saved.
LEMMA Learns ==
    ASSUME Types, Types', Idle, Prefix, Kept,
           \A f \in Files : \/ AckedUnits(f)' <= AckedUnits(f)
                            \/ f = file /\ AckedUnits(f)' <= saved
    PROVE  Prefix' /\ Kept'
<1>1. Prefix'
  BY IdleStored, Zenon DEF Prefix, Idle
<1>2. ASSUME NEW f \in Files, NEW u \in Nat, (u \in 1 .. AckedUnits(f))'
      PROVE  Stored(f, u)' = <<f, u>>
  <2>6. AckedUnits(f)' \in Nat
    <3>1. packet'.at \in Nat
      BY SMTT(30) DEF Types, SenderOK, Sent, Names, Empties, Data, Name
    <3> QED BY <3>1, FilesType, Zenon DEF AckedUnits
  <2>1. PICK n \in Nat : n = AckedUnits(f)'
    BY <2>6, Zenon
  <2>2. PICK k \in Nat : k = AckedUnits(f)
    BY AckedUnitsType, Zenon
  <2>3. PICK s \in Nat : s = saved
    BY Zenon DEF Types, StoreOK
  <2>4. u \in 1 .. n /\ (n <= k \/ (f = file /\ n <= s))
    BY <1>2, <2>1, <2>2, <2>3, Zenon
  <2>5. u \in 1 .. k \/ (f = file /\ u \in 1 .. s)
    BY <2>4
  <2> QED BY <2>2, <2>3, <2>5, IdleStored, SMTT(30) DEF Prefix, Kept
<1>3. Kept'
  BY <1>2, Zenon DEF Kept
<1> QED BY <1>1, <1>3, Zenon

\* sb steps when an answer has come, and then no packet is on the line.
LEMMA SenderTurn ==
    ASSUME Types, Turns, SenderStep, spc \notin {"ok", "fail"}
    PROVE  /\ fwd = << >> /\ rpc' # "start" /\ Len(back') <= 1
           /\ Head(back) \in {"C", "NAK"} => back' = << >>
           /\ Head(back) = "ACK" => back' = << >> \/ spc \in {"name", "eot"}
           /\ Head(back) = "ACK" /\ spc \in {"name", "data", "eot"} => Taken
<1>1. back # << >> /\ back' = Tail(back) /\ rpc' = rpc /\ back \in Seq(Byte)
  BY SenderFrame, Zenon DEF Types, LineOK
<1>2. /\ Len(back) \in Nat /\ Len(back) # 0 /\ Head(back) = back[1]
      /\ Len(Tail(back)) = Len(back) - 1 /\ (Len(back) = 1 => Tail(back) = << >>)
  BY <1>1
<1>3. /\ Len(back) <= 2
      /\ back[1] \in {"C", "NAK"} => Len(back) = 1
      /\ back[1] = "ACK" => Len(back) = 1 \/ spc \in {"name", "eot"}
      /\ back[1] = "ACK" /\ spc \in {"name", "data", "eot"} => Taken
  BY <1>1, Zenon DEF Turns
<1>4. fwd = << >> /\ rpc # "start"
  BY <1>1, Zenon DEF Turns
<1>5. Len(back') <= 1
  BY <1>1, <1>2, <1>3
<1> QED BY <1>1, <1>2, <1>3, <1>4, <1>5, Zenon

\* sb sends a packet, or waits without one.
LEMMA Sends ==
    ASSUME fwd = << >>, back' = << >>, rpc' # "start", NEW m, Transmit(m),
           m = IF spc' = "eot" THEN EOT ELSE packet', spc' \in {"name", "data", "eot", "last"}
    PROVE  Turns'
<1>1. fwd' # << >> => Len(fwd') = 1 /\ fwd'[1] \in {Bad, m}
  BY TransmitOne, Zenon
<1>2. Bad' = Bad /\ EOT' = EOT
  BY Zenon DEF Bad, EOT
<1>3. spc' \notin {"hello", "nameC", "eotC", "ok", "fail"}
  BY Zenon
<1> QED BY <1>1, <1>2, <1>3, Zenon DEF Turns

LEMMA Waits ==
    ASSUME fwd' = << >>, back' \in Seq(Byte), Len(back') <= 1, rpc' # "start",
           spc' \in {"hello", "nameC", "eotC", "ok", "fail"}
    PROVE  Turns'
<1>3. \A s \in Seq(Byte) : s # << >> /\ Len(s) <= 1 => Len(s) = 1 /\ Len(s) <= 2
  <2>1. \A s \in Seq(Byte) : s # << >> => Len(s) # 0
    BY EmptySequence, Zenon
  <2>2. \A s \in Seq(Byte) : Len(s) \in Nat
    OBVIOUS
  <2>3. \A n \in Nat : n # 0 /\ n <= 1 => n = 1 /\ n <= 2
    OBVIOUS
  <2> QED BY <2>1, <2>2, <2>3, Zenon
<1>1. back' # << >> => Len(back') = 1 /\ Len(back') <= 2
  BY <1>3, Zenon
<1>2. spc' \notin {"name", "data", "eot"}
  BY Zenon
<1> QED BY <1>1, <1>2, Zenon DEF Turns

LEMMA ModNext ==
    ASSUME NEW t \in Nat, t > 0, NEW q \in Nat \ {0, 1}
    PROVE  (((t - 1) % q) + 1) % q = t % q
<1>1. PICK a \in Nat : a = t - 1 /\ t = a + 1
  OBVIOUS
<1>2. PICK r \in 0 .. q - 1 : r = a % q
  BY ModRange, Zenon
<1>3. (q * 0 + r) % q = r /\ q * 0 + r = r
  BY ModUnique
<1>4. (a + 1) % q = IF a % q = q - 1 THEN 0 ELSE (a % q) + 1
  BY ModStep, Zenon
<1>8. r \in Nat
  OBVIOUS
<1>5. (r + 1) % q = IF r % q = q - 1 THEN 0 ELSE (r % q) + 1
  BY <1>8, ModStep, Zenon
<1>6. r % q = r
  BY <1>3, Zenon
<1>7. (r + 1) % q = (a + 1) % q
  BY <1>2, <1>4, <1>5, <1>6, Zenon
<1> QED BY <1>1, <1>2, <1>7, Zenon

LEMMA PacketNumbers ==
    Types => packet.at \in Nat /\ packet.file \in Nat /\ packet.seq \in Nat
<1> SUFFICES ASSUME Types PROVE packet.at \in Nat /\ packet.file \in Nat /\ packet.seq \in Nat
  BY Zenon
<1>1. CASE packet \in Sent
  <2>1. /\ packet.seq \in 0 .. seqmod - 1 /\ packet.file \in 1 .. Len(Lengths) + 1 /\ packet.at \in Nat
    BY <1>1, SentFields, Zenon DEF Types
  <2> QED BY <2>1, FilesType DEF Types, Options
<1>2. CASE packet = Name(0)
  BY <1>2, Zenon DEF Name
<1> QED BY <1>1, <1>2, Zenon DEF Types, SenderOK

\* The name of file f, or the end of the session in its place.
LEMMA NamePaced ==
    ASSUME Types, Types', Paced, SenderStep, NEW f \in 1 .. Len(Lengths) + 1, SendName(f),
           fwd = << >>, back' = << >>, rpc' # "start", total = 0,
           \A g \in Files : g < f => AckedUnits(g) = Lengths[g]
    PROVE  Paced'
<1>1. /\ spc' \in {"name", "last"} /\ packet'.file = f /\ packet'.at = 0 /\ Transmit(packet')
  BY DEF SendName, Name, Empty
<1>2. total' = 0 /\ Idle
  BY SenderFrame, Zenon DEF Idle
<1>3. Sync'
  BY <1>1, <1>2, Zenon DEF Sync, Due
<1>4. Turns'
  <2>1. packet' = IF spc' = "eot" THEN EOT ELSE packet'
    BY <1>1, Zenon
  <2> QED BY <1>1, <2>1, Sends, Zenon
<1>5. ASSUME NEW g \in Files
      PROVE  AckedUnits(g)' <= AckedUnits(g)
  <2>1. AckedUnits(g)' = IF g < f THEN Lengths[g] ELSE 0
    BY <1>1, Zenon DEF AckedUnits
  <2>2. AckedUnits(g) \in Nat
    BY AckedUnitsType, Zenon
  <2> QED BY <2>1, <2>2
<1>6. Prefix' /\ Kept'
  BY <1>2, <1>5, Learns, Zenon DEF Paced
<1> QED BY <1>3, <1>4, <1>6, Zenon DEF Paced

\* The units of file f from at on, all before it being saved.
LEMMA DataPaced ==
    ASSUME Types, Types', Paced, SenderStep, NEW f \in Files, NEW at \in Nat, SendData(f, at),
           fwd = << >>, back' = << >>, rpc' # "start", spc \in {"nameC", "data"},
           f = packet.file, file = f, saved = at, total > 0, packet.seq = (total - 1) % seqmod
    PROVE  Paced'
<1>1. /\ total' = total /\ Idle /\ seqmod' = seqmod /\ total \in Nat /\ seqmod \in Nat \ {0, 1}
  BY SenderFrame, Zenon DEF Idle, Types, ReceiverOK, Options
<1>2. CASE packet' = DataOf(f, at) /\ spc' = "data" /\ Transmit(packet')
  <2>1. packet'.file = f /\ packet'.at = at /\ packet'.seq = (packet.seq + 1) % seqmod
    BY <1>2, Zenon DEF DataOf
  <2>2. packet'.seq = total % seqmod
    BY <1>1, <2>1, ModNext, Zenon
  <2>3. Sync'
    <3>1. Due'
      BY <1>1, <1>2, <2>1, <2>2, Zenon DEF Due, Idle
    <3> QED BY <1>2, <3>1, Zenon DEF Sync
  <2>4. Turns'
    <3>1. packet' = IF spc' = "eot" THEN EOT ELSE packet'
      BY <1>2, Zenon
    <3>2. spc' \in {"name", "data", "eot", "last"}
      BY <1>2, Zenon
    <3> QED BY <1>2, <3>1, <3>2, Sends, Zenon
  <2>5. ASSUME NEW g \in Files
        PROVE  AckedUnits(g)' <= AckedUnits(g) \/ (g = file /\ AckedUnits(g)' <= saved)
    <3>1. AckedUnits(g)' = IF g < f THEN Lengths[g] ELSE IF g = f THEN at ELSE 0
      BY <1>2, <2>1, Zenon DEF AckedUnits
    <3>2. AckedUnits(g) \in Nat /\ (g < f => AckedUnits(g) = Lengths[g])
      BY AckedUnitsType, Zenon DEF AckedUnits
    <3> QED BY <3>1, <3>2
  <2>6. Prefix' /\ Kept'
    BY <1>1, <2>5, Learns, Zenon DEF Paced
  <2> QED BY <2>3, <2>4, <2>6, Zenon DEF Paced
<1> QED BY <1>2, Zenon DEF SendData, DataOf

\* sb ends, or goes on to wait for 'C'.
LEMMA EndsPaced ==
    ASSUME Types, Types', Paced, SenderStep, NEW s, Ends(s), spc \notin {"ok", "fail"},
           s \in {"ok", "fail"} \/ (Taken /\ ((s = "nameC" /\ spc = "name") \/ (s = "eotC" /\ spc = "eot")))
    PROVE  Paced'
<1>1. /\ spc' = s /\ packet' = packet /\ fwd' = fwd /\ s \in {"ok", "fail", "nameC", "eotC"}
  BY Zenon DEF Ends
<1>2. total' = total /\ Idle
  BY SenderFrame, Zenon DEF Idle
<1>3. Sync'
  <2>1. s \in {"nameC", "eotC"} => Taken'
    BY <1>1, <1>2, Zenon DEF Taken, Idle
  <2> QED BY <1>1, <2>1, Zenon DEF Sync
<1>4. Turns'
  <2>1. fwd = << >> /\ rpc' # "start" /\ Len(back') <= 1
    BY SenderTurn, Zenon DEF Paced
  <2>2. back' \in Seq(Byte)
    BY Zenon DEF Types, LineOK
  <2> QED BY <1>1, <2>1, <2>2, Waits, Zenon
<1>5. ASSUME NEW g \in Files
      PROVE  AckedUnits(g)' <= AckedUnits(g)
  <2>1. AckedUnits(g) \in Nat
    BY AckedUnitsType, Zenon
  <2>2. CASE spc \in {"eot", "eotC"} /\ g = packet.file
    <3>1. packet.at \in Nat /\ packet.at <= Lengths[g] /\ Lengths[g] \in Nat
      BY <2>2, PacketNumbers, FilesType, Zenon DEF Types, SenderOK
    <3>2. AckedUnits(g) = Lengths[g] /\ AckedUnits(g)' \in {Lengths[g], packet.at, 0}
      BY <1>1, <2>2, Zenon DEF AckedUnits
    <3> QED BY <3>1, <3>2
  <2>3. CASE ~(spc \in {"eot", "eotC"} /\ g = packet.file)
    <3>1. AckedUnits(g)' = AckedUnits(g)
      BY <1>1, <2>3, Zenon DEF AckedUnits
    <3> QED BY <2>1, <3>1
  <2> QED BY <2>2, <2>3, Zenon
<1>6. Prefix' /\ Kept'
  BY <1>2, <1>5, Learns, Zenon DEF Paced
<1> QED BY <1>3, <1>4, <1>6, Zenon DEF Paced

LEMMA NoHelloPaced ==
    ASSUME Types, Types', Paced, SenderStep, NoHello
    PROVE  Paced'
<1>1. /\ spc = "hello" /\ spc' \in {"hello", "fail"} /\ packet' = packet /\ fwd' = fwd
  BY Zenon DEF NoHello
<1>2. total' = total /\ Idle
  BY SenderFrame, Zenon DEF Idle
<1>3. Sync'
  BY <1>1, <1>2, Zenon DEF Sync, Paced
<1>4. Turns'
  <2>1. fwd = << >> /\ rpc' # "start" /\ Len(back') <= 1
    BY <1>1, SenderTurn, Zenon DEF Paced
  <2>2. back' \in Seq(Byte)
    BY Zenon DEF Types, LineOK
  <2> QED BY <1>1, <2>1, <2>2, Waits, Zenon
<1>5. ASSUME NEW g \in Files
      PROVE  AckedUnits(g)' <= AckedUnits(g)
  <2>1. AckedUnits(g) \in Nat
    BY AckedUnitsType, Zenon
  <2>2. AckedUnits(g)' = AckedUnits(g)
    BY <1>1, Zenon DEF AckedUnits
  <2> QED BY <2>1, <2>2
<1>6. Prefix' /\ Kept'
  BY <1>2, <1>5, Learns, Zenon DEF Paced
<1> QED BY <1>3, <1>4, <1>6, Zenon DEF Paced

\* The same packet again.
LEMMA AgainPaced ==
    ASSUME Types, Types', Paced, SenderStep, SendAgain
    PROVE  Paced'
<1>1. /\ spc \notin {"hello", "ok", "fail"} /\ packet' = packet /\ Head(back) = "NAK"
      /\ spc' = CASE spc = "nameC" -> "name" [] spc = "eotC" -> "eot" [] OTHER -> spc
      /\ Transmit(IF spc' = "eot" THEN EOT ELSE packet)
  BY Zenon DEF SendAgain, Got
<1>2. /\ spc = "nameC" => spc' = "name"
      /\ spc = "eotC" => spc' = "eot"
      /\ spc \notin {"nameC", "eotC"} => spc' = spc
  BY <1>1, Zenon
<1>3. spc' \in {"name", "data", "eot", "last"}
  BY <1>1, <1>2, Zenon DEF Types, SenderOK
<1>4. total' = total /\ Idle /\ seqmod' = seqmod
  BY SenderFrame, Zenon DEF Idle
<1>5. Sync'
  <2>1. Taken => Taken'
    BY <1>1, <1>2, <1>4, Zenon DEF Taken, Idle
  <2>2. Due => Due'
    BY <1>1, <1>2, <1>4, Zenon DEF Due, Idle
  <2>3. Due \/ Taken
    BY <1>1, <1>3, <1>2, Zenon DEF Paced, Sync
  <2> QED BY <1>3, <2>1, <2>2, <2>3, Zenon DEF Sync
<1>6. Turns'
  <2>1. fwd = << >> /\ rpc' # "start" /\ back' = << >>
    BY <1>1, SenderTurn, Zenon DEF Paced
  <2>2. PICK m : m = (IF spc' = "eot" THEN EOT ELSE packet') /\ Transmit(m)
    BY <1>1, Zenon
  <2> QED BY <1>3, <2>1, <2>2, Sends, Zenon
<1>7. ASSUME NEW g \in Files
      PROVE  AckedUnits(g)' <= AckedUnits(g)
  <2>1. AckedUnits(g) \in Nat
    BY AckedUnitsType, Zenon
  <2>2. AckedUnits(g)' = AckedUnits(g)
    BY <1>1, <1>2, Zenon DEF AckedUnits
  <2> QED BY <2>1, <2>2
<1>8. Prefix' /\ Kept'
  BY <1>4, <1>7, Learns, Zenon DEF Paced
<1> QED BY <1>5, <1>6, <1>8, Zenon DEF Paced

LEMMA DataAckPaced ==
    ASSUME Types, Types', Paced, SenderStep, DataAck
    PROVE  Paced'
<1>1. spc = "data" /\ Head(back) = "ACK"
  BY Zenon DEF DataAck, Got
<1>2. fwd = << >> /\ rpc' # "start" /\ back' = << >> /\ Taken
  BY <1>1, SenderTurn, Zenon DEF Paced
<1>3. packet \in Data /\ seqmod \in Nat \ {0, 1} /\ total \in Nat
  BY <1>1, Zenon DEF Types, SenderOK, Options, ReceiverOK
<1>4. /\ packet.file \in Files /\ packet.at \in Nat /\ packet.size \in Nat /\ packet.seq \in Nat
      /\ Lengths[packet.file] \in Nat
  <2>1. /\ packet.file \in Files /\ packet.at \in Nat /\ packet.size \in {Small, Big}
        /\ packet.seq \in 0 .. seqmod - 1
    BY <1>3, Zenon DEF Data
  <2>2. packet.size \in Nat
    BY <2>1, YmodemAssumption, Zenon
  <2>3. \A n \in 0 .. seqmod - 1 : n \in Nat
    BY <1>3
  <2> QED BY <2>1, <2>2, <2>3, FilesType, Zenon
<1>5. /\ total > 1 /\ packet.seq = (total - 1) % seqmod /\ file = packet.file
      /\ saved = IF packet.at + packet.size > Lengths[file] THEN Lengths[file]
                 ELSE packet.at + packet.size
  BY <1>1, <1>2, Zenon DEF Taken
<1>6. CASE packet.at + packet.size < Lengths[packet.file] /\ SendData(packet.file, packet.at + packet.size)
  <2>1. PICK f \in Files : f = packet.file
    BY <1>4, Zenon
  <2>2. PICK at \in Nat : at = packet.at + packet.size
    BY <1>4
  <2>3. at = saved /\ total > 0
    BY <1>3, <1>4, <1>5, <1>6, <2>2, SMTT(30)
  <2>4. SendData(f, at) /\ file = f /\ spc \in {"nameC", "data"}
    BY <1>1, <1>5, <1>6, <2>1, <2>2, Zenon
  <2> QED BY <1>2, <1>5, <2>1, <2>3, <2>4, DataPaced, Zenon
<1>7. CASE /\ ~(packet.at + packet.size < Lengths[packet.file])
           /\ spc' = "eot" /\ packet' = packet /\ Transmit(EOT)
  <2>1. saved = Lengths[file]
    BY <1>4, <1>5, <1>7, SMTT(30)
  <2>2. total' = total /\ Idle
    BY SenderFrame, Zenon DEF Idle
  <2>3. Sync'
    <3>1. Due'
      BY <1>3, <1>5, <1>7, <2>1, <2>2, SMTT(30) DEF Due, Idle
    <3> QED BY <1>7, <3>1, Zenon DEF Sync
  <2>4. Turns'
    <3>1. EOT = IF spc' = "eot" THEN EOT ELSE packet'
      BY <1>7, Zenon
    <3>2. spc' \in {"name", "data", "eot", "last"}
      BY <1>7, Zenon
    <3> QED BY <1>2, <1>7, <3>1, <3>2, Sends, Zenon
  <2>5. ASSUME NEW g \in Files
        PROVE  AckedUnits(g)' <= AckedUnits(g) \/ (g = file /\ AckedUnits(g)' <= saved)
    <3>1. AckedUnits(g) \in Nat
      BY AckedUnitsType, Zenon
    <3>2. CASE g = packet.file
      <4>1. AckedUnits(g)' = Lengths[g]
        BY <1>7, <3>2, Zenon DEF AckedUnits
      <4> QED BY <1>4, <1>5, <2>1, <3>2, <4>1, SMTT(30)
    <3>3. CASE g # packet.file
      <4>1. AckedUnits(g)' = AckedUnits(g)
        BY <1>7, <3>3, Zenon DEF AckedUnits
      <4> QED BY <3>1, <4>1
    <3> QED BY <3>2, <3>3, Zenon
  <2>6. Prefix' /\ Kept'
    BY <2>2, <2>5, Learns, Zenon DEF Paced
  <2> QED BY <2>3, <2>4, <2>6, Zenon DEF Paced
<1> QED BY <1>6, <1>7, Zenon DEF DataAck

LEMMA SenderPaced ==
    ASSUME Types, Types', Paced, SenderStep
    PROVE  Paced'
<1>1. CASE Hello
  <2>1. spc = "hello" /\ Head(back) = "C" /\ SendName(1)
    BY <1>1, Zenon DEF Hello, Got
  <2>2. fwd = << >> /\ rpc' # "start" /\ back' = << >> /\ total = 0
    BY <2>1, SenderTurn, Zenon DEF Paced, Sync
  <2>3. 1 \in 1 .. Len(Lengths) + 1 /\ \A g \in Files : ~(g < 1)
    BY FilesType
  <2> QED BY <2>1, <2>2, <2>3, NamePaced, Zenon
<1>2. CASE NoHello
  BY <1>2, NoHelloPaced, Zenon
<1>3. CASE NameAck
  <2>1. spc = "name" /\ Head(back) = "ACK" /\ Ends("nameC")
    BY <1>3, Zenon DEF NameAck, Got, SenderEnds, Ends
  <2>2. Taken
    BY <2>1, SenderTurn, Zenon DEF Paced
  <2> QED BY <2>1, <2>2, EndsPaced, Zenon
<1>4. CASE NameCrc
  <2>1. spc = "nameC" /\ Head(back) = "C" /\ SendData(packet.file, 0) /\ packet \in Names
    BY <1>4, Zenon DEF NameCrc, Got, Types, SenderOK
  <2>2. fwd = << >> /\ rpc' # "start" /\ back' = << >> /\ Taken
    BY <2>1, SenderTurn, Zenon DEF Paced, Sync
  <2>3. total = 1 /\ file = packet.file /\ saved = 0 /\ packet.file \in Files /\ packet.seq = 0
    BY <2>1, <2>2, Zenon DEF Taken, Names
  <2>4. packet.seq = (total - 1) % seqmod /\ total > 0
    <3>1. seqmod \in Nat \ {0} /\ 0 \in 0 .. seqmod - 1 /\ 0 \in Nat
      BY DEF Types, Options
    <3>2. (seqmod * 0 + 0) % seqmod = 0
      BY <3>1, ModUnique, Zenon
    <3>3. seqmod * 0 + 0 = 0 /\ total - 1 = 0
      BY <2>3, <3>1
    <3> QED BY <2>3, <3>2, <3>3
  <2>5. spc \in {"nameC", "data"} /\ 0 \in Nat
    BY <2>1, Zenon
  <2> QED BY <2>1, <2>2, <2>3, <2>4, <2>5, DataPaced, Zenon
<1>5. CASE DataAck
  BY <1>5, DataAckPaced, Zenon
<1>6. CASE EotAck
  <2>1. spc = "eot" /\ Head(back) = "ACK" /\ Ends("eotC")
    BY <1>6, Zenon DEF EotAck, Got, SenderEnds, Ends
  <2>2. Taken
    BY <2>1, SenderTurn, Zenon DEF Paced
  <2> QED BY <2>1, <2>2, EndsPaced, Zenon
<1>7. CASE EotCrc
  <2>1. spc = "eotC" /\ Head(back) = "C" /\ SendName(packet.file + 1) /\ packet \in Data
    BY <1>7, Zenon DEF EotCrc, Got, Types, SenderOK
  <2>2. fwd = << >> /\ rpc' # "start" /\ back' = << >> /\ Taken
    BY <2>1, SenderTurn, Zenon DEF Paced, Sync
  <2>3. total = 0
    BY <2>1, <2>2, Zenon DEF Taken
  <2>4. packet.file \in Files /\ packet.file + 1 \in 1 .. Len(Lengths) + 1
    BY <2>1, FilesType DEF Data, Files
  <2>5. ASSUME NEW g \in Files, g < packet.file + 1
        PROVE  AckedUnits(g) = Lengths[g]
    <3>1. PICK n \in Nat : n = packet.file
      BY PacketNumbers, Zenon
    <3>3. g \in Nat /\ g < n + 1
      BY <2>5, <3>1, FilesType, Zenon
    <3>4. \A x, y \in Nat : x < y + 1 => x < y \/ x = y
      OBVIOUS
    <3>2. g < n \/ g = n
      BY <3>3, <3>4, Zenon
    <3> QED BY <2>1, <3>1, <3>2, Zenon DEF AckedUnits
  <2> QED BY <2>1, <2>2, <2>3, <2>4, <2>5, NamePaced, Zenon
<1>8. CASE LastAck
  <2>1. Ends("ok") /\ spc = "last"
    BY <1>8, Zenon DEF LastAck, SenderEnds, Ends
  <2> QED BY <2>1, EndsPaced, Zenon
<1>9. CASE SendAgain
  BY <1>9, AgainPaced, Zenon
<1>10. CASE Unexpected \/ SendFails
  <2>1. Ends("fail") /\ spc \notin {"ok", "fail"}
    BY <1>10, Zenon DEF Unexpected, SenderEnds, SendFails, Ends
  <2> QED BY <2>1, EndsPaced, Zenon
<1> QED BY <1>1, <1>2, <1>3, <1>4, <1>5, <1>6, <1>7, <1>8, <1>9, <1>10, Zenon DEF SenderStep

-----------------------------------------------------------------------------
(* A receiver that is not hasty: steps of rb.                                *)

LEMMA AckedUnitsBound ==
    ASSUME Types
    PROVE  \A f \in Files : AckedUnits(f) \in Nat /\ AckedUnits(f) <= Lengths[f]
<1> SUFFICES ASSUME NEW f \in Files PROVE AckedUnits(f) \in Nat /\ AckedUnits(f) <= Lengths[f]
  BY Zenon
<1>1. AckedUnits(f) \in Nat /\ Lengths[f] \in Nat /\ AckedUnits(f) \in {Lengths[f], packet.at, 0}
  <2>1. AckedUnits(f) \in {Lengths[f], packet.at, 0}
    BY Zenon DEF AckedUnits
  <2> QED BY <2>1, AckedUnitsType, FilesType, Zenon
<1>2. f = packet.file => packet.at <= Lengths[f]
  <2>1. packet \in Names \/ packet \in Empties => packet.at = 0
    BY Zenon DEF Names, Empties
  <2>2. packet = Name(0) => packet.at = 0
    BY DEF Name
  <2>3. packet \in Data \/ packet.at = 0
    BY <2>1, <2>2, Zenon DEF Types, SenderOK, Sent
  <2> QED BY <1>1, <2>3, SMTT(30) DEF Types, SenderOK
<1>3. CASE f = packet.file
  BY <1>1, <1>2, <1>3, SMTT(30)
<1>4. CASE f # packet.file
  <2>1. AckedUnits(f) \in {Lengths[f], 0}
    BY <1>4, Zenon DEF AckedUnits
  <2> QED BY <1>1, <2>1
<1> QED BY <1>3, <1>4, Zenon

LEMMA ZeroMod ==
    ASSUME NEW q \in Nat \ {0}
    PROVE  0 % q = 0
<1>1. (q * 0 + 0) % q = 0
  BY ModUnique
<1>2. q * 0 + 0 = 0
  OBVIOUS
<1> QED BY <1>1, <1>2, Zenon

LEMMA OneMod ==
    ASSUME NEW q \in Nat \ {0, 1}
    PROVE  1 % q # 0
<1>1. PICK d \in Nat, r \in 0 .. q - 1 : r = 1 /\ d = 0
  OBVIOUS
<1>2. (q * d + r) % q = r
  BY ModUnique, Zenon
<1>3. q * d + r = 1
  BY <1>1
<1> QED BY <1>1, <1>2, <1>3

LEMMA ModDiffers ==
    ASSUME NEW t \in Nat, t > 0, NEW q \in Nat \ {0, 1}
    PROVE  (t - 1) % q # t % q
<1> SUFFICES ASSUME (t - 1) % q = t % q PROVE FALSE
  BY Zenon
<1>1. PICK a \in Nat : a = t - 1 /\ t = a + 1
  OBVIOUS
<1>2. PICK r \in 0 .. q - 1 : r = a % q
  BY ModRange, Zenon
<1>3. (a + 1) % q = IF a % q = q - 1 THEN 0 ELSE (a % q) + 1
  BY ModStep, Zenon
<1>4. (a + 1) % q = r
  BY <1>1, <1>2, Zenon
<1>5. r = IF r = q - 1 THEN 0 ELSE r + 1
  BY <1>2, <1>3, <1>4, Zenon
<1> QED BY <1>5

\* A packet that arrives is the one that sb waits to hear of, and alone.
LEMMA Arrival ==
    ASSUME Types, Turns, fwd # << >>
    PROVE  /\ back = << >> /\ Len(fwd) = 1 /\ Tail(fwd) = << >>
           /\ spc \in {"name", "data", "eot", "last"}
           /\ Head(fwd).kind = "bad" \/ Head(fwd) = IF spc = "eot" THEN EOT ELSE packet
<1>1. fwd \in Seq(Item)
  BY Zenon DEF Types, LineOK
<1>2. back = << >> /\ Len(fwd) = 1 /\ fwd[1] \in {Bad, IF spc = "eot" THEN EOT ELSE packet}
  BY Zenon DEF Turns
<1>3. Head(fwd) = fwd[1] /\ Tail(fwd) = << >>
  <2>1. Len(fwd) = 1
    BY <1>2, Zenon
  <2>2. Tail(fwd) \in Seq(Item) /\ Len(Tail(fwd)) = 0
    BY <1>1, <2>1
  <2>3. Tail(fwd) = << >>
    BY <2>2, EmptySequence, Zenon
  <2>4. Head(fwd) = fwd[1]
    BY <1>1, <2>1
  <2> QED BY <2>3, <2>4, Zenon
<1>4. spc \in {"name", "data", "eot", "last"}
  <2>1. spc \notin {"hello", "nameC", "eotC", "ok", "fail"}
    BY Zenon DEF Turns
  <2> QED BY <2>1, Zenon DEF Types, SenderOK
<1>5. Bad.kind = "bad"
  BY Zenon DEF Bad
<1> QED BY <1>2, <1>3, <1>4, <1>5, Zenon

LEMMA ArrivedPacket ==
    ASSUME Types, Turns, fwd # << >>, Head(fwd).kind \in Packets
    PROVE  Head(fwd) = packet /\ packet \in Sent /\ spc \in {"name", "data", "last"}
<1>1. EOT.kind \notin Packets /\ "bad" \notin Packets
  BY Zenon DEF EOT, Packets
<1>2. /\ spc \in {"name", "data", "eot", "last"}
      /\ Head(fwd).kind = "bad" \/ Head(fwd) = IF spc = "eot" THEN EOT ELSE packet
  BY Arrival, Zenon
<1>3. Head(fwd) = (IF spc = "eot" THEN EOT ELSE packet)
  BY <1>1, <1>2, Zenon
<1>4. spc # "eot"
  BY <1>1, <1>3, Zenon
<1>5. packet \in Sent
  BY <1>2, <1>4, Zenon DEF Types, SenderOK, Sent
<1> QED BY <1>2, <1>3, <1>4, <1>5, Zenon

\* What rb answers: an ACK only for what it has taken.
LEMMA Replied ==
    ASSUME NEW bytes \in Seq(Byte), Len(bytes) \in {1, 2}, Heard(bytes),
           fwd' = << >>, back' \in Seq(Byte), rpc' # "start",
           bytes[1] \in {"C", "NAK"} => Len(bytes) = 1,
           Len(bytes) = 2 => bytes[2] \in {"C", "CAN"},
           Len(bytes) = 2 /\ bytes[1] = "ACK" => spc' \in {"name", "eot"},
           bytes[1] = "ACK" /\ spc' \in {"name", "data", "eot"} => Taken'
    PROVE  Turns'
<1>1. CASE back' = << >>
  BY <1>1, Zenon DEF Turns
<1>2. CASE back' # << >>
  <2>1. PICK n \in Nat : n = Len(back') /\ n # 0
    <3>1. \A s \in Seq(Byte) : s # << >> => Len(s) # 0
      BY EmptySequence, Zenon
    <3>2. \A s \in Seq(Byte) : Len(s) \in Nat
      OBVIOUS
    <3> QED BY <1>2, <3>1, <3>2, Zenon
  <2>2. PICK k \in {1, 2} : k = Len(bytes) /\ n <= k
    BY <2>1, Zenon DEF Heard
  <2>3. n <= 2 /\ (k = 1 => n = 1) /\ (k = 2 \/ k = 1)
    BY <2>1, <2>2
  <2>4. \/ back'[1] = "junk" \/ back'[1] = bytes[1]
        \/ back'[1] = bytes[2] /\ n = 1 /\ k = 2
    BY <1>2, <2>1, <2>2, Zenon DEF Heard
  <2>5. back'[1] \in {"C", "NAK"} => n = 1
    BY <2>2, <2>3, <2>4, Zenon
  <2>6. back'[1] = "ACK" => bytes[1] = "ACK" \/ FALSE
    BY <2>2, <2>4, Zenon
  <2>7. back'[1] = "ACK" => n = 1 \/ spc' \in {"name", "eot"}
    BY <2>2, <2>3, <2>6, Zenon
  <2>8. back'[1] = "ACK" /\ spc' \in {"name", "data", "eot"} => Taken'
    BY <2>6, Zenon
  <2> QED BY <2>1, <2>3, <2>5, <2>7, <2>8, Zenon DEF Turns
<1> QED BY <1>1, <1>2, Zenon

LEMMA SyncSame ==
    ASSUME Idle, total' = total, spc' = spc, packet' = packet, seqmod' = seqmod
    PROVE  (Sync => Sync') /\ (Taken => Taken') /\ (Due => Due')
<1>1. Taken => Taken'
  BY Zenon DEF Taken, Idle
<1>2. Due => Due'
  BY Zenon DEF Due, Idle
<1> QED BY <1>1, <1>2, Zenon DEF Sync

LEMMA IdlePaced ==
    ASSUME Types, Types', Paced, Idle, spc' = spc, packet' = packet, Sync', Turns'
    PROVE  Paced'
<1>1. ASSUME NEW g \in Files
      PROVE  AckedUnits(g)' <= AckedUnits(g)
  <2>1. AckedUnits(g) \in Nat
    BY AckedUnitsType, Zenon
  <2>2. AckedUnits(g)' = AckedUnits(g)
    BY Zenon DEF AckedUnits
  <2> QED BY <2>1, <2>2
<1>2. Prefix' /\ Kept'
  BY <1>1, Learns, Zenon DEF Paced
<1> QED BY <1>2, Zenon DEF Paced

LEMMA CountErrorTurns ==
    ASSUME Types, back = << >>, CountError, fwd' = << >>, back' \in Seq(Byte), rpc = "run"
    PROVE  Turns'
<1>1. rpc' # "start"
  BY CountErrorTypes, Zenon
<1>2. ASSUME NEW b \in {<<"NAK">>, <<"C">>}, Answer(b, TRUE)
      PROVE  Turns'
  <2>3. Len(<<"NAK">>) = 1 /\ <<"NAK">>[1] = "NAK" /\ Len(<<"C">>) = 1 /\ <<"C">>[1] = "C"
    BY Zenon
  <2>4. 1 \in {1, 2} /\ 1 # 2 /\ "NAK" # "ACK" /\ "C" # "ACK"
    OBVIOUS
  <2>1. b \in Seq(Byte) /\ Len(b) = 1 /\ b[1] # "ACK" /\ Len(b) \in {1, 2} /\ Len(b) # 2
    BY <2>3, <2>4, Bytes, Zenon
  <2>2. Heard(b)
    BY <1>2, <2>1, AnswerHeard, Zenon
  <2> QED BY <1>1, <2>1, <2>2, Replied, Zenon
<1>3. ASSUME Cancelled
      PROVE  Turns'
  <2> DEFINE b == <<"CAN", "CAN">>
  <2>1. b \in Seq(Byte) /\ Len(b) \in {1, 2} /\ b[1] = "CAN" /\ b[2] = "CAN"
    BY Bytes, Zenon
  <2>2. b[1] \notin {"C", "NAK", "ACK"} /\ b[2] \in {"C", "CAN"}
    BY Zenon
  <2>3. Heard(b)
    BY <1>3, <2>1, AnswerHeard, Zenon DEF Cancelled
  <2> HIDE DEF b
  <2>4. b[1] # "ACK" /\ ~(b[1] \in {"C", "NAK"})
    BY <2>2, Zenon
  <2> QED BY <1>1, <2>1, <2>2, <2>3, <2>4, Replied, Zenon
<1>4. (\E b \in {<<"NAK">>, <<"C">>} : Answer(b, TRUE)) \/ Cancelled
  BY Zenon DEF CountError
<1> QED BY <1>2, <1>3, <1>4, Zenon

\* An answer of one byte that is not an ACK, or an ACK for what is taken.
LEMMA OneByte ==
    ASSUME Types, back = << >>, fwd' = << >>, back' \in Seq(Byte), rpc' # "start",
           NEW b \in {"C", "ACK"}, NEW mended, Answer(<<b>>, mended),
           b # "C" /\ spc' \in {"name", "data", "eot"} => Taken'
    PROVE  Turns'
<1> DEFINE bytes == <<b>>
<1>1. bytes \in Seq(Byte)
  BY Bytes, Zenon
<1>2. Len(bytes) = 1 /\ Len(bytes) \in {1, 2} /\ bytes[1] = b /\ Len(bytes) # 2
  OBVIOUS
<1>3. Heard(bytes)
  BY <1>1, <1>2, AnswerHeard, Zenon
<1> HIDE DEF bytes
<1> QED BY <1>1, <1>2, <1>3, Replied, Zenon

\* ACK and 'C', to a name or an EOT that is taken.
LEMMA TwoBytes ==
    ASSUME Types, back = << >>, fwd' = << >>, back' \in Seq(Byte), rpc' # "start",
           NEW mended, Answer(<<"ACK", "C">>, mended), spc' \in {"name", "eot"}, Taken'
    PROVE  Turns'
<1> DEFINE bytes == <<"ACK", "C">>
<1>1. bytes \in Seq(Byte)
  BY Bytes, Zenon
<1>2. Len(bytes) = 2 /\ Len(bytes) \in {1, 2} /\ bytes[1] = "ACK" /\ bytes[2] = "C"
  BY Zenon
<1>3. Heard(bytes)
  BY <1>1, <1>2, AnswerHeard, Zenon
<1>4. ~(bytes[1] \in {"C", "NAK"}) /\ bytes[2] \in {"C", "CAN"}
  BY Zenon
<1> HIDE DEF bytes
<1> QED BY <1>1, <1>2, <1>3, <1>4, Replied, Zenon

\* A handler that fails.
LEMMA FailedTurns ==
    ASSUME Types, back = << >>, fwd' = << >>, back' \in Seq(Byte), HandlerFails
    PROVE  Turns'
<1> DEFINE bytes == <<"CAN", "CAN">>
<1>1. bytes \in Seq(Byte) /\ rpc' # "start"
  BY Bytes, Zenon DEF HandlerFails
<1>2. Len(bytes) = 2 /\ Len(bytes) \in {1, 2} /\ bytes[1] = "CAN" /\ bytes[2] = "CAN"
  BY Zenon
<1>3. ~(bytes[1] \in {"C", "NAK"}) /\ bytes[2] \in {"C", "CAN"} /\ bytes[1] # "ACK"
  BY Zenon
<1>4. back' = bytes
  BY EmptyConcat, <1>1, Zenon DEF HandlerFails
<1>5. Len(bytes) <= Len(bytes)
  OBVIOUS
<1>6. Heard(bytes)
  BY <1>4, <1>5, Zenon DEF Heard
<1> HIDE DEF bytes
<1> QED BY <1>1, <1>2, <1>3, <1>6, Replied, Zenon

\* A packet other than the next one is one that is taken.
LEMMA DueInSequence ==
    ASSUME Types, Due, packet \in Sent, spc \in {"name", "data", "last"}
    PROVE  InSequence(packet)
<1>1. seqmod \in Nat \ {0}
  BY Zenon DEF Types, Options
<1>2. CASE spc \in {"name", "last"}
  <2>1. total = 0 /\ (packet \in Names \/ packet \in Empties)
    BY <1>2, Zenon DEF Due, Types, SenderOK
  <2>2. packet.seq = 0
    BY <2>1, Zenon DEF Names, Empties
  <2> QED BY <1>1, <2>1, <2>2, ZeroMod, Zenon DEF InSequence
<1>3. CASE spc = "data"
  BY <1>3, Zenon DEF Due, InSequence
<1> QED BY <1>2, <1>3, Zenon

LEMMA QuietPaced ==
    ASSUME Types, Types', Paced, ~hasty, Quiet,
           spc' = spc, packet' = packet, seqmod' = seqmod
    PROVE  Paced'
<1>1. Idle /\ back' \in Seq(Byte) /\ Turns /\ Sync
  BY QuietTypes, Zenon DEF Paced
<1>2. CASE Start
  <2>1. rpc = "start" /\ rpc' = "run" /\ fwd' = fwd /\ total' = total /\ Answer(<<"C">>, FALSE)
    BY <1>2, Zenon DEF Start
  <2>2. spc = "hello" /\ back = << >> /\ fwd = << >>
    BY <1>1, <2>1, Zenon DEF Turns
  <2>3. Turns'
    BY <1>1, <2>1, <2>2, OneByte, Zenon
  <2>4. Sync'
    BY <1>1, <2>1, SyncSame, Zenon
  <2> QED BY <1>1, <2>3, <2>4, IdlePaced, Zenon
<1>3. CASE RecvEot
  <2>1. /\ fwd # << >> /\ Head(fwd).kind = "eot" /\ fwd' = Tail(fwd) /\ total' = 0
        /\ rpc' = "run" /\ Answer(<<"ACK", "C">>, FALSE)
    BY <1>3, Zenon DEF RecvEot, Received
  <2>2. /\ back = << >> /\ fwd' = << >> /\ spc \in {"name", "data", "eot", "last"}
        /\ Head(fwd).kind = "bad" \/ Head(fwd) = IF spc = "eot" THEN EOT ELSE packet
    BY <1>1, <2>1, Arrival, Zenon
  <2>3. spc = "eot"
    <3>1. spc \in {"name", "data", "last"} => packet \in Sent
      BY Zenon DEF Types, SenderOK, Sent
    <3>2. packet \in Sent => packet.kind # "eot"
      BY Zenon DEF Sent, Names, Empties, Data
    <3> QED BY <2>1, <2>2, <3>1, <3>2, Zenon
  <2>4. Taken'
    BY <1>1, <2>1, <2>3, Zenon DEF Sync, Due, Taken, Idle
  <2>5. Turns'
    BY <1>1, <2>1, <2>2, <2>3, <2>4, TwoBytes, Zenon
  <2>6. Sync'
    BY <2>3, <2>4, Zenon DEF Sync
  <2> QED BY <1>1, <2>5, <2>6, IdlePaced, Zenon
<1>4. CASE RecvBad
  <2>1. /\ fwd # << >> /\ rpc = "run" /\ CountError /\ total' = total
        /\ \E n \in 2 .. Len(fwd) + 1 : fwd' = SubSeq(fwd, n, Len(fwd))
    BY <1>4, Zenon DEF RecvBad
  <2>2. back = << >> /\ Len(fwd) = 1 /\ fwd \in Seq(Item)
    BY <1>1, <2>1, Arrival, Zenon DEF Types, LineOK
  <2>3. fwd' = << >>
    <3>1. PICK n \in 2 .. Len(fwd) + 1 : fwd' = SubSeq(fwd, n, Len(fwd))
      BY <2>1, Zenon
    <3>2. n = 2
      BY <2>2, <3>1
    <3>3. SubSeq(fwd, 2, 1) = << >>
      BY <2>2
    <3> QED BY <2>2, <3>1, <3>2, <3>3, Zenon
  <2>4. Turns'
    BY <1>1, <2>1, <2>2, <2>3, CountErrorTurns, Zenon
  <2>5. Sync'
    BY <1>1, <2>1, SyncSame, Zenon
  <2> QED BY <1>1, <2>4, <2>5, IdlePaced, Zenon
<1>5. CASE RecvTimeout
  <2>1. /\ rpc = "run" /\ fwd = << >> /\ fwd' = << >> /\ CountError /\ total' = total
        /\ back = << >> \/ spc \in {"ok", "fail"}
    BY <1>5, Zenon DEF RecvTimeout
  <2>2. CASE back = << >>
    <3>1. Turns'
      BY <1>1, <2>1, <2>2, CountErrorTurns, Zenon
    <3>2. Sync'
      BY <1>1, <2>1, SyncSame, Zenon
    <3> QED BY <1>1, <3>1, <3>2, IdlePaced, Zenon
  <2>3. CASE spc \in {"ok", "fail"}
    <3>1. rpc' # "start"
      BY <2>1, CountErrorTypes, Zenon
    <3>2. Turns'
      BY <2>1, <2>3, <3>1, Zenon DEF Turns
    <3>3. Sync'
      BY <1>1, <2>1, SyncSame, Zenon
    <3> QED BY <1>1, <3>2, <3>3, IdlePaced, Zenon
  <2> QED BY <2>1, <2>2, <2>3, Zenon
<1>6. CASE RecvPrevious
  <2>1. /\ fwd # << >> /\ Head(fwd).kind \in Packets /\ fwd' = Tail(fwd) /\ total' = total
        /\ rpc' = "run" /\ ~InSequence(Head(fwd)) /\ Answer(<<"ACK">>, TRUE)
    BY <1>6, Zenon DEF RecvPrevious, Received
  <2>2. /\ back = << >> /\ fwd' = << >> /\ Head(fwd) = packet /\ packet \in Sent
        /\ spc \in {"name", "data", "last"}
    BY <1>1, <2>1, Arrival, ArrivedPacket, Zenon
  <2>3. Due \/ Taken
    BY <1>1, <2>2, Zenon DEF Sync
  <2>4. Taken'
    BY <1>1, <2>1, <2>2, <2>3, DueInSequence, SyncSame, Zenon
  <2>5. Turns'
    BY <1>1, <2>1, <2>2, <2>4, OneByte, Zenon
  <2>6. Sync'
    BY <1>1, <2>1, SyncSame, Zenon
  <2> QED BY <1>1, <2>5, <2>6, IdlePaced, Zenon
<1>7. CASE RecvWrong
  <2>1. /\ fwd # << >> /\ fwd' = Tail(fwd) /\ total' = total /\ rpc' = "run" /\ Answer(<<"C">>, FALSE)
    BY <1>7, Zenon DEF RecvWrong, Received
  <2>2. back = << >> /\ fwd' = << >>
    BY <1>1, <2>1, Arrival, Zenon
  <2>3. Turns'
    BY <1>1, <2>1, <2>2, OneByte, Zenon
  <2>4. Sync'
    BY <1>1, <2>1, SyncSame
  <2> QED BY <1>1, <2>3, <2>4, IdlePaced, Zenon
<1>8. CASE RecvLast
  <2>1. /\ fwd # << >> /\ Head(fwd).kind \in {"empty", "data"} /\ fwd' = Tail(fwd)
        /\ total' = total /\ total = 0 /\ rpc' = "ok" /\ Answer(<<"ACK">>, FALSE)
    BY <1>8, Zenon DEF RecvLast, Received
  <2>2. Head(fwd).kind \in Packets
    BY <2>1, Zenon DEF Packets
  <2>3. /\ back = << >> /\ fwd' = << >> /\ Head(fwd) = packet /\ spc \in {"name", "data", "last"}
    BY <1>1, <2>1, <2>2, Arrival, ArrivedPacket, Zenon
  <2>4. spc = "last"
    <3>1. spc # "name"
      BY <2>1, <2>3, Zenon DEF Types, SenderOK, Names
    <3>2. spc # "data"
      BY <1>1, <2>1, SMTT(30) DEF Sync, Due, Taken
    <3> QED BY <2>3, <3>1, <3>2, Zenon
  <2>5. Turns'
    BY <1>1, <2>1, <2>3, <2>4, OneByte, Zenon
  <2>6. Sync'
    BY <1>1, <2>1, SyncSame, Zenon
  <2> QED BY <1>1, <2>5, <2>6, IdlePaced, Zenon
<1>9. CASE (RecvName \/ RecvData) /\ HandlerFails
  <2>1. fwd # << >> /\ fwd' = Tail(fwd) /\ total' = total
    BY <1>9, Zenon DEF RecvName, RecvData, Received, HandlerFails
  <2>2. back = << >> /\ fwd' = << >>
    BY <1>1, <2>1, Arrival, Zenon
  <2>3. Turns'
    BY <1>1, <1>9, <2>2, FailedTurns, Zenon
  <2>4. Sync'
    BY <1>1, <2>1, SyncSame, Zenon
  <2> QED BY <1>1, <2>3, <2>4, IdlePaced, Zenon
<1> QED BY <1>2, <1>3, <1>4, <1>5, <1>6, <1>7, <1>8, <1>9, Zenon DEF Quiet

\* Units that are stored stay where they are.
LEMMA KeepsStored ==
    ASSUME Types, Kept, spc' = spc, packet' = packet,
           \A f \in Files, u \in Nat : u \in 1 .. AckedUnits(f) => Stored(f, u)' = Stored(f, u)
    PROVE  Kept'
<1>1. \A f : AckedUnits(f)' = AckedUnits(f)
  BY Zenon DEF AckedUnits
<1> QED BY <1>1, Zenon DEF Kept

LEMMA WithinFile ==
    ASSUME Types
    PROVE  /\ \A f \in Files, u \in Nat : u \in 1 .. AckedUnits(f) => u \in 1 .. Lengths[f]
           /\ \A f \in Files, u \in Nat : f = file /\ u \in 1 .. saved => u \in 1 .. Lengths[f]
<1>1. ASSUME NEW f \in Files, NEW u \in Nat, u \in 1 .. AckedUnits(f)
      PROVE  u \in 1 .. Lengths[f]
  <2>1. AckedUnits(f) \in Nat /\ AckedUnits(f) <= Lengths[f] /\ Lengths[f] \in Nat
    BY AckedUnitsBound, FilesType, Zenon
  <2> QED BY <1>1, <2>1
<1>2. ASSUME NEW f \in Files, NEW u \in Nat, f = file, u \in 1 .. saved
      PROVE  u \in 1 .. Lengths[f]
  <2>1. saved \in Nat /\ saved <= Lengths[f] /\ Lengths[f] \in Nat
    <3>1. file # 0
      BY <1>2, FilesType, Zenon
    <3> QED BY <1>2, <3>1, FilesType, Zenon DEF Types, StoreOK
  <2> QED BY <1>2, <2>1
<1> QED BY <1>1, <1>2, Zenon

LEMMA OpenedPaced ==
    ASSUME Types, Types', Paced, RecvName, Opened, spc' = spc, packet' = packet
    PROVE  Paced'
<1>1. /\ fwd # << >> /\ Head(fwd).kind \in {"name", "data"} /\ fwd' = Tail(fwd) /\ total = 0
      /\ rpc = "run"
  BY Zenon DEF RecvName, Received
<1>2. Head(fwd).kind \in Packets
  BY <1>1, Zenon DEF Packets
<1>3. /\ back = << >> /\ fwd' = << >> /\ Head(fwd) = packet /\ spc \in {"name", "data", "last"}
  BY <1>1, <1>2, Arrival, ArrivedPacket, Zenon DEF Paced
<1>4. spc = "name" /\ packet \in Names
  <2>1. spc # "last"
    BY <1>1, <1>3, Zenon DEF Types, SenderOK, Empties
  <2>2. spc # "data"
    BY <1>1, SMTT(30) DEF Paced, Sync, Due, Taken
  <2> QED BY <1>3, <2>1, <2>2, Zenon DEF Types, SenderOK
<1>5. packet.kind = "name" /\ packet.file \in Files
  BY <1>4, Zenon DEF Names
<1>6. /\ disk' = Flushed /\ circ' = << >> /\ file' = packet.file /\ saved' = 0 /\ total' = 1
      /\ rpc' # "start" /\ Answer(<<"ACK", "C">>, FALSE)
  BY <1>1, <1>3, <1>5, Zenon DEF Opened
<1>7. Taken'
  BY <1>4, <1>6, Zenon DEF Taken
<1>8. Sync'
  BY <1>4, <1>7, Zenon DEF Sync
<1>9. Turns'
  <2>1. back' \in Seq(Byte) /\ spc' \in {"name", "eot"}
    BY <1>4, Zenon DEF Types, LineOK
  <2> QED BY <1>3, <1>6, <1>7, <2>1, TwoBytes, Zenon
<1>10. Prefix'
  <2>1. \A u \in Nat : u \notin 1 .. 0
    OBVIOUS
  <2> QED BY <1>6, <2>1, Zenon DEF Prefix
<1>11. Kept'
  <2>1. \A f \in Files, u \in Nat : u \in 1 .. Lengths[f] => Stored(f, u)' = Stored(f, u)
    BY <1>6, FlushStore, Zenon DEF Types, StoreOK
  <2> QED BY <2>1, WithinFile, KeepsStored, Zenon DEF Paced
<1> QED BY <1>8, <1>9, <1>10, <1>11, Zenon DEF Paced

LEMMA FlushesStored ==
    ASSUME Types, Flushes
    PROVE  \A f \in Files, u \in Nat : u \in 1 .. Lengths[f] => Stored(f, u)' = Stored(f, u)
<1>1. CASE disk' = Flushed /\ circ' = << >>
  <2>1. StoreOK /\ saved' \in Nat
    BY Zenon DEF Types, StoreOK, Flushes
  <2> QED BY <1>1, <2>1, FlushStore, Zenon
<1>2. CASE disk' = disk /\ circ' = circ
  BY <1>2, IdleStored, Zenon DEF Idle, Flushes
<1> QED BY <1>1, <1>2, Zenon DEF Flushes

LEMMA FlushesPaced ==
    ASSUME Types, Types', Paced, Flushes, spc' = spc, packet' = packet, seqmod' = seqmod
    PROVE  Paced'
<1>1. /\ total' = total /\ file' = file /\ saved' = saved /\ fwd' = fwd /\ back' = back
      /\ rpc' # "start"
  BY Zenon DEF Flushes
<1>2. \A f \in Files, u \in Nat : u \in 1 .. Lengths[f] => Stored(f, u)' = Stored(f, u)
  BY FlushesStored, Zenon
<1>3. Sync' /\ (Taken => Taken')
  <2>1. Taken => Taken'
    BY <1>1, Zenon DEF Taken
  <2>2. Due => Due'
    BY <1>1, Zenon DEF Due
  <2> QED BY <1>1, <2>1, <2>2, Zenon DEF Sync, Paced
<1>4. Turns'
  <2>1. Turns
    BY Zenon DEF Paced
  <2>2. Bad' = Bad /\ EOT' = EOT
    BY Zenon DEF Bad, EOT
  <2> QED BY <1>1, <1>3, <2>1, <2>2, Zenon DEF Turns
<1>5. Prefix'
  BY <1>1, <1>2, WithinFile, Zenon DEF Prefix, Paced
<1>6. Kept'
  BY <1>2, WithinFile, KeepsStored, Zenon DEF Paced
<1> QED BY <1>3, <1>4, <1>5, <1>6, Zenon DEF Paced

\* The packet that rb takes is the one that is due.
LEMMA AcceptedDue ==
    ASSUME Types, Paced, RecvData
    PROVE  Head(fwd) = packet /\ packet \in Data /\ spc = "data" /\ Due /\ back = << >> /\ Tail(fwd) = << >>
<1>1. fwd # << >> /\ Head(fwd).kind \in Packets /\ InSequence(Head(fwd)) /\ total > 0
  BY Zenon DEF RecvData, Received
<1>2. /\ back = << >> /\ Tail(fwd) = << >> /\ Head(fwd) = packet /\ packet \in Sent
      /\ spc \in {"name", "data", "last"}
  BY <1>1, Arrival, ArrivedPacket, Zenon DEF Paced
<1>3. packet.seq = total % seqmod /\ seqmod \in Nat \ {0, 1} /\ total \in Nat
  BY <1>1, <1>2, Zenon DEF InSequence, Types, Options, ReceiverOK
<1>4. Due \/ Taken
  BY <1>2, Zenon DEF Paced, Sync
<1>5. spc # "last"
  BY <1>1, <1>3, <1>4, SMTT(30) DEF Due, Taken
<1>6. spc # "name"
  <2> SUFFICES ASSUME spc = "name" PROVE FALSE
    BY Zenon
  <2>1. total = 1 /\ packet.seq = 0
    BY <1>1, <1>3, <1>4, SMTT(30) DEF Due, Taken, Types, SenderOK, Names
  <2> QED BY <1>3, <2>1, OneMod, Zenon
<1>7. spc = "data" /\ packet \in Data
  BY <1>2, <1>5, <1>6, Zenon DEF Types, SenderOK
<1>8. ~Taken
  <2> SUFFICES ASSUME Taken PROVE FALSE
    BY Zenon
  <2>1. total > 1 /\ packet.seq = (total - 1) % seqmod
    BY <1>7, Zenon DEF Taken
  <2> QED BY <1>1, <1>3, <2>1, ModDiffers, Zenon
<1> QED BY <1>2, <1>4, <1>7, <1>8, Zenon

LEMMA AcceptedPrefix ==
    ASSUME Types, Prefix, NEW m \in Data, Accepted(m), buffersize' = buffersize,
           file = m.file, saved = m.at
    PROVE  Prefix' /\ saved' = End(m)
<1>1. /\ m.file \in Files /\ m.at \in Nat /\ m.size \in {Small, Big} /\ saved \in Nat
      /\ m \in Sent /\ file' = file
  BY Zenon DEF Data, Types, StoreOK, Sent, Accepted
<1>2. Extended(UnitsOf(m))
  BY <1>1, AcceptedTypes, Zenon
<1>3. file # 0
  BY <1>1, FilesType, Zenon
<1>4. PICK s \in Seq(Unit) : /\ s = UnitsOf(m) /\ Len(s) = SizeOf(m)
                             /\ \A i \in 1 .. Len(s) : s[i] = <<m.file, m.at + i>>
                             /\ saved + Len(s) <= Lengths[file]
  BY <1>1, <1>3, UnitsType, Zenon DEF Types
<1>5. saved' = saved + Len(s)
  BY <1>4, Zenon DEF Accepted
<1>6. saved' = End(m)
  <2>1. SizeOf(m) = IF saved + m.size > Lengths[file] THEN Lengths[file] - saved ELSE m.size
    BY <1>3, Zenon DEF SizeOf
  <2>2. PICK n \in Nat : n = Lengths[file]
    BY <1>1, FilesType, Zenon
  <2>3. PICK z \in Nat : z = m.size
    BY <1>1, YmodemAssumption, Zenon
  <2>4. saved' = IF m.at + z > n THEN n ELSE m.at + z
    BY <1>1, <1>4, <1>5, <2>1, <2>2, <2>3, SMTT(30)
  <2> QED BY <2>2, <2>3, <2>4, Zenon DEF End
<1>7. Prefix'
  <2> SUFFICES ASSUME NEW f \in Files, NEW u \in Nat, f = file, u \in 1 .. saved + Len(s)
               PROVE  Stored(f, u)' = <<f, u>>
    BY <1>1, <1>5, Zenon DEF Prefix
  <2>1. PICK n \in Nat : n = Len(s)
    OBVIOUS
  <2>2. u \in 1 .. Lengths[f]
    BY <1>1, <1>4, <2>1, FilesType, SMTT(30)
  <2>3. CASE u <= saved
    <3>1. u \in 1 .. saved /\ ~(u > saved)
      BY <1>1, <2>1, <2>3
    <3> QED BY <1>2, <2>2, <3>1, Zenon DEF Prefix, Extended
  <2>4. CASE u > saved
    <3>1. u <= saved + n /\ u - saved \in 1 .. n /\ saved + (u - saved) = u
      BY <1>1, <2>1, <2>4
    <3>2. Stored(f, u)' = s[u - saved]
      BY <1>2, <1>4, <2>1, <2>2, <2>4, <3>1, Zenon DEF Extended
    <3>3. s[u - saved] = <<f, u>>
      BY <1>4, <2>1, <3>1, Zenon
    <3> QED BY <3>2, <3>3, Zenon
  <2> QED BY <1>1, <2>3, <2>4
<1> QED BY <1>6, <1>7, Zenon

LEMMA AcceptedPaced ==
    ASSUME Types, Types', Paced, RecvData, Accepted(Head(fwd)), buffersize' = buffersize,
           spc' = spc, packet' = packet, seqmod' = seqmod
    PROVE  Paced'
<1>1. /\ Head(fwd) = packet /\ packet \in Data /\ spc = "data" /\ Due /\ back = << >>
      /\ Tail(fwd) = << >>
  BY AcceptedDue, Zenon
<1>2. Accepted(packet) /\ packet \in Sent
  BY <1>1, Zenon DEF Sent
<1>3. /\ total > 0 /\ packet.seq = total % seqmod /\ file = packet.file /\ saved = packet.at
  BY <1>1, Zenon DEF Due
<1>4. /\ packet.file \in Files /\ packet.at \in Nat /\ packet.size \in {Small, Big}
      /\ total \in Nat /\ saved \in Nat
  BY <1>1, <1>3, Zenon DEF Data, Types, ReceiverOK
<1>5. Extended(UnitsOf(packet))
  BY <1>2, AcceptedTypes, Zenon
<1>6. PICK s \in Seq(Unit) : /\ s = UnitsOf(packet) /\ Len(s) = SizeOf(packet)
                             /\ \A i \in 1 .. Len(s) : s[i] = <<packet.file, packet.at + i>>
                             /\ saved + Len(s) <= Lengths[file]
  <2>1. file # 0
    BY <1>3, <1>4, FilesType, Zenon
  <2> QED BY <1>2, <2>1, UnitsType, Zenon DEF Types
<1>7. /\ saved' = saved + Len(s) /\ total' = total + 1 /\ file' = file /\ rpc' = rpc
      /\ fwd' = << >> /\ Answer(<<"ACK">>, total' % seqmod # 0)
  BY <1>1, <1>2, <1>6, Zenon DEF Accepted
<1>8. Taken'
  <2>4. saved' = End(packet)
    BY <1>1, <1>2, <1>3, AcceptedPrefix, Zenon DEF Paced
  <2>5. total' > 1 /\ total' - 1 = total
    BY <1>3, <1>4, <1>7
  <2> QED BY <1>1, <1>3, <1>7, <2>4, <2>5, Zenon DEF Taken, End
<1>9. Sync'
  BY <1>1, <1>8, Zenon DEF Sync
<1>10. Turns'
  <2>1. back' \in Seq(Byte) /\ rpc' # "start" /\ "ACK" \in {"C", "ACK"}
    BY <1>7, Zenon DEF Types, LineOK, RecvData, Received
  <2> QED BY <1>1, <1>7, <1>8, <2>1, OneByte, Zenon
<1>11. \A f \in Files, u \in Nat : u \in 1 .. Lengths[f] /\ ~(f = file /\ u > saved) =>
         Stored(f, u)' = Stored(f, u)
  BY <1>5, Zenon DEF Extended
<1>12. Prefix'
  BY <1>2, <1>3, <1>1, AcceptedPrefix, Zenon DEF Paced
<1>13. Kept'
  <2>1. ASSUME NEW f \in Files, NEW u \in Nat, u \in 1 .. AckedUnits(f)
        PROVE  Stored(f, u)' = Stored(f, u)
    <3>1. u \in 1 .. Lengths[f]
      BY <2>1, WithinFile, Zenon
    <3>2. f = file => AckedUnits(f) = saved
      <4>1. PICK n \in Nat : n = packet.file /\ n = file
        BY <1>3, PacketNumbers, Zenon
      <4>2. ~(n < n)
        OBVIOUS
      <4> QED BY <1>1, <1>3, <4>1, <4>2, Zenon DEF AckedUnits
    <3>3. ~(f = file /\ u > saved)
      BY <1>4, <2>1, <3>2
    <3> QED BY <1>11, <3>1, <3>3, Zenon
  <2> QED BY <2>1, KeepsStored, Zenon DEF Paced
<1> QED BY <1>9, <1>10, <1>12, <1>13, Zenon DEF Paced

LEMMA ReceiverPaced ==
    ASSUME Types, Types', Paced, ~hasty, ReceiverStep
    PROVE  Paced'
<1>1. CASE Quiet
  BY <1>1, ReceiverFrame, QuietPaced, Zenon
<1>2. CASE RecvName /\ Opened
  BY <1>2, ReceiverFrame, OpenedPaced, Zenon
<1>3. CASE RecvData /\ Accepted(Head(fwd))
  BY <1>3, ReceiverFrame, AcceptedPaced, Zenon
<1>4. CASE Flushes
  BY <1>4, ReceiverFrame, FlushesPaced, Zenon
<1> QED BY <1>1, <1>2, <1>3, <1>4, ReceiverFrame, Zenon

-----------------------------------------------------------------------------
(* A line without faults: the packets on it.                                 *)

LEMMA ComingAfterLast ==
    ASSUME NEW q \in Nat \ {0, 1}, NEW t \in Nat, NEW f, NEW s, NEW m, NEW n,
           Last(q, m, t, f, s), Follows(q, m, n)
    PROVE  Coming(q, n, t, f, s)
<1>1. CASE m.kind = "name"
  <2>1. n.kind = "data" /\ n.file = m.file /\ n.at = 0 /\ n.seq = 1 % q
    BY <1>1, SMT DEF Follows
  <2>2. t = 1 /\ f = m.file /\ s = 0
    BY <1>1, SMT DEF Last
  <2>3. t > 0
    BY <2>2
  <2> QED BY <2>1, <2>2, <2>3, Zenon DEF Coming
<1>2. CASE m.kind = "data"
  <2>1. t > 1 /\ m.seq = (t - 1) % q /\ f = m.file /\ s = End(m)
    BY <1>2, SMT DEF Last
  <2>2. t > 0
    BY <2>1
  <2>3. CASE n.kind = "data"
    <3>1. n.file = m.file /\ n.at = End(m) /\ n.seq = (m.seq + 1) % q
      BY <1>2, <2>3, SMT DEF Follows
    <3>2. n.seq = t % q
      BY <2>1, <2>2, <3>1, ModNext, Zenon
    <3> QED BY <2>1, <2>2, <2>3, <3>1, <3>2, Zenon DEF Coming
  <2>4. CASE n.kind = "eot"
    BY <2>2, <2>4, Zenon DEF Coming
  <2> QED BY <1>2, <2>3, <2>4, SMT DEF Follows
<1>3. CASE m.kind = "eot"
  <2>1. n.kind \in {"name", "empty"}
    BY <1>3, SMT DEF Follows
  <2>2. t = 0
    BY <1>3, SMT DEF Last
  <2> QED BY <2>1, <2>2, Zenon DEF Coming
<1> QED BY <1>1, <1>2, <1>3, Zenon DEF Follows

LEMMA SequenceLength ==
    ASSUME NEW S, NEW w \in Seq(S)
    PROVE  Len(w) \in Nat /\ (Len(w) = 0 <=> w = << >>)
OBVIOUS

LEMMA AppendFacts ==
    ASSUME NEW S, NEW w \in Seq(S), NEW m \in S
    PROVE  /\ Append(w, m) \in Seq(S) /\ Append(w, m) # << >> /\ Len(Append(w, m)) = Len(w) + 1
           /\ Append(w, m)[Len(w) + 1] = m /\ \A i \in 1 .. Len(w) : Append(w, m)[i] = w[i]
OBVIOUS

LEMMA TailFacts ==
    ASSUME NEW S, NEW w \in Seq(S), w # << >>
    PROVE  /\ Tail(w) \in Seq(S) /\ Len(w) = Len(Tail(w)) + 1
           /\ \A i \in 1 .. Len(Tail(w)) : Tail(w)[i] = w[i + 1]
OBVIOUS

\* m may be put on the line, behind w.
Continues(q, w, m, t, f, s) ==
    /\ w # << >> => m = w[Len(w)] \/ Follows(q, w[Len(w)], m)
    /\ w = << >> => Last(q, m, t, f, s) \/ Coming(q, m, t, f, s)
FlowsTo(q, v, m, t, f, s) == Flow(q, v, t, f, s) /\ v # << >> /\ v[Len(v)] = m

LEMMA FlowAppend ==
    ASSUME NEW q, NEW t, NEW f, NEW s, NEW S, NEW w \in Seq(S), NEW m \in S, Flow(q, w, t, f, s),
           Continues(q, w, m, t, f, s), NEW v, v = Append(w, m)
    PROVE  FlowsTo(q, v, m, t, f, s)
<1>2. PICK n \in Nat : n = Len(w) /\ (n = 0 <=> w = << >>)
  BY SequenceLength, Zenon
<1>3. v # << >> /\ Len(v) = n + 1 /\ v[n + 1] = m /\ \A i \in 1 .. n : v[i] = w[i]
  <2>1. /\ Append(w, m) # << >> /\ Len(Append(w, m)) = Len(w) + 1
        /\ Append(w, m)[Len(w) + 1] = m /\ \A i \in 1 .. Len(w) : Append(w, m)[i] = w[i]
    BY AppendFacts, SMT
  <2> QED BY <1>2, <2>1, Zenon
<1>4. ASSUME NEW i \in 1 .. Len(v) - 1 PROVE v[i + 1] = v[i] \/ Follows(q, v[i], v[i + 1])
  <2>1. i \in Nat /\ i \in 1 .. n
    BY <1>3
  <2>2. CASE i = n
    <3>1. w # << >> /\ v[i] = w[Len(w)] /\ v[i + 1] = m
      BY <1>2, <1>3, <2>1, <2>2
    <3> QED BY <3>1, Zenon DEF Continues
  <2>3. CASE i # n
    <3>1. i \in 1 .. Len(w) - 1 /\ v[i] = w[i] /\ v[i + 1] = w[i + 1]
      BY <1>2, <1>3, <2>1, <2>3
    <3> QED BY <3>1, Zenon DEF Flow
  <2> QED BY <2>2, <2>3, Zenon
<1>5. Last(q, v[1], t, f, s) \/ Coming(q, v[1], t, f, s)
  <2>1. CASE w = << >>
    <3>1. v[1] = m
      BY <1>2, <1>3, <2>1
    <3> QED BY <2>1, <3>1, Zenon DEF Continues
  <2>2. CASE w # << >>
    <3>1. v[1] = w[1]
      BY <1>2, <1>3, <2>2
    <3> QED BY <2>2, <3>1, Zenon DEF Flow
  <2> QED BY <2>1, <2>2, Zenon
<1>6. Flow(q, v, t, f, s)
  BY <1>4, <1>5, Zenon DEF Flow
<1> QED BY <1>3, <1>6, Zenon DEF FlowsTo

LEMMA FlowTail ==
    ASSUME NEW q \in Nat \ {0, 1}, NEW t, NEW f, NEW s, NEW S, NEW w \in Seq(S), w # << >>,
           Flow(q, w, t, f, s), NEW t2 \in Nat, NEW f2, NEW s2, Last(q, w[1], t2, f2, s2)
    PROVE  Flow(q, Tail(w), t2, f2, s2)
<1>1. PICK v \in Seq(S) : v = Tail(w)
  BY TailFacts, Zenon
<1>2. PICK n \in Nat : n = Len(v) /\ Len(w) = n + 1 /\ (n = 0 <=> v = << >>)
  BY <1>1, TailFacts, SequenceLength, Zenon
<1>3. \A i \in 1 .. n : v[i] = w[i + 1]
  BY <1>1, <1>2, TailFacts, Zenon
<1>4. ASSUME NEW i \in 1 .. Len(v) - 1 PROVE v[i + 1] = v[i] \/ Follows(q, v[i], v[i + 1])
  <2>1. PICK k \in Nat : k = i + 1
    BY <1>2
  <2>2. k \in 1 .. Len(w) - 1 /\ v[i] = w[k] /\ v[i + 1] = w[k + 1]
    BY <1>2, <1>3, <2>1
  <2> QED BY <2>2, Zenon DEF Flow
<1>5. ASSUME v # << >> PROVE Last(q, v[1], t2, f2, s2) \/ Coming(q, v[1], t2, f2, s2)
  <2>1. 1 \in 1 .. Len(w) - 1 /\ v[1] = w[1 + 1]
    BY <1>2, <1>3, <1>5
  <2>2. v[1] = w[1] \/ Follows(q, w[1], v[1])
    BY <2>1, Zenon DEF Flow
  <2>3. CASE v[1] = w[1]
    BY <2>3, Zenon
  <2>4. CASE Follows(q, w[1], v[1])
    BY <2>4, ComingAfterLast, Zenon
  <2> QED BY <2>2, <2>3, <2>4, Zenon
<1> QED BY <1>1, <1>4, <1>5, Zenon DEF Flow

-----------------------------------------------------------------------------
(* A line without faults: steps of rb.                                       *)

LEMMA StreamSame ==
    ASSUME Stream, total' = total, file' = file, saved' = saved, fwd' = fwd, seqmod' = seqmod,
           spc' = spc, packet' = packet
    PROVE  Stream'
<1>1. Current' = Current
  BY Zenon DEF Current, EOT
<1>2. Flow(seqmod', fwd', total', file', saved')
  BY Zenon DEF Stream
<1>3. spc' \notin {"hello", "ok", "fail"} /\ fwd' = << >> =>
        Last(seqmod', Current', total', file', saved')
  BY <1>1, Zenon DEF Stream
<1> QED BY <1>1, <1>2, <1>3, Zenon DEF Stream

\* The first packet on the line is taken, or was taken before.
LEMMA StreamTail ==
    ASSUME Types, Stream, fwd # << >>, fwd' = Tail(fwd), total' \in Nat, seqmod' = seqmod,
           spc' = spc, packet' = packet, Last(seqmod, fwd[1], total', file', saved')
    PROVE  Stream'
<1>1. Current' = Current
  BY Zenon DEF Current, EOT
<1>2. fwd \in Seq(Item) /\ seqmod \in Nat \ {0, 1}
  BY Zenon DEF Types, LineOK, Options
<1>3. Flow(seqmod', fwd', total', file', saved')
  BY <1>2, FlowTail, Zenon DEF Stream
<1>4. PICK n \in Nat : n = Len(fwd') /\ Len(fwd) = n + 1 /\ (n = 0 <=> fwd' = << >>)
  BY <1>2, TailFacts, SequenceLength, Zenon
<1>5. spc' # "hello"
  BY Zenon DEF Stream
<1>6. ASSUME spc' \notin {"ok", "fail"}, fwd' # << >> PROVE fwd'[Len(fwd')] = Current'
  <2>1. n \in 1 .. n
    BY <1>4, <1>6
  <2>2. fwd'[n] = fwd[n + 1]
    BY <1>2, <1>4, <2>1, TailFacts, Zenon
  <2> QED BY <1>1, <1>4, <1>6, <2>2, Zenon DEF Stream
<1>7. ASSUME spc' \notin {"ok", "fail"}, fwd' = << >>
      PROVE  Last(seqmod', Current', total', file', saved')
  <2>1. Len(fwd) = 1
    BY <1>4, <1>7
  <2> QED BY <1>1, <1>7, <2>1, Zenon DEF Stream
<1> QED BY <1>3, <1>5, <1>6, <1>7, Zenon DEF Stream

LEMMA StreamHead ==
    ASSUME Types, Stream, fwd # << >>
    PROVE  /\ Head(fwd) = fwd[1] /\ Head(fwd) \in Item
           /\ \/ Last(seqmod, Head(fwd), total, file, saved)
              \/ Coming(seqmod, Head(fwd), total, file, saved)
<1>1. fwd \in Seq(Item)
  BY Zenon DEF Types, LineOK
<1>2. Head(fwd) = fwd[1] /\ Head(fwd) \in Item
  BY <1>1
<1> QED BY <1>2, Zenon DEF Stream, Flow

LEMMA ComingInSequence ==
    ASSUME Types, NEW m \in Item, m.kind \in Packets, Coming(seqmod, m, total, file, saved)
    PROVE  InSequence(m)
<1>1. seqmod \in Nat \ {0}
  BY Zenon DEF Types, Options
<1>2. CASE m.kind \in {"name", "empty"}
  <2>1. m.seq = 0
    BY <1>2, Kinds, Zenon DEF Names, Empties
  <2>2. total = 0
    BY <1>2, SMT DEF Coming
  <2> QED BY <1>1, <2>1, <2>2, ZeroMod, Zenon DEF InSequence
<1>3. CASE m.kind = "data"
  BY <1>3, SMT DEF Coming, InSequence
<1> QED BY <1>2, <1>3, Zenon DEF Packets

LEMMA QuietStream ==
    ASSUME Types, Types', Stream, Quiet, rpc' \in {"start", "run"},
           spc' = spc, packet' = packet, seqmod' = seqmod
    PROVE  Stream'
<1>1. Idle /\ total' \in Nat
  BY QuietTypes, Zenon DEF Types, ReceiverOK
<1>2. CASE Start
  BY <1>1, <1>2, StreamSame, Zenon DEF Start, Idle
<1>3. CASE RecvEot
  <2>1. fwd # << >> /\ fwd' = Tail(fwd) /\ Head(fwd).kind = "eot" /\ total' = 0
    BY <1>3, Zenon DEF RecvEot, Received
  <2>2. Last(seqmod, fwd[1], total', file', saved')
    BY <2>1, StreamHead, Zenon DEF Last
  <2> QED BY <1>1, <2>1, <2>2, StreamTail, Zenon
<1>4. CASE RecvBad
  <2>1. fwd # << >> /\ Head(fwd).kind = "bad"
    BY <1>4, Zenon DEF RecvBad
  <2> QED BY <2>1, StreamHead, Zenon DEF Last, Coming
<1>5. CASE RecvTimeout
  BY <1>1, <1>5, StreamSame, Zenon DEF RecvTimeout, Idle
<1>6. CASE RecvPrevious \/ RecvWrong
  <2>1. /\ fwd # << >> /\ fwd' = Tail(fwd) /\ Head(fwd).kind \in Packets /\ total' = total
        /\ ~InSequence(Head(fwd))
    BY <1>6, Zenon DEF RecvPrevious, RecvWrong, Received
  <2>2. Last(seqmod, fwd[1], total, file, saved)
    BY <2>1, StreamHead, ComingInSequence, Zenon
  <2> QED BY <1>1, <2>1, <2>2, StreamTail, Zenon DEF Idle
<1>7. CASE RecvLast \/ HandlerFails
  BY <1>7, Zenon DEF RecvLast, HandlerFails
<1> QED BY <1>2, <1>3, <1>4, <1>5, <1>6, <1>7, Zenon DEF Quiet

LEMMA OpenedStream ==
    ASSUME Types, Types', Stream, RecvName, Opened, spc' = spc, packet' = packet, seqmod' = seqmod
    PROVE  Stream'
<1>1. fwd # << >> /\ fwd' = Tail(fwd) /\ Head(fwd).kind \in {"name", "data"} /\ total = 0
  BY Zenon DEF RecvName, Received
<1>2. Head(fwd).kind # "data"
  <2> SUFFICES ASSUME Head(fwd).kind = "data" PROVE FALSE
    BY Zenon
  <2>1. total > 0 \/ total > 1
    BY <1>1, StreamHead, SMT DEF Last, Coming
  <2> QED BY <1>1, <2>1
<1>3. total' = 1 /\ file' = Head(fwd).file /\ saved' = 0
  BY <1>1, <1>2, Zenon DEF Opened
<1>4. Last(seqmod, fwd[1], total', file', saved')
  BY <1>1, <1>2, <1>3, StreamHead, Zenon DEF Last
<1>5. total' \in Nat
  BY Zenon DEF Types, ReceiverOK
<1> QED BY <1>1, <1>4, <1>5, StreamTail, Zenon

\* A packet that is taken for data is the next one.
LEMMA AcceptedComing ==
    ASSUME Types, Stream, RecvData
    PROVE  /\ Head(fwd) \in Data /\ total > 0 /\ Head(fwd).seq = total % seqmod
           /\ file = Head(fwd).file /\ saved = Head(fwd).at
<1>1. fwd # << >> /\ Head(fwd).kind \in Packets /\ InSequence(Head(fwd)) /\ total > 0
  BY Zenon DEF RecvData, Received
<1>2. PICK m \in Item : m = Head(fwd)
  BY <1>1, StreamHead, Zenon
<1>3. Last(seqmod, m, total, file, saved) \/ Coming(seqmod, m, total, file, saved)
  BY <1>1, <1>2, StreamHead, Zenon
<1>4. m.seq = total % seqmod /\ seqmod \in Nat \ {0, 1} /\ total \in Nat
  BY <1>1, <1>2, Zenon DEF InSequence, Types, Options, ReceiverOK
<1>5. m.kind # "empty"
  BY <1>1, <1>3, <1>4, SMT DEF Last, Coming
<1>6. m.kind # "name"
  <2> SUFFICES ASSUME m.kind = "name" PROVE FALSE
    BY Zenon
  <2>1. total = 1
    BY <1>1, <1>3, <1>4, SMT DEF Last, Coming
  <2>2. m.seq = 0
    BY Kinds, Zenon DEF Names
  <2> QED BY <1>4, <2>1, <2>2, OneMod, Zenon
<1>7. m.kind = "data" /\ m \in Data
  BY <1>1, <1>2, <1>5, <1>6, Kinds, Zenon DEF Packets
<1>8. ~Last(seqmod, m, total, file, saved)
  <2> SUFFICES ASSUME Last(seqmod, m, total, file, saved) PROVE FALSE
    BY Zenon
  <2>1. m.seq = (total - 1) % seqmod
    BY <1>7, SMT DEF Last
  <2> QED BY <1>1, <1>4, <2>1, ModDiffers, Zenon
<1> QED BY <1>1, <1>2, <1>3, <1>7, <1>8, SMT DEF Coming

LEMMA AcceptedClean ==
    ASSUME Types, Types', Prefix, Stream, RecvData, Accepted(Head(fwd)),
           buffersize' = buffersize, spc' = spc, packet' = packet, seqmod' = seqmod
    PROVE  Prefix' /\ Stream'
<1>1. PICK m \in Data : m = Head(fwd)
  BY AcceptedComing, Zenon
<1>2. total > 0 /\ m.seq = total % seqmod /\ file = m.file /\ saved = m.at
  BY <1>1, AcceptedComing, Zenon
<1>3. Prefix' /\ saved' = End(m)
  BY <1>1, <1>2, AcceptedPrefix, Zenon
<1>4. fwd # << >> /\ fwd' = Tail(fwd) /\ total' = total + 1 /\ file' = file
  BY Zenon DEF Accepted
<1>5. total' > 1 /\ total' - 1 = total /\ total' \in Nat
  BY <1>2, <1>4 DEF Types, ReceiverOK
<1>6. m.kind = "data"
  BY Zenon DEF Data
<1>7. Last(seqmod, fwd[1], total', file', saved')
  BY <1>1, <1>2, <1>3, <1>4, <1>5, <1>6, StreamHead, Zenon DEF Last
<1> QED BY <1>3, <1>4, <1>5, <1>7, StreamTail, Zenon

LEMMA PrefixKept ==
    ASSUME Types, Prefix, file' = file, saved' = saved,
           \A f \in Files, u \in Nat : u \in 1 .. Lengths[f] => Stored(f, u)' = Stored(f, u)
    PROVE  Prefix'
BY WithinFile, Zenon DEF Prefix

LEMMA IdlePrefix ==
    ASSUME Types, Prefix, Idle
    PROVE  Prefix'
BY IdleStored, Zenon DEF Prefix, Idle

LEMMA OpenedPrefix ==
    ASSUME Opened
    PROVE  Prefix'
<1>1. saved' = 0 /\ \A u \in Nat : u \notin 1 .. 0
  BY SMT DEF Opened
<1> QED BY <1>1, Zenon DEF Prefix

LEMMA ReceiverClean ==
    ASSUME Types, Types', Clean, ReceiverStep
    PROVE  Clean'
<1>1. /\ spc' = spc /\ packet' = packet /\ seqmod' = seqmod /\ buffersize' = buffersize
      /\ Prefix /\ (rpc \in {"start", "run"} => Stream)
  BY ReceiverFrame, Zenon DEF Clean
<1>2. CASE Quiet
  <2>1. Prefix'
    BY <1>1, <1>2, QuietTypes, IdlePrefix, Zenon
  <2>2. rpc \in {"start", "run"}
    BY <1>2, Zenon DEF Quiet, Start, RecvEot, RecvBad, RecvTimeout, RecvPrevious, RecvWrong,
                       RecvLast, RecvName, RecvData, Received
  <2> QED BY <1>1, <1>2, <2>1, <2>2, QuietStream, Zenon DEF Clean
<1>3. CASE RecvName /\ Opened
  <2>1. rpc = "run"
    BY <1>3, Zenon DEF RecvName, Received
  <2> QED BY <1>1, <1>3, <2>1, OpenedPrefix, OpenedStream, Zenon DEF Clean
<1>4. CASE RecvData /\ Accepted(Head(fwd))
  <2>1. rpc = "run"
    BY <1>4, Zenon DEF RecvData, Received
  <2> QED BY <1>1, <1>4, <2>1, AcceptedClean, Zenon DEF Clean
<1>5. CASE Flushes
  <2>1. /\ total' = total /\ file' = file /\ saved' = saved /\ fwd' = fwd
        /\ (rpc' \in {"start", "run"} => rpc' = rpc)
    BY <1>5, Zenon DEF Flushes
  <2>2. Prefix'
    BY <1>1, <1>5, <2>1, FlushesStored, PrefixKept, Zenon
  <2> QED BY <1>1, <2>1, <2>2, StreamSame, Zenon DEF Clean
<1> QED BY <1>2, <1>3, <1>4, <1>5, ReceiverFrame, Zenon

-----------------------------------------------------------------------------
(* A line without faults: steps of sb.                                       *)

LEMMA FaultsKept ==
    ASSUME Types, SenderStep \/ ReceiverStep, faults' = 0
    PROVE  faults = 0
<1>1. faults' = faults \/ faults' = faults + 1
  <2>1. CASE SenderStep
    BY <2>1, Zenon DEF SenderStep, Hello, NoHello, NameAck, NameCrc, DataAck, EotAck, EotCrc,
         LastAck, SendAgain, SendFails, Unexpected, SendName, SendData, SenderEnds, Transmit
  <2>2. CASE ReceiverStep
    <3>1. CASE Quiet
      BY <3>1, Zenon DEF Quiet, Start, RecvEot, RecvBad, RecvTimeout, RecvPrevious, RecvWrong,
           RecvLast, HandlerFails, CountError, Cancelled, Answer
    <3>2. CASE Opened
      BY <3>2, Zenon DEF Opened, Answer
    <3>3. CASE Accepted(Head(fwd))
      BY <3>3, Zenon DEF Accepted, Answer
    <3>4. CASE Flushes
      BY <3>4, Zenon DEF Flushes
    <3> QED BY <2>2, <3>1, <3>2, <3>3, <3>4, ReceiverFrame, Zenon
  <2> QED BY <2>1, <2>2, Zenon
<1> QED BY <1>1 DEF Types, LineOK

\* Without a fault, m is put on the line.
LEMMA TransmitClean ==
    ASSUME Types, NEW m, Transmit(m), faults' = 0
    PROVE  fwd' = Append(fwd, m)
<1>1. faults' # faults + 1
  BY DEF Types, LineOK
<1> QED BY <1>1, Zenon DEF Transmit

\* sb sends what it has in hand, or what comes next.
LEMMA SendsStream ==
    ASSUME Types, Stream, SenderStep, faults' = 0, NEW m \in Item, Transmit(m), Current' = m,
           spc \notin {"hello", "ok", "fail"}, spc' \notin {"hello", "ok", "fail"},
           m = Current \/ Follows(seqmod, Current, m)
    PROVE  Stream'
<1>1. fwd' = Append(fwd, m)
  BY TransmitClean, Zenon
<1>2. total' = total /\ file' = file /\ saved' = saved /\ seqmod' = seqmod
  BY SenderFrame, Zenon
<1>3. fwd \in Seq(Item) /\ seqmod \in Nat \ {0, 1} /\ total \in Nat
  BY Zenon DEF Types, LineOK, Options, ReceiverOK
<1>4. Flow(seqmod, fwd, total, file, saved) /\ (fwd # << >> => fwd[Len(fwd)] = Current)
  BY Zenon DEF Stream
<1>5. ASSUME fwd = << >>
      PROVE  Last(seqmod, m, total, file, saved) \/ Coming(seqmod, m, total, file, saved)
  <2>1. Last(seqmod, Current, total, file, saved)
    BY <1>5, Zenon DEF Stream
  <2> QED BY <1>3, <2>1, ComingAfterLast, Zenon
<1>6. Continues(seqmod, fwd, m, total, file, saved)
  BY <1>4, <1>5, Zenon DEF Continues
<1>7. FlowsTo(seqmod, fwd', m, total, file, saved)
  BY <1>1, <1>3, <1>4, <1>6, FlowAppend, Zenon
<1>8. Flow(seqmod', fwd', total', file', saved') /\ fwd' # << >> /\ fwd'[Len(fwd')] = Current'
  BY <1>2, <1>7, Zenon DEF FlowsTo
<1> QED BY <1>8, Zenon DEF Stream

\* sb waits for the next reply, or ends.
LEMMA WaitsStream ==
    ASSUME Stream, SenderStep, fwd' = fwd,
           \/ spc' \in {"ok", "fail"}
           \/ /\ spc \notin {"hello", "ok", "fail"} /\ spc' \notin {"hello", "ok", "fail"}
              /\ Current' = Current
           \/ spc = "hello" /\ spc' = "hello"
    PROVE  Stream'
<1>1. total' = total /\ file' = file /\ saved' = saved /\ seqmod' = seqmod
  BY SenderFrame, Zenon
<1>2. Flow(seqmod', fwd', total', file', saved')
  BY <1>1, Zenon DEF Stream
<1>3. CASE spc' \in {"ok", "fail"}
  BY <1>2, <1>3, Zenon DEF Stream
<1>4. CASE /\ spc \notin {"hello", "ok", "fail"} /\ spc' \notin {"hello", "ok", "fail"}
           /\ Current' = Current
  <2>1. fwd' = << >> => Last(seqmod', Current', total', file', saved')
    BY <1>1, <1>4, Zenon DEF Stream
  <2>2. fwd' # << >> => fwd'[Len(fwd')] = Current'
    BY <1>4, Zenon DEF Stream
  <2> QED BY <1>2, <1>4, <2>1, <2>2, Zenon DEF Stream
<1>5. CASE spc = "hello" /\ spc' = "hello"
  BY <1>1, <1>2, <1>5, Zenon DEF Stream
<1> QED BY <1>3, <1>4, <1>5, Zenon

\* The name of the next file, or the end of the session.
LEMMA NameSent ==
    ASSUME Types, NEW f \in 1 .. Len(Lengths) + 1, SendName(f)
    PROVE  \E m \in Item : /\ m.kind \in {"name", "empty"} /\ Transmit(m) /\ Current' = m
                           /\ spc' \in {"name", "last"}
<1>1. PICK m : m = packet'
  OBVIOUS
<1>2. m \in Names \cup Empties /\ Transmit(m) /\ spc' \in {"name", "last"}
  <2>1. Empty(f) \in Empties /\ (f \in Files => Name(f) \in Names)
    BY Zenon DEF Name, Empty, Names, Empties
  <2> QED BY <1>1, <2>1, Zenon DEF SendName
<1>3. m \in Item /\ m.kind \in {"name", "empty"}
  BY <1>2, Zenon DEF Item, Sent, Names, Empties
<1>4. Current' = m
  BY <1>1, <1>2, Zenon DEF Current
<1> QED BY <1>2, <1>3, <1>4, Zenon

LEMMA HelloStream ==
    ASSUME Types, Stream, SenderStep, Hello, faults' = 0
    PROVE  Stream'
<1>1. fwd = << >> /\ total = 0 /\ SendName(1)
  BY Zenon DEF Stream, Hello
<1>2. 1 \in 1 .. Len(Lengths) + 1
  BY FilesType
<1>3. PICK m \in Item : /\ m.kind \in {"name", "empty"} /\ Transmit(m) /\ Current' = m
                        /\ spc' \in {"name", "last"}
  BY <1>1, <1>2, NameSent, Zenon
<1>4. fwd' = Append(fwd, m)
  BY <1>3, TransmitClean, Zenon
<1>5. total' = total /\ file' = file /\ saved' = saved /\ seqmod' = seqmod
  BY SenderFrame, Zenon
<1>6. fwd \in Seq(Item) /\ Flow(seqmod, fwd, total, file, saved)
  BY Zenon DEF Types, LineOK, Stream
<1>7. Continues(seqmod, fwd, m, total, file, saved)
  BY <1>1, <1>3, Zenon DEF Continues, Coming
<1>8. FlowsTo(seqmod, fwd', m, total, file, saved)
  BY <1>4, <1>6, <1>7, FlowAppend, Zenon
<1>9. Flow(seqmod', fwd', total', file', saved') /\ fwd' # << >> /\ fwd'[Len(fwd')] = Current'
  BY <1>3, <1>5, <1>8, Zenon DEF FlowsTo
<1> QED BY <1>3, <1>9, Zenon DEF Stream

\* Data after the name, or after the data before them.
LEMMA DataStream ==
    ASSUME Types, Stream, SenderStep, faults' = 0, NEW f \in Files, NEW at \in Nat,
           SendData(f, at), spc \in {"nameC", "data"}, packet.file = f,
           \/ packet \in Names /\ at = 0
           \/ packet \in Data /\ at = End(packet)
    PROVE  Stream'
<1>2. CASE packet' = DataOf(f, at) /\ spc' = "data" /\ Transmit(packet')
  <2>1. packet.seq \in Nat /\ Current = packet
    BY PacketNumbers, Zenon DEF Current
  <2>2. PICK m \in Data : m = packet' /\ m = DataOf(f, at) /\ Transmit(m)
    BY <1>2, <2>1, DataOfType, Zenon DEF Types
  <2>3. m \in Item
    BY Zenon DEF Item, Sent
  <2>4. Current' = m
    BY <1>2, <2>2, Zenon DEF Current
  <2>5. m.kind = "data" /\ m.file = packet.file /\ m.at = at /\ m.seq = (packet.seq + 1) % seqmod
    BY <2>2 DEF DataOf
  <2>6. CASE packet \in Names /\ at = 0
    <3>1. packet.kind = "name" /\ packet.seq = 0
      BY <2>6, Zenon DEF Names
    <3>2. packet.seq + 1 = 1
      BY <3>1
    <3>3. Follows(seqmod, packet, m)
      BY <2>5, <2>6, <3>1, <3>2, Zenon DEF Follows
    <3> QED BY <1>2, <2>1, <2>2, <2>3, <2>4, <3>3, SendsStream, Zenon
  <2>7. CASE packet \in Data /\ at = End(packet)
    <3>1. packet.kind = "data"
      BY <2>7, Zenon DEF Data
    <3>2. Follows(seqmod, packet, m)
      BY <2>5, <2>7, <3>1, Zenon DEF Follows
    <3> QED BY <1>2, <2>1, <2>2, <2>3, <2>4, <3>2, SendsStream, Zenon
  <2> QED BY <2>6, <2>7, Zenon
<1> QED BY <1>2, Zenon DEF SendData, DataOf

LEMMA DataAckStream ==
    ASSUME Types, Stream, SenderStep, DataAck, faults' = 0
    PROVE  Stream'
<1>1. spc = "data" /\ packet \in Data
  BY Zenon DEF DataAck, Types, SenderOK
<1>2. packet.file \in Files /\ packet.at \in Nat /\ packet.size \in Nat /\ packet.kind = "data"
  BY <1>1, YmodemAssumption DEF Data
<1>3. CASE /\ packet.at + packet.size < Lengths[packet.file]
           /\ SendData(packet.file, packet.at + packet.size)
  <2>1. PICK f \in Files : f = packet.file
    BY <1>2, Zenon
  <2>2. PICK at \in Nat : at = packet.at + packet.size
    BY <1>2
  <2>3. ~(at > Lengths[f])
    BY <1>3, <2>1, <2>2, FilesType
  <2>4. at = End(packet)
    BY <2>1, <2>2, <2>3, Zenon DEF End
  <2> QED BY <1>1, <1>3, <2>1, <2>2, <2>4, DataStream, Zenon
<1>4. CASE spc' = "eot" /\ Transmit(EOT)
  <2>1. EOT \in Item /\ EOT.kind = "eot"
    BY Zenon DEF Item, EOT
  <2>2. Current = packet /\ Current' = EOT
    BY <1>1, <1>4, Zenon DEF Current, EOT
  <2>3. Follows(seqmod, Current, EOT)
    BY <1>2, <2>1, <2>2, Zenon DEF Follows
  <2> QED BY <1>1, <1>4, <2>1, <2>2, <2>3, SendsStream, Zenon
<1> QED BY <1>3, <1>4, Zenon DEF DataAck

LEMMA EotCrcStream ==
    ASSUME Types, Stream, SenderStep, EotCrc, faults' = 0
    PROVE  Stream'
<1>1. spc = "eotC" /\ packet \in Data /\ SendName(packet.file + 1)
  BY Zenon DEF EotCrc, Types, SenderOK
<1>2. packet.file + 1 \in 1 .. Len(Lengths) + 1
  BY <1>1, FilesType DEF Data, Files
<1>3. PICK m \in Item : /\ m.kind \in {"name", "empty"} /\ Transmit(m) /\ Current' = m
                        /\ spc' \in {"name", "last"}
  BY <1>1, <1>2, NameSent, Zenon
<1>4. Current.kind = "eot"
  BY <1>1, Zenon DEF Current, EOT
<1>5. Follows(seqmod, Current, m)
  BY <1>3, <1>4, Zenon DEF Follows
<1> QED BY <1>1, <1>3, <1>5, SendsStream, Zenon

LEMMA AgainStream ==
    ASSUME Types, Stream, SenderStep, SendAgain, faults' = 0
    PROVE  Stream'
<1>1. /\ spc \notin {"hello", "ok", "fail"} /\ packet' = packet
      /\ spc' = CASE spc = "nameC" -> "name" [] spc = "eotC" -> "eot" [] OTHER -> spc
      /\ Transmit(IF spc' = "eot" THEN EOT ELSE packet)
  BY Zenon DEF SendAgain
<1>2. /\ spc = "nameC" => spc' = "name"
      /\ spc = "eotC" => spc' = "eot"
      /\ spc \notin {"nameC", "eotC"} => spc' = spc
  BY <1>1, Zenon
<1>3. spc' \notin {"hello", "ok", "fail", "eotC"} /\ (spc' = "eot" <=> spc \in {"eot", "eotC"})
  BY <1>1, <1>2, Zenon
<1>4. packet \in Item /\ EOT \in Item
  BY <1>1, Zenon DEF Types, SenderOK, Item, Sent
<1>5. PICK m \in Item : m = Current
  BY <1>4, Zenon DEF Current
<1>6. Current' = m /\ Transmit(m)
  BY <1>1, <1>3, <1>5, Zenon DEF Current, EOT
<1> QED BY <1>1, <1>3, <1>5, <1>6, SendsStream, Zenon

LEMMA SenderClean ==
    ASSUME Types, Clean, SenderStep, faults' = 0
    PROVE  Clean'
<1>1. rpc' = rpc /\ Prefix'
  BY SenderFrame, IdlePrefix, Zenon DEF Clean, Idle
<1> SUFFICES ASSUME Stream PROVE Stream'
  BY <1>1, Zenon DEF Clean
<1>2. CASE Hello
  BY <1>2, HelloStream, Zenon
<1>3. CASE NoHello
  BY <1>3, WaitsStream, Zenon DEF NoHello
<1>4. CASE NameAck \/ EotAck
  <2>1. /\ fwd' = fwd /\ packet' = packet
        /\ (spc = "name" /\ spc' = "nameC") \/ (spc = "eot" /\ spc' = "eotC")
    BY <1>4, Zenon DEF NameAck, EotAck, SenderEnds
  <2>2. Current' = Current
    BY <2>1, Zenon DEF Current, EOT
  <2> QED BY <2>1, <2>2, WaitsStream, Zenon
<1>5. CASE NameCrc
  <2>1. spc = "nameC" /\ packet \in Names /\ SendData(packet.file, 0)
    BY <1>5, Zenon DEF NameCrc, Types, SenderOK
  <2>2. PICK f \in Files, at \in Nat : f = packet.file /\ at = 0
    BY <2>1 DEF Names
  <2> QED BY <2>1, <2>2, DataStream, Zenon
<1>6. CASE DataAck
  BY <1>6, DataAckStream, Zenon
<1>7. CASE EotCrc
  BY <1>7, EotCrcStream, Zenon
<1>8. CASE LastAck \/ SendFails \/ Unexpected
  BY <1>8, WaitsStream, Zenon DEF LastAck, SendFails, Unexpected, SenderEnds
<1>9. CASE SendAgain
  BY <1>9, AgainStream, Zenon
<1> QED BY <1>2, <1>3, <1>4, <1>5, <1>6, <1>7, <1>8, <1>9, Zenon DEF SenderStep

-----------------------------------------------------------------------------
(* The theorems.                                                             *)

LEMMA InitIInv == Init => IInv
<1> SUFFICES ASSUME Init PROVE IInv
  BY Zenon
<1>1. Options
  BY YmodemAssumption, Zenon DEF Init, Options
<1>2. SenderOK
  <2>1. spc = "hello" /\ packet = Name(0) /\ tries = 0 /\ 0 < RETRY /\ tries \in 0 .. RETRY
    BY YmodemAssumption DEF Init
  <2>2. Name(0) \notin Data
    BY Zenon DEF Name, Data
  <2> QED BY <2>1, <2>2, Zenon DEF SenderOK
<1>3. ReceiverOK
  BY YmodemAssumption DEF Init, ReceiverOK
<1>4. IsDisk(disk)
  <2>1. disk = [f \in Files |-> [u \in 1 .. Lengths[f] |-> Old]]
    BY Zenon DEF Init
  <2>2. Old \in Unit
    BY Zenon DEF Old, Unit
  <2>3. ASSUME NEW f \in Files
        PROVE  /\ [u \in 1 .. Lengths[f] |-> Old] \in [1 .. Lengths[f] -> Unit]
               /\ [u \in 1 .. Lengths[f] |-> Old] \in Contents
    <3>1. [u \in 1 .. Lengths[f] |-> Old] \in [1 .. Lengths[f] -> Unit]
      BY <2>2, Zenon
    <3>2. PICK n \in Nat : n = Lengths[f]
      BY FilesType, Zenon
    <3> QED BY <3>1, <3>2, Zenon DEF Contents
  <2>4. disk \in [Files -> Contents]
    BY <2>1, <2>3, Zenon
  <2>5. \A f \in Files : disk[f] = [u \in 1 .. Lengths[f] |-> Old]
    BY <2>1, Zenon
  <2> QED BY <2>3, <2>4, <2>5, Zenon DEF IsDisk
<1>5. StoreOK
  <2>1. file = 0 /\ saved = 0 /\ circ = << >>
    BY Zenon DEF Init
  <2>2. Len(circ) = 0 /\ circ \in Seq(Unit) /\ buffersize \in Nat
    BY <1>1, <2>1, YmodemAssumption DEF Options
  <2> QED BY <1>4, <2>1, <2>2 DEF StoreOK
<1>6. LineOK
  BY YmodemAssumption DEF Init, LineOK
<1>7. Paced
  <2>1. Sync
    BY Zenon DEF Init, Sync
  <2>2. Turns
    BY Zenon DEF Init, Turns
  <2>3. \A f \in Files : f # 0 /\ AckedUnits(f) = 0
    BY FilesType DEF Init, AckedUnits, Name
  <2>4. \A u \in Nat : u \notin 1 .. 0
    OBVIOUS
  <2>5. Prefix
    BY <2>3, Zenon DEF Init, Prefix
  <2>6. Kept
    BY <2>3, <2>4, Zenon DEF Kept
  <2> QED BY <2>1, <2>2, <2>5, <2>6, Zenon DEF Paced
<1>8. Clean
  <2>1. Flow(seqmod, fwd, total, file, saved)
    <3>1. fwd = << >> /\ \A i : i \notin 1 .. Len(fwd) - 1
      BY SMT DEF Init
    <3> QED BY <3>1, Zenon DEF Flow
  <2> QED BY <1>7, <2>1, Zenon DEF Init, Clean, Stream, Paced
<1> QED BY <1>1, <1>2, <1>3, <1>5, <1>6, <1>7, <1>8, Zenon DEF IInv, Types

LEMMA NextIInv == IInv /\ [Next]_vars => IInv'
<1> SUFFICES ASSUME IInv, [Next]_vars PROVE IInv'
  BY Zenon
<1>1. CASE SenderStep
  <2>1. Types' /\ hasty' = hasty
    BY <1>1, SenderTypes, SenderFrame, Zenon DEF IInv
  <2>2. faults' = 0 => Clean'
    BY <1>1, FaultsKept, SenderClean, Zenon DEF IInv
  <2> QED BY <1>1, <2>1, <2>2, SenderPaced, Zenon DEF IInv
<1>2. CASE ReceiverStep
  <2>1. Types' /\ hasty' = hasty
    BY <1>2, ReceiverTypes, ReceiverFrame, Zenon DEF IInv
  <2>2. faults' = 0 => Clean'
    BY <1>2, <2>1, FaultsKept, ReceiverClean, Zenon DEF IInv
  <2> QED BY <1>2, <2>1, <2>2, ReceiverPaced, Zenon DEF IInv
<1>3. CASE UNCHANGED vars
  <2>1. /\ Idle /\ total' = total /\ retries' = retries /\ rpc' = rpc
        /\ spc' = spc /\ packet' = packet /\ tries' = tries
        /\ buffersize' = buffersize /\ hasty' = hasty /\ seqmod' = seqmod
        /\ fwd' = fwd /\ back' = back /\ faults' = faults
    BY <1>3, Zenon DEF vars, sender, receiver, store, options, line, Idle
  <2>2. Options' /\ ReceiverOK' /\ StoreOK'
    BY <2>1, Zenon DEF IInv, Types, Options, ReceiverOK, StoreOK, IsDisk, Idle
  <2>3. SenderOK'
    <3>1. SenderOK /\ Name(0)' = Name(0)
      BY Zenon DEF IInv, Types, Name
    <3> QED BY <2>1, <3>1, ItemSame, Zenon DEF SenderOK
  <2>4. LineOK'
    BY <2>1, ItemSame, Zenon DEF IInv, Types, LineOK
  <2>5. Types'
    BY <2>2, <2>3, <2>4, Zenon DEF Types
  <2>6. ~hasty => Paced'
    <3> SUFFICES ASSUME Paced PROVE Paced'
      BY Zenon DEF IInv
    <3>1. Sync' /\ (Taken => Taken')
      BY <2>1, SyncSame, Zenon DEF Paced
    <3>2. Bad' = Bad /\ EOT' = EOT
      BY Zenon DEF Bad, EOT
    <3>3. Turns'
      BY <2>1, <3>1, <3>2, Zenon DEF Turns, Paced
    <3> QED BY <2>1, <2>5, <3>1, <3>3, IdlePaced, Zenon DEF IInv
  <2>7. faults = 0 => Clean'
    BY <2>1, StreamSame, IdlePrefix, Zenon DEF IInv, Clean, Idle
  <2> QED BY <2>1, <2>5, <2>6, <2>7, Zenon DEF IInv
<1> QED BY <1>1, <1>2, <1>3, Zenon DEF Next

\* The inductive invariant: the types; if the receiver's timeout is not too
\* short, that sb and rb keep pace; and, as long as the line is good, that what
\* is on it goes on where rb is.
THEOREM Invariance == Spec => []IInv
<1> QED BY InitIInv, NextIInv, PTL DEF Spec

\* The states of ymodem_send_file and ymodem_recv_file, the counters and the
\* buffer of rb keep their types and bounds, whatever the line does.
THEOREM TypeCorrect == Spec => []TypeOK
<1>1. IInv => TypeOK
  <2> SUFFICES ASSUME IInv PROVE TypeOK
    BY Zenon
  <2>1. packet.kind \in Packets /\ packet.seq \in 0 .. seqmod - 1 /\ packet.file \in 0 .. Len(Lengths) + 1
    <3>1. CASE packet \in Sent
      <4>1. /\ packet.seq \in 0 .. seqmod - 1 /\ packet.file \in 1 .. Len(Lengths) + 1
            /\ packet.kind \in {"name", "data", "empty"}
        BY <3>1, SentFields, Zenon DEF IInv, Types
      <4> QED BY <4>1, FilesType DEF Packets
    <3>2. CASE packet = Name(0)
      BY <3>2, FilesType, SMTT(30) DEF Name, Packets, IInv, Types, Options
    <3> QED BY <3>1, <3>2, Zenon DEF IInv, Types, SenderOK
  <2>2. /\ file \in 0 .. Len(Lengths) /\ Len(circ) <= buffersize
        /\ saved >= Len(circ) /\ (file # 0 => saved <= Lengths[file])
    BY FilesType DEF IInv, Types, StoreOK, Files
  <2>3. /\ spc \in {"hello", "name", "nameC", "data", "eot", "eotC", "last", "ok", "fail"}
        /\ tries \in 0 .. RETRY /\ retries \in 0 .. RETRY
        /\ rpc \in {"start", "run", "ok", "fail", "exit_ok", "exit_fail"}
        /\ faults \in 0 .. MaxFaults
    BY Zenon DEF IInv, Types, SenderOK, ReceiverOK, LineOK
  <2> QED BY <2>1, <2>2, <2>3, Zenon DEF TypeOK
<1> QED BY <1>1, Invariance, PTL

\* What sb knows to have arrived is stored by rb: an ACK stands for units in
\* the buffer or on the disk, and rb never takes an EOT for a file that is not
\* complete.
THEOREM AckedStored == Spec => []Acked
<1>1. IInv => Acked
  <2> SUFFICES ASSUME IInv, ~hasty, NEW f \in Files, NEW u \in 1 .. AckedUnits(f)
               PROVE  Stored(f, u) = <<f, u>>
    BY Zenon DEF Acked
  <2>1. AckedUnits(f) \in Nat
    BY AckedUnitsType, Zenon DEF IInv
  <2>2. u \in Nat
    BY <2>1
  <2> QED BY <2>2, Zenon DEF IInv, Paced, Kept
<1> QED BY <1>1, Invariance, PTL

\* What rb writes of a file is the beginning of that file, unit by unit: for
\* any wrap of the packet numbers, with any number of faults if its timeout is
\* not too short, and with any timeout if there are none.
THEOREM WrittenInOrder == Spec => []InOrder
<1>1. IInv => InOrder
  <2> SUFFICES ASSUME IInv, hasty => faults = 0, file # 0, NEW u \in 1 .. saved
               PROVE  Stored(file, u) = <<file, u>>
    BY Zenon DEF InOrder
  <2>1. PICK f \in Files : f = file
    BY Zenon DEF IInv, Types, StoreOK
  <2>2. u \in Nat
    BY DEF IInv, Types, StoreOK
  <2>3. Prefix
    BY Zenon DEF IInv, Paced, Clean
  <2>4. Stored(f, u) = <<f, u>>
    BY <2>1, <2>2, <2>3, Zenon DEF Prefix
  <2> QED BY <2>1, <2>4, Zenon
<1> QED BY <1>1, Invariance, PTL
=============================================================================
