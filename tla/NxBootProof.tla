---------------------------- MODULE NxBootProof -----------------------------
(***************************************************************************)
(* Proofs about the bootloader, for any set of images, any image sizes and *)
(* any flash geometry: the type invariant, the inductive invariant IInv    *)
(* and what follows from it, and the refinement of NxBootAbs.              *)
(***************************************************************************)
EXTENDS NxBoot, TLAPS

USE FlashAssumption, StateAssumption, BootAssumption

-----------------------------------------------------------------------------
(***************************************************************************)
(* Flash operations.                                                       *)
(***************************************************************************)

\* Writing a block gives a partition with that block replaced.
LEMMA WriteBlockFacts ==
    ASSUME NEW p \in Partition, NEW b \in Blocks, NEW c \in Content, NEW m \in Magic
    PROVE  /\ WriteBlock(p, b, c, m) \in Partition
           /\ WriteBlock(p, b, c, m).magic = IF b = 0 THEN m ELSE p.magic
           /\ \A x \in Blocks :
                  WriteBlock(p, b, c, m).blk[x] = IF x = b THEN c ELSE p.blk[x]
BY Zenon DEF WriteBlock, Partition, Blocks

\* Losing blocks gives a partition; without block 0 it has no known magic.
LEMMA LoseFacts ==
    ASSUME NEW p \in Partition, NEW lost
    PROVE  /\ Lose(p, lost) \in Partition
           /\ Lose(p, lost).magic = IF 0 \in lost THEN BadMagic ELSE p.magic
           /\ \A x \in Blocks :
                  Lose(p, lost).blk[x] = IF x \in lost THEN Erased ELSE p.blk[x]
BY DEF Lose, Partition, Content, BadMagic, Magic

\* Block 0 exists.
LEMMA ZeroBlock == 0 \in Blocks
BY DEF Blocks

\* Losing blocks takes the header away or leaves it as it is.
LEMMA LoseHeader ==
    ASSUME NEW p \in Partition, NEW lost
    PROVE  /\ Lose(p, lost) \in Partition
           /\ \/ Lose(p, lost).magic = BadMagic
              \/ Lose(p, lost).magic = p.magic /\ Crc(Lose(p, lost)) = Crc(p)
<1>1. /\ Lose(p, lost).magic = IF 0 \in lost THEN BadMagic ELSE p.magic
      /\ Lose(p, lost).blk[0] = IF 0 \in lost THEN Erased ELSE p.blk[0]
  BY LoseFacts, ZeroBlock
<1> QED BY <1>1, LoseFacts, Zenon DEF Crc

\* The fields of a partition.
LEMMA PartitionFields ==
    ASSUME NEW p \in Partition
    PROVE  /\ p.magic \in Magic /\ p.blk \in [Blocks -> Content]
           /\ Crc(p) \in Content
           /\ ~(IsStd(p) /\ IsInt(p))
BY ZeroBlock, Zenon DEF Partition, Crc, IsStd, IsInt

\* A valid image is one of this platform, and its blocks are there.
LEMMA ValidFacts ==
    ASSUME NEW p \in Partition, ValidImage(p)
    PROVE  /\ Crc(p) \in Native /\ Crc(p) \in Images
           /\ Size[Crc(p)] \in 1..NBlocks
           /\ IsStd(p) \/ IsInt(p)
           /\ \A x \in Blocks : x < Size[Crc(p)] => p.blk[x] = Crc(p)
BY Zenon DEF ValidImage, CrcMatches, ValidHeader

\* The outcome of a write that completes, fails or is torn: the partition's
\* header is gone, or the one written, or the one it had.
After(q, p, w) ==
    /\ q \in Partition
    /\ \/ q.magic = BadMagic
       \/ w.b = 0 /\ q.magic = w.m /\ Crc(q) = w.c
       \/ q.magic = p.magic /\ Crc(q) = Crc(p)

WriteType == [slot : Slots, b : Blocks, c : Content, m : Magic]

\* What a write, complete or torn, leaves in the partition written.
LEMMA WriteOutcome ==
    ASSUME NEW w \in WriteType, flash \in [Slots -> Partition],
           Write(w) \/ Tear(w)
    PROVE  \E q : After(q, flash[w.slot], w) /\ flash' = [flash EXCEPT ![w.slot] = q]
<1> DEFINE p == flash[w.slot]
           n == WriteBlock(p, w.b, w.c, w.m)
<1>0. /\ w.slot \in Slots /\ w.b \in Blocks /\ w.c \in Content /\ w.m \in Magic
      /\ p \in Partition
  BY Zenon DEF WriteType
<1>1. n \in Partition /\ n.magic = (IF w.b = 0 THEN w.m ELSE p.magic)
      /\ Crc(n) = IF w.b = 0 THEN w.c ELSE Crc(p)
  BY <1>0, WriteBlockFacts, ZeroBlock DEF Crc
<1>2. After(n, p, w)
  BY <1>1, Zenon DEF After
<1>3. CASE Write(w)
  BY Zenon, <1>2, <1>3 DEF Write
<1>4. CASE Tear(w)
  <2>1. PICK lost \in SUBSET SectorOf(w.b) :
            \/ flash' = [flash EXCEPT ![w.slot] = Lose(n, lost)]
            \/ flash' = [flash EXCEPT ![w.slot] = Lose(p, lost)]
    BY Zenon, <1>4 DEF Tear
  <2>2. Lose(n, lost) \in Partition
        /\ Lose(n, lost).magic = (IF 0 \in lost THEN BadMagic ELSE n.magic)
        /\ (0 \notin lost => Crc(Lose(n, lost)) = Crc(n))
    BY <1>1, LoseFacts, ZeroBlock DEF Crc
  <2>3. After(Lose(n, lost), p, w)
    BY <2>2, <1>1, Zenon DEF After
  <2>4. After(Lose(p, lost), p, w)
    BY <1>0, LoseHeader, Zenon DEF After
  <2> QED BY Zenon, <2>1, <2>3, <2>4
<1> QED BY <1>3, <1>4, Zenon

-----------------------------------------------------------------------------
(***************************************************************************)
(* Roles of the partitions.                                                *)
(***************************************************************************)

\* The update and the recovery partition are the two that are not primary.
LEMMA RoleFacts ==
    ASSUME NEW f
    PROVE  /\ UpdateSlot(f) \in Others /\ RecoverySlot(f) \in Others
           /\ UpdateSlot(f) # RecoverySlot(f)
BY DEF UpdateSlot, RecoverySlot, Others, Secondary, Tertiary

\* The primary header is consulted only when both partitions are internal.
LEMMA RolesKept ==
    ASSUME NEW f, NEW g, \A s \in Others : g[s] = f[s], ~BothInt(f)
    PROVE  /\ ~BothInt(g)
           /\ UpdateSlot(g) = UpdateSlot(f) /\ RecoverySlot(g) = RecoverySlot(f)
BY Zenon DEF UpdateSlot, RecoverySlot, Others, BothInt

\* A pending update excludes that both partitions are internal.
LEMMA ReadyNotBoth ==
    ASSUME NEW f \in [Slots -> Partition], UpdateReady(f)
    PROVE  ~BothInt(f)
BY PartitionFields, Zenon DEF UpdateReady, UpdateSlot, BothInt, Slots

\* What is ready will be used by the next boot if the primary is not valid.
LEMMA ReadyRecovers ==
    ASSUME NEW f, UpdateReady(f) \/ RevertReady(f)
    PROVE  ValidImage(f[Primary]) \/ NextBoot(f) # "none"
BY Zenon DEF UpdateReady, RevertReady, NextBoot, UpdateWanted, RevertWanted

\* Both kinds of readiness survive whatever happens to the primary.
LEMMA ReadyKept ==
    ASSUME NEW f, NEW g, \A s \in Others : g[s] = f[s], ~BothInt(f)
    PROVE  /\ UpdateReady(f) => UpdateReady(g)
           /\ RevertReady(f) => RevertReady(g)
BY RolesKept, RoleFacts, Zenon DEF UpdateReady, RevertReady, RecoveryValid

\* A validated recovery does not get in the way of the update.
LEMMA UpdateStays ==
    ASSUME NEW f, NEW u, NEW r, {u, r} = Others,
           IsStd(f[u]), ValidImage(f[u]), ValidImage(f[r]),
           ~(IsStd(f[u]) /\ IsInt(f[u]))
    PROVE  UpdateReady(f)
<1>1. u \in Others /\ r \in Others /\ u # r
  BY DEF Others, Secondary, Tertiary
<1>2. CASE u = Tertiary
  BY <1>2, Zenon DEF UpdateReady, UpdateSlot
<1>3. CASE u = Secondary
  <2>1. r = Tertiary
    BY <1>1, <1>3, Zenon DEF Others, Secondary, Tertiary
  <2> QED BY <1>3, <2>1, Zenon DEF UpdateReady, UpdateSlot
<1> QED BY <1>1, <1>2, <1>3, Zenon DEF Others

\* A header without a known magic claims nothing.
LEMMA BadClaims ==
    ASSUME NEW p, p.magic = BadMagic
    PROVE  ~IsStd(p) /\ ~IsInt(p) /\ ~ValidImage(p)
BY DEF BadMagic, IsStd, IsInt, ValidImage, CrcMatches, ValidHeader

-----------------------------------------------------------------------------
(***************************************************************************)
(* A copy, complete or interrupted, leaves the flash in order.             *)
(***************************************************************************)

\* The primary slot is none of the other two.
LEMMA SlotsFacts == Primary \in Slots /\ Others \subseteq Slots /\ Primary \notin Others
                    /\ Secondary \in Others /\ Tertiary \in Others /\ Secondary # Tertiary
                    /\ Slots = Others \cup {Primary}
BY DEF Slots, Others, Primary, Secondary, Tertiary

\* An installation replaces the primary header by an internal one that
\* points to the update partition, which keeps its standard magic.
LEMMA InstallKeeps ==
    ASSUME TypeOK, Provenance, Control, pc = "install", UNCHANGED <<good, offered>>,
           NEW q, q \in Partition, flash' = [flash EXCEPT ![Primary] = q],
           \/ q.magic = BadMagic
           \/ q.magic = flash[Primary].magic /\ Crc(q) = Crc(flash[Primary])
           \/ q.magic = OrPointer(IntMagic, st.update) /\ Crc(q) = Crc(flash[st.update])
    PROVE  /\ flash' \in [Slots -> Partition]
           /\ Provenance' /\ Recoverable'
           /\ UpdateReady(flash)' /\ \A s \in Others : flash'[s] = flash[s]
<1>1. /\ flash' \in [Slots -> Partition] /\ flash'[Primary] = q
      /\ \A s \in Others : flash'[s] = flash[s]
  BY SlotsFacts, Zenon DEF TypeOK
<1>2. UpdateReady(flash) /\ ~BothInt(flash)
  BY ReadyNotBoth, Zenon DEF Control, TypeOK
<1>3. UpdateReady(flash') /\ ~BothInt(flash')
  BY Zenon, <1>1, <1>2, ReadyKept, RolesKept
<1>4. Recoverable'
  BY Zenon, <1>3, ReadyRecovers DEF Recoverable
<1>5. st.update \in Others /\ IsStd(flash[st.update]) /\ ~IsInt(flash[st.update])
      /\ Crc(flash[st.update]) \in offered
  BY SlotsFacts, PartitionFields, Zenon DEF Control, TypeOK, Provenance
<1> SUFFICES Provenance'
  BY <1>1, <1>3, <1>4, Zenon
<1>6. CASE q.magic = BadMagic
  BY <1>1, <1>3, <1>6, BadClaims DEF Provenance
<1>7. CASE q.magic = flash[Primary].magic /\ Crc(q) = Crc(flash[Primary])
  <2>1. IsStd(q) = IsStd(flash[Primary]) /\ IsInt(q) = IsInt(flash[Primary])
    BY <1>7, Zenon DEF IsStd, IsInt
  <2> QED BY <1>1, <1>3, <1>7, <2>1 DEF Provenance
<1>8. CASE q.magic = OrPointer(IntMagic, st.update) /\ Crc(q) = Crc(flash[st.update])
  <2>1. ~IsStd(q) /\ IsInt(q) /\ q.magic.ptr = st.update
    BY <1>8 DEF OrPointer, IntMagic, IsStd, IsInt
  <2> QED BY <1>1, <1>3, <1>5, <1>8, <2>1 DEF Provenance
<1> QED BY <1>6, <1>7, <1>8, Zenon

\* A revert replaces the primary header by a standard one of an image that
\* had been confirmed, and the recovery partition stays the recovery.
LEMMA RevertKeeps ==
    ASSUME TypeOK, Provenance, Control, pc = "revert", UNCHANGED <<good, offered>>,
           NEW q, q \in Partition, flash' = [flash EXCEPT ![Primary] = q],
           \/ q.magic = BadMagic
           \/ q.magic = flash[Primary].magic /\ Crc(q) = Crc(flash[Primary])
           \/ q.magic = StdMagic /\ Crc(q) = Crc(flash[st.recovery])
    PROVE  /\ flash' \in [Slots -> Partition]
           /\ Provenance' /\ Recoverable'
           /\ RevertReady(flash)' /\ ~BothInt(flash)'
           /\ RecoverySlot(flash') = RecoverySlot(flash)
           /\ \A s \in Others : flash'[s] = flash[s]
<1>1. /\ flash' \in [Slots -> Partition] /\ flash'[Primary] = q
      /\ \A s \in Others : flash'[s] = flash[s]
  BY SlotsFacts, Zenon DEF TypeOK
<1>2. RevertReady(flash) /\ ~BothInt(flash) /\ st.recovery = RecoverySlot(flash)
  BY Zenon DEF Control
<1>3. RevertReady(flash') /\ ~BothInt(flash') /\ RecoverySlot(flash') = RecoverySlot(flash)
  BY Zenon, <1>1, <1>2, ReadyKept, RolesKept
<1>4. Recoverable'
  BY Zenon, <1>3, ReadyRecovers DEF Recoverable
<1>5. st.recovery \in Others /\ Crc(flash[st.recovery]) \in good
  BY <1>2, RoleFacts, Zenon DEF RevertReady, Provenance
<1> SUFFICES Provenance'
  BY <1>1, <1>3, <1>4, Zenon
<1>6. CASE q.magic = BadMagic
  BY <1>1, <1>3, <1>6, BadClaims DEF Provenance
<1>7. CASE q.magic = flash[Primary].magic /\ Crc(q) = Crc(flash[Primary])
  <2>1. IsStd(q) = IsStd(flash[Primary]) /\ IsInt(q) = IsInt(flash[Primary])
    BY <1>7, Zenon DEF IsStd, IsInt
  <2> QED BY <1>1, <1>3, <1>7, <2>1 DEF Provenance
<1>8. CASE q.magic = StdMagic /\ Crc(q) = Crc(flash[st.recovery])
  <2>1. IsStd(q) /\ ~IsInt(q)
    BY <1>8 DEF StdMagic, IsStd, IsInt
  <2> QED BY <1>1, <1>3, <1>5, <1>8, <2>1 DEF Provenance
<1> QED BY <1>6, <1>7, <1>8, Zenon

\* While the primary is valid, a change to one of the other partitions keeps
\* the headers' claims true if the new header is no header, the old one, a
\* standard one of an offered image, or an internal one of a confirmed image
\* that agrees with the primary or stands alone.
LEMMA OtherKeeps ==
    ASSUME TypeOK, Provenance, ValidImage(flash[Primary]), UNCHANGED <<good, offered>>,
           NEW s \in Others, NEW q, q \in Partition, flash' = [flash EXCEPT ![s] = q],
           \/ q.magic = BadMagic
           \/ q.magic = flash[s].magic /\ Crc(q) = Crc(flash[s])
           \/ IsStd(q) /\ Crc(q) \in offered
           \/ /\ IsInt(q) /\ Crc(q) \in good
              /\ \/ IsInt(flash[Primary]) /\ Crc(q) = Crc(flash[Primary])
                 \/ /\ ~IsInt(flash[Primary])
                    /\ \E o \in Others : o # s /\ ~IsInt(flash[o])
    PROVE  /\ flash' \in [Slots -> Partition] /\ flash'[s] = q
           /\ Provenance' /\ Recoverable'
           /\ flash'[Primary] = flash[Primary]
           /\ \A o \in Others : o # s => flash'[o] = flash[o]
<1>1. /\ flash' \in [Slots -> Partition] /\ flash'[s] = q
      /\ flash'[Primary] = flash[Primary]
      /\ \A o \in Others : o # s => flash'[o] = flash[o]
  BY SlotsFacts, Zenon DEF TypeOK
<1>2. Recoverable'
  BY <1>1, Zenon DEF Recoverable
<1>3. ~(IsStd(q) /\ IsInt(q))
  BY PartitionFields, Zenon
<1>4. PICK o \in Others : o # s /\ Others = {s, o}
  BY DEF Others, Secondary, Tertiary
<1>5. flash'[o] = flash[o]
  BY <1>1, <1>4, Zenon
<1> SUFFICES Provenance'
  BY <1>1, <1>2, Zenon
<1>6. CASE q.magic = BadMagic
  <2>1. ~IsStd(q) /\ ~IsInt(q)
    BY <1>6, BadClaims, Zenon
  <2>2. ~BothInt(flash')
    BY <1>1, <2>1, Zenon DEF BothInt, Others
  <2> QED BY <1>1, <1>4, <1>5, <2>1, <2>2 DEF Provenance
<1>7. CASE q.magic = flash[s].magic /\ Crc(q) = Crc(flash[s])
  <2>1. IsStd(q) = IsStd(flash[s]) /\ IsInt(q) = IsInt(flash[s])
    BY <1>7, Zenon DEF IsStd, IsInt
  <2>2. BothInt(flash') = BothInt(flash)
    BY <1>1, <2>1, SlotsFacts, Zenon DEF BothInt, Others
  <2> QED BY <1>1, <1>4, <1>5, <1>7, <2>1, <2>2 DEF Provenance
<1>8. CASE IsStd(q) /\ Crc(q) \in offered
  <2>1. ~IsInt(q)
    BY <1>3, <1>8, Zenon
  <2>2. ~BothInt(flash')
    BY <1>1, <2>1, Zenon DEF BothInt, Others
  <2> QED BY <1>1, <1>4, <1>5, <1>8, <2>1, <2>2 DEF Provenance
<1>9. CASE IsInt(q) /\ Crc(q) \in good /\ IsInt(flash[Primary]) /\ Crc(q) = Crc(flash[Primary])
  <2>1. ~IsStd(q)
    BY <1>3, <1>9, Zenon
  <2> QED BY <1>1, <1>4, <1>5, <1>9, <2>1 DEF Provenance
<1>10. CASE /\ IsInt(q) /\ Crc(q) \in good /\ ~IsInt(flash[Primary])
            /\ \E t \in Others : t # s /\ ~IsInt(flash[t])
  <2>1. ~IsInt(flash'[o]) /\ ~IsStd(q)
    BY <1>3, <1>4, <1>5, <1>10, Zenon
  <2>2. ~BothInt(flash')
    BY <1>4, <2>1, Zenon DEF BothInt, Others
  <2> QED BY <1>1, <1>4, <1>5, <1>10, <2>1, <2>2 DEF Provenance
<1> QED BY <1>6, <1>7, <1>8, <1>9, <1>10, Zenon

-----------------------------------------------------------------------------
(***************************************************************************)
(* The pending writes.                                                     *)
(***************************************************************************)

\* What the three calls of copy_partition write next.
LEMMA CopyWriteFacts ==
    ASSUME IInv, pc \in Copying
    PROVE  /\ CopyWrite \in WriteType
           /\ CopyWrite.b = idx
           /\ pc = "mkrec" =>
                /\ CopyWrite.slot = st.recovery /\ CopyWrite.c = Crc(flash[Primary])
                /\ CopyWrite.m = IF IsInt(flash[Primary]) THEN StdMagic ELSE IntMagic
                /\ CopyLast = Size[Crc(flash[Primary])] - 1
           /\ pc = "install" =>
                /\ CopyWrite.slot = Primary /\ CopyWrite.c = Crc(flash[st.update])
                /\ CopyWrite.m = OrPointer(IntMagic, st.update)
                /\ CopyLast = Size[Crc(flash[st.update])] - 1
           /\ pc = "revert" =>
                /\ CopyWrite.slot = Primary /\ CopyWrite.c = Crc(flash[st.recovery])
                /\ CopyWrite.m = StdMagic
                /\ CopyLast = Size[Crc(flash[st.recovery])] - 1
<1>1. /\ StdMagic \in Magic /\ IntMagic \in Magic
      /\ \A u \in Others : OrPointer(IntMagic, u) \in Magic
  BY DEF StdMagic, IntMagic, OrPointer, Magic, Others, Secondary, Tertiary
<1>2. idx \in Blocks /\ flash \in [Slots -> Partition]
  BY Zenon DEF IInv, TypeOK
<1>3. CASE pc = "mkrec"
  <2>1. st.recovery \in Others /\ ValidImage(flash[Primary]) /\ idx < Size[Crc(flash[Primary])]
    BY <1>3, Zenon DEF IInv, Control
  <2>2. flash[Primary].blk[idx] = Crc(flash[Primary]) /\ Crc(flash[Primary]) \in Content
    BY <1>2, <2>1, ValidFacts, SlotsFacts, PartitionFields, Zenon
  <2> QED BY Zenon, <1>1, <1>2, <1>3, <2>1, <2>2, SlotsFacts
          DEF CopyWrite, CopyFrom, CopyWhere, CopyMagic, CopyLast, WriteType
<1>4. CASE pc = "install"
  <2>1. /\ st.update \in Others /\ ValidImage(flash[st.update]) /\ IsStd(flash[st.update])
        /\ idx < Size[Crc(flash[st.update])]
    BY <1>4, Zenon DEF IInv, Control, Copied
  <2>2. /\ flash[st.update].blk[idx] = Crc(flash[st.update])
        /\ Crc(flash[st.update]) \in Content /\ ~IsInt(flash[st.update])
    BY <1>2, <2>1, ValidFacts, SlotsFacts, PartitionFields, Zenon
  <2> QED BY Zenon, <1>1, <1>2, <1>4, <2>1, <2>2, SlotsFacts
          DEF CopyWrite, CopyFrom, CopyWhere, CopyMagic, CopyLast, WriteType
<1>5. CASE pc = "revert"
  <2>1. /\ st.recovery \in Others /\ ValidImage(flash[st.recovery]) /\ IsInt(flash[st.recovery])
        /\ idx < Size[Crc(flash[st.recovery])]
    BY <1>5, RoleFacts, Zenon DEF IInv, Control, Copied, RevertReady, RecoveryValid
  <2>2. /\ flash[st.recovery].blk[idx] = Crc(flash[st.recovery])
        /\ Crc(flash[st.recovery]) \in Content
    BY <1>2, <2>1, ValidFacts, SlotsFacts, PartitionFields, Zenon
  <2> QED BY Zenon, <1>1, <1>2, <1>5, <2>1, <2>2, SlotsFacts
          DEF CopyWrite, CopyFrom, CopyWhere, CopyMagic, CopyLast, WriteType
<1> QED BY <1>3, <1>4, <1>5, Zenon DEF Copying

\* A step of copy_partition that completes, fails or is torn.
LEMMA CopyKeeps ==
    ASSUME IInv, pc \in Copying, Write(CopyWrite) \/ Tear(CopyWrite),
           UNCHANGED <<good, offered>>
    PROVE  /\ flash' \in [Slots -> Partition]
           /\ Provenance' /\ Recoverable'
           /\ pc = "mkrec" =>
                /\ flash'[Primary] = flash[Primary]
                /\ flash'[st.update] = flash[st.update]
           /\ pc = "install" =>
                UpdateReady(flash') /\ \A s \in Others : flash'[s] = flash[s]
           /\ pc = "revert" =>
                /\ RevertReady(flash') /\ ~BothInt(flash')
                /\ RecoverySlot(flash') = RecoverySlot(flash)
                /\ \A s \in Others : flash'[s] = flash[s]
<1>1. PICK q : /\ After(q, flash[CopyWrite.slot], CopyWrite)
               /\ flash' = [flash EXCEPT ![CopyWrite.slot] = q]
  BY CopyWriteFacts, WriteOutcome, Zenon DEF IInv, TypeOK
<1>2. q \in Partition
  BY <1>1, Zenon DEF After
<1>3. CASE pc = "mkrec"
  <2>1. /\ {st.update, st.recovery} = Others /\ ValidImage(flash[Primary])
        /\ IsStd(flash[st.update])
    BY <1>3, Zenon DEF IInv, Control
  <2>2. /\ st.update \in Others /\ st.recovery \in Others /\ st.update # st.recovery
        /\ ~IsInt(flash[st.update])
    BY Zenon, <2>1, SlotsFacts, PartitionFields DEF Others, IInv, TypeOK
  <2>3. IsStd(flash[Primary]) \/ IsInt(flash[Primary])
    BY <2>1, SlotsFacts, ValidFacts, Zenon DEF IInv, TypeOK
  <2>4. \/ q.magic = BadMagic
        \/ q.magic = flash[st.recovery].magic /\ Crc(q) = Crc(flash[st.recovery])
        \/ IsStd(q) /\ IsInt(flash[Primary]) /\ Crc(q) = Crc(flash[Primary])
        \/ IsInt(q) /\ ~IsInt(flash[Primary]) /\ Crc(q) = Crc(flash[Primary])
    BY <1>1, <1>3, CopyWriteFacts DEF After, StdMagic, IntMagic, IsStd, IsInt
  <2>5. /\ IsInt(flash[Primary]) => Crc(flash[Primary]) \in offered
        /\ IsStd(flash[Primary]) => Crc(flash[Primary]) \in good
    BY Zenon DEF IInv, Provenance
  <2>6. flash' = [flash EXCEPT ![st.recovery] = q]
    BY Zenon, <1>1, <1>3, CopyWriteFacts
  <2> QED BY Zenon, <1>2, <1>3, <2>1, <2>2, <2>3, <2>4, <2>5, <2>6, OtherKeeps DEF IInv
<1>4. CASE pc = "install"
  <2>1. flash' = [flash EXCEPT ![Primary] = q]
    BY Zenon, <1>1, <1>4, CopyWriteFacts
  <2>2. \/ q.magic = BadMagic
        \/ q.magic = flash[Primary].magic /\ Crc(q) = Crc(flash[Primary])
        \/ q.magic = OrPointer(IntMagic, st.update) /\ Crc(q) = Crc(flash[st.update])
    BY <1>1, <1>4, CopyWriteFacts, Zenon DEF After
  <2> QED BY Zenon, <1>2, <1>4, <2>1, <2>2, InstallKeeps DEF IInv
<1>5. CASE pc = "revert"
  <2>1. flash' = [flash EXCEPT ![Primary] = q]
    BY Zenon, <1>1, <1>5, CopyWriteFacts
  <2>2. \/ q.magic = BadMagic
        \/ q.magic = flash[Primary].magic /\ Crc(q) = Crc(flash[Primary])
        \/ q.magic = StdMagic /\ Crc(q) = Crc(flash[st.recovery])
    BY <1>1, <1>5, CopyWriteFacts, Zenon DEF After
  <2> QED BY Zenon, <1>2, <1>5, <2>1, <2>2, RevertKeeps DEF IInv
<1> QED BY <1>3, <1>4, <1>5, Zenon DEF Copying

\* A step of nxboot_confirm or of a download that completes, fails or is torn.
LEMMA TaskKeeps ==
    ASSUME IInv, UNCHANGED <<good, offered>>,
           \/ conf # NoConf /\ (Write(ConfirmWrite) \/ Tear(ConfirmWrite))
           \/ dl # NoDl /\ (Write(DownloadWrite) \/ Tear(DownloadWrite))
    PROVE  /\ flash' \in [Slots -> Partition]
           /\ Provenance' /\ Recoverable'
           /\ flash'[Primary] = flash[Primary]
<1>1. flash \in [Slots -> Partition] /\ offered \subseteq Images
  BY Zenon DEF IInv, TypeOK
<1>2. CASE conf # NoConf /\ (Write(ConfirmWrite) \/ Tear(ConfirmWrite))
  <2>1. /\ ValidImage(flash[Primary]) /\ IsInt(flash[Primary])
        /\ Crc(flash[Primary]) \in good
        /\ conf.slot \in Others /\ conf.idx \in Blocks
    BY <1>2, Zenon DEF IInv, Tasks, Running, TypeOK
  <2>2. ConfirmWrite \in WriteType
    BY <1>1, <2>1, SlotsFacts, PartitionFields, Zenon DEF ConfirmWrite, WriteType
  <2>3. PICK q : /\ After(q, flash[conf.slot], ConfirmWrite)
                 /\ flash' = [flash EXCEPT ![conf.slot] = q]
    BY <1>1, <1>2, <2>2, WriteOutcome, Zenon DEF ConfirmWrite
  <2>4. \/ q.magic = BadMagic
        \/ q.magic = flash[conf.slot].magic /\ Crc(q) = Crc(flash[conf.slot])
        \/ IsInt(q) /\ Crc(q) = Crc(flash[Primary])
    BY <2>1, <2>3, Zenon DEF After, ConfirmWrite, IsInt, Crc
  <2>5. q \in Partition
    BY <2>3, Zenon DEF After
  <2> QED BY Zenon, <2>1, <2>3, <2>4, <2>5, OtherKeeps DEF IInv
<1>3. CASE dl # NoDl /\ (Write(DownloadWrite) \/ Tear(DownloadWrite))
  <2>1. /\ ValidImage(flash[Primary]) /\ dl.slot \in Others
        /\ dl.img \in offered /\ dl.idx \in Blocks
    BY <1>3, Zenon DEF IInv, Tasks, Running, TypeOK
  <2>2. DownloadWrite \in WriteType
    BY <1>1, <2>1, SlotsFacts DEF DownloadWrite, WriteType, StdMagic, Magic, Content
  <2>3. PICK q : /\ After(q, flash[dl.slot], DownloadWrite)
                 /\ flash' = [flash EXCEPT ![dl.slot] = q]
    BY <1>1, <1>3, <2>2, WriteOutcome, Zenon DEF DownloadWrite
  <2>4. \/ q.magic = BadMagic
        \/ q.magic = flash[dl.slot].magic /\ Crc(q) = Crc(flash[dl.slot])
        \/ IsStd(q) /\ Crc(q) \in offered
    BY <2>1, <2>3 DEF After, DownloadWrite, IsStd, StdMagic
  <2>5. q \in Partition
    BY <2>3, Zenon DEF After
  <2> QED BY Zenon, <2>1, <2>3, <2>4, <2>5, OtherKeeps DEF IInv
<1> QED BY <1>2, <1>3, Zenon

\* An erase of the update partition that completes, fails or is torn.
LEMMA EraseKeeps ==
    ASSUME IInv, pc = "erase", UNCHANGED <<good, offered>>, NEW lost,
           flash' = [flash EXCEPT ![st.update] = Lose(flash[st.update], lost)]
    PROVE  /\ flash' \in [Slots -> Partition]
           /\ Provenance' /\ Recoverable'
           /\ flash'[Primary] = flash[Primary]
<1> DEFINE q == Lose(flash[st.update], lost)
<1>1. st.update \in Others /\ ValidImage(flash[Primary])
  BY Zenon DEF IInv, Control
<1>2. flash[st.update] \in Partition
  BY <1>1, SlotsFacts, Zenon DEF IInv, TypeOK
<1>3. /\ q \in Partition
      /\ \/ q.magic = BadMagic
         \/ q.magic = flash[st.update].magic /\ Crc(q) = Crc(flash[st.update])
  BY <1>2, LoseHeader, Zenon
<1> HIDE DEF q
<1>4. flash' = [flash EXCEPT ![st.update] = q]
  BY Zenon DEF q
<1> QED BY Zenon, <1>1, <1>3, <1>4, OtherKeeps DEF IInv

-----------------------------------------------------------------------------
(***************************************************************************)
(* Every step preserves the inductive invariant.                           *)
(***************************************************************************)

\* The state that nxboot_get_state returns.
LEMMA StateType == ASSUME NEW f PROVE GetState(f) \in State
<1>1. UpdateSlot(f) \in {Secondary, Tertiary} /\ RecoverySlot(f) \in {Secondary, Tertiary}
  BY RoleFacts, Zenon DEF Others
<1>2. RecoveryValid(f) \in BOOLEAN
  BY Zenon DEF RecoveryValid, ValidImage, CrcMatches
<1>3. RecoveryPresent(f) \in BOOLEAN
  BY Zenon DEF RecoveryPresent
<1>4. PrimaryConfirmed(f) \in BOOLEAN
  BY Zenon DEF PrimaryConfirmed
<1>5. NextBoot(f) \in {"none", "update", "revert"}
  BY Zenon DEF NextBoot
<1> QED BY <1>1, <1>2, <1>3, <1>4, <1>5, Zenon DEF GetState, State

\* The state structure before nxboot_get_state has filled it.
LEMMA NoStateType == NoState \in State
BY Zenon DEF NoState, State

\* The initial states: a programmed primary, nothing else.
LEMMA InitIInv == Init => IInv
<1> SUFFICES ASSUME Init PROVE IInv
  BY Zenon
<1>1. PICK i \in Native :
        /\ flash = [s \in Slots |-> IF s = Primary THEN Programmed(i) ELSE BlankPartition]
        /\ good = {i}
  BY Zenon DEF Init
<1>2. pc = "start" /\ chk = FALSE /\ st = NoState /\ idx = 0 /\ conf = NoConf
      /\ dl = NoDl /\ offered = {}
  BY Zenon DEF Init
<1>3. Programmed(i) \in Partition /\ BlankPartition \in Partition
  BY DEF Programmed, BlankPartition, Partition, StdMagic, BadMagic, Magic, Content
<1>4. /\ flash[Primary] = Programmed(i)
      /\ \A s \in Others : flash[s] = BlankPartition
      /\ flash \in [Slots -> Partition]
  BY <1>1, <1>3, SlotsFacts, Zenon
<1>5. IsStd(Programmed(i)) /\ ~IsInt(Programmed(i)) /\ Crc(Programmed(i)) = i
  BY ZeroBlock DEF Programmed, IsStd, IsInt, Crc, StdMagic
<1>6. ValidImage(Programmed(i))
  BY Zenon, <1>5, ZeroBlock DEF ValidImage, CrcMatches, ValidHeader, Programmed
<1>7. ~IsStd(BlankPartition) /\ ~IsInt(BlankPartition)
  BY BadClaims, Zenon DEF BlankPartition
<1>8. TypeOK
  BY Zenon, <1>1, <1>2, <1>4, NoStateType, ZeroBlock
     DEF TypeOK, NoConf, NoDl, PCs, Slots, Primary, Content
<1>9. Provenance
  BY <1>1, <1>4, <1>5, <1>6, <1>7 DEF Provenance, BothInt, Others
<1>10. Tasks
  BY <1>2, Zenon DEF Tasks
<1>11. Control
  BY <1>2, Zenon DEF Control
<1>12. Recoverable
  BY <1>4, <1>6, Zenon DEF Recoverable
<1> QED BY <1>8, <1>9, <1>10, <1>11, <1>12, Zenon DEF IInv

\* While the bootloader works no task of the application is active.
LEMMA NoTasks == ASSUME IInv, pc # "app" PROVE conf = NoConf /\ dl = NoDl
BY Zenon DEF IInv, Tasks, Running

\* Steps that leave flash and history alone keep what depends on them only.
LEMMA FlashSame ==
    ASSUME IInv, UNCHANGED <<flash, good, offered>>
    PROVE  /\ Provenance' /\ Recoverable' /\ flash' \in [Slots -> Partition]
           /\ good' \subseteq Images /\ offered' \subseteq Images
BY Zenon DEF IInv, TypeOK, Provenance, Recoverable

\* The bootloader's decisions change nothing on flash.
LEMMA ReadStateIInv == ASSUME IInv, ReadState PROVE IInv'
<1>0. /\ pc = "start" /\ st' = GetState(flash) /\ UNCHANGED <<flash, chk, idx, App>>
      /\ pc' = IF st'.next_boot = "none" THEN "check" ELSE "perform"
  BY Zenon DEF ReadState, Goto
<1>1. UNCHANGED <<flash, good, offered, conf, dl>>
  BY <1>0, Zenon DEF App
<1>2. TypeOK'
  BY <1>0, <1>1, StateType, Zenon DEF IInv, TypeOK, PCs
<1>3. Tasks'
  BY <1>0, <1>1, NoTasks, Zenon DEF Tasks, NoConf, NoDl
<1>4. st'.next_boot = "none" => ValidImage(flash[Primary])
  BY <1>0, Zenon DEF GetState, IInv, Recoverable
<1>5. idx' = 0
  BY Zenon, <1>0 DEF IInv, Control, Copying
<1>6. Control'
  BY <1>0, <1>1, <1>4, <1>5, Zenon DEF Control, Copying
<1> QED BY <1>1, <1>2, <1>3, <1>6, FlashSame, Zenon DEF IInv

\* What perform_update finds: an update or a revert that is ready.
LEMMA PerformFacts ==
    ASSUME IInv, pc = "perform"
    PROVE  /\ {st.update, st.recovery} = Others
           /\ st.recovery = RecoverySlot(flash)
           /\ st.next_boot = "update" =>
                /\ UpdateReady(flash) /\ IsStd(flash[st.update])
                /\ ValidImage(flash[st.update])
           /\ st.next_boot = "revert" =>
                RevertReady(flash) /\ ~BothInt(flash) /\ st.recovery_valid
           /\ st.next_boot \in {"update", "revert"}
<1>1. st = GetState(flash) /\ st.next_boot # "none"
  BY Zenon DEF IInv, Control
<1>2. /\ st.update = UpdateSlot(flash) /\ st.recovery = RecoverySlot(flash)
      /\ st.recovery_valid = RecoveryValid(flash) /\ st.next_boot = NextBoot(flash)
  BY <1>1, Zenon DEF GetState
<1>3. {st.update, st.recovery} = Others
  BY <1>2, RoleFacts, Zenon DEF Others
<1>4. CASE st.next_boot = "update"
  <2>1. UpdateWanted(flash)
    BY <1>2, <1>4, Zenon DEF NextBoot
  <2> QED BY <1>2, <1>3, <1>4, <2>1, Zenon DEF UpdateWanted, UpdateReady
<1>5. CASE st.next_boot = "revert"
  <2>1. RevertWanted(flash)
    BY <1>2, <1>5, Zenon DEF NextBoot
  <2>2. RevertReady(flash) /\ RecoveryValid(flash)
    BY <2>1, Zenon DEF RevertWanted, RevertReady
  <2>3. ASSUME BothInt(flash) PROVE FALSE
    <3>1. IsInt(flash[Primary]) /\ ValidImage(flash[Primary])
      BY <2>3, Zenon DEF IInv, Provenance
    <3>2. ~PrimaryConfirmed(flash)
      BY <2>1, <3>1, Zenon DEF RevertWanted
    <3>3. PICK s \in Others : flash[Primary].magic.ptr = s
      BY <3>1, Zenon DEF IInv, Provenance
    <3>4. IsInt(flash[s])
      BY <2>3, <3>3, Zenon DEF BothInt, Others
    <3>5. Crc(flash[s]) = Crc(flash[Primary])
      BY <3>1, <3>3, <3>4, Zenon DEF IInv, Provenance
    <3> QED BY <3>1, <3>2, <3>3, <3>5, Zenon DEF PrimaryConfirmed, Others
  <2> QED BY <1>2, <1>3, <1>5, <2>2, <2>3, Zenon
<1> QED BY <1>1, <1>2, <1>4, <1>5, Zenon DEF NextBoot

\* A revert starts from a validated recovery.
LEMMA StartRevertIInv == ASSUME IInv, StartRevert PROVE IInv'
<1>0. /\ pc = "perform" /\ st.next_boot = "revert" /\ UNCHANGED <<flash, chk, st, idx, App>>
      /\ pc' = IF st.recovery_valid THEN "revert" ELSE "check"
  BY Zenon DEF StartRevert, RevertNow, Goto
<1>1. UNCHANGED <<flash, good, offered, conf, dl>>
  BY <1>0, Zenon DEF App
<1>2. TypeOK'
  BY <1>0, <1>1, Zenon DEF IInv, TypeOK, PCs, Copying
<1>3. Tasks'
  BY <1>0, <1>1, NoTasks, Zenon DEF Tasks, NoConf, NoDl
<1>4. /\ pc' = "revert" /\ idx' = 0 /\ RevertReady(flash) /\ ~BothInt(flash)
      /\ st.recovery = RecoverySlot(flash)
  BY Zenon, <1>0, PerformFacts DEF IInv, Control, Copying
<1>5. Crc(flash[st.recovery]) \in Images /\ 0 < Size[Crc(flash[st.recovery])]
  BY SMTT(30), <1>4, RoleFacts, SlotsFacts, ValidFacts DEF RevertReady, RecoveryValid, IInv, TypeOK
<1>6. Control'
  BY SMTT(30), <1>0, <1>1, <1>4, <1>5 DEF Control, Copying, Copied, Blocks
<1> QED BY <1>1, <1>2, <1>3, <1>6, FlashSame, Zenon DEF IInv

\* A boot that may only check starts no update.
LEMMA SkipUpdateIInv == ASSUME IInv, SkipUpdate PROVE IInv'
<1>0. /\ pc = "perform" /\ ValidImage(flash[Primary])
      /\ pc' = "check" /\ UNCHANGED <<flash, chk, st, idx, App>>
  BY Zenon DEF SkipUpdate, Goto
<1>1. UNCHANGED <<flash, good, offered, conf, dl>>
  BY <1>0, Zenon DEF App
<1>2. TypeOK'
  BY <1>0, <1>1, Zenon DEF IInv, TypeOK, PCs
<1>3. Tasks'
  BY <1>0, <1>1, NoTasks, Zenon DEF Tasks, NoConf, NoDl
<1>4. Control'
  BY Zenon, <1>0, <1>1 DEF IInv, Control, Copying
<1> QED BY <1>1, <1>2, <1>3, <1>4, FlashSame, Zenon DEF IInv

\* An update starts with a recovery in place, or by making one.
LEMMA StartUpdateIInv == ASSUME IInv, StartUpdate PROVE IInv'
<1>0. /\ pc = "perform" /\ ~RevertNow /\ ~(ValidImage(flash[Primary]) /\ chk)
      /\ pc' = IF RecoveryNeeded THEN "mkrec" ELSE "choose"
      /\ UNCHANGED <<flash, chk, st, idx, App>>
  BY Zenon DEF StartUpdate, Goto
<1>1. UNCHANGED <<flash, good, offered, conf, dl>>
  BY <1>0, Zenon DEF App
<1>2. TypeOK'
  BY <1>0, <1>1, Zenon DEF IInv, TypeOK, PCs, Copying
<1>3. Tasks'
  BY <1>0, <1>1, NoTasks, Zenon DEF Tasks, NoConf, NoDl
<1>4. st.next_boot = "update"
  BY <1>0, PerformFacts, Zenon DEF RevertNow
<1>5. /\ {st.update, st.recovery} = Others /\ UpdateReady(flash)
      /\ IsStd(flash[st.update]) /\ ValidImage(flash[st.update]) /\ idx' = 0
  BY Zenon, <1>0, <1>4, PerformFacts DEF IInv, Control, Copying
<1>6. RecoveryNeeded => /\ ValidImage(flash[Primary])
                        /\ 0 < Size[Crc(flash[Primary])]
  BY SlotsFacts, ValidFacts DEF RecoveryNeeded, IInv, TypeOK
<1>7. Control'
  BY Zenon, <1>0, <1>1, <1>5, <1>6 DEF Control, Copying
<1> QED BY <1>1, <1>2, <1>3, <1>7, FlashSame, Zenon DEF IInv

\* After the copy of the primary into the recovery partition.
LEMMA RecoveryMadeIInv == ASSUME IInv, RecoveryMade PROVE IInv'
<1>0. /\ pc = "made" /\ UNCHANGED <<flash, chk, st, idx, App>>
      /\ pc' = IF ValidImage(flash[st.recovery]) THEN "choose" ELSE "check"
  BY Zenon DEF RecoveryMade, Goto
<1>1. UNCHANGED <<flash, good, offered, conf, dl>>
  BY <1>0, Zenon DEF App
<1>2. TypeOK'
  BY <1>0, <1>1, Zenon DEF IInv, TypeOK, PCs
<1>3. Tasks'
  BY <1>0, <1>1, NoTasks, Zenon DEF Tasks, NoConf, NoDl
<1>4. /\ {st.update, st.recovery} = Others /\ IsStd(flash[st.update])
      /\ ValidImage(flash[st.update]) /\ ValidImage(flash[Primary]) /\ idx' = 0
  BY <1>0, Zenon DEF IInv, Control, Copying
<1>5. ~(IsStd(flash[st.update]) /\ IsInt(flash[st.update]))
  BY <1>4, SlotsFacts, PartitionFields, Zenon DEF IInv, TypeOK
<1>6. ValidImage(flash[st.recovery]) => UpdateReady(flash)
  BY Zenon, <1>4, <1>5, UpdateStays
<1>7. Control'
  BY <1>0, <1>1, <1>4, <1>6, Zenon DEF Control, Copying
<1> QED BY <1>1, <1>2, <1>3, <1>7, FlashSame, Zenon DEF IInv

\* The installation starts from a validated update.
LEMMA StartInstallIInv == ASSUME IInv, StartInstall PROVE IInv'
<1>0. /\ pc = "choose" /\ UNCHANGED <<flash, chk, st, idx, App>>
      /\ pc' = IF ValidImage(flash[st.update]) THEN "install" ELSE "check"
  BY Zenon DEF StartInstall, Goto
<1>1. UNCHANGED <<flash, good, offered, conf, dl>>
  BY <1>0, Zenon DEF App
<1>2. TypeOK'
  BY <1>0, <1>1, Zenon DEF IInv, TypeOK, PCs, Copying
<1>3. Tasks'
  BY <1>0, <1>1, NoTasks, Zenon DEF Tasks, NoConf, NoDl
<1>4. /\ {st.update, st.recovery} = Others /\ IsStd(flash[st.update])
      /\ ValidImage(flash[st.update]) /\ UpdateReady(flash) /\ idx' = 0 /\ pc' = "install"
  BY <1>0, Zenon DEF IInv, Control, Copying
<1>5. 0 < Size[Crc(flash[st.update])]
  BY SMTT(30), <1>4, SlotsFacts, ValidFacts DEF IInv, TypeOK
<1>6. Control'
  BY SMTT(30), <1>0, <1>1, <1>4, <1>5 DEF Control, Copying, Copied, Blocks
<1> QED BY <1>1, <1>2, <1>3, <1>6, FlashSame, Zenon DEF IInv

\* The header check at the end of nxboot_perform_update, and the boot.
LEMMA BootPrimaryIInv == ASSUME IInv, BootPrimary PROVE IInv'
<1>0. /\ pc = "check" /\ st' = NoState /\ chk' = FALSE /\ UNCHANGED <<flash, idx, App>>
      /\ pc' = IF ValidHeader(flash[Primary]) THEN "app" ELSE "halt"
  BY Zenon DEF BootPrimary, Goto
<1>1. UNCHANGED <<flash, good, offered, conf, dl>>
  BY <1>0, Zenon DEF App
<1>2. TypeOK'
  BY Zenon, <1>0, <1>1, NoStateType DEF IInv, TypeOK, PCs
<1>3. Tasks'
  BY <1>0, <1>1, NoTasks, Zenon DEF Tasks, NoConf, NoDl
<1>4. idx' = 0 /\ (WriteErrors \/ ValidImage(flash[Primary]))
  BY <1>0, Zenon DEF IInv, Control, Copying
<1>5. ValidImage(flash[Primary]) => ValidHeader(flash[Primary])
  BY Zenon DEF ValidImage, CrcMatches
<1>6. Control'
  BY Zenon, <1>0, <1>1, <1>4, <1>5 DEF Control, Copying
<1> QED BY <1>1, <1>2, <1>3, <1>6, FlashSame, Zenon DEF IInv

\* The copy into the primary grows block by block and ends with a valid image.
LEMMA CopyProgress ==
    ASSUME NEW i \in Native, NEW m \in Magic, m.kind \in {"std", "int"},
           flash \in [Slots -> Partition], idx \in Blocks, Copied(m, i),
           flash' = [flash EXCEPT ![Primary] = WriteBlock(@, idx, i, m)]
    PROVE  /\ idx < Size[i] - 1 /\ idx' = idx + 1 =>
                /\ idx' < Size[i] /\ flash'[Primary].magic = m
                /\ \A x \in Blocks : x < idx' => flash'[Primary].blk[x] = i
           /\ ~(idx < Size[i] - 1) => ValidImage(flash'[Primary]) /\ flash'[Primary].magic = m
<1> DEFINE p == flash[Primary]
           q == flash'[Primary]
<1>1. p \in Partition /\ q = WriteBlock(p, idx, i, m) /\ i \in Content
  BY SlotsFacts, Zenon DEF Content
<1>2. Size[i] \in 1..NBlocks /\ idx \in Nat /\ idx < Size[i]
  BY DEF Blocks, Copied
<1>3. q.magic = m
  <2>1. idx # 0 => p.magic = m
    BY <1>2 DEF Copied
  <2>2. q.magic = IF idx = 0 THEN m ELSE p.magic
    BY <1>1, WriteBlockFacts
  <2> QED BY <2>1, <2>2, Zenon
<1>4. \A x \in Blocks : x < idx + 1 => q.blk[x] = i
  <2>1. \A x \in Blocks : q.blk[x] = IF x = idx THEN i ELSE p.blk[x]
    BY <1>1, WriteBlockFacts
  <2>2. \A x \in Blocks : x < idx => p.blk[x] = i
    BY Zenon DEF Copied
  <2> QED BY <1>2, <2>1, <2>2 DEF Blocks
<1> HIDE DEF q
<1>5. ASSUME idx < Size[i] - 1, idx' = idx + 1
      PROVE  idx' < Size[i] /\ \A x \in Blocks : x < idx' => q.blk[x] = i
  BY <1>2, <1>4, <1>5
<1>6. ASSUME ~(idx < Size[i] - 1) PROVE ValidImage(q)
  <2>1. idx + 1 = Size[i]
    BY <1>2, <1>6
  <2>2. Crc(q) = i
    BY <1>2, <1>4, ZeroBlock DEF Crc
  <2>3. IsStd(q) \/ IsInt(q)
    BY <1>3, Zenon DEF IsStd, IsInt
  <2> QED BY <1>4, <2>1, <2>2, <2>3, Zenon DEF ValidImage, CrcMatches, ValidHeader
<1> QED BY <1>3, <1>5, <1>6, Zenon DEF q

\* One block of any of the three copies.
LEMMA CopyBlockIInv == ASSUME IInv, CopyBlock PROVE IInv'
<1>0. /\ pc \in Copying /\ Write(CopyWrite) /\ UNCHANGED <<chk, st, App>>
      /\ IF idx < CopyLast THEN idx' = idx + 1 /\ pc' = pc
         ELSE idx' = 0 /\ pc' = IF pc = "mkrec" THEN "made"
                              ELSE IF pc = "install" THEN "erase" ELSE "check"
  BY Zenon DEF CopyBlock, Goto
<1>1. UNCHANGED <<good, offered, conf, dl>>
  BY <1>0, Zenon DEF App
<1>2. flash' \in [Slots -> Partition] /\ Provenance' /\ Recoverable'
  BY <1>0, <1>1, CopyKeeps, Zenon
<1>3. pc # "app" /\ pc' # "app" /\ pc' \in PCs
  BY <1>0, Zenon DEF Copying, PCs
<1>4. Tasks'
  BY <1>1, <1>3, NoTasks, Zenon DEF Tasks, NoConf, NoDl
<1>5. idx \in Nat /\ flash \in [Slots -> Partition]
  BY DEF IInv, TypeOK, Blocks
<1>6. flash' = [flash EXCEPT ![CopyWrite.slot] =
                    WriteBlock(@, CopyWrite.b, CopyWrite.c, CopyWrite.m)]
  BY <1>0, Zenon DEF Write
<1> SUFFICES idx' \in Blocks /\ Control'
  BY <1>0, <1>1, <1>2, <1>3, <1>4, Zenon DEF IInv, TypeOK
<1>7. CASE pc = "mkrec"
  <2>1. /\ flash'[Primary] = flash[Primary] /\ flash'[st.update] = flash[st.update]
        /\ CopyLast = Size[Crc(flash[Primary])] - 1
    BY Zenon, <1>0, <1>1, <1>7, CopyKeeps, CopyWriteFacts
  <2>2. /\ {st.update, st.recovery} = Others /\ IsStd(flash[st.update])
        /\ ValidImage(flash[st.update]) /\ ValidImage(flash[Primary])
    BY Zenon, <1>7 DEF IInv, Control
  <2>3. Size[Crc(flash[Primary])] \in 1..NBlocks
    BY <1>5, <2>2, SlotsFacts, ValidFacts, Zenon
  <2>4. CASE idx < CopyLast
    <3>1. idx' = idx + 1 /\ pc' = "mkrec" /\ st' = st
      BY <1>0, <1>7, <2>4, Zenon
    <3>2. idx' \in Blocks /\ idx' < Size[Crc(flash[Primary])]
      BY <1>5, <2>1, <2>3, <2>4, <3>1, FlashAssumption DEF Blocks
    <3> QED BY Zenon, <2>1, <2>2, <3>1, <3>2 DEF Control, Copying
  <2>5. CASE ~(idx < CopyLast)
    BY Zenon, <1>0, <1>7, <2>1, <2>2, <2>5, ZeroBlock DEF Control, Copying
  <2> QED BY <2>4, <2>5, Zenon
<1>8. CASE pc = "install"
  <2> DEFINE i == Crc(flash[st.update])
             m == OrPointer(IntMagic, st.update)
  <2>1. /\ UpdateReady(flash') /\ \A s \in Others : flash'[s] = flash[s]
        /\ CopyLast = Size[i] - 1 /\ CopyWrite.slot = Primary /\ CopyWrite.b = idx
        /\ CopyWrite.c = i /\ CopyWrite.m = m
    BY Zenon, <1>0, <1>1, <1>8, CopyKeeps, CopyWriteFacts
  <2>2. /\ {st.update, st.recovery} = Others /\ st.update \in Others
        /\ IsStd(flash[st.update])
        /\ ValidImage(flash[st.update]) /\ Copied(m, i)
    BY Zenon, <1>8 DEF IInv, Control
  <2>3. i \in Native /\ Size[i] \in 1..NBlocks
    BY <1>5, <2>2, SlotsFacts, ValidFacts, Zenon
  <2>4. m = [kind |-> "int", ptr |-> st.update] /\ m \in Magic
    BY <2>2 DEF OrPointer, IntMagic, Magic, Others, Secondary, Tertiary
  <2>5. flash' = [flash EXCEPT ![Primary] = WriteBlock(@, idx, i, m)]
    BY <1>6, <2>1, Zenon
  <2>6. flash'[st.update] = flash[st.update] /\ Crc(flash'[st.update]) = i
    BY <2>1, <2>2, Zenon
  <2>7. idx \in Blocks /\ m.kind \in {"std", "int"}
    BY <2>4 DEF IInv, TypeOK
  <2>8. /\ idx < Size[i] - 1 /\ idx' = idx + 1 =>
             /\ idx' < Size[i] /\ flash'[Primary].magic = m
             /\ \A x \in Blocks : x < idx' => flash'[Primary].blk[x] = i
        /\ ~(idx < Size[i] - 1) => ValidImage(flash'[Primary]) /\ flash'[Primary].magic = m
    <3> HIDE DEF i, m
    <3> QED BY Zenon, <1>5, <2>2, <2>3, <2>4, <2>5, <2>7, CopyProgress
  <2>9. st' = st
    BY <1>0, Zenon
  <2>10. CASE idx < CopyLast
    <3>0. idx' = idx + 1 /\ pc' = "install" /\ idx < Size[i] - 1
      BY <1>0, <1>8, <2>1, <2>10, Zenon
    <3>1. idx' \in Blocks /\ pc' = "install"
      <4> HIDE DEF i
      <4> QED BY <1>5, <2>3, <3>0, FlashAssumption DEF Blocks
    <3>2. /\ idx' < Size[i] /\ flash'[Primary].magic = m
          /\ \A x \in Blocks : x < idx' => flash'[Primary].blk[x] = i
      BY <1>0, <2>1, <2>8, <2>10, Zenon
    <3>3. Copied(OrPointer(IntMagic, st.update), Crc(flash[st.update]))'
      BY <2>6, <2>9, <3>2, Zenon DEF Copied
    <3> QED BY Zenon, <3>1, <3>3, <2>1, <2>2, <2>6, <2>9 DEF Control, Copying
  <2>11. CASE ~(idx < CopyLast)
    <3>1. idx' = 0 /\ pc' = "erase"
      BY <1>0, <1>8, <2>11, Zenon
    <3>2. ValidImage(flash'[Primary]) /\ flash'[Primary].magic = m
      BY <2>1, <2>8, <2>11, Zenon
    <3>3. IsInt(flash'[Primary]) /\ flash'[Primary].magic.ptr = st.update
      BY <2>4, <3>2 DEF IsInt
    <3> QED BY Zenon, <3>1, <3>2, <3>3, <2>2, <2>9, ZeroBlock DEF Control, Copying
  <2> QED BY <2>10, <2>11, Zenon
<1>9. CASE pc = "revert"
  <2> DEFINE i == Crc(flash[st.recovery])
  <2>1. /\ RevertReady(flash') /\ ~BothInt(flash')
        /\ RecoverySlot(flash') = RecoverySlot(flash)
        /\ \A s \in Others : flash'[s] = flash[s]
        /\ CopyLast = Size[i] - 1 /\ CopyWrite.slot = Primary /\ CopyWrite.b = idx
        /\ CopyWrite.c = i /\ CopyWrite.m = StdMagic
    BY Zenon, <1>0, <1>1, <1>9, CopyKeeps, CopyWriteFacts
  <2>2. /\ st.recovery = RecoverySlot(flash) /\ st.recovery \in Others
        /\ ValidImage(flash[st.recovery]) /\ Copied(StdMagic, i)
    BY Zenon, <1>9, RoleFacts DEF IInv, Control, RevertReady, RecoveryValid
  <2>3. i \in Native /\ Size[i] \in 1..NBlocks
    BY <1>5, <2>2, SlotsFacts, ValidFacts, Zenon
  <2>4. StdMagic \in Magic /\ StdMagic.kind \in {"std", "int"}
    BY DEF StdMagic, Magic
  <2>5. flash' = [flash EXCEPT ![Primary] = WriteBlock(@, idx, i, StdMagic)]
    BY <1>6, <2>1, Zenon
  <2>6. Crc(flash'[st.recovery]) = i /\ idx \in Blocks
    BY <2>1, <2>2, Zenon DEF IInv, TypeOK
  <2>7. /\ idx < Size[i] - 1 /\ idx' = idx + 1 =>
             /\ idx' < Size[i] /\ flash'[Primary].magic = StdMagic
             /\ \A x \in Blocks : x < idx' => flash'[Primary].blk[x] = i
        /\ ~(idx < Size[i] - 1) => ValidImage(flash'[Primary])
    <3> HIDE DEF i
    <3> QED BY Zenon, <1>5, <2>2, <2>3, <2>4, <2>5, <2>6, CopyProgress
  <2>8. st' = st
    BY <1>0, Zenon
  <2>9. CASE idx < CopyLast
    <3>0. idx' = idx + 1 /\ pc' = "revert" /\ idx < Size[i] - 1
      BY <1>0, <1>9, <2>1, <2>9, Zenon
    <3>1. idx' \in Blocks /\ pc' = "revert"
      <4> HIDE DEF i
      <4> QED BY <1>5, <2>3, <3>0, FlashAssumption DEF Blocks
    <3>2. /\ idx' < Size[i] /\ flash'[Primary].magic = StdMagic
          /\ \A x \in Blocks : x < idx' => flash'[Primary].blk[x] = i
      BY <1>0, <2>1, <2>7, <2>9, Zenon
    <3>3. Copied(StdMagic, Crc(flash[st.recovery]))'
      BY <2>6, <2>8, <3>2, Zenon DEF Copied
    <3> QED BY Zenon, <3>1, <3>3, <2>1, <2>2, <2>8 DEF Control, Copying
  <2>10. CASE ~(idx < CopyLast)
    BY Zenon, <1>0, <1>9, <2>1, <2>7, <2>10, ZeroBlock DEF Control, Copying
  <2> QED BY <2>9, <2>10, Zenon
<1> QED BY <1>0, <1>7, <1>8, <1>9, Zenon DEF Copying

\* A failed copy leaves what a torn one leaves, and perform_update goes on.
LEMMA CopyFailsIInv == ASSUME IInv, CopyFails PROVE IInv'
<1>0. /\ WriteErrors /\ pc \in Copying /\ (UNCHANGED flash \/ Tear(CopyWrite))
      /\ idx' = 0 /\ UNCHANGED <<chk, st, App>>
      /\ pc' = IF pc = "mkrec" THEN "made" ELSE "check"
  BY Zenon DEF CopyFails, Goto
<1>1. UNCHANGED <<good, offered, conf, dl>>
  BY <1>0, Zenon DEF App
<1>2. flash' \in [Slots -> Partition] /\ Provenance' /\ Recoverable'
  BY <1>0, <1>1, CopyKeeps, FlashSame, Zenon
<1>3. pc # "app" /\ pc' # "app" /\ pc' \in PCs
  BY <1>0, Zenon DEF Copying, PCs
<1>4. Tasks'
  BY <1>1, <1>3, NoTasks, Zenon DEF Tasks, NoConf, NoDl
<1>5. TypeOK'
  BY <1>0, <1>1, <1>2, <1>3, ZeroBlock, Zenon DEF IInv, TypeOK
<1>6. CASE pc = "mkrec"
  <2>1. flash'[Primary] = flash[Primary] /\ flash'[st.update] = flash[st.update]
    BY <1>0, <1>1, <1>6, CopyKeeps, Zenon
  <2>2. /\ {st.update, st.recovery} = Others /\ IsStd(flash[st.update])
        /\ ValidImage(flash[st.update]) /\ ValidImage(flash[Primary])
    BY Zenon, <1>6 DEF IInv, Control
  <2>3. Control'
    BY Zenon, <1>0, <1>6, <2>1, <2>2 DEF Control, Copying
  <2> QED BY <1>2, <1>4, <1>5, <2>3, Zenon DEF IInv
<1>7. CASE pc # "mkrec"
  <2>1. Control'
    BY <1>0, <1>7, Zenon DEF Control, Copying
  <2> QED BY <1>2, <1>4, <1>5, <2>1, Zenon DEF IInv
<1> QED BY <1>6, <1>7, Zenon

\* The erase of the first sector of the update partition, failing or not.
LEMMA EraseUpdateIInv == ASSUME IInv, EraseUpdate PROVE IInv'
<1>0. /\ pc = "erase" /\ pc' = "check" /\ UNCHANGED <<chk, st, idx, App>>
      /\ \/ flash' = [flash EXCEPT ![st.update] = EraseFirstSector(@)]
         \/ UNCHANGED flash \/ TearErase(st.update)
  BY Zenon DEF EraseUpdate, Goto
<1>1. UNCHANGED <<good, offered, conf, dl>>
  BY <1>0, Zenon DEF App
<1>2. /\ flash' \in [Slots -> Partition] /\ Provenance' /\ Recoverable'
      /\ flash'[Primary] = flash[Primary]
  <2>1. CASE UNCHANGED flash
    BY <1>1, <2>1, FlashSame, Zenon
  <2>2. CASE flash' = [flash EXCEPT ![st.update] = EraseFirstSector(@)]
    BY Zenon, <1>0, <1>1, <2>2, EraseKeeps DEF EraseFirstSector
  <2>3. CASE TearErase(st.update)
    BY Zenon, <1>0, <1>1, <2>3, EraseKeeps DEF TearErase
  <2> QED BY <1>0, <2>1, <2>2, <2>3, Zenon
<1>3. TypeOK'
  BY <1>0, <1>1, <1>2, Zenon DEF IInv, TypeOK, PCs
<1>4. Tasks'
  BY <1>0, <1>1, NoTasks, Zenon DEF Tasks, NoConf, NoDl
<1>5. Control'
  BY Zenon, <1>0, <1>2 DEF IInv, Control, Copying
<1> QED BY <1>2, <1>3, <1>4, <1>5, Zenon DEF IInv

\* The application leaves the bootloader's variables and the primary alone.
LEMMA AppControl ==
    ASSUME IInv, Running, UNCHANGED <<pc, st, idx>>, flash'[Primary] = flash[Primary]
    PROVE  Control'
BY Zenon DEF IInv, Control, Running, Copying

\* The start of nxboot_confirm.
LEMMA ConfirmIInv == ASSUME IInv, Confirm PROVE IInv'
<1>0. /\ Running /\ conf = NoConf /\ good' = good \cup {Crc(flash[Primary])}
      /\ conf' = IF PrimaryConfirmed(flash) THEN NoConf
                 ELSE [slot |-> UpdateSlot(flash), idx |-> 0]
      /\ UNCHANGED <<flash, pc, chk, st, idx, dl, offered>>
  BY Zenon DEF Confirm
<1>1. ValidImage(flash[Primary]) /\ flash[Primary] \in Partition
  BY <1>0, SlotsFacts, Zenon DEF Running, IInv, TypeOK
<1>2. Crc(flash[Primary]) \in Images /\ (IsStd(flash[Primary]) \/ IsInt(flash[Primary]))
  BY <1>1, ValidFacts, Zenon
<1>3. ~PrimaryConfirmed(flash) => IsInt(flash[Primary])
  BY <1>2, Zenon DEF PrimaryConfirmed
<1>4. TypeOK'
  BY <1>0, <1>2, RoleFacts, SlotsFacts, ZeroBlock, Zenon DEF IInv, TypeOK
<1>5. Provenance'
  BY Zenon, <1>0 DEF IInv, Provenance
<1>6. Recoverable'
  BY <1>0, Zenon DEF IInv, Recoverable
<1>7. Tasks'
  <2>1. conf' # NoConf => /\ IsInt(flash[Primary]) /\ conf'.slot \in Others
                          /\ conf'.idx < EBlocks
    BY <1>0, <1>3, RoleFacts
  <2> QED BY <1>0, <2>1, Zenon DEF IInv, Tasks, Running
<1>8. Control'
  BY <1>0, AppControl, Zenon
<1> QED BY <1>4, <1>5, <1>6, <1>7, <1>8, Zenon DEF IInv

\* A block written by nxboot_confirm, or its failure.
LEMMA ConfirmStepIInv == ASSUME IInv, ConfirmBlock \/ ConfirmFails PROVE IInv'
<1>0. /\ Running /\ conf # NoConf /\ UNCHANGED <<pc, chk, st, idx, dl, good, offered>>
      /\ Write(ConfirmWrite) \/ UNCHANGED flash \/ Tear(ConfirmWrite)
      /\ \/ conf' = NoConf
         \/ conf.idx < EBlocks - 1 /\ conf' = [conf EXCEPT !.idx = @ + 1]
  BY Zenon DEF ConfirmBlock, ConfirmFails
<1>1. /\ flash' \in [Slots -> Partition] /\ Provenance' /\ Recoverable'
      /\ flash'[Primary] = flash[Primary]
  BY <1>0, TaskKeeps, FlashSame, Zenon
<1>2. conf \in [slot : Slots, idx : Blocks]
  BY Zenon DEF IInv, TypeOK
<1>3. /\ conf' = NoConf \/ (conf'.slot = conf.slot /\ conf'.idx < EBlocks)
      /\ conf' \in [slot : Slots, idx : Blocks]
  BY <1>0, <1>2, ZeroBlock DEF NoConf, Slots, Primary, Blocks
<1>4. TypeOK'
  BY <1>0, <1>1, <1>3, ZeroBlock, Zenon DEF IInv, TypeOK, NoConf, Slots, Primary
<1>5. Tasks'
  BY <1>0, <1>1, <1>3, Zenon DEF IInv, Tasks, Running
<1>6. Control'
  BY <1>0, <1>1, AppControl, Zenon
<1> QED BY <1>1, <1>4, <1>5, <1>6, Zenon DEF IInv

\* The application opens the update partition for an image.
LEMMA DownloadIInv == ASSUME IInv, NEW i \in Images, Download(i) PROVE IInv'
<1>0. /\ Running /\ dl' = [slot |-> UpdateSlot(flash), img |-> i, idx |-> 0]
      /\ offered' = offered \cup {i}
      /\ UNCHANGED <<flash, pc, chk, st, idx, conf, good>>
  BY Zenon DEF Download
<1>1. TypeOK'
  BY <1>0, RoleFacts, SlotsFacts, ZeroBlock, Zenon DEF IInv, TypeOK, Content
<1>2. Provenance'
  BY Zenon, <1>0 DEF IInv, Provenance
<1>3. Recoverable'
  BY <1>0, Zenon DEF IInv, Recoverable
<1>4. Tasks'
  <2>1. dl'.slot \in Others /\ dl'.img \in offered' /\ dl'.idx < Size[dl'.img]
    BY <1>0, RoleFacts
  <2> QED BY <1>0, <2>1, Zenon DEF IInv, Tasks, Running
<1>5. Control'
  BY <1>0, AppControl, Zenon
<1> QED BY <1>1, <1>2, <1>3, <1>4, <1>5, Zenon DEF IInv

\* A block of a download, or the end of an abandoned one.
LEMMA DownloadStepIInv == ASSUME IInv, DownloadBlock \/ DownloadAbort PROVE IInv'
<1>0. /\ Running /\ dl # NoDl /\ UNCHANGED <<pc, chk, st, idx, conf, good, offered>>
      /\ Write(DownloadWrite) \/ UNCHANGED flash
      /\ \/ dl' = NoDl
         \/ dl.idx < Size[dl.img] - 1 /\ dl' = [dl EXCEPT !.idx = @ + 1]
  BY Zenon DEF DownloadBlock, DownloadAbort
<1>1. /\ flash' \in [Slots -> Partition] /\ Provenance' /\ Recoverable'
      /\ flash'[Primary] = flash[Primary]
  BY <1>0, TaskKeeps, FlashSame, Zenon
<1>2. /\ dl \in [slot : Slots, img : Content, idx : Blocks]
      /\ dl.img \in offered /\ offered \subseteq Images
  BY <1>0, Zenon DEF IInv, TypeOK, Tasks
<1>3. /\ \/ dl' = NoDl
         \/ dl'.slot = dl.slot /\ dl'.img = dl.img /\ dl'.idx < Size[dl.img]
      /\ dl' \in [slot : Slots, img : Content, idx : Blocks]
  <2>1. Size[dl.img] \in 1..NBlocks
    BY <1>2, Zenon
  <2>2. CASE dl' = NoDl
    BY <2>2, ZeroBlock, Zenon DEF NoDl, Slots, Primary, Content
  <2>3. CASE dl.idx < Size[dl.img] - 1 /\ dl' = [dl EXCEPT !.idx = @ + 1]
    BY <1>2, <2>1, <2>3 DEF Blocks
  <2> QED BY <1>0, <2>2, <2>3, Zenon
<1>4. TypeOK'
  BY <1>0, <1>1, <1>3, Zenon DEF IInv, TypeOK
<1>5. Tasks'
  BY <1>0, <1>1, <1>3, Zenon DEF IInv, Tasks, Running
<1>6. Control'
  BY <1>0, <1>1, AppControl, Zenon
<1> QED BY <1>1, <1>4, <1>5, <1>6, Zenon DEF IInv

\* A reset forgets everything but the flash, which a torn write may spoil.
LEMMA ResetIInv == ASSUME IInv, Reset PROVE IInv'
<1>0. /\ pc' = "start" /\ idx' = 0 /\ conf' = NoConf /\ dl' = NoDl /\ st' = NoState
      /\ UNCHANGED <<good, offered>> /\ chk' \in {FALSE, SwResetOnly}
      /\ \/ UNCHANGED flash
         \/ pc \in Copying /\ Tear(CopyWrite)
         \/ pc = "erase" /\ TearErase(st.update)
         \/ conf # NoConf /\ Tear(ConfirmWrite)
         \/ dl # NoDl /\ Tear(DownloadWrite)
  BY Zenon DEF Reset, Goto
<1>1. flash' \in [Slots -> Partition] /\ Provenance' /\ Recoverable'
  <2>1. CASE UNCHANGED flash
    BY <1>0, <2>1, FlashSame, Zenon
  <2>2. CASE pc \in Copying /\ Tear(CopyWrite)
    BY <1>0, <2>2, CopyKeeps, Zenon
  <2>3. CASE pc = "erase" /\ TearErase(st.update)
    BY Zenon, <1>0, <2>3, EraseKeeps DEF TearErase
  <2>4. CASE conf # NoConf /\ Tear(ConfirmWrite)
    BY <1>0, <2>4, TaskKeeps, Zenon
  <2>5. CASE dl # NoDl /\ Tear(DownloadWrite)
    BY <1>0, <2>5, TaskKeeps, Zenon
  <2> QED BY <1>0, <2>1, <2>2, <2>3, <2>4, <2>5, Zenon
<1>2. TypeOK'
  BY Zenon, <1>0, <1>1, NoStateType, ZeroBlock
     DEF IInv, TypeOK, PCs, NoConf, NoDl, Slots, Primary, Content
<1>3. Tasks'
  BY Zenon, <1>0 DEF Tasks
<1>4. Control'
  BY Zenon, <1>0 DEF Control, Copying
<1> QED BY <1>1, <1>2, <1>3, <1>4, Zenon DEF IInv

\* Every step keeps the inductive invariant.
LEMMA NextIInv == IInv /\ [Next]_vars => IInv'
<1> SUFFICES ASSUME IInv, [Next]_vars PROVE IInv'
  BY Zenon
<1>1. CASE Bootloader
  BY <1>1, ReadStateIInv, StartRevertIInv, SkipUpdateIInv, StartUpdateIInv,
     RecoveryMadeIInv, StartInstallIInv, CopyBlockIInv, CopyFailsIInv,
     EraseUpdateIInv, BootPrimaryIInv, Zenon DEF Bootloader
<1>2. CASE Application
  BY <1>2, ConfirmIInv, ConfirmStepIInv, DownloadIInv, DownloadStepIInv, Zenon
     DEF Application
<1>3. CASE Reset
  BY <1>3, ResetIInv, Zenon
<1>4. CASE UNCHANGED vars
  <2>0. UNCHANGED <<flash, pc, chk, st, idx, conf, dl, good, offered>>
    BY <1>4, Zenon DEF vars
  <2>1. TypeOK'
    BY <2>0, Zenon DEF IInv, TypeOK
  <2>2. Provenance' /\ Recoverable'
    BY <2>0, FlashSame, Zenon
  <2>3. Tasks'
    BY <2>0, Zenon DEF IInv, Tasks, Running
  <2>4. Control'
    BY Zenon, <2>0 DEF IInv, Control, Copied
  <2> QED BY <2>1, <2>2, <2>3, <2>4, Zenon DEF IInv
<1> QED BY <1>1, <1>2, <1>3, <1>4, Zenon DEF Next

-----------------------------------------------------------------------------
(***************************************************************************)
(* The theorems.                                                           *)
(***************************************************************************)

\* The inductive invariant holds throughout, whether or not flash writes may
\* report errors.
THEOREM Invariance == Spec => []IInv
BY InitIInv, NextIInv, PTL DEF Spec

\* Every variable keeps its type; in particular no copy, confirmation or
\* download runs past the end of a partition.
THEOREM TypeCorrect == Spec => []TypeOK
<1>1. IInv => TypeOK
  BY Zenon DEF IInv
<1> QED BY <1>1, Invariance, PTL

\* Whatever the interleaving of copies, confirmations, downloads, resets, torn
\* and failing writes, some complete image can be brought into the primary.
THEOREM AlwaysRecoverable == Spec => []Recoverable
<1>1. IInv => Recoverable
  BY Zenon DEF IInv
<1> QED BY <1>1, Invariance, PTL

\* Without flash errors nxboot_perform_update always ends with a complete
\* image in the primary, although it checks only the header.
THEOREM BootsValidImage ==
    ASSUME ~WriteErrors
    PROVE  Spec => []EndsWithValidImage
<1>1. IInv => EndsWithValidImage
  BY Zenon DEF IInv, Control, EndsWithValidImage
<1> QED BY <1>1, Invariance, PTL

\* The bootloader reverts only to images that were confirmed.
THEOREM TrustedRevert == Spec => []RevertIsTrusted
<1>1. IInv => RevertIsTrusted
  <2> SUFFICES ASSUME IInv, NextBoot(flash) = "revert"
               PROVE  Crc(flash[RecoverySlot(flash)]) \in good
    BY Zenon DEF RevertIsTrusted
  <2>1. IsInt(flash[RecoverySlot(flash)])
    BY Zenon DEF NextBoot, RevertWanted
  <2> QED BY <2>1, RoleFacts, Zenon DEF IInv, Provenance
<1> QED BY <1>1, Invariance, PTL

\* nxboot_get_confirm and nxboot_get_state agree.
THEOREM ConfirmAgreement == Spec => []ConfirmAgree
<1>1. IInv => ConfirmAgree
  <2> SUFFICES ASSUME IInv PROVE GetConfirm(flash) = PrimaryConfirmed(flash)
    BY Zenon DEF ConfirmAgree
  <2>1. IsInt(flash[Primary]) => flash[Primary].magic.ptr \in Others
    BY Zenon DEF IInv, Provenance
  <2> QED BY SMTT(30), <2>1 DEF GetConfirm, PrimaryConfirmed, Others, Secondary, Tertiary
<1> QED BY <1>1, Invariance, PTL

-----------------------------------------------------------------------------
(***************************************************************************)
(* The refinement.                                                         *)
(***************************************************************************)

\* The current image is one of this platform that was offered or confirmed.
CurrentTrusted == Current \in (offered \cup good) \cap Native

\* In a reachable state the current image is trusted.
LEMMA CurrentFacts == IInv => CurrentTrusted
<1> SUFFICES ASSUME IInv PROVE Current \in (offered \cup good) \cap Native
  BY Zenon DEF CurrentTrusted
<1>1. flash \in [Slots -> Partition]
  BY Zenon DEF IInv, TypeOK
<1>2. CASE ValidImage(flash[Primary])
  BY Zenon, <1>1, <1>2, SlotsFacts, ValidFacts DEF Current, IInv, Provenance
<1>3. CASE ~ValidImage(flash[Primary]) /\ UpdateWanted(flash)
  <2>1. IsStd(flash[UpdateSlot(flash)]) /\ ValidImage(flash[UpdateSlot(flash)])
    BY <1>3, Zenon DEF UpdateWanted
  <2> QED BY Zenon, <1>1, <1>3, <2>1, RoleFacts, SlotsFacts, ValidFacts
          DEF Current, IInv, Provenance
<1>4. CASE ~ValidImage(flash[Primary]) /\ ~UpdateWanted(flash)
  <2>1. RevertWanted(flash)
    BY <1>4, Zenon DEF IInv, Recoverable, NextBoot
  <2>2. IsInt(flash[RecoverySlot(flash)]) /\ ValidImage(flash[RecoverySlot(flash)])
    BY <2>1, Zenon DEF RevertWanted, RecoveryValid
  <2> QED BY Zenon, <1>1, <1>4, <2>2, RoleFacts, SlotsFacts, ValidFacts
          DEF Current, IInv, Provenance
<1> QED BY <1>2, <1>3, <1>4, Zenon

\* As long as the application runs, no step of it, complete or torn, changes
\* the current image.
LEMMA CurrentKept ==
    ASSUME IInv, ValidImage(flash[Primary]), flash'[Primary] = flash[Primary]
    PROVE  Current' = Current
BY Zenon DEF Current

\* The current image depends on the flash only.
LEMMA CurrentSame == ASSUME UNCHANGED flash PROVE Current' = Current
BY Zenon DEF Current

\* Every step of the bootloader, the application or a reset maps to a step of
\* the abstract specification or changes nothing of it.
LEMMA StepRefines ==
    IInv /\ CurrentTrusted' /\ [Next]_vars => [Abs!AbsNext]_(Abs!AbsVars)
<1> SUFFICES ASSUME IInv, CurrentTrusted', [Next]_vars
             PROVE  [Abs!AbsNext]_(Abs!AbsVars)
  BY Zenon
<1> USE DEF Abs!AbsNext, Abs!AbsVars
<1>1. Current' \in (offered' \cup good') \cap Native
  BY Zenon DEF CurrentTrusted
<1>2. ASSUME pc # "app", UNCHANGED <<good, offered>>, pc' # "app"
      PROVE  [Abs!AbsNext]_(Abs!AbsVars)
  BY <1>1, <1>2, Zenon DEF Abs!Install, Abs!Revert
<1>3. CASE Bootloader
  <2>1. pc # "app" /\ UNCHANGED <<good, offered>>
    BY Zenon, <1>3 DEF Bootloader, ReadState, StartRevert, SkipUpdate, StartUpdate, RecoveryMade,
       StartInstall, CopyBlock, CopyFails, EraseUpdate, BootPrimary, App, Copying
  <2>2. CASE BootPrimary
    <3>1. UNCHANGED flash
      BY <2>2, Zenon DEF BootPrimary
    <3> QED BY <2>1, <3>1, CurrentSame, Zenon DEF Abs!Start
  <2>3. CASE ~BootPrimary
    <3>1. pc' # "app"
      BY Zenon, <1>3, <2>3 DEF Bootloader, ReadState, StartRevert, SkipUpdate, StartUpdate,
         RecoveryMade, StartInstall, CopyBlock, CopyFails, EraseUpdate, Copying, Goto
    <3> QED BY <1>2, <2>1, <3>1, Zenon
  <2> QED BY <2>2, <2>3, Zenon
<1>4. CASE Application
  <2>1. CASE Confirm
    <3>1. /\ pc = "app" /\ ValidImage(flash[Primary])
          /\ good' = good \cup {Crc(flash[Primary])} /\ UNCHANGED <<flash, pc, offered>>
      BY <2>1, Zenon DEF Confirm, Running
    <3>2. Current = Crc(flash[Primary]) /\ Current' = Current
      BY <3>1, CurrentSame, Zenon DEF Current
    <3> QED BY <3>1, <3>2, Zenon DEF Abs!Approve
  <2>2. CASE ConfirmBlock \/ ConfirmFails \/ DownloadBlock \/ DownloadAbort
    <3>1. /\ pc = "app" /\ ValidImage(flash[Primary]) /\ UNCHANGED <<pc, good, offered>>
          /\ \/ UNCHANGED flash
             \/ conf # NoConf /\ (Write(ConfirmWrite) \/ Tear(ConfirmWrite))
             \/ dl # NoDl /\ (Write(DownloadWrite) \/ Tear(DownloadWrite))
      BY <2>2, Zenon DEF ConfirmBlock, ConfirmFails, DownloadBlock, DownloadAbort, Running
    <3>2. flash'[Primary] = flash[Primary]
      BY <3>1, TaskKeeps, Zenon
    <3> QED BY <3>1, <3>2, CurrentKept, Zenon
  <2>3. ASSUME NEW i \in Images, Download(i) PROVE [Abs!AbsNext]_(Abs!AbsVars)
    <3>1. pc = "app" /\ offered' = offered \cup {i} /\ UNCHANGED <<flash, pc, good>>
      BY <2>3, Zenon DEF Download, Running
    <3> QED BY <3>1, CurrentSame, Zenon DEF Abs!Offer
  <2> QED BY <1>4, <2>1, <2>2, <2>3, Zenon DEF Application
<1>5. CASE Reset
  <2>1. pc' # "app" /\ UNCHANGED <<good, offered>>
    BY <1>5, Zenon DEF Reset, Goto
  <2>2. CASE pc # "app"
    BY <1>2, <2>1, <2>2, Zenon
  <2>3. CASE pc = "app"
    <3>1. \/ UNCHANGED flash
          \/ Running /\ conf # NoConf /\ Tear(ConfirmWrite)
          \/ Running /\ dl # NoDl /\ Tear(DownloadWrite)
      BY <1>5, <2>3, Zenon DEF Reset, Copying
    <3>2. Current' = Current
      <4>1. CASE UNCHANGED flash
        BY <4>1, CurrentSame, Zenon
      <4>2. CASE Running /\ conf # NoConf /\ Tear(ConfirmWrite)
        BY <2>1, <4>2, TaskKeeps, CurrentKept, Zenon DEF Running
      <4>3. CASE Running /\ dl # NoDl /\ Tear(DownloadWrite)
        BY <2>1, <4>3, TaskKeeps, CurrentKept, Zenon DEF Running
      <4> QED BY <3>1, <4>1, <4>2, <4>3, Zenon
    <3> QED BY <2>1, <2>3, <3>2, Zenon DEF Abs!Stop
  <2> QED BY <2>2, <2>3, Zenon
<1>6. CASE UNCHANGED vars
  <2>1. UNCHANGED <<flash, pc, good, offered>>
    BY <1>6, Zenon DEF vars
  <2> QED BY <2>1, CurrentSame, Zenon
<1> QED BY <1>3, <1>4, <1>5, <1>6, Zenon DEF Next

\* The initial states map to initial states of the abstract specification.
LEMMA InitRefines == Init => Abs!AbsInit
<1> SUFFICES ASSUME Init PROVE Abs!AbsInit
  BY Zenon
<1>1. PICK i \in Native :
        /\ flash = [s \in Slots |-> IF s = Primary THEN Programmed(i) ELSE BlankPartition]
        /\ good = {i} /\ pc = "start" /\ offered = {}
  BY Zenon DEF Init
<1>2. flash[Primary] = Programmed(i)
  BY <1>1, SlotsFacts, Zenon
<1>3. IsStd(Programmed(i)) /\ Crc(Programmed(i)) = i
  BY ZeroBlock DEF Programmed, IsStd, Crc, StdMagic
<1>4. ValidImage(Programmed(i))
  BY Zenon, <1>3, ZeroBlock DEF ValidImage, CrcMatches, ValidHeader, Programmed
<1>5. Current = i
  BY <1>2, <1>3, <1>4, Zenon DEF Current
<1> QED BY <1>1, <1>5, Zenon DEF Abs!AbsInit

\* The bootloader with its block-by-block copies, resets, torn and failing
\* writes implements the atomic switching of images.
THEOREM Refinement == Spec => AtomicSwitch
<1>1. Spec => [][Abs!AbsNext]_(Abs!AbsVars)
  BY Invariance, CurrentFacts, StepRefines, PTL DEF Spec
<1> QED BY <1>1, InitRefines, PTL DEF Spec, AtomicSwitch, Abs!AbsSpec
=============================================================================
