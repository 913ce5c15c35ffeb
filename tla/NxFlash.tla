------------------------------- MODULE NxFlash -------------------------------
(***************************************************************************)
(* The three flash partitions of the NuttX bootloader (boot/nxboot) and    *)
(* the operations of boot/nxboot/loader/flash.c on them.                   *)
(*                                                                         *)
(* A partition is a header magic and a function from block numbers to the  *)
(* image the block belongs to.  Block 0 holds the image header, and the    *)
(* CRC field of that header identifies an image: two headers have the same *)
(* CRC field iff block 0 comes from the same image (or is erased in both). *)
(* The magic word is kept apart from block 0 because the bootloader        *)
(* rewrites it and because it is not covered by the CRC.                   *)
(***************************************************************************)
EXTENDS Integers

CONSTANTS
    Images,     \* the firmware images, as produced by tools/nximage.py
    Erased,     \* the content of a block that holds no image data
    NBlocks,    \* blocks (write pages) of a partition
    EBlocks,    \* blocks of an erase sector
    Size,       \* Size[i]: blocks of image i, header included
    Native      \* images whose platform identifier is the bootloader's

ASSUME FlashAssumption ==
    /\ NBlocks \in Nat \ {0}
    /\ EBlocks \in 1..NBlocks
    /\ Erased \notin Images
    /\ Size \in [Images -> 1..NBlocks]
    /\ Native \subseteq Images

-----------------------------------------------------------------------------
Primary   == 0      \* NXBOOT_PRIMARY_SLOT_NUM
Secondary == 1      \* NXBOOT_SECONDARY_SLOT_NUM
Tertiary  == 2      \* NXBOOT_TERTIARY_SLOT_NUM
Slots     == {Primary, Secondary, Tertiary}

Blocks  == 0..(NBlocks - 1)
Content == Images \cup {Erased}

(***************************************************************************)
(* The magic word: "std" is NXBOOT_HEADER_MAGIC, "int" is                  *)
(* NXBOOT_HEADER_MAGIC_INT with its two pointer bits, "bad" is any other   *)
(* value, erased flash included.                                           *)
(***************************************************************************)
Magic    == [kind : {"std", "int", "bad"}, ptr : 0..3]
StdMagic == [kind |-> "std", ptr |-> 0]
IntMagic == [kind |-> "int", ptr |-> 0]
BadMagic == [kind |-> "bad", ptr |-> 0]

\* magic |= n, with no pointer bit set yet.  The low byte of the standard
\* magic is 0x4e: or-ing 1 spoils it, or-ing 2 changes nothing.
OrPointer(m, n) ==
    IF m.kind = "int" THEN [kind |-> "int", ptr |-> n]
    ELSE IF n = 1 THEN BadMagic ELSE m

Partition      == [magic : Magic, blk : [Blocks -> Content]]
BlankPartition == [magic |-> BadMagic, blk |-> [b \in Blocks |-> Erased]]

\* The partition an image file is programmed into from its first block on.
Programmed(i) ==
    [magic |-> StdMagic,
     blk   |-> [b \in Blocks |-> IF b < Size[i] THEN i ELSE Erased]]

-----------------------------------------------------------------------------
(***************************************************************************)
(* flash_partition_write of one block: content c, and for block 0 the      *)
(* magic m the block starts with.                                          *)
(***************************************************************************)
WriteBlock(p, b, c, m) ==
    [magic |-> IF b = 0 THEN m ELSE p.magic, blk |-> [p.blk EXCEPT ![b] = c]]

\* The blocks of the erase sector that block b lies in.
SectorOf(b) == {x \in Blocks : x \div EBlocks = b \div EBlocks}

(***************************************************************************)
(* The code overwrites blocks without erasing them, so the driver below it *)
(* reads the erase sector, erases it and programs it again.  When power    *)
(* fails in between, or while a sector is being erased, any of the blocks  *)
(* of that sector may be lost, whichever of them was being written.        *)
(***************************************************************************)
Lose(p, lost) ==
    [magic |-> IF 0 \in lost THEN BadMagic ELSE p.magic,
     blk   |-> [x \in Blocks |-> IF x \in lost THEN Erased ELSE p.blk[x]]]

\* flash_partition_erase_first_sector
EraseFirstSector(p) == Lose(p, SectorOf(0))
=============================================================================
