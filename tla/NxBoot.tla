------------------------------- MODULE NxBoot --------------------------------
(***************************************************************************)
(* The NuttX bootloader: boot/nxboot/nxboot_main.c and the operations of   *)
(* boot/nxboot/loader/boot.c that change the flash, together with the      *)
(* application that runs between two boots.  The bootloader copies images  *)
(* block by block; the board may be reset, and a block write torn, at any  *)
(* moment.  The application confirms the running image and downloads new   *)
(* images into the update partition, in two tasks that may interleave.     *)
(***************************************************************************)
EXTENDS NxBootState

CONSTANTS
    SwResetOnly,    \* CONFIG_NXBOOT_SWRESET_ONLY
    WriteErrors     \* whether a flash write or erase may report failure

ASSUME BootAssumption ==
    /\ SwResetOnly \in BOOLEAN
    /\ WriteErrors \in BOOLEAN

VARIABLES
    flash,      \* contents of the three partitions
    pc,         \* where the bootloader is; "app" while the application runs
    chk,        \* check_only argument of nxboot_perform_update
    st,         \* struct nxboot_state read at the start of the boot
    idx,        \* block copy_partition writes next
    conf,       \* nxboot_confirm in progress: target slot (0: none), block
    dl,         \* download in progress: target slot (0: none), image, block
    good,       \* images the application has asked to confirm (history)
    offered     \* images the application has begun to download (history)

vars == <<flash, pc, chk, st, idx, conf, dl, good, offered>>

\* The locals of a function that is not running.
NoState == [update |-> Secondary, recovery |-> Tertiary,
            recovery_valid |-> FALSE, recovery_present |-> FALSE,
            primary_confirmed |-> FALSE, next_boot |-> "none"]
NoConf == [slot |-> 0, idx |-> 0]
NoDl   == [slot |-> 0, img |-> Erased, idx |-> 0]

Copying == {"mkrec", "install", "revert"}
PCs     == Copying \cup {"start", "perform", "made", "choose", "erase",
                         "check", "app", "halt"}

TypeOK ==
    /\ flash \in [Slots -> Partition]
    /\ pc \in PCs
    /\ chk \in BOOLEAN
    /\ st \in State
    /\ idx \in Blocks
    /\ conf \in [slot : Slots, idx : Blocks]
    /\ dl \in [slot : Slots, img : Content, idx : Blocks]
    /\ good \subseteq Images
    /\ offered \subseteq Images

\* A board leaves the factory with an image in the primary partition.
Init ==
    \E i \in Native :
        /\ flash = [s \in Slots |-> IF s = Primary THEN Programmed(i)
                                                   ELSE BlankPartition]
        /\ pc = "start"
        /\ chk = FALSE
        /\ st = NoState
        /\ idx = 0
        /\ conf = NoConf
        /\ dl = NoDl
        /\ good = {i}
        /\ offered = {}

App == <<conf, dl, good, offered>>
Goto(l) == pc' = l

-----------------------------------------------------------------------------
(***************************************************************************)
(* The bootloader.                                                         *)
(***************************************************************************)

\* nxboot_perform_update: read the state, and go on only if it asks for it.
ReadState ==
    /\ pc = "start"
    /\ st' = GetState(flash)
    /\ Goto(IF st'.next_boot = "none" THEN "check" ELSE "perform")
    /\ UNCHANGED <<flash, chk, idx, App>>

\* Faulty variant: check_only forbids a revert even of a broken primary.
RevertNowNever == st.next_boot = "revert" /\ ~chk

RevertNow == st.next_boot = "revert"
             /\ (~chk \/ ~ValidImage(flash[Primary]))

RecoveryNeeded ==
    /\ ~st.recovery_present \/ ~st.recovery_valid
    /\ st.primary_confirmed /\ ValidImage(flash[Primary])

StartRevert ==
    /\ pc = "perform" /\ RevertNow
    /\ Goto(IF st.recovery_valid THEN "revert" ELSE "check")
    /\ UNCHANGED <<flash, chk, st, idx, App>>

\* check_only: a valid primary image is left alone.
SkipUpdate ==
    /\ pc = "perform" /\ ~RevertNow
    /\ ValidImage(flash[Primary]) /\ chk
    /\ Goto("check")
    /\ UNCHANGED <<flash, chk, st, idx, App>>

StartUpdate ==
    /\ pc = "perform" /\ ~RevertNow
    /\ ~(ValidImage(flash[Primary]) /\ chk)
    /\ Goto(IF RecoveryNeeded THEN "mkrec" ELSE "choose")
    /\ UNCHANGED <<flash, chk, st, idx, App>>

\* A new recovery that is not valid stops the update.
RecoveryMade ==
    /\ pc = "made"
    /\ Goto(IF ValidImage(flash[st.recovery]) THEN "choose" ELSE "check")
    /\ UNCHANGED <<flash, chk, st, idx, App>>

StartInstall ==
    /\ pc = "choose"
    /\ Goto(IF ValidImage(flash[st.update]) THEN "install" ELSE "check")
    /\ UNCHANGED <<flash, chk, st, idx, App>>

\* The arguments of the copy_partition call that pc stands for.
CopyFrom  == IF pc = "mkrec" THEN Primary
             ELSE IF pc = "install" THEN st.update ELSE st.recovery
CopyWhere == IF pc = "mkrec" THEN st.recovery ELSE Primary

\* The magic is flipped; an update adds the number of the update slot.
CopyMagic ==
    LET m == IF IsInt(flash[CopyFrom]) THEN StdMagic ELSE IntMagic
    IN  IF pc = "install" THEN OrPointer(m, st.update) ELSE m

CopyLast == Size[Crc(flash[CopyFrom])] - 1

CopyWrite == [slot |-> CopyWhere, b |-> idx,
              c |-> flash[CopyFrom].blk[idx], m |-> CopyMagic]

\* flash_partition_write of one block, w = [slot, b, c, m].
Write(w) == flash' = [flash EXCEPT ![w.slot] = WriteBlock(@, w.b, w.c, w.m)]

\* The same write cut short: the block is written or not, and any blocks of the
\* erase sector are lost.
Tear(w) == \E lost \in SUBSET SectorOf(w.b) :
    \/ flash' = [flash EXCEPT ![w.slot] = Lose(WriteBlock(@, w.b, w.c, w.m), lost)]
    \/ flash' = [flash EXCEPT ![w.slot] = Lose(@, lost)]

\* The erase of a first sector cut short.
TearErase(s) == \E lost \in SUBSET SectorOf(0) :
    flash' = [flash EXCEPT ![s] = Lose(@, lost)]

\* Faulty variant: the offset is not advanced.
CopyBlockStuck ==
    /\ pc \in Copying
    /\ Write(CopyWrite)
    /\ UNCHANGED <<pc, idx, chk, st, App>>

CopyBlock ==
    /\ pc \in Copying
    /\ Write(CopyWrite)
    /\ IF idx < CopyLast
       THEN idx' = idx + 1 /\ UNCHANGED pc
       ELSE /\ idx' = 0
            /\ Goto(IF pc = "mkrec" THEN "made"
                    ELSE IF pc = "install" THEN "erase" ELSE "check")
    /\ UNCHANGED <<chk, st, App>>

\* copy_partition returns ERROR: a revert ignores it, recovery creation
\* relies on the validation that follows, an update skips the erase.
CopyFails ==
    /\ WriteErrors
    /\ pc \in Copying
    /\ UNCHANGED flash \/ Tear(CopyWrite)
    /\ idx' = 0
    /\ Goto(IF pc = "mkrec" THEN "made" ELSE "check")
    /\ UNCHANGED <<chk, st, App>>

\* Faulty variant: the update partition is not marked as used.
EraseUpdateSkipped ==
    /\ pc = "erase"
    /\ Goto("check")
    /\ UNCHANGED <<flash, chk, st, idx, App>>

\* Mark the update partition as used; the result is ignored.
EraseUpdate ==
    /\ pc = "erase"
    /\ \/ flash' = [flash EXCEPT ![st.update] = EraseFirstSector(@)]
       \/ WriteErrors /\ (UNCHANGED flash \/ TearErase(st.update))
    /\ Goto("check")
    /\ UNCHANGED <<chk, st, idx, App>>

\* Only the header of the primary image is checked before it is booted.
BootPrimary ==
    /\ pc = "check"
    /\ Goto(IF ValidHeader(flash[Primary]) THEN "app" ELSE "halt")
    /\ st' = NoState
    /\ chk' = FALSE
    /\ UNCHANGED <<flash, idx, App>>

-----------------------------------------------------------------------------
(***************************************************************************)
(* The application, which is able to run only from a complete image.       *)
(***************************************************************************)
Running == pc = "app" /\ ValidImage(flash[Primary])

\* nxboot_confirm returns at once when the image is confirmed already.
Confirm ==
    /\ Running /\ conf = NoConf
    /\ good' = good \cup {Crc(flash[Primary])}
    /\ conf' = IF PrimaryConfirmed(flash) THEN NoConf
               ELSE [slot |-> UpdateSlot(flash), idx |-> 0]
    /\ UNCHANGED <<flash, pc, chk, st, idx, dl, offered>>

ConfirmWrite == [slot |-> conf.slot, b |-> conf.idx,
                 c |-> flash[Primary].blk[conf.idx], m |-> flash[Primary].magic]

\* The first erase sector of the primary is copied to the update partition.
ConfirmBlock ==
    /\ Running /\ conf # NoConf
    /\ Write(ConfirmWrite)
    /\ conf' = IF conf.idx < EBlocks - 1 THEN [conf EXCEPT !.idx = @ + 1]
                                         ELSE NoConf
    /\ UNCHANGED <<pc, chk, st, idx, dl, good, offered>>

\* A failed write ends nxboot_confirm with the sector half written.
ConfirmFails ==
    /\ WriteErrors
    /\ Running /\ conf # NoConf
    /\ UNCHANGED flash \/ Tear(ConfirmWrite)
    /\ conf' = NoConf
    /\ UNCHANGED <<pc, chk, st, idx, dl, good, offered>>

\* nxboot_open_update_partition, followed by the application's own writes.
Download(i) ==
    /\ Running /\ dl = NoDl
    /\ dl' = [slot |-> UpdateSlot(flash), img |-> i, idx |-> 0]
    /\ offered' = offered \cup {i}
    /\ UNCHANGED <<flash, pc, chk, st, idx, conf, good>>

DownloadWrite == [slot |-> dl.slot, b |-> dl.idx, c |-> dl.img, m |-> StdMagic]

DownloadBlock ==
    /\ Running /\ dl # NoDl
    /\ Write(DownloadWrite)
    /\ dl' = IF dl.idx < Size[dl.img] - 1 THEN [dl EXCEPT !.idx = @ + 1]
                                          ELSE NoDl
    /\ UNCHANGED <<pc, chk, st, idx, conf, good, offered>>

DownloadAbort ==
    /\ Running /\ dl # NoDl
    /\ dl' = NoDl
    /\ UNCHANGED <<flash, pc, chk, st, idx, conf, good, offered>>

-----------------------------------------------------------------------------
(***************************************************************************)
(* A reset for any cause, at any moment.  With CONFIG_NXBOOT_SWRESET_ONLY  *)
(* only a software, watchdog or pin reset clears check_only.               *)
(***************************************************************************)
Reset ==
    /\ pc # "start"
    /\ \/ UNCHANGED flash
       \/ pc \in Copying /\ Tear(CopyWrite)
       \/ pc = "erase" /\ TearErase(st.update)
       \/ Running /\ conf # NoConf /\ Tear(ConfirmWrite)
       \/ Running /\ dl # NoDl /\ Tear(DownloadWrite)
    /\ chk' \in {FALSE, SwResetOnly}
    /\ Goto("start")
    /\ idx' = 0
    /\ conf' = NoConf
    /\ dl' = NoDl
    /\ st' = NoState
    /\ UNCHANGED <<good, offered>>

Bootloader ==
    \/ ReadState \/ StartRevert \/ SkipUpdate \/ StartUpdate \/ RecoveryMade
    \/ StartInstall \/ CopyBlock \/ CopyFails \/ EraseUpdate \/ BootPrimary

Application ==
    \/ Confirm \/ ConfirmBlock \/ ConfirmFails \/ DownloadBlock \/ DownloadAbort
    \/ \E i \in Images : Download(i)

Next == Bootloader \/ Application \/ Reset

Spec == Init /\ [][Next]_vars

\* The bootloader is a straight-line program that nothing can block.
FairSpec == Spec /\ WF_vars(Bootloader)

-----------------------------------------------------------------------------
(***************************************************************************)
(* Safety.                                                                 *)
(***************************************************************************)

\* nxboot_perform_update ends with a complete image of this platform in the
\* primary partition, although it looks at no more than the header before it
\* boots: neither a reset within a copy nor a torn sector leads to a board
\* that runs a mixture of two images or that finds nothing to boot.
EndsWithValidImage ==
    pc \in {"app", "halt"} => pc = "app" /\ ValidImage(flash[Primary])

\* At every moment the flash alone is enough to get a complete image into
\* the primary partition: it is there already, or get_update_type, run on
\* this flash after a reset, chooses a copy that will bring one.
Recoverable == ValidImage(flash[Primary]) \/ NextBoot(flash) # "none"

\* A revert restores only an image the application has confirmed or the one
\* the board was programmed with, even when an interrupted nxboot_confirm
\* or download has left its blocks in the recovery partition.
RevertIsTrusted ==
    NextBoot(flash) = "revert" => Crc(flash[RecoverySlot(flash)]) \in good

\* nxboot_get_confirm, which decodes the recovery pointer by itself, gives
\* the answer of nxboot_get_state in every flash the system can reach.
ConfirmAgree == GetConfirm(flash) = PrimaryConfirmed(flash)

-----------------------------------------------------------------------------
(***************************************************************************)
(* Refinement: the current image is the one in the primary partition, or   *)
(* else the one the next boot will put there.                              *)
(***************************************************************************)
Current ==
    IF ValidImage(flash[Primary]) THEN Crc(flash[Primary])
    ELSE IF UpdateWanted(flash) THEN Crc(flash[UpdateSlot(flash)])
    ELSE Crc(flash[RecoverySlot(flash)])

Abs == INSTANCE NxBootAbs WITH cur <- Current, running <- (pc = "app")

\* Block-by-block copying with resets implements switching images in one
\* step: no interruption of copy_partition exposes an image that was neither
\* offered nor confirmed, and nothing the running application does to the
\* flash, confirming and downloading at once, changes what will boot next.
AtomicSwitch == Abs!AbsSpec

-----------------------------------------------------------------------------
(***************************************************************************)
(* Liveness.                                                               *)
(***************************************************************************)
Downloading == \E i \in Images : Download(i)

\* Once resets stop, nxboot_perform_update gets the board to the application.
BootCompletes == []<><<Reset>>_vars \/ <>[](pc = "app")

\* "so we don't end up in an update loop": when the application downloads
\* nothing more and the bootloader is left to finish, however often the
\* board is reset afterwards it stops copying images into the primary.
NoUpdateLoop ==
    \/ []<><<Downloading \/ (Reset /\ pc # "app")>>_vars
    \/ <>[](pc \notin {"install", "revert"})

\* An installation that has overwritten a block is carried through: when
\* resets stop, the new image has come to be complete in the primary, no
\* matter where the resets had cut the copy, and check_only does not stand in
\* the way.  It need not have run: a reset just before the application starts
\* reverts it.  (A recovery that looks like an update, because it was made from
\* an internal primary after a confirmation cut by a reset, is the exception.)
InstallCompletes ==
    \/ []<><<Reset>>_vars
    \/ \A i \in Native :
         /\ pc = "install" /\ idx > 0
         /\ Crc(flash[st.update]) = i /\ ~IsStd(flash[st.recovery])
         ~> ValidImage(flash[Primary]) /\ Crc(flash[Primary]) = i

-----------------------------------------------------------------------------
(***************************************************************************)
(* The inductive invariant behind the safety properties.                   *)
(***************************************************************************)
Others  == {Secondary, Tertiary}
BothInt(f) == IsInt(f[Secondary]) /\ IsInt(f[Tertiary])

\* What a header tells about where the image came from.
Provenance ==
    /\ IsStd(flash[Primary]) => Crc(flash[Primary]) \in good
    /\ IsInt(flash[Primary]) =>
           /\ Crc(flash[Primary]) \in offered
           /\ flash[Primary].magic.ptr \in Others
           /\ \A s \in Others : /\ flash[Primary].magic.ptr = s
                                /\ IsInt(flash[s])
                                => Crc(flash[s]) = Crc(flash[Primary])
    /\ \A s \in Others : /\ IsInt(flash[s]) => Crc(flash[s]) \in good
                         /\ IsStd(flash[s]) => Crc(flash[s]) \in offered
    /\ BothInt(flash) => IsInt(flash[Primary]) /\ ValidImage(flash[Primary])

\* The application's tasks work on a complete image that stays as it is.
Tasks ==
    /\ conf # NoConf => /\ Running /\ IsInt(flash[Primary])
                        /\ Crc(flash[Primary]) \in good
                        /\ conf.slot \in Others
                        /\ conf.idx < EBlocks
    /\ dl # NoDl => /\ Running
                    /\ dl.img \in offered
                    /\ dl.slot \in Others
                    /\ dl.idx < Size[dl.img]

\* The update the bootloader has begun with, and what a boot would find.
UpdateReady(f) == IsStd(f[UpdateSlot(f)]) /\ ValidImage(f[UpdateSlot(f)])
RevertReady(f) == IsInt(f[RecoverySlot(f)]) /\ RecoveryValid(f)

\* The blocks copied so far are those of the source.
Copied(m, i) ==
    /\ idx < Size[i]
    /\ idx > 0 => flash[Primary].magic = m
    /\ \A x \in Blocks : x < idx => flash[Primary].blk[x] = i

Control ==
    /\ pc \notin Copying => idx = 0
    /\ pc = "perform" => st = GetState(flash) /\ st.next_boot # "none"
    /\ pc \in {"mkrec", "made", "choose", "install", "erase"} =>
           {st.update, st.recovery} = Others
    /\ pc \in {"mkrec", "made", "choose", "install"} =>
           IsStd(flash[st.update]) /\ ValidImage(flash[st.update])
    /\ pc \in {"mkrec", "made", "erase"} => ValidImage(flash[Primary])
    /\ pc = "mkrec" => idx < Size[Crc(flash[Primary])]
    /\ pc \in {"choose", "install"} => UpdateReady(flash)
    /\ pc = "install" =>
           Copied(OrPointer(IntMagic, st.update), Crc(flash[st.update]))
    /\ pc = "erase" => IsInt(flash[Primary]) /\ flash[Primary].magic.ptr = st.update
    /\ pc = "revert" => /\ RevertReady(flash) /\ ~BothInt(flash)
                        /\ st.recovery = RecoverySlot(flash)
                        /\ Copied(StdMagic, Crc(flash[st.recovery]))
    /\ pc \in {"check", "app", "halt"} => WriteErrors \/ ValidImage(flash[Primary])
    /\ pc = "halt" => WriteErrors

\* The headers on flash, the tasks and the bootloader's position fit together
\* so that every step keeps some complete image within the next boot's reach.
IInv == TypeOK /\ Provenance /\ Tasks /\ Control /\ Recoverable

-----------------------------------------------------------------------------
(***************************************************************************)
(* Statements of comments and of the configuration help that the code does *)
(* not keep.                                                               *)
(***************************************************************************)

\* boot.c:534 "The image is confirmed if it has either NXBOOT_HEADER_MAGIC or
\* a recovery exists": a complete internal image that a boot counts as
\* confirmed has a complete recovery copy of itself.
ConfirmedHasRecovery ==
    /\ pc = "start" /\ PrimaryConfirmed(flash)
    /\ IsInt(flash[Primary]) /\ ValidImage(flash[Primary])
    => \E s \in {Secondary, Tertiary} :
           /\ IsInt(flash[s]) /\ ValidImage(flash[s])
           /\ Crc(flash[s]) = Crc(flash[Primary])

Newer(v, w) == \E c \in 1..3 : v[c] > w[c] /\ \A d \in 1..(c - 1) : v[d] = w[d]

\* Kconfig:88 "If NXBOOT_PREVENT_DOWNGRADE selected, update is performed only
\* for newer versions": a complete primary image is at least never replaced
\* by an older one.
NoDowngrade ==
    pc = "install" /\ idx = 0 /\ ValidImage(flash[Primary]) =>
        ~Newer(Version[Crc(flash[Primary])], Version[Crc(flash[st.update])])
=============================================================================
