----------------------------- MODULE NxBootState -----------------------------
(***************************************************************************)
(* The decisions of boot/nxboot/loader/boot.c that only read the flash:    *)
(* which partition is the update and which the recovery, whether an image  *)
(* is valid or confirmed, and what the next boot will do.  Every operator  *)
(* is a function of f, the contents of the three partitions.               *)
(***************************************************************************)
EXTENDS NxFlash

CONSTANTS
    Version,            \* Version[i]: <<major, minor, patch>> of image i
    PreventDowngrade    \* CONFIG_NXBOOT_PREVENT_DOWNGRADE

ASSUME StateAssumption ==
    /\ Version \in [Images -> Nat \X Nat \X Nat]
    /\ PreventDowngrade \in BOOLEAN

Crc(p) == p.blk[0]                      \* header.crc, see NxFlash
IsStd(p) == p.magic.kind = "std"        \* magic == NXBOOT_HEADER_MAGIC
IsInt(p) == p.magic.kind = "int"        \* IS_INTERNAL_MAGIC(magic)

-----------------------------------------------------------------------------
\* validate_image_header: a known magic and this platform's identifier.
ValidHeader(p) == (IsStd(p) \/ IsInt(p)) /\ Crc(p) \in Native

\* calculate_crc(p) = header.crc: the CRC runs over the blocks the header
\* announces, so it matches iff they all belong to the image of the header.
CrcMatches(p) == \A b \in Blocks : b < Size[Crc(p)] => p.blk[b] = Crc(p)

\* validate_image
ValidImage(p) == ValidHeader(p) /\ CrcMatches(p)

\* compare_versions: equality, or with CONFIG_NXBOOT_PREVENT_DOWNGRADE
\* whether some component of v is greater than that of w.
CompareVersions(v, w) ==
    IF PreventDowngrade THEN \E c \in 1..3 : v[c] > w[c] ELSE v = w

-----------------------------------------------------------------------------
\* With both partitions internal the recovery pointer of the primary header
\* decides, or the CRC alone when the primary image is not internal.
SecondaryIsRecovery(f) ==
    /\ Crc(f[Primary]) = Crc(f[Secondary])
    /\ IsInt(f[Primary]) => f[Primary].magic.ptr = Secondary

UpdateSlot(f) ==
    IF \/ IsStd(f[Tertiary])
       \/ /\ IsInt(f[Secondary])
          /\ IsInt(f[Tertiary]) => SecondaryIsRecovery(f)
    THEN Tertiary ELSE Secondary

RecoverySlot(f) == IF UpdateSlot(f) = Tertiary THEN Secondary ELSE Tertiary

RecoveryValid(f)   == ValidImage(f[RecoverySlot(f)])
RecoveryPresent(f) == Crc(f[Primary]) = Crc(f[RecoverySlot(f)])

\* state->primary_confirmed of nxboot_get_state.
PrimaryConfirmed(f) ==
    \/ IsStd(f[Primary])
    \/ /\ IsInt(f[Primary])
       /\ \E s \in {Secondary, Tertiary} :
              f[Primary].magic.ptr = s /\ Crc(f[Primary]) = Crc(f[s])

\* Faulty variant: the pointer's two slots are confused.
GetConfirmSwapped(f) ==
    \/ IsStd(f[Primary])
    \/ /\ IsInt(f[Primary])
       /\ LET s == IF f[Primary].magic.ptr = Tertiary THEN Secondary ELSE Tertiary
          IN  Crc(f[Primary]) = Crc(f[s])

\* nxboot_get_confirm follows the pointer by itself: any non-zero pointer
\* that is not the secondary slot's stands for the tertiary one.
GetConfirm(f) ==
    \/ IsStd(f[Primary])
    \/ /\ IsInt(f[Primary])
       /\ f[Primary].magic.ptr # 0
       /\ LET s == IF f[Primary].magic.ptr = Secondary THEN Secondary
                                                       ELSE Tertiary
          IN  Crc(f[Primary]) = Crc(f[s])

-----------------------------------------------------------------------------
\* Faulty variant: an update whose header is in the primary already counts
\* as installed, whatever follows the header.
UpdateWantedHeaderOnly(f) ==
    LET u == f[UpdateSlot(f)] IN IsStd(u) /\ ValidImage(u) /\ Crc(f[Primary]) # Crc(u)

UpdateWanted(f) ==
    LET p == f[Primary]
        u == f[UpdateSlot(f)]
    IN  /\ IsStd(u) /\ ValidImage(u)
        /\ \/ Crc(p) # Crc(u)
           \/ ~CompareVersions(Version[Crc(p)], Version[Crc(u)])
           \/ ~ValidImage(p)

\* Faulty variant: any valid image in the recovery partition will do.
RevertWantedAnyMagic(f) ==
    /\ RecoveryValid(f)
    /\ \/ IsInt(f[Primary]) /\ ~PrimaryConfirmed(f)
       \/ ~ValidImage(f[Primary])

RevertWanted(f) ==
    /\ IsInt(f[RecoverySlot(f)]) /\ RecoveryValid(f)
    /\ \/ IsInt(f[Primary]) /\ ~PrimaryConfirmed(f)
       \/ ~ValidImage(f[Primary])

\* get_update_type
NextBoot(f) == IF UpdateWanted(f) THEN "update"
               ELSE IF RevertWanted(f) THEN "revert" ELSE "none"

\* nxboot_get_state
GetState(f) ==
    [update            |-> UpdateSlot(f),
     recovery          |-> RecoverySlot(f),
     recovery_valid    |-> RecoveryValid(f),
     recovery_present  |-> RecoveryPresent(f),
     primary_confirmed |-> PrimaryConfirmed(f),
     next_boot         |-> NextBoot(f)]

State == [update : {Secondary, Tertiary}, recovery : {Secondary, Tertiary},
          recovery_valid : BOOLEAN, recovery_present : BOOLEAN,
          primary_confirmed : BOOLEAN, next_boot : {"none", "update", "revert"}]
=============================================================================
