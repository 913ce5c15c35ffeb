------------------------------ MODULE NxBootAbs ------------------------------
(***************************************************************************)
(* What boot/nxboot promises to the owner of a board: there always is one  *)
(* current image, resets and torn writes notwithstanding.  It changes in   *)
(* one step and only while the application is not running, either to an    *)
(* image that was offered as an update or back to one that was confirmed.  *)
(***************************************************************************)
CONSTANTS Images, Native

VARIABLES
    cur,        \* the image the board runs, or will run after the next boot
    running,    \* whether the bootloader has handed over to the application
    offered,    \* images downloaded as an update, in part or completely
    good        \* images the application has confirmed

AbsVars == <<cur, running, offered, good>>

AbsInit == cur \in Native /\ ~running /\ offered = {} /\ good = {cur}

Offer ==
    /\ running
    /\ \E i \in Images : offered' = offered \cup {i}
    /\ UNCHANGED <<cur, running, good>>

Approve == running /\ good' = good \cup {cur} /\ UNCHANGED <<cur, running, offered>>

Install ==
    /\ ~running
    /\ cur' \in offered \cap Native
    /\ UNCHANGED <<running, offered, good>>

Revert ==
    /\ ~running
    /\ cur' \in good \cap Native
    /\ UNCHANGED <<running, offered, good>>

Start == ~running /\ running' /\ UNCHANGED <<cur, offered, good>>
Stop  == running /\ ~running' /\ UNCHANGED <<cur, offered, good>>

AbsNext == Offer \/ Approve \/ Install \/ Revert \/ Start \/ Stop

AbsSpec == AbsInit /\ [][AbsNext]_AbsVars
=============================================================================
