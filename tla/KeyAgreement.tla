---------------------------- MODULE KeyAgreement ----------------------------
(***************************************************************************)
(* What a key rotation (rule 7) promises: keys are offered one after the   *)
(* other, the receiver takes the one that is offered, and the sender uses  *)
(* a key only while the receiver holds it and it is the newest.  Until     *)
(* then, and for as long as a rotation that failed leaves the two apart,   *)
(* the sender keeps the last key they agreed on: no key is skipped back    *)
(* to, and none is used that nobody confirmed.                             *)
(***************************************************************************)
EXTENDS Naturals

VARIABLES
    offered,    \* the newest key
    held,       \* the receiver's key
    used        \* the sender's key

Init == offered = 0 /\ held = 0 /\ used = 0

Offer == offered' = offered + 1 /\ UNCHANGED <<held, used>>
Take == held' = offered /\ UNCHANGED <<offered, used>>
Switch == held = offered /\ used' = offered /\ UNCHANGED <<offered, held>>

Spec == Init /\ [][Offer \/ Take \/ Switch]_<<offered, held, used>>
=============================================================================
