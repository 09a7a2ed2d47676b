---------------------------- MODULE MCRotation ----------------------------
(* Instances of RotationSession for TLC. *)
EXTENDS RotationSession

MCPayloads == 1 .. MaxRounds
MCAnyNumber == 0 .. SeqMod - 1
============================================================================
