----------------------------- MODULE MCArmBanks -----------------------------
(* A small instance of ArmBanks for TLC. *)
EXTENDS ArmBanks, TLC

CONSTANTS v1, v2

\* Values are only copied and compared.
Symmetry == Permutations({v1, v2})
=============================================================================
