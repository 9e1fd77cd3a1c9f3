---------------------------- MODULE MCConnection ----------------------------
(***************************************************************************)
(* The bounded instances of Connection.                                    *)
(***************************************************************************)
EXTENDS Connection, TLC

DeviceSymmetry == Permutations(Devices)
=============================================================================
