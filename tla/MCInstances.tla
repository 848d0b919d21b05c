---------------------------- MODULE MCInstances ----------------------------
(***************************************************************************)
(* Three agents (or three incarnations of one) for TLC.                    *)
(***************************************************************************)
EXTENDS Instances, TLC

(* A different rotation of the users for each seed.                        *)
MCOrder == [s \in 0 .. MaxTime |->
             [k \in 0 .. NumUsers - 1 |-> (k + s) % NumUsers]]

(* The ids are interchangeable: nothing orders them.                       *)
IdSymmetry == Permutations(Id)

=============================================================================
