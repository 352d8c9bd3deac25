--------------------------------- MODULE MCCrud ---------------------------------
(***************************************************************************)
(* Small tables for TLC.                                                   *)
(***************************************************************************)
EXTENDS Crud, TLC

CONSTANTS id, a, b, zero, bad

(* A struct with tags like those of handler_test.go, where a is a column   *)
(* that no request writes, and one without.                                *)
TaggedStruct ==
    [f \in Fields |-> CASE f = id -> {}
                        [] f = a  -> {"validator"}
                        [] f = b  -> {"create", "update", "validator"}]
BareStruct == [f \in Fields |-> IF f = b THEN {"validator"} ELSE {}]

BothStructs == {TaggedStruct, BareStruct}

(* Validators like that of handler_test.go, which require a value of       *)
(* creates only.                                                           *)
SampleRejects ==
    [m \in Validated |-> [c \in Columns |-> IF m = "create" THEN {zero, bad} ELSE {bad}]]

RequestSymmetry == Permutations(Requests)
===============================================================================
