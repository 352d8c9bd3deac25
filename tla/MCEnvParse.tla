------------------------------- MODULE MCEnvParse -------------------------------
(***************************************************************************)
(* A small struct for TLC.                                                 *)
(***************************************************************************)
EXTENDS EnvParse, TLC

CONSTANTS top, sub, deep, ptr1, ptr2

Plain == [child |-> None, pointer |-> FALSE]
Inner(s) == [child |-> s, pointer |-> FALSE]
Pointer(s) == [child |-> s, pointer |-> TRUE]

(* A struct with a struct in it, like the validStruct of parse_test.go,    *)
(* and two pointers, whose goroutines share pointerErr: the scan of the    *)
(* first may fail, also while that of the struct below it goes on; the     *)
(* other has no fields, and no error.                                      *)
Nested == top :> <<Inner(sub), Pointer(ptr1), Pointer(ptr2)>>
          @@ sub :> <<Plain>>
          @@ ptr1 :> <<Inner(deep), Plain>> @@ deep :> <<Plain>>
          @@ ptr2 :> <<>>
===============================================================================
