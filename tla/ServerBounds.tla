------------------------------ MODULE ServerBounds ------------------------------
(***************************************************************************)
(* What bounds the models of the servers, http/server.go and               *)
(* grpc/server.go.                                                         *)
(***************************************************************************)
EXTENDS Naturals

CONSTANTS MaxStarts,    (* Start is called so often                         *)
          MaxOptions    (* middleware options are given so often in all     *)

ASSUME ServerBoundsAssumption == MaxStarts \in Nat /\ MaxOptions \in Nat
===============================================================================
