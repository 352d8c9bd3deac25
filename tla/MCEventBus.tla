------------------------------- MODULE MCEventBus -------------------------------
(***************************************************************************)
(* A small event bus for TLC.                                              *)
(***************************************************************************)
EXTENDS EventBus, TLC

CONSTANTS c1, c2, e1

(* Two clients that listen to the same event.                              *)
SameEvent == {<<c1, e1>>, <<c2, e1>>}
===============================================================================
