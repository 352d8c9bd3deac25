-------------------------------- MODULE JobPool --------------------------------
(***************************************************************************)
(* What a pool.Worker promises to the callers of QueueJob, without         *)
(* workers, channels or locks: a job runs at most once per accepted call,  *)
(* at most Limit jobs run at a time, a call is turned away only if its     *)
(* timeout may have expired or the pool is being stopped, and a call made  *)
(* once the pool has shut down is turned away whatever happens.            *)
(*                                                                         *)
(* A member of Calls is a slot for one call at a time: when the call is    *)
(* over and its job has run, the slot may be used for another call.        *)
(***************************************************************************)
EXTENDS Naturals, FiniteSets

CONSTANTS Calls,        (* slots for calls of QueueJob                      *)
          TimedCalls,   (* the calls made with a timeout > 0                *)
          Limit         (* how many jobs may run at a time                  *)

VARIABLES status,       (* status[c]: what became of call c                 *)
          closing,      (* StopServer has been called                       *)
          shut          (* the pool has finished shutting down              *)

jobPoolVars == <<status, closing, shut>>

RunningCalls == {c \in Calls : status[c] = "running"}

Init == /\ status = [c \in Calls |-> "none"]
        /\ closing = FALSE
        /\ shut = FALSE

Submit(c) == /\ status[c] = "none"
             /\ status' = [status EXCEPT ![c] = IF shut THEN "doomed" ELSE "pending"]
             /\ UNCHANGED <<closing, shut>>

Run(c) == /\ status[c] = "pending"
          /\ Cardinality(RunningCalls) < Limit
          /\ status' = [status EXCEPT ![c] = "running"]
          /\ UNCHANGED <<closing, shut>>

Finish(c) == /\ status[c] = "running"
             /\ status' = [status EXCEPT ![c] = "done"]
             /\ UNCHANGED <<closing, shut>>

Reject(c) == /\ status[c] \in {"pending", "doomed"}
             /\ c \in TimedCalls \/ closing
             /\ status' = [status EXCEPT ![c] = "rejected"]
             /\ UNCHANGED <<closing, shut>>

Recycle(c) == /\ status[c] \in {"done", "rejected"}
              /\ status' = [status EXCEPT ![c] = "none"]
              /\ UNCHANGED <<closing, shut>>

Close == /\ closing' = TRUE
         /\ UNCHANGED <<status, shut>>

Shut == /\ closing
        /\ shut' = TRUE
        /\ UNCHANGED <<status, closing>>

Next == \/ \E c \in Calls : Submit(c) \/ Run(c) \/ Finish(c) \/ Reject(c) \/ Recycle(c)
        \/ Close
        \/ Shut

Spec == Init /\ [][Next]_jobPoolVars
================================================================================
