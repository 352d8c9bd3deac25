----------------------------- MODULE BroadcastLog -----------------------------
(***************************************************************************)
(* What a broadcaster promises: a log of the values written, which every   *)
(* receiver reads in order, each value once, from where the log ended when *)
(* it began to listen.  Nothing is added and nobody joins once closed.     *)
(***************************************************************************)
EXTENDS Naturals, Sequences

CONSTANTS Receivers, Values, Outside

VARIABLES log,          (* the values written                               *)
          pos,          (* pos[r]: how far r has read, Outside if it does   *)
                        (* not listen                                       *)
          last,         (* last[r]: the value r has read last               *)
          closing,      (* Close has been called                            *)
          closed        (* the broadcaster has gone                         *)

logVars == <<log, pos, last, closing, closed>>

Init == /\ log = <<>>
        /\ pos = [r \in Receivers |-> Outside]
        /\ last = [r \in Receivers |-> Outside]
        /\ closing = FALSE
        /\ closed = FALSE

Write(v) == /\ ~closed
            /\ log' = Append(log, v)
            /\ UNCHANGED <<pos, last, closing, closed>>

Listen(r) == /\ ~closed
             /\ pos[r] = Outside
             /\ pos' = [pos EXCEPT ![r] = Len(log)]
             /\ UNCHANGED <<log, last, closing, closed>>

Read(r) == /\ pos[r] # Outside
           /\ pos[r] < Len(log)
           /\ pos' = [pos EXCEPT ![r] = @ + 1]
           /\ last' = [last EXCEPT ![r] = log[pos[r] + 1]]
           /\ UNCHANGED <<log, closing, closed>>

Close == closing' = TRUE /\ UNCHANGED <<log, pos, last, closed>>

Closed == closing /\ closed' = TRUE /\ UNCHANGED <<log, pos, last, closing>>

Next == \/ \E v \in Values : Write(v)
        \/ \E r \in Receivers : Listen(r) \/ Read(r)
        \/ Close
        \/ Closed

Spec == Init /\ [][Next]_logVars
================================================================================
