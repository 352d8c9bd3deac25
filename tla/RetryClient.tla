------------------------------ MODULE RetryClient ------------------------------
(***************************************************************************)
(* The client of retry/client.go: its options wrap the one BackOff c.C,    *)
(* and each call of Do leaves a goroutine to backoff.Retry with it.        *)
(*                                                                         *)
(* External (github.com/cenkalti/backoff v2.0.0): Retry resets the BackOff *)
(* and then, after every attempt that fails, asks it for the next wait.    *)
(* The wrapper of WithMaxRetries counts these without a lock; the wrapper  *)
(* of WithContext ends them, but Retry looks at its context while it waits *)
(* only if it is the outermost one.  An exponential BackOff also ends them *)
(* when too much time has gone by.  Each wrapper is put on at most once.   *)
(***************************************************************************)
EXTENDS Naturals, Sequences

CONSTANTS Calls,        (* of Do                                            *)
          MaxRetries,   (* what SetMaxRetriesOption is given, not 0         *)
          Cap           (* bound: attempts are not counted further          *)

VARIABLES base,         (* what CreateClient made                           *)
          wraps,        (* the wrappers of c.C, outermost first             *)
          phase,        (* options, ready, or refused by an option          *)
          asked,        (* history: the options that were applied           *)
          tries,        (* the count of the WithMaxRetries wrapper          *)
          cancelled,    (* the context is done                              *)
          pc,           (* where the goroutine of each Do is                *)
          read,         (* the count it has read                            *)
          attempts,     (* history: how often it called its operation       *)
          after,        (* history: those since the context was done        *)
          result,       (* what it sent to its channel                      *)
          overlapped    (* history: a Do was called while another ran       *)

vars == <<base, wraps, phase, asked, tries, cancelled, pc, read, attempts, after, result, overlapped>>
optionVars == <<base, wraps, phase, asked>>

Wraps(w) == \E i \in DOMAIN wraps : wraps[i] = w
Outermost(w) == wraps # <<>> /\ Head(wraps) = w

(* The calls whose goroutine has not ended.                                *)
Running == {c \in Calls : pc[c] \notin {"new", "over"}}

TypeOK ==
    /\ base \in {"constant", "exponential"}
    /\ wraps \in Seq({"context", "retries"})
    /\ phase \in {"options", "ready", "refused"}
    /\ asked \subseteq {"context", "retries"}
    /\ tries \in 0..MaxRetries
    /\ cancelled \in BOOLEAN
    /\ pc \in [Calls -> {"new", "operation", "next", "counting", "timer", "over"}]
    /\ read \in [Calls -> 0..(MaxRetries - 1)]
    /\ attempts \in [Calls -> 0..Cap]
    /\ after \in [Calls -> 0..Cap]
    /\ result \in [Calls -> {"none", "true", "false"}]
    /\ overlapped \in BOOLEAN
    /\ \A c \in Calls : result[c] # "none" <=> pc[c] = "over"

(* CreateClient with UseConstantRetry or UseExponentialRetry.              *)
Init ==
    /\ base \in {"constant", "exponential"}
    /\ wraps = <<>>
    /\ phase = "options"
    /\ asked = {}
    /\ tries = 0
    /\ cancelled = FALSE
    /\ pc = [c \in Calls |-> "new"]
    /\ read = [c \in Calls |-> 0]
    /\ attempts = [c \in Calls |-> 0]
    /\ after = [c \in Calls |-> 0]
    /\ result = [c \in Calls |-> "none"]
    /\ overlapped = FALSE

callVars == <<tries, cancelled, pc, read, attempts, after, result, overlapped>>

SetContextUnwraps ==            \* mutant: the wrapper is put on the first BackOff
    /\ phase = "options"
    /\ ~Wraps("context")
    /\ wraps' = <<"context">>
    /\ asked' = asked \cup {"context"}
    /\ UNCHANGED <<base, phase, callVars>>

(* SetContextOption.                                                       *)
SetContext ==
    /\ phase = "options"
    /\ ~Wraps("context")
    /\ wraps' = <<"context">> \o wraps
    /\ asked' = asked \cup {"context"}
    /\ UNCHANGED <<base, phase, callVars>>

SetMaxRetriesUnwraps ==         \* mutant: likewise
    /\ phase = "options"
    /\ ~Wraps("retries")
    /\ wraps' = <<"retries">>
    /\ asked' = asked \cup {"retries"}
    /\ UNCHANGED <<base, phase, callVars>>

(* SetMaxRetriesOption.                                                    *)
SetMaxRetries ==
    /\ phase = "options"
    /\ ~Wraps("retries")
    /\ wraps' = <<"retries">> \o wraps
    /\ asked' = asked \cup {"retries"}
    /\ UNCHANGED <<base, phase, callVars>>

(* SetInitialIntervalOption and its like want c.C itself to be exponential *)
(* and set a field of it; otherwise Init returns their error.              *)
SetInterval ==
    /\ phase = "options"
    /\ phase' = IF base = "exponential" /\ wraps = <<>> THEN "options" ELSE "refused"
    /\ UNCHANGED <<base, wraps, asked, callVars>>

(* Init of the client returns nil.                                         *)
Ready ==
    /\ phase = "options"
    /\ phase' = "ready"
    /\ UNCHANGED <<base, wraps, asked, callVars>>

Over(c, r) ==
    /\ pc' = [pc EXCEPT ![c] = "over"]
    /\ result' = [result EXCEPT ![c] = r]

DoContinues(c) ==               \* mutant: the count is not reset
    /\ phase = "ready"
    /\ pc[c] = "new"
    /\ overlapped' = (overlapped \/ Running # {})
    /\ pc' = [pc EXCEPT ![c] = "operation"]
    /\ UNCHANGED <<tries, cancelled, read, attempts, after, result, optionVars>>

(* Do leaves a goroutine, which resets the BackOff.                        *)
Do(c) ==
    /\ phase = "ready"
    /\ pc[c] = "new"
    /\ overlapped' = (overlapped \/ Running # {})
    /\ pc' = [pc EXCEPT ![c] = "operation"]
    /\ tries' = 0
    /\ UNCHANGED <<cancelled, read, attempts, after, result, optionVars>>

Capped(n) == IF n < Cap THEN n + 1 ELSE n

(* The operation is called: it succeeds, and true is sent, or it fails.    *)
Operation(c) ==
    /\ pc[c] = "operation"
    /\ attempts' = [attempts EXCEPT ![c] = Capped(@)]
    /\ after' = IF cancelled THEN [after EXCEPT ![c] = Capped(@)] ELSE after
    /\ \/ Over(c, "true")
       \/ pc' = [pc EXCEPT ![c] = "next"] /\ UNCHANGED result
    /\ UNCHANGED <<tries, cancelled, read, overlapped, optionVars>>

(* The BackOff is asked for the next wait, and the count is read.          *)
NextBackOff(c) ==
    LET stop == \/ Wraps("context") /\ cancelled
                \/ Wraps("retries") /\ MaxRetries <= tries
    IN  /\ pc[c] = "next"
        /\ ~stop
        /\ pc' = [pc EXCEPT ![c] = IF Wraps("retries") THEN "counting" ELSE "timer"]
        /\ read' = IF Wraps("retries") THEN [read EXCEPT ![c] = tries] ELSE read
        /\ UNCHANGED <<tries, cancelled, attempts, after, result, overlapped, optionVars>>

(* It has no more: false is sent.                                          *)
Stop(c) ==
    /\ pc[c] = "next"
    /\ \/ Wraps("context") /\ cancelled
       \/ Wraps("retries") /\ MaxRetries <= tries
       \/ base = "exponential"
    /\ Over(c, "false")
    /\ UNCHANGED <<tries, cancelled, read, attempts, after, overlapped, optionVars>>

(* The count is stored.                                                    *)
Count(c) ==
    /\ pc[c] = "counting"
    /\ tries' = read[c] + 1
    /\ pc' = [pc EXCEPT ![c] = "timer"]
    /\ UNCHANGED <<cancelled, read, attempts, after, result, overlapped, optionVars>>

(* The wait is over.                                                       *)
Timer(c) ==
    /\ pc[c] = "timer"
    /\ pc' = [pc EXCEPT ![c] = "operation"]
    /\ UNCHANGED <<tries, cancelled, read, attempts, after, result, overlapped, optionVars>>

(* The context is done while Retry waits.                                  *)
Interrupt(c) ==
    /\ pc[c] = "timer"
    /\ Outermost("context") /\ cancelled
    /\ Over(c, "false")
    /\ UNCHANGED <<tries, cancelled, read, attempts, after, overlapped, optionVars>>

Cancel ==
    /\ ~cancelled
    /\ cancelled' = TRUE
    /\ UNCHANGED <<tries, pc, read, attempts, after, result, overlapped, optionVars>>

Goes(c) == Operation(c) \/ NextBackOff(c) \/ Stop(c) \/ Count(c) \/ Timer(c) \/ Interrupt(c)

Next == \/ SetContext \/ SetMaxRetries \/ SetInterval \/ Ready \/ Cancel
        \/ \E c \in Calls : Do(c) \/ Goes(c)

Spec == Init /\ [][Next]_vars

(* Goroutines go on, operations return, and timers expire.                 *)
FairSpec == Spec /\ \A c \in Calls : WF_vars(Goes(c))
-------------------------------------------------------------------------------
(* With SetMaxRetriesOption an operation is called once and then retried   *)
(* so often, exactly so when all attempts fail and nothing else ends them  *)
(* (client_test.go:54: 11 calls for 10 retries): as long as no Do is       *)
(* called while another runs, for they share the count (client.go:146).    *)
RetriesCounted ==
    \A c \in Calls :
        "retries" \in asked /\ ~overlapped =>
            /\ attempts[c] <= MaxRetries + 1
            /\ result[c] = "false" /\ ~cancelled /\ base = "constant" => attempts[c] = MaxRetries + 1

(* With SetContextOption, at most one attempt is made once the context is  *)
(* done, in whatever order the options were given (client_test.go:31-35).  *)
CancelStops == \A c \in Calls : "context" \in asked => after[c] <= 1

(* retry/client.go at every step: calls and wrappers are well typed, and   *)
(* a Do whose context is done makes no second attempt after that           *)
(* (client_test.go:31-35).                                                 *)
RetryInv == TypeOK /\ CancelStops

(* A Do whose retries are limited, or whose context is done, sends its     *)
(* result, also while others race with it for the count (client.go:64-80,  *)
(* 143-151).                                                               *)
DoEnds ==
    \A c \in Calls :
        /\ "retries" \in asked /\ pc[c] # "new" ~> pc[c] = "over"
        /\ "context" \in asked /\ cancelled /\ pc[c] # "new" ~> pc[c] = "over"
===============================================================================
