------------------------------- MODULE MCClients -------------------------------
(***************************************************************************)
(* The clients of other services, for TLC in one run: a behaviour is one   *)
(* of the connection of a client, of calls that are retried, of calls that *)
(* are traced or of calls through a circuit breaker.  They share nothing,  *)
(* and the variables of the others keep their first value.                 *)
(***************************************************************************)
EXTENDS ClientConnection, Integers, FiniteSets

CONSTANTS Calls, MaxRetries, Cap,
          Tracers, Sends, None, MaxCollectors,
          Circuits, Executes, Limits, LibraryLimit, MaxStarts

(* What the circuits' concurrency is limited to: nothing, the default or 2.*)
NoneZeroTwo == {-1, 0, 2}

ASSUME MCClientsAssumption ==
    /\ {MaxConnects, MaxSets, MaxCollectors, MaxStarts} \subseteq Nat
    /\ MaxRetries \in Nat \ {0}
    /\ Cap \in Nat /\ Cap > MaxRetries + 1
    /\ None \notin Tracers \cup Nat
    /\ IsFiniteSet(Executes)
    /\ Limits \subseteq Nat \cup {-1} /\ 0 \in Limits
    /\ LibraryLimit \in Nat \ {0}

VARIABLES what,
          base, wraps, retryPhase, asked, tries, cancelled, pc, read, attempts, after, result, overlapped,
          connecting, collector, tracer, global, owner, collecting, call, reported, last, up, due,
          default, starts, circuits, count, execPc, name, ran, fellBack, answer, given, known, throttled

retryVars == <<base, wraps, retryPhase, asked, tries, cancelled, pc, read, attempts, after, result, overlapped>>
tracedVars == <<connecting, collector, tracer, global, owner, collecting, call, reported, last, up, due>>
circuitVars == <<default, starts, circuits, count, execPc, name, ran, fellBack, answer, given, known, throttled>>

Retry == INSTANCE RetryClient WITH phase <- retryPhase
Traced == INSTANCE TracedSend WITH Calls <- Sends, open <- collecting
Circuit == INSTANCE CircuitClient WITH Names <- Circuits, Calls <- Executes, pc <- execPc, result <- answer

MCInit ==
    /\ what \in {"connection", "retry", "traced", "circuit"}
    /\ Init /\ Retry!Init /\ Traced!Init /\ Circuit!Init
    /\ what # "connection" => kind = "redis"
    /\ what # "retry" => base = "constant"
    /\ what # "circuit" => default = [limit |-> 0, noFallback |-> FALSE]

MCNext ==
    /\ UNCHANGED what
    /\ \/ what = "connection" /\ Next /\ UNCHANGED <<retryVars, tracedVars, circuitVars>>
       \/ what = "retry" /\ Retry!Next /\ UNCHANGED <<vars, tracedVars, circuitVars>>
       \/ what = "traced" /\ Traced!Next /\ UNCHANGED <<vars, retryVars, circuitVars>>
       \/ what = "circuit" /\ Circuit!Next /\ UNCHANGED <<vars, retryVars, tracedVars>>

(* A call that is not begun needs no fairness.                             *)
MCSpec ==
    /\ MCInit /\ [][MCNext]_<<what, vars, retryVars, tracedVars, circuitVars>>
    /\ \A c \in Calls : WF_retryVars(Retry!Goes(c))
    /\ \A s \in Sends : WF_tracedVars(Traced!Goes(s))
-------------------------------------------------------------------------------
(* Retries are limited, and end with the context (RetryClient).            *)
RetriesCounted == Retry!RetryInv /\ Retry!RetriesCounted

(* A Do ends (RetryClient).                                                *)
DoEnds == Retry!DoEnds

(* Spans reach their client's collector (TracedSend).                      *)
SpansArrive == Traced!TypeOK /\ Traced!SpansArrive

(* A Send ends (TracedSend).                                               *)
SendEnds == Traced!SendEnds

(* A circuit keeps its limit (CircuitClient).                              *)
LimitHolds == Circuit!TypeOK /\ Circuit!LimitHolds

(* Execute's answer tells what was called (CircuitClient).                 *)
AnswerIsTrue == Circuit!AnswerIsTrue
===============================================================================
