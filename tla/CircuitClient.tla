------------------------------ MODULE CircuitClient ------------------------------
(***************************************************************************)
(* The client of circuitbreaker/client.go: Start gives a circuit a name    *)
(* and options, Execute calls functions through it.  Starts and calls run  *)
(* at the same time.                                                       *)
(*                                                                         *)
(* External (github.com/cep21/circuit): the manager keeps the circuit that *)
(* was made first under a name.  An option that is zero takes its value    *)
(* from the manager's default properties or else the library's.  A circuit *)
(* may refuse a call because it is open, which its opener and closer       *)
(* decide; it counts the call, refuses it if the count is over the limit,  *)
(* and takes it off the count when its function has returned.  A call that *)
(* was refused or has failed is given to the fallback, unless that is      *)
(* disabled or the failure is a BadRequest.  With a timeout the function's *)
(* context is done in time, and its result counts all the same.            *)
(***************************************************************************)
EXTENDS Integers, FiniteSets

CONSTANTS Names, Calls,
          Limits,       (* what SetExecuteMaxConcurrentRequestsOption is    *)
                        (* given; -1 is no limit                            *)
          LibraryLimit, (* the library's                                    *)
          MaxStarts     (* bound: Start is called so often                  *)

VARIABLES default,      (* the manager's DefaultCircuitProperties           *)
          starts,       (* the calls of Start                               *)
          circuits,     (* the manager's circuits                           *)
          count,        (* the calls that each circuit counts               *)
          pc,           (* where each Execute is                            *)
          name,         (* the name it is given                             *)
          ran,          (* what its function has come to                    *)
          fellBack,     (* what its fallback has                            *)
          result,       (* what it returned                                 *)
          given,        (* history: the options of the first Start of each  *)
                        (* name that returned nil                           *)
          known,        (* history: there was one before Execute            *)
          throttled     (* history: the calls refused for their number      *)

vars == <<default, starts, circuits, count, pc, name, ran, fellBack, result, given, known, throttled>>
startVars == <<default, starts, circuits, given>>

NoStart == [limit |-> -2, noFallback |-> FALSE]

Properties == [limit : Limits, noFallback : BOOLEAN]

Counted(n) == {c \in Calls : name[c] = n /\ pc[c] \in {"refused", "running", "returned"}}

TypeOK ==
    /\ default \in Properties
    /\ starts \in 0..MaxStarts
    /\ circuits \in [Names -> [limit : Limits \cup {LibraryLimit}, noFallback : BOOLEAN] \cup {NoStart}]
    /\ pc \in [Calls -> {"new", "found", "refused", "running", "returned", "failing", "fallback", "over"}]
    /\ name \in [Calls -> Names]
    /\ ran \in [Calls -> {"none", "ok", "failed", "bad"}]
    /\ fellBack \in [Calls -> {"none", "ok", "failed"}]
    /\ result \in [Calls -> {"none", "nil", "unknown", "error"}]
    /\ given \in [Names -> Properties \cup {NoStart}]
    /\ known \subseteq Calls
    /\ throttled \subseteq Calls
    /\ \A n \in Names : count[n] = Cardinality(Counted(n))

(* CreateClient with SetDefaultCircuitProperty or, with zero, without.     *)
Init ==
    /\ default \in Properties
    /\ starts = 0
    /\ circuits = [n \in Names |-> NoStart]
    /\ count = [n \in Names |-> 0]
    /\ pc = [c \in Calls |-> "new"]
    /\ name \in [Calls -> Names]
    /\ ran = [c \in Calls |-> "none"]
    /\ fellBack = [c \in Calls |-> "none"]
    /\ result = [c \in Calls |-> "none"]
    /\ given = [n \in Names |-> NoStart]
    /\ known = {}
    /\ throttled = {}

(* What a circuit makes of the configuration that Start gives it.          *)
Merged(o) == [limit |-> CASE o.limit # 0 -> o.limit
                          [] o.limit = 0 /\ default.limit # 0 -> default.limit
                          [] OTHER -> LibraryLimit,
              noFallback |-> o.noFallback \/ default.noFallback]

(* The manager makes the circuit, if it has none of the name.              *)
CreateCircuit(n, o) ==
    circuits' = IF circuits[n] = NoStart THEN [circuits EXCEPT ![n] = Merged(o)] ELSE circuits

(* Start returned nil.                                                     *)
Started(n, o) == given' = IF given[n] = NoStart THEN [given EXCEPT ![n] = o] ELSE given

StartFromZero(n, o) ==          \* mutant: Start begins with an empty configuration
    /\ starts < MaxStarts
    /\ starts' = starts + 1
    /\ CreateCircuit(n, IF o.limit = -1 THEN [o EXCEPT !.limit = 0] ELSE o)
    /\ Started(n, o)
    /\ UNCHANGED <<default, count, pc, name, ran, fellBack, result, known, throttled>>

(* Start(n) with options that leave o in its configuration, which they     *)
(* begin with no limit; that the name exists is not reported.              *)
Start(n, o) ==
    /\ starts < MaxStarts
    /\ starts' = starts + 1
    /\ CreateCircuit(n, o)
    /\ Started(n, o)
    /\ UNCHANGED <<default, count, pc, name, ran, fellBack, result, known, throttled>>

StartSwallows ==                \* mutant: Start does not return the error
    /\ starts < MaxStarts
    /\ starts' = starts + 1
    /\ \E n \in Names, o \in Properties : Started(n, o)
    /\ UNCHANGED <<default, circuits, count, pc, name, ran, fellBack, result, known, throttled>>

(* An option returns an error, and so does Start.                          *)
StartFails ==
    /\ starts < MaxStarts
    /\ starts' = starts + 1
    /\ UNCHANGED <<default, circuits, count, pc, name, ran, fellBack, result, given, known, throttled>>
-------------------------------------------------------------------------------
Over(c, r) ==
    /\ pc' = [pc EXCEPT ![c] = "over"]
    /\ result' = [result EXCEPT ![c] = r]

(* Execute looks for the circuit.                                          *)
Execute(c) ==
    /\ pc[c] = "new"
    /\ known' = IF given[name[c]] # NoStart THEN known \cup {c} ELSE known
    /\ IF circuits[name[c]] = NoStart
       THEN Over(c, "unknown")
       ELSE pc' = [pc EXCEPT ![c] = "found"] /\ UNCHANGED result
    /\ UNCHANGED <<startVars, count, name, ran, fellBack, throttled>>

(* The circuit is open.                                                    *)
Refuse(c) ==
    /\ pc[c] = "found"
    /\ pc' = [pc EXCEPT ![c] = "failing"]
    /\ UNCHANGED <<startVars, count, name, ran, fellBack, result, known, throttled>>

(* It is closed and counts the call.                                       *)
Admit(c) ==
    LET limit == circuits[name[c]].limit
        over == limit # -1 /\ count[name[c]] >= limit
    IN  /\ pc[c] = "found"
        /\ count' = [count EXCEPT ![name[c]] = @ + 1]
        /\ pc' = [pc EXCEPT ![c] = IF over THEN "refused" ELSE "running"]
        /\ throttled' = IF over THEN throttled \cup {c} ELSE throttled
        /\ UNCHANGED <<startVars, name, ran, fellBack, result, known>>

(* The function returns nil, an error or a BadRequest.                     *)
Run(c) ==
    /\ pc[c] = "running"
    /\ pc' = [pc EXCEPT ![c] = "returned"]
    /\ \E r \in {"ok", "failed", "bad"} : ran' = [ran EXCEPT ![c] = r]
    /\ UNCHANGED <<startVars, count, name, fellBack, result, known, throttled>>

(* The call is not counted any more.                                       *)
Leave(c) ==
    /\ pc[c] \in {"refused", "returned"}
    /\ count' = [count EXCEPT ![name[c]] = @ - 1]
    /\ CASE ran[c] = "ok" -> Over(c, "nil")
         [] ran[c] = "bad" -> Over(c, "error")
         [] OTHER -> pc' = [pc EXCEPT ![c] = "failing"] /\ UNCHANGED result
    /\ UNCHANGED <<startVars, name, ran, fellBack, known, throttled>>

(* It goes to the fallback, or Execute returns the error.                  *)
Fail(c) ==
    /\ pc[c] = "failing"
    /\ IF circuits[name[c]].noFallback
       THEN Over(c, "error")
       ELSE pc' = [pc EXCEPT ![c] = "fallback"] /\ UNCHANGED result
    /\ UNCHANGED <<startVars, count, name, ran, fellBack, known, throttled>>

(* The fallback has an answer, or is not called when an option limits how  *)
(* many are at a time.                                                     *)
FallBack(c) ==
    /\ pc[c] = "fallback"
    /\ \E r \in {"ok", "failed", "none"} :
           /\ fellBack' = [fellBack EXCEPT ![c] = r]
           /\ Over(c, IF r = "ok" THEN "nil" ELSE "error")
    /\ UNCHANGED <<startVars, count, name, ran, known, throttled>>

Next == \/ \E n \in Names, o \in Properties : Start(n, o)
        \/ StartFails
        \/ \E c \in Calls : Execute(c) \/ Refuse(c) \/ Admit(c) \/ Run(c) \/ Leave(c) \/ Fail(c) \/ FallBack(c)

Spec == Init /\ [][Next]_vars
-------------------------------------------------------------------------------
(* As many functions run at a time as the first Start of the name allowed, *)
(* and without SetExecuteMaxConcurrentRequestsOption none is refused for   *)
(* their number, whatever the manager's defaults say (client.go:55-65):    *)
(* also while other Starts of the name, whose options are lost (lines      *)
(* 77-81), run among the calls.  Zero stands for the default.              *)
LimitHolds ==
    \A n \in Names : given[n] # NoStart =>
        LET calls == {c \in Calls : name[c] = n}
            running == {c \in calls : pc[c] = "running"}
        IN  IF given[n].limit = -1
            THEN calls \cap throttled = {}
            ELSE Merged(given[n]).limit # -1 => Cardinality(running) <= Merged(given[n]).limit

(* Execute returns nil just if its function or else its fallback did; it   *)
(* calls the fallback only for a failure, and neither if there is no       *)
(* circuit of the name, which there is once a Start of it has returned nil *)
(* (client.go:183-191).                                                    *)
AnswerIsTrue ==
    \A c \in Calls :
        /\ pc[c] = "over" => (result[c] = "nil" <=> (ran[c] = "ok" \/ fellBack[c] = "ok"))
        /\ fellBack[c] # "none" => ran[c] \in {"none", "failed"} /\ ~Merged(given[name[c]]).noFallback
        /\ result[c] = "unknown" => c \notin known /\ ran[c] = "none" /\ fellBack[c] = "none"
================================================================================
