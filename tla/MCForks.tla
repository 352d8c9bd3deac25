------------------------------- MODULE MCForks -------------------------------
(***************************************************************************)
(* Calls that leave goroutines of their own to do the work, for TLC in one *)
(* run: a behaviour is one of Parse on a small struct or of OR and AND.    *)
(* They share nothing, and the variables of the other keep their first     *)
(* value.                                                                  *)
(***************************************************************************)
EXTENDS MCEnvParse

CONSTANT Sizes

ASSUME MCForksAssumption == Sizes \subseteq Nat \ {0, 1}

VARIABLES call, n, fired, orPc, andAt

signalVars == <<n, fired, orPc, andAt>>

Signal == INSTANCE CombineSignal

MCInit ==
    /\ call \in {"parse", "signals"}
    /\ Init /\ Signal!Init
    /\ call = "signals" => \A f \in AllFields : outcome[f] = "skip"
    /\ call = "parse" => n = CHOOSE k \in Sizes : \A j \in Sizes : k <= j

ParseStep == call = "parse" /\ Next /\ UNCHANGED <<call, signalVars>>
SignalStep == call = "signals" /\ Signal!Next /\ UNCHANGED <<call, vars>>

(* The fairness of both, each in its own behaviours.                       *)
MCSpec ==
    /\ MCInit /\ [][ParseStep \/ SignalStep]_<<call, vars, signalVars>>
    /\ WF_vars(ParseStep)
    /\ WF_signalVars(call = "signals" /\ \E k \in Signal!Levels : Signal!OrEnter(k) \/ Signal!OrDone(k))
    /\ WF_signalVars(call = "signals" /\ \E k \in Signal!Levels : Signal!AndNext(k))
-------------------------------------------------------------------------------
(* Parse returns, where it is called (EnvParse).                           *)
ParseEnds == call = "parse" => ParseReturns

(* OR and AND signal for a reason (CombineSignal).                         *)
SignalInv == Signal!SignalInv

(* OR and AND signal (CombineSignal).                                      *)
SignalsArrive == Signal!SignalsArrive
===============================================================================
