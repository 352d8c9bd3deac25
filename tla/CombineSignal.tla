----------------------------- MODULE CombineSignal -----------------------------
(***************************************************************************)
(* OR and AND of event/combine_signal.go, called on n channels each of     *)
(* which is closed at most once (its signal).  A call on two or more       *)
(* channels starts a goroutine and returns the channel the goroutine will  *)
(* close; on more than three the goroutine calls OR or AND again for the   *)
(* rest, so the goroutines form a chain of levels.                         *)
(*                                                                         *)
(* OR's select waits for any of its channels.  AND's select has a receive  *)
(* inside each send, and Go evaluates these receives one after the other   *)
(* before it selects: AND waits for its channels in turn.  The select that *)
(* follows sends to a buffered channel and never waits.                    *)
(***************************************************************************)
EXTENDS Integers, Sequences

CONSTANTS Sizes         (* how many channels OR and AND may be given, from 2 *)

VARIABLES n,            (* the number of channels                           *)
          fired,        (* the signals whose channels are closed            *)
          orPc,         (* orPc[k]: where the goroutine of OR at level k is *)
          andAt         (* andAt[k]: the operand AND waits for at level k:  *)
                        (* 0 before the goroutine starts, Ended at its end  *)

vars == <<n, fired, orPc, andAt>>

Levels == 0..n
Ended == 5
Signals == [i \in 1..n |-> <<"signal", i>>]
Nil == <<"nil">>

(* The channels OR is given at level k: the signals, and after them the    *)
(* orDone of each level before, without the three that each such level has *)
(* taken.  By its orDone the end of a level ends the inner ones.           *)
OrArgs(k) ==
    [i \in 1..(n - 2 * k) |->
        IF 3 * k + i <= n THEN <<"signal", 3 * k + i>> ELSE <<"or", 3 * k + i - n - 1>>]

AndArgsOneLess(k) ==            \* mutant: AND(channels[4:]...) for the rest
    IF k = 0 THEN Signals ELSE SubSeq(Signals, 3 * k + 2, n)

AndArgs(k) == SubSeq(Signals, 3 * k + 1, n)

(* What a call on channels args at level k of kind "or" or "and" returns.  *)
Result(args, kind, k) ==
    CASE Len(args) = 0 -> Nil
      [] Len(args) = 1 -> args[1]
      [] OTHER -> <<kind, k>>

(* The operands of the select at level k.                                  *)
OrOperands(k) ==
    IF Len(OrArgs(k)) = 2 THEN OrArgs(k)
    ELSE Append(SubSeq(OrArgs(k), 1, 3), Result(OrArgs(k + 1), "or", k + 1))

AndOperandsAnyRest(k) ==        \* mutant: AND ends with its first three channels
    IF Len(AndArgs(k)) = 2 THEN AndArgs(k) ELSE SubSeq(AndArgs(k), 1, 3)

AndOperands(k) ==
    IF Len(AndArgs(k)) = 2 THEN AndArgs(k)
    ELSE Append(SubSeq(AndArgs(k), 1, 3), Result(AndArgs(k + 1), "and", k + 1))

(* A receive from ch goes through: nobody sends, so ch must be closed.     *)
Closed(ch) ==
    \/ ch[1] = "signal" /\ ch[2] \in fired
    \/ ch[1] = "or" /\ orPc[ch[2]] = "done"
    \/ ch[1] = "and" /\ andAt[ch[2]] = Ended

TypeOK ==
    /\ n \in Sizes
    /\ fired \subseteq 1..n
    /\ orPc \in [Levels -> {"none", "started", "waiting", "done"}]
    /\ andAt \in [Levels -> 0..Ended]
    /\ \A k \in Levels : orPc[k] # "none" => Len(OrArgs(k)) > 1
    /\ \A k \in Levels : andAt[k] # 0 => Len(AndArgs(k)) > 1

(* OR and AND have been called on the n channels.                          *)
Init ==
    /\ n \in Sizes
    /\ fired = {}
    /\ orPc = [k \in Levels |-> IF k = 0 THEN "started" ELSE "none"]
    /\ andAt = [k \in Levels |-> IF k = 0 THEN 1 ELSE 0]

Fire(i) ==
    /\ i \notin fired
    /\ fired' = fired \cup {i}
    /\ UNCHANGED <<n, orPc, andAt>>

(* OR evaluates its operands, which calls OR on the rest.                  *)
OrEnter(k) ==
    /\ orPc[k] = "started"
    /\ orPc' = [orPc EXCEPT ![k] = "waiting",
                            ![k + 1] = IF Len(OrArgs(k)) > 2 /\ Len(OrArgs(k + 1)) > 1
                                       THEN "started" ELSE @]
    /\ UNCHANGED <<n, fired, andAt>>

OrDoneWithoutOuter(k) ==        \* mutant: orDone is not handed to the next level
    /\ orPc[k] = "waiting"
    /\ \E i \in DOMAIN OrOperands(k) :
           /\ Closed(OrOperands(k)[i])
           /\ OrOperands(k)[i] \notin {<<"or", j>> : j \in 0..(k - 1)}
    /\ orPc' = [orPc EXCEPT ![k] = "done"]
    /\ UNCHANGED <<n, fired, andAt>>

(* One of the operands is closed: OR closes orDone.                        *)
OrDone(k) ==
    /\ orPc[k] = "waiting"
    /\ \E i \in DOMAIN OrOperands(k) : Closed(OrOperands(k)[i])
    /\ orPc' = [orPc EXCEPT ![k] = "done"]
    /\ UNCHANGED <<n, fired, andAt>>

(* The operand AND waits for is closed.  It goes on to the next one, which *)
(* for the fourth calls AND on the rest, or closes andDone.                *)
AndNext(k) ==
    /\ andAt[k] \in 1..4
    /\ LET last == Len(AndOperands(k))
           rest == Len(AndArgs(k + 1))
       IN  /\ Closed(AndOperands(k)[andAt[k]])
           /\ andAt' = [andAt EXCEPT ![k] = IF @ = last THEN Ended ELSE @ + 1,
                                     ![k + 1] = IF andAt[k] = 3 /\ rest > 1 THEN 1 ELSE @]
    /\ UNCHANGED <<n, fired, orPc>>

Next == \/ \E i \in 1..n : Fire(i)
        \/ \E k \in Levels : OrEnter(k) \/ OrDone(k) \/ AndNext(k)

Spec == Init /\ [][Next]_vars

(* Every goroutine that can go on does; no signal has to come.             *)
FairSpec == Spec /\ WF_vars(\E k \in Levels : OrEnter(k) \/ OrDone(k))
                 /\ WF_vars(\E k \in Levels : AndNext(k))
-------------------------------------------------------------------------------
(* OR signals only after one of its channels, and AND only after all of    *)
(* them (combine_signal.go:16-27, 44-57), through every level.             *)
NoFalseSignal ==
    /\ Closed(<<"or", 0>>) => fired # {}
    /\ Closed(<<"and", 0>>) => fired = 1..n

(* combine_signal.go at every level: its goroutines are well typed, and    *)
(* the channel that OR or AND returns is closed only when a channel, or    *)
(* all channels, were (lines 16-27, 44-57).                                *)
SignalInv == TypeOK /\ NoFalseSignal

(* OR signals once one of its channels does (combine_signal.go:3), and no  *)
(* goroutine of OR waits for ever then, because each level is given the    *)
(* orDone of the one before (line 25).  "AND function combines all signal  *)
(* from channels into a single channel with And condition" (line 32): when *)
(* all have signalled, so does AND, unless nothing is left for its last    *)
(* level: AND of no channels is nil (line 36), and nobody ever receives    *)
(* from that.                                                              *)
SignalsArrive ==
    /\ fired # {} ~> \A k \in Levels : orPc[k] \in {"none", "done"}
    /\ fired = 1..n /\ n % 3 # 0 ~> Closed(<<"and", 0>>)
================================================================================
