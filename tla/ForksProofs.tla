------------------------------- MODULE ForksProofs -------------------------------
(***************************************************************************)
(* Proofs about the calls that leave goroutines of their own to do the     *)
(* work: OR and AND of event/combine_signal.go on any number of channels,  *)
(* and Parse of environment/parse.go on a struct with any number of        *)
(* fields, of structs inside it and of pointers to more, at any depth.     *)
(***************************************************************************)
EXTENDS MCForks, FiniteSetTheorems, TLAPS

(* The channels that OR and AND are given at a level, and how many.        *)
LEMMA OrArgsAre ==
  ASSUME NEW k \in Nat, n \in Nat, 2 * k <= n
  PROVE  /\ Len(Signal!OrArgs(k)) = n - 2 * k
         /\ DOMAIN Signal!OrArgs(k) = 1..(n - 2 * k)
         /\ \E S : Signal!OrArgs(k) \in Seq(S)
         /\ \A i \in 1..(n - 2 * k) :
                Signal!OrArgs(k)[i] = IF 3 * k + i <= n THEN <<"signal", 3 * k + i>>
                                      ELSE <<"or", 3 * k + i - n - 1>>
<1>1. n - 2 * k \in Nat
  OBVIOUS
<1>2. /\ Len(Signal!OrArgs(k)) = n - 2 * k
      /\ DOMAIN Signal!OrArgs(k) = 1..(n - 2 * k)
      /\ \A i \in 1..(n - 2 * k) :
             Signal!OrArgs(k)[i] = IF 3 * k + i <= n THEN <<"signal", 3 * k + i>>
                                   ELSE <<"or", 3 * k + i - n - 1>>
  BY <1>1 DEF Signal!OrArgs
<1>3. Signal!OrArgs(k) \in Seq({Signal!OrArgs(k)[i] : i \in 1..(n - 2 * k)})
  <2> DEFINE f == Signal!OrArgs(k)
             m == n - 2 * k
  <2>1. f = [i \in 1..m |-> f[i]] /\ m \in Nat
    BY <1>1 DEF Signal!OrArgs
  <2> HIDE DEF f, m
  <2>2. f \in Seq({f[i] : i \in 1..m})
    BY <2>1
  <2> QED
    BY <2>2 DEF f, m
<1> QED
  BY <1>2, <1>3, Zenon

(* What is left for no further level is no channel.                        *)
LEMMA NoOrArgs ==
  ASSUME NEW k \in Nat, n \in Nat, 2 * k > n
  PROVE  Len(Signal!OrArgs(k)) = 0
<1>1. 1..(n - 2 * k) = 1..0
  OBVIOUS
<1>2. Signal!OrArgs(k) = [i \in 1..0 |-> IF 3 * k + i <= n THEN <<"signal", 3 * k + i>>
                                         ELSE <<"or", 3 * k + i - n - 1>>]
  BY <1>1, Zenon DEF Signal!OrArgs
<1> QED
  BY <1>2

LEMMA ResultOf ==
  ASSUME NEW args, NEW kind, NEW k
  PROVE  /\ Len(args) = 0 => Signal!Result(args, kind, k) = Signal!Nil
         /\ Len(args) = 1 => Signal!Result(args, kind, k) = args[1]
         /\ Len(args) \notin {0, 1} => Signal!Result(args, kind, k) = <<kind, k>>
BY DEF Signal!Result

LEMMA AndArgsAre ==
  ASSUME NEW k \in Nat, n \in Nat
  PROVE  /\ 3 * k <= n => Len(Signal!AndArgs(k)) = n - 3 * k
         /\ 3 * k > n => Len(Signal!AndArgs(k)) = 0
         /\ \A i \in 1..(n - 3 * k) : Signal!AndArgs(k)[i] = <<"signal", 3 * k + i>>
<1>1. Signal!Signals \in Seq({<<"signal", i>> : i \in Nat}) /\ Len(Signal!Signals) = n
      /\ \A i \in 1..n : Signal!Signals[i] = <<"signal", i>>
  BY DEF Signal!Signals
<1>2. Signal!AndArgs(k) = [i \in 1..(n - 3 * k) |-> Signal!Signals[i + 3 * k]]
  BY <1>1 DEF Signal!AndArgs
<1> QED
  BY <1>1, <1>2 DEF Signal!AndArgs

LEMMA AndArgsSeq ==
  ASSUME NEW k \in Nat, n \in Nat
  PROVE  \E S : Signal!AndArgs(k) \in Seq(S)
<1>1. Signal!Signals \in Seq({<<"signal", i>> : i \in Nat}) /\ Len(Signal!Signals) = n
  BY DEF Signal!Signals
<1>2. Signal!AndArgs(k) \in Seq({<<"signal", i>> : i \in Nat})
  BY <1>1 DEF Signal!AndArgs
<1> QED
  BY <1>2

(* What OR waits for is a channel, or what a level of OR closes; and so    *)
(* for AND.                                                                *)
LEMMA OrWaitsFor ==
  ASSUME n \in Nat, NEW k \in Signal!Levels, Len(Signal!OrArgs(k)) > 1,
         NEW i \in DOMAIN Signal!OrOperands(k)
  PROVE  \/ \E j \in 1..n : Signal!OrOperands(k)[i] = <<"signal", j>>
         \/ \E j \in Signal!Levels : Signal!OrOperands(k)[i] = <<"or", j>>
         \/ Signal!OrOperands(k)[i] = Signal!Nil
<1> DEFINE Known(c) == \/ \E j \in 1..n : c = <<"signal", j>>
                       \/ \E j \in Signal!Levels : c = <<"or", j>>
                       \/ c = Signal!Nil
<1>1. k \in Nat /\ n \in Nat
  BY DEF Signal!Levels
<1>2. 2 * k <= n /\ Len(Signal!OrArgs(k)) = n - 2 * k
  <2>1. CASE 2 * k <= n
    BY <1>1, <2>1, OrArgsAre
  <2>2. CASE 2 * k > n
    <3>1. Len(Signal!OrArgs(k)) = 0
      BY <1>1, <2>2, NoOrArgs
    <3> QED
      BY <3>1
  <2> QED
    BY <1>1, <2>1, <2>2
<1>3. ASSUME NEW l \in Nat, 2 * l <= n, NEW j \in 1..(n - 2 * l)
      PROVE  Known(Signal!OrArgs(l)[j])
  <2>1. CASE 3 * l + j <= n
    <3>1. Signal!OrArgs(l)[j] = <<"signal", 3 * l + j>>
      BY <1>1, <1>3, <2>1, OrArgsAre, Zenon
    <3>2. 3 * l + j \in 1..n
      BY <1>1, <1>3, <2>1
    <3> QED
      BY <3>1, <3>2
  <2>2. CASE ~(3 * l + j <= n)
    <3>1. Signal!OrArgs(l)[j] = <<"or", 3 * l + j - n - 1>>
      BY <1>1, <1>3, <2>2, OrArgsAre
    <3>2. 3 * l + j - n - 1 \in Signal!Levels
      BY <1>1, <1>3, <2>2 DEF Signal!Levels
    <3> QED
      BY <3>1, <3>2
  <2> QED
    BY <2>1, <2>2
<1>4. CASE n - 2 * k = 2
  <2>1. Signal!OrOperands(k) = Signal!OrArgs(k)
    BY <1>2, <1>4 DEF Signal!OrOperands
  <2>2. i \in 1..(n - 2 * k)
    BY <1>1, <1>2, <2>1, OrArgsAre
  <2> HIDE DEF Known
  <2>3. Known(Signal!OrOperands(k)[i])
    BY <1>1, <1>2, <1>3, <2>1, <2>2
  <2> QED
    BY <2>3 DEF Known
<1>5. CASE n - 2 * k > 2
  <2> DEFINE rest == Signal!Result(Signal!OrArgs(k + 1), "or", k + 1)
  <2>1. Signal!OrOperands(k) = Append(SubSeq(Signal!OrArgs(k), 1, 3), rest)
    BY <1>2, <1>5 DEF Signal!OrOperands
  <2>2. k + 1 \in Nat /\ 2 * (k + 1) <= n /\ k + 1 \in Signal!Levels
    BY <1>1, <1>5 DEF Signal!Levels
  <2>3. Known(rest)
    <3>1. Len(Signal!OrArgs(k + 1)) = n - 2 * (k + 1)
      BY <1>1, <2>2, OrArgsAre
    <3>2. CASE n - 2 * (k + 1) = 1
      <4>1. rest = Signal!OrArgs(k + 1)[1]
        BY <3>1, <3>2, ResultOf
      <4>2. 1 \in 1..(n - 2 * (k + 1))
        BY <3>2
      <4> HIDE DEF rest, Known
      <4> QED
        BY <1>3, <2>2, <4>1, <4>2
    <3>3. CASE n - 2 * (k + 1) # 1
      <4>1. rest = <<"or", k + 1>> \/ rest = Signal!Nil
        BY <3>1, <3>3, ResultOf
      <4> QED
        BY <2>2, <4>1
    <3> QED
      BY <3>2, <3>3
  <2> HIDE DEF rest
  <2>4. /\ Len(SubSeq(Signal!OrArgs(k), 1, 3)) = 3
        /\ \A j \in 1..3 : SubSeq(Signal!OrArgs(k), 1, 3)[j] = Signal!OrArgs(k)[j]
    BY <1>1, <1>2, <1>5, OrArgsAre
  <2>5. i \in 1..4 /\ Signal!OrOperands(k)[i] = IF i = 4 THEN rest ELSE Signal!OrArgs(k)[i]
    BY <2>1, <2>4
  <2> HIDE DEF Known
  <2>6. CASE i = 4
    BY <2>3, <2>5, <2>6 DEF Known
  <2>7. CASE i # 4
    <3>1. i \in 1..(n - 2 * k)
      BY <1>1, <1>5, <2>5, <2>7
    <3>2. Known(Signal!OrArgs(k)[i])
      BY <1>1, <1>2, <1>3, <3>1
    <3> QED
      BY <2>5, <2>7, <3>2 DEF Known
  <2> QED
    BY <2>6, <2>7
<1> QED
  BY <1>1, <1>2, <1>4, <1>5

LEMMA AndWaitsFor ==
  ASSUME n \in Nat, NEW k \in Signal!Levels, Len(Signal!AndArgs(k)) > 1
  PROVE  /\ 3 * k + 2 <= n
         /\ \/ /\ 3 * k + 2 = n
               /\ Len(Signal!AndOperands(k)) = 2
            \/ /\ 3 * k + 2 < n
               /\ Len(Signal!AndOperands(k)) = 4
               /\ \/ Signal!AndOperands(k)[4] = Signal!Nil
                  \/ Signal!AndOperands(k)[4] = <<"signal", n>> /\ 3 * k + 4 = n
                  \/ Signal!AndOperands(k)[4] = <<"and", k + 1>> /\ k + 1 \in Signal!Levels
         /\ \A i \in 1..3 : i <= Len(Signal!AndOperands(k)) =>
                Signal!AndOperands(k)[i] = <<"signal", 3 * k + i>>
<1>1. k \in Nat /\ n \in Nat /\ k + 1 \in Nat
  BY DEF Signal!Levels
<1>2. 3 * k + 2 <= n /\ Len(Signal!AndArgs(k)) = n - 3 * k
  BY <1>1, AndArgsAre
<1>3. CASE 3 * k + 2 = n
  <2>1. Len(Signal!AndArgs(k)) = 2
    BY <1>1, <1>2, <1>3
  <2>2. Signal!AndOperands(k) = Signal!AndArgs(k)
    BY <2>1, Zenon DEF Signal!AndOperands
  <2>3. \A i \in 1..2 : Signal!AndArgs(k)[i] = <<"signal", 3 * k + i>>
    <3>1. 1..2 = 1..(n - 3 * k)
      BY <1>1, <1>3
    <3> QED
      BY <1>1, <3>1, AndArgsAre, Zenon
  <2> QED
    BY <1>1, <1>2, <1>3, <2>1, <2>2, <2>3
<1>4. CASE 3 * k + 2 < n
  <2> DEFINE rest == Signal!Result(Signal!AndArgs(k + 1), "and", k + 1)
  <2>1. Signal!AndOperands(k) = Append(SubSeq(Signal!AndArgs(k), 1, 3), rest)
    <3>1. Len(Signal!AndArgs(k)) # 2
      BY <1>1, <1>2, <1>4
    <3> QED
      BY <3>1, Zenon DEF Signal!AndOperands
  <2>2. \/ rest = Signal!Nil
        \/ rest = <<"signal", n>> /\ 3 * k + 4 = n
        \/ rest = <<"and", k + 1>> /\ k + 1 \in Signal!Levels
    <3>1. Len(Signal!AndArgs(k + 1)) = n - 3 * (k + 1)
      BY <1>1, <1>4, AndArgsAre
    <3>2. CASE n - 3 * (k + 1) = 0
      BY <3>1, <3>2, ResultOf
    <3>3. CASE n - 3 * (k + 1) = 1
      <4>1. rest = Signal!AndArgs(k + 1)[1]
        BY <3>1, <3>3, ResultOf
      <4>2. Signal!AndArgs(k + 1)[1] = <<"signal", 3 * (k + 1) + 1>>
        BY <1>1, <3>3, AndArgsAre
      <4>3. 3 * (k + 1) + 1 = n /\ 3 * k + 4 = n
        BY <1>1, <3>3
      <4> QED
        BY <4>1, <4>2, <4>3
    <3>4. CASE n - 3 * (k + 1) \notin {0, 1}
      <4>1. rest = <<"and", k + 1>>
        BY <3>1, <3>4, ResultOf
      <4>2. k + 1 \in Signal!Levels
        BY <1>1, <1>4 DEF Signal!Levels
      <4> QED
        BY <4>1, <4>2
    <3> QED
      BY <3>2, <3>3, <3>4
  <2> HIDE DEF rest
  <2>3. /\ Len(SubSeq(Signal!AndArgs(k), 1, 3)) = 3
        /\ \A j \in 1..3 : SubSeq(Signal!AndArgs(k), 1, 3)[j] = <<"signal", 3 * k + j>>
    <3>1. \E S : Signal!AndArgs(k) \in Seq(S)
      BY <1>1, AndArgsSeq
    <3>2. \A j \in 1..3 : Signal!AndArgs(k)[j] = <<"signal", 3 * k + j>>
      BY <1>1, <1>4, AndArgsAre
    <3> QED
      BY <1>1, <1>2, <1>4, <3>1, <3>2
  <2>4. /\ Len(Signal!AndOperands(k)) = 4
        /\ Signal!AndOperands(k)[4] = rest
        /\ \A i \in 1..3 : Signal!AndOperands(k)[i] = <<"signal", 3 * k + i>>
    BY <2>1, <2>3
  <2> QED
    BY <1>2, <1>4, <2>2, <2>4
<1> QED
  BY <1>1, <1>2, <1>3, <1>4

(* A level of OR that has ended saw a channel close; a level of AND has    *)
(* seen all channels close that come before what it waits for, and all of  *)
(* its own when it has ended.                                              *)
LevelsInv ==
    /\ \A k \in Signal!Levels : orPc[k] = "done" => fired # {}
    /\ \A k \in Signal!Levels : andAt[k] \in 1..4 =>
           /\ andAt[k] <= Len(Signal!AndOperands(k))
           /\ \A i \in 1..n : 3 * k < i /\ i < 3 * k + andAt[k] => i \in fired
    /\ \A k \in Signal!Levels : andAt[k] = Signal!Ended => \A i \in 1..n : 3 * k < i => i \in fired

SignalsInv == Signal!TypeOK /\ LevelsInv

LEMMA InitSignals == Signal!Init => SignalsInv
<1> SUFFICES ASSUME Signal!Init PROVE SignalsInv
  OBVIOUS
<1>1. n \in Sizes /\ n \in Nat /\ n > 1
  BY MCForksAssumption DEF Signal!Init, MCForksAssumption
<1>2. 0 \in Signal!Levels /\ Len(Signal!OrArgs(0)) = n /\ Len(Signal!AndArgs(0)) = n
  BY <1>1, OrArgsAre, AndArgsAre DEF Signal!Levels
<1>3. Signal!TypeOK
  BY <1>1, <1>2, SMT DEF Signal!Init, Signal!TypeOK, Signal!Ended
<1>4. ASSUME NEW k \in Signal!Levels
      PROVE  /\ orPc[k] # "done" /\ andAt[k] # Signal!Ended
             /\ andAt[k] \in 1..4 => k = 0 /\ andAt[k] = 1
  BY DEF Signal!Init, Signal!Ended
<1>5. 1 <= Len(Signal!AndOperands(0))
  BY <1>1, <1>2, AndWaitsFor
<1>6. ASSUME NEW i \in 1..n, 3 * 0 < i, i < 3 * 0 + 1
      PROVE  FALSE
  BY <1>6
<1> QED
  BY <1>3, <1>4, <1>5, <1>6 DEF SignalsInv, LevelsInv

LEMMA StepSignals ==
  ASSUME SignalsInv, [Signal!Next]_signalVars
  PROVE  SignalsInv'
<1>1. /\ n \in Sizes /\ n \in Nat /\ n > 1
      /\ fired \subseteq 1..n
      /\ orPc \in [Signal!Levels -> {"none", "started", "waiting", "done"}]
      /\ andAt \in [Signal!Levels -> 0..5]
      /\ \A k \in Signal!Levels : orPc[k] # "none" => Len(Signal!OrArgs(k)) > 1
      /\ \A k \in Signal!Levels : andAt[k] # 0 => Len(Signal!AndArgs(k)) > 1
  BY MCForksAssumption DEF SignalsInv, Signal!TypeOK, Signal!Ended, MCForksAssumption
<1>2. ASSUME n' = n
      PROVE  /\ Signal!Levels' = Signal!Levels
             /\ \A k : /\ Signal!OrArgs(k)' = Signal!OrArgs(k)
                       /\ Signal!AndArgs(k)' = Signal!AndArgs(k)
                       /\ Signal!AndOperands(k)' = Signal!AndOperands(k)
  <2>1. Signal!Levels' = Signal!Levels
    BY <1>2, Zenon DEF Signal!Levels
  <2>2. \A k : Signal!OrArgs(k)' = Signal!OrArgs(k)
    BY <1>2 DEF Signal!OrArgs
  <2>3. \A k : Signal!AndArgs(k)' = Signal!AndArgs(k)
    BY <1>2 DEF Signal!AndArgs, Signal!Signals
  <2>4. \A k : Signal!AndOperands(k)' = Signal!AndOperands(k)
    <3> TAKE k
    <3>1. Signal!AndArgs(k)' = Signal!AndArgs(k) /\ Signal!AndArgs(k + 1)' = Signal!AndArgs(k + 1)
      BY <2>3
    <3> QED
      BY <3>1 DEF Signal!AndOperands, Signal!Result, Signal!Nil
  <2> QED
    BY <2>1, <2>2, <2>3, <2>4
<1>3. ASSUME NEW j \in 1..n, Signal!Fire(j)
      PROVE  SignalsInv'
  <2>1. fired' = fired \cup {j} /\ n' = n /\ orPc' = orPc /\ andAt' = andAt
    BY <1>3 DEF Signal!Fire
  <2>2. Signal!TypeOK'
    BY <1>1, <1>2, <2>1 DEF Signal!TypeOK, Signal!Ended
  <2>3. LevelsInv'
    BY <1>2, <2>1 DEF SignalsInv, LevelsInv, Signal!Ended
  <2> QED
    BY <2>2, <2>3 DEF SignalsInv
<1>4. ASSUME NEW k \in Signal!Levels, Signal!OrEnter(k)
      PROVE  SignalsInv'
  <2>1. /\ orPc[k] = "started" /\ n' = n /\ fired' = fired /\ andAt' = andAt
        /\ orPc' = [orPc EXCEPT ![k] = "waiting",
                                ![k + 1] = IF Len(Signal!OrArgs(k)) > 2 /\ Len(Signal!OrArgs(k + 1)) > 1
                                           THEN "started" ELSE @]
    BY <1>4, Zenon DEF Signal!OrEnter
  <2>2. k # k + 1
    BY <1>1 DEF Signal!Levels
  <2>3. ASSUME NEW j \in Signal!Levels
        PROVE  /\ orPc'[j] \in {"none", "started", "waiting", "done"}
               /\ orPc'[j] # "none" => Len(Signal!OrArgs(j)) > 1
               /\ orPc'[j] = "done" => orPc[j] = "done"
    BY <1>1, <2>1, <2>2
  <2>4. orPc' \in [Signal!Levels -> {"none", "started", "waiting", "done"}]
    BY <1>1, <2>1, <2>3
  <2>5. Signal!TypeOK'
    BY <1>1, <1>2, <2>1, <2>3, <2>4 DEF Signal!TypeOK, Signal!Ended
  <2>6. LevelsInv'
    BY <1>2, <2>1, <2>3 DEF SignalsInv, LevelsInv, Signal!Ended
  <2> QED
    BY <2>5, <2>6 DEF SignalsInv
<1>5. ASSUME NEW k \in Signal!Levels, Signal!OrDone(k)
      PROVE  SignalsInv'
  <2>1. /\ orPc[k] = "waiting" /\ n' = n /\ fired' = fired /\ andAt' = andAt
        /\ orPc' = [orPc EXCEPT ![k] = "done"]
    BY <1>5 DEF Signal!OrDone
  <2>2. PICK i \in DOMAIN Signal!OrOperands(k) : Signal!Closed(Signal!OrOperands(k)[i])
    BY <1>5 DEF Signal!OrDone
  <2>3. fired # {}
    <3>1. \/ \E j \in 1..n : Signal!OrOperands(k)[i] = <<"signal", j>>
          \/ \E j \in Signal!Levels : Signal!OrOperands(k)[i] = <<"or", j>>
          \/ Signal!OrOperands(k)[i] = Signal!Nil
      BY <1>1, <2>1, OrWaitsFor
    <3>2. CASE \E j \in 1..n : Signal!OrOperands(k)[i] = <<"signal", j>>
      BY <2>2, <3>2 DEF Signal!Closed
    <3>3. CASE \E j \in Signal!Levels : Signal!OrOperands(k)[i] = <<"or", j>>
      BY <2>2, <3>3 DEF Signal!Closed, SignalsInv, LevelsInv
    <3>4. CASE Signal!OrOperands(k)[i] = Signal!Nil
      BY <2>2, <3>4 DEF Signal!Closed, Signal!Nil
    <3> QED
      BY <3>1, <3>2, <3>3, <3>4
  <2>4. Signal!TypeOK'
    BY <1>1, <1>2, <2>1 DEF Signal!TypeOK, Signal!Ended
  <2>5. LevelsInv'
    BY <1>2, <2>1, <2>3 DEF SignalsInv, LevelsInv, Signal!Ended
  <2> QED
    BY <2>4, <2>5 DEF SignalsInv
<1>6. ASSUME NEW k \in Signal!Levels, Signal!AndNext(k)
      PROVE  SignalsInv'
  <2> DEFINE last == Len(Signal!AndOperands(k))
             rest == Len(Signal!AndArgs(k + 1))
  <2>1. /\ andAt[k] \in 1..4 /\ n' = n /\ fired' = fired /\ orPc' = orPc
        /\ Signal!Closed(Signal!AndOperands(k)[andAt[k]])
        /\ andAt' = [andAt EXCEPT ![k] = IF @ = last THEN Signal!Ended ELSE @ + 1,
                                  ![k + 1] = IF andAt[k] = 3 /\ rest > 1 THEN 1 ELSE @]
    BY <1>6, Zenon DEF Signal!AndNext
  <2>2. k \in Nat /\ k # k + 1
    BY <1>1 DEF Signal!Levels
  <2>3. /\ Len(Signal!AndArgs(k)) > 1
        /\ andAt[k] <= last
        /\ \A i \in 1..n : 3 * k < i /\ i < 3 * k + andAt[k] => i \in fired
    BY <1>1, <2>1 DEF SignalsInv, LevelsInv
  <2>4. /\ 3 * k + 2 <= n
        /\ (last = 2 /\ 3 * k + 2 = n) \/ last = 4
        /\ \A i \in 1..3 : i <= last => Signal!AndOperands(k)[i] = <<"signal", 3 * k + i>>
    BY <1>1, <2>3, AndWaitsFor
  <2>5. ASSUME andAt[k] < 4
        PROVE  3 * k + andAt[k] \in fired
    <3>1. Signal!AndOperands(k)[andAt[k]] = <<"signal", 3 * k + andAt[k]>>
      BY <2>1, <2>3, <2>4, <2>5
    <3> QED
      BY <2>1, <3>1 DEF Signal!Closed
  <2>6. ASSUME andAt[k] = last, NEW i \in 1..n, 3 * k < i
        PROVE  i \in fired
    <3>1. CASE last = 2 /\ 3 * k + 2 = n
      <4>1. i < 3 * k + andAt[k] \/ i = 3 * k + andAt[k]
        BY <1>1, <2>2, <2>6, <3>1
      <4> QED
        BY <2>1, <2>3, <2>5, <2>6, <3>1, <4>1
    <3>2. CASE last = 4
      <4>1. ASSUME i < 3 * k + 4
            PROVE  i \in fired
        BY <2>3, <2>6, <3>2, <4>1
      <4>2. \/ Signal!AndOperands(k)[4] = Signal!Nil
            \/ Signal!AndOperands(k)[4] = <<"signal", n>> /\ 3 * k + 4 = n
            \/ Signal!AndOperands(k)[4] = <<"and", k + 1>> /\ k + 1 \in Signal!Levels
        BY <1>1, <2>3, <3>2, AndWaitsFor
      <4>3. Signal!Closed(Signal!AndOperands(k)[4])
        BY <2>1, <2>6, <3>2
      <4>4. CASE Signal!AndOperands(k)[4] = Signal!Nil
        BY <4>3, <4>4 DEF Signal!Closed, Signal!Nil
      <4>5. CASE Signal!AndOperands(k)[4] = <<"signal", n>> /\ 3 * k + 4 = n
        <5>1. n \in fired
          BY <4>3, <4>5 DEF Signal!Closed
        <5>2. i < 3 * k + 4 \/ i = n
          BY <1>1, <2>2, <4>5
        <5> QED
          BY <4>1, <5>1, <5>2
      <4>6. CASE Signal!AndOperands(k)[4] = <<"and", k + 1>> /\ k + 1 \in Signal!Levels
        <5>1. andAt[k + 1] = Signal!Ended
          BY <4>3, <4>6 DEF Signal!Closed
        <5>2. 3 * (k + 1) < i \/ i < 3 * k + 4
          BY <1>1, <2>2
        <5> QED
          BY <4>1, <4>6, <5>1, <5>2 DEF SignalsInv, LevelsInv
      <4> QED
        BY <4>2, <4>4, <4>5, <4>6
    <3> QED
      BY <2>4, <3>1, <3>2
  <2>7. ASSUME NEW j \in Signal!Levels
        PROVE  \/ j = k /\ andAt[k] = last /\ andAt'[j] = Signal!Ended
               \/ j = k /\ andAt[k] < last /\ andAt'[j] = andAt[k] + 1
               \/ j = k + 1 /\ Len(Signal!AndArgs(j)) > 1 /\ andAt'[j] = 1
               \/ j # k /\ andAt'[j] = andAt[j]
    <3>1. CASE j = k
      <4>1. andAt'[j] = IF andAt[k] = last THEN Signal!Ended ELSE andAt[k] + 1
        BY <1>1, <2>1, <2>2, <3>1
      <4>2. andAt[k] < last \/ andAt[k] = last
        BY <2>1, <2>3, <2>4
      <4> QED
        BY <3>1, <4>1, <4>2
    <3>2. CASE j # k
      <4>1. andAt'[j] = andAt[j] \/ (j = k + 1 /\ rest > 1 /\ andAt'[j] = 1)
        BY <1>1, <2>1, <2>2, <3>2
      <4> QED
        BY <3>2, <4>1
    <3> QED
      BY <3>1, <3>2
  <2>8. Signal!TypeOK'
    <3>1. \A j \in Signal!Levels : andAt'[j] \in 0..5 /\ (andAt'[j] # 0 => Len(Signal!AndArgs(j)) > 1)
      <4> TAKE j \in Signal!Levels
      <4>1. \/ j = k /\ andAt'[j] \in {5, andAt[k] + 1}
            \/ andAt'[j] = 1 /\ Len(Signal!AndArgs(j)) > 1
            \/ andAt'[j] = andAt[j]
        BY <2>7 DEF Signal!Ended
      <4> QED
        BY <1>1, <2>1, <2>3, <4>1
    <3>2. andAt' \in [Signal!Levels -> 0..5]
      BY <1>1, <2>1, <3>1
    <3> QED
      BY <1>1, <1>2, <2>1, <3>1, <3>2 DEF Signal!TypeOK, Signal!Ended
  <2> HIDE DEF last
  <2>9. LevelsInv'
    <3>1. ASSUME NEW j \in Signal!Levels, andAt'[j] \in 1..4
          PROVE  /\ andAt'[j] <= Len(Signal!AndOperands(j))
                 /\ \A i \in 1..n : 3 * j < i /\ i < 3 * j + andAt'[j] => i \in fired
      <4>1. CASE j = k /\ andAt[k] < last /\ andAt'[j] = andAt[k] + 1
        <5>1. andAt'[j] <= last
          BY <2>1, <2>4, <4>1
        <5>2. ASSUME NEW i \in 1..n, 3 * k < i, i < 3 * k + andAt'[j]
              PROVE  i \in fired
          <6>1. i < 3 * k + andAt[k] \/ i = 3 * k + andAt[k]
            BY <1>1, <2>1, <2>2, <4>1, <5>2
          <6>2. andAt[k] < 4
            BY <2>1, <2>4, <4>1
          <6> QED
            BY <2>3, <2>5, <5>2, <6>1, <6>2
        <5> QED
          BY <4>1, <5>1, <5>2 DEF last
      <4>2. CASE j = k + 1 /\ Len(Signal!AndArgs(j)) > 1 /\ andAt'[j] = 1
        <5>1. 1 <= Len(Signal!AndOperands(j))
          BY <1>1, <4>2, AndWaitsFor
        <5>2. ASSUME NEW i \in 1..n, 3 * j < i, i < 3 * j + 1
              PROVE  FALSE
          <6>1. j \in Nat
            BY <1>1 DEF Signal!Levels
          <6> QED
            BY <1>1, <5>2, <6>1
        <5> QED
          BY <4>2, <5>1, <5>2
      <4>3. CASE andAt'[j] = andAt[j]
        BY <3>1, <4>3 DEF SignalsInv, LevelsInv
      <4> QED
        BY <2>7, <3>1, <4>1, <4>2, <4>3 DEF Signal!Ended
    <3>2. ASSUME NEW j \in Signal!Levels, andAt'[j] = Signal!Ended, NEW i \in 1..n, 3 * j < i
          PROVE  i \in fired
      <4>1. CASE j = k /\ andAt[k] = last
        BY <2>6, <3>2, <4>1 DEF last
      <4>2. CASE andAt'[j] = andAt[j]
        BY <3>2, <4>2 DEF SignalsInv, LevelsInv
      <4>3. andAt'[j] # andAt[k] + 1 \/ andAt[k] = 4
        BY <2>1, <3>2 DEF Signal!Ended
      <4>4. ~(andAt[k] = 4 /\ andAt[k] < last)
        BY <2>4
      <4> QED
        BY <2>7, <3>2, <4>1, <4>2, <4>3, <4>4 DEF Signal!Ended
    <3> QED
      BY <1>2, <2>1, <3>1, <3>2 DEF SignalsInv, LevelsInv, Signal!Ended
  <2> QED
    BY <2>8, <2>9 DEF SignalsInv
<1>7. ASSUME UNCHANGED signalVars
      PROVE  SignalsInv'
  BY <1>1, <1>2, <1>7 DEF signalVars, SignalsInv, LevelsInv, Signal!TypeOK, Signal!Ended
<1> QED
  BY <1>3, <1>4, <1>5, <1>6, <1>7 DEF Signal!Next

(* For any number of channels, closed in any order, OR's channel is closed *)
(* only after one of them, and AND's only after all, through all levels of *)
(* goroutines (combine_signal.go:16-27, 44-57).                            *)
THEOREM SignalsAreRight == Signal!Spec => []SignalInv
<1>1. SignalsInv => SignalInv
  <2> SUFFICES ASSUME SignalsInv PROVE Signal!NoFalseSignal
    BY DEF SignalInv, Signal!SignalInv, SignalsInv
  <2>1. n \in Nat /\ 0 \in Signal!Levels /\ fired \subseteq 1..n
    BY MCForksAssumption DEF SignalsInv, Signal!TypeOK, Signal!Levels, MCForksAssumption
  <2>2. Signal!Closed(<<"or", 0>>) => orPc[0] = "done"
    BY DEF Signal!Closed
  <2>3. Signal!Closed(<<"and", 0>>) => andAt[0] = Signal!Ended
    BY DEF Signal!Closed
  <2>4. ASSUME andAt[0] = Signal!Ended
        PROVE  fired = 1..n
    <3>1. \A i \in 1..n : 3 * 0 < i => i \in fired
      BY <2>1, <2>4 DEF SignalsInv, LevelsInv
    <3>2. \A i \in 1..n : 3 * 0 < i
      BY <2>1
    <3> QED
      BY <2>1, <3>1, <3>2
  <2> QED
    BY <2>1, <2>2, <2>3, <2>4 DEF Signal!NoFalseSignal, SignalsInv, LevelsInv
<1>2. SignalsInv /\ [Signal!Next]_Signal!vars => SignalsInv'
  BY StepSignals, Zenon DEF Signal!vars, signalVars
<1> QED
  BY InitSignals, <1>1, <1>2, PTL DEF Signal!Spec
-------------------------------------------------------------------------------

(* Where the field of a struct is; whether its parent has come to it.      *)
Place(s) == PlaceOf(s)[2]
Ended(s) == pc[s] \in {"storing", "done"}
Started(s) == Place(s) < at[Parent(s)] \/ (Place(s) = at[Parent(s)] /\ Ended(Parent(s)))

Children(p) == {k \in Structs \ {Root} : Parent(k) = p}
Running(p) == {k \in Children(p) : pc[k] \in {"scanning", "storing"}}

(* What the scan of s returns when its fields and goroutines are done.     *)
Pick(s) == IF "type" \in errs[s].pointerErr THEN errs[s].pointerErr ELSE errs[s].structErr

(* The goroutines of a struct are those of the fields its scan has come    *)
(* to, and its WaitGroup counts the ones that have not ended.              *)
TreeInv ==
    /\ pc[Root] \in {"scanning", "done"}
    /\ \A s \in Structs \ {Root} : pc[s] = "idle" <=> ~Started(s)
    /\ \A s \in Structs : wg[s] = Cardinality(Running(s))

(* A scan has passed over the fields that did not fail, and set those that *)
(* are set.  It ends at the first that fails, or when all its goroutines   *)
(* have ended, with the error it has then found.                           *)
ScanInv ==
    /\ \A s \in Structs : \A i \in DOMAIN Fields[s] :
           /\ i < at[s] => outcome[<<s, i>>] # "fail"
           /\ <<s, i>> \in written <=> i < at[s] /\ outcome[<<s, i>>] = "set"
    /\ \A s \in Structs :
           \/ ~Ended(s) /\ ret[s] = {}
           \/ at[s] <= Len(Fields[s]) /\ outcome[<<s, at[s]>>] = "fail" /\ ret[s] = Words /\ Ended(s)
           \/ at[s] > Len(Fields[s]) /\ ret[s] = Pick(s) /\ (\A k \in Children(s) : pc[k] = "done") /\ Ended(s)

(* What is in an error variable was returned by a goroutine that assigns   *)
(* it; one that has the variable for itself finds there what it stored.    *)
ErrsInv ==
    /\ \A k \in Structs \ {Root} : pc[k] = "done" => left[k] = {}
    /\ \A p \in Structs : \A v \in {"pointerErr", "structErr"} : \A w \in errs[p][v] :
           \E k \in Children(p) : Slot(k) = v /\ w \in ret[k]
    /\ \A k \in Structs \ {Root} :
           ~Shares(k) /\ Ended(k) =>
               \A w \in Words \ left[k] : w \in errs[Parent(k)][Slot(k)] <=> w \in ret[k]

(* Errors are whole where no two goroutines assign one variable.           *)
RetInv ==
    \A s \in Structs :
        ret[s] \in {{}, Words} \/ \E k \in Structs \ {Root} : Shares(k) /\ ret[k] # {}

ResultInv ==
    /\ result = "none" <=> pc[Root] # "done"
    /\ Passed => "type" \notin ret[Root]
    /\ result = "scan error" => "type" \in ret[Root]

ParsingInv ==
    /\ TypeOK /\ at \in [Structs -> Nat]
    /\ TreeInv /\ ScanInv /\ ErrsInv /\ RetInv /\ ResultInv

(* Every struct but Root is the child of the field at its place and of no  *)
(* other, and no struct is its own parent.                                 *)
LEMMA FieldIs ==
  ASSUME NEW p \in Structs, NEW i \in DOMAIN Fields[p]
  PROVE  /\ i \in 1..Len(Fields[p]) /\ i \in Nat /\ Len(Fields[p]) \in Nat
         /\ <<p, i>> \in AllFields
         /\ Child(<<p, i>>) = Fields[p][i].child
         /\ Fields[p][i].child \in (Structs \ {Root}) \cup {None}
         /\ Fields[p][i].pointer \in BOOLEAN
<1>1. Fields[p] \in Seq([child : (Structs \ {Root}) \cup {None}, pointer : BOOLEAN])
  BY EnvParseAssumption DEF EnvParseAssumption
<1>2. i \in 1..Len(Fields[p]) /\ Len(Fields[p]) \in Nat
  BY <1>1
<1>3. Fields[p][i] \in [child : (Structs \ {Root}) \cup {None}, pointer : BOOLEAN]
  <2> DEFINE R == [child : (Structs \ {Root}) \cup {None}, pointer : BOOLEAN]
  <2>1. Fields[p] \in Seq(R)
    BY <1>1
  <2> HIDE DEF R
  <2>2. Fields[p][i] \in R
    BY <1>2, <2>1
  <2> QED
    BY <2>2 DEF R
<1>4. <<p, i>> \in AllFields
  BY DEF AllFields, FieldsOf
<1>5. <<p, i>>[1] = p /\ <<p, i>>[2] = i
  OBVIOUS
<1> QED
  BY <1>2, <1>3, <1>4, <1>5 DEF Child

LEMMA PlaceIs ==
  ASSUME NEW s \in Structs \ {Root}
  PROVE  /\ Parent(s) \in Structs
         /\ Place(s) \in DOMAIN Fields[Parent(s)]
         /\ Fields[Parent(s)][Place(s)].child = s
         /\ \A p \in Structs : \A i \in DOMAIN Fields[p] :
                Fields[p][i].child = s => p = Parent(s) /\ i = Place(s)
         /\ Parent(s) # s
<1>1. PICK f \in AllFields : \A g \in AllFields : Child(g) = s <=> g = f
  BY EnvParseAssumption, Zenon DEF EnvParseAssumption
<1>2. PlaceOf(s) \in AllFields /\ \A g \in AllFields : Child(g) = s <=> g = PlaceOf(s)
  BY <1>1 DEF PlaceOf
<1>3. PICK p \in Structs : \E j \in DOMAIN Fields[p] : PlaceOf(s) = <<p, j>>
  BY <1>2 DEF AllFields, FieldsOf
<1>4. PICK i \in DOMAIN Fields[p] : PlaceOf(s) = <<p, i>>
  BY <1>3
<1>5. Parent(s) = p /\ Place(s) = i
  BY <1>4 DEF Parent, Place
<1>6. Child(<<p, i>>) = s
  BY <1>2, <1>4
<1>7. ASSUME NEW q \in Structs, NEW j \in DOMAIN Fields[q], Fields[q][j].child = s
      PROVE  q = Parent(s) /\ j = Place(s)
  <2>1. <<q, j>> \in AllFields /\ Child(<<q, j>>) = s
    BY <1>7, FieldIs
  <2>2. <<q, j>> = <<p, i>>
    BY <1>2, <1>4, <2>1
  <2> QED
    BY <1>5, <2>2
<1>8. Parent(s) # s
  <2>1. {s} \in SUBSET (Structs \ {Root}) /\ {s} # {}
    OBVIOUS
  <2>2. \E k \in {s} : Parent(k) \notin {s}
    BY <2>1, EnvParseAssumption, Zenon DEF EnvParseAssumption
  <2> QED
    BY <2>2
<1>9. Fields[p][i].child = s
  BY <1>6, FieldIs
<1> QED
  BY <1>5, <1>7, <1>8, <1>9

LEMMA SlotIs ==
  ASSUME NEW s \in Structs \ {Root}
  PROVE  Slot(s) \in {"pointerErr", "structErr"}
BY DEF Slot

(* A WaitGroup counts.                                                     *)
LEMMA RunningFinite ==
  ASSUME NEW p
  PROVE  /\ IsFiniteSet(Running(p)) /\ Cardinality(Running(p)) \in Nat
         /\ Cardinality(Running(p)) = 0 <=> Running(p) = {}
<1>1. Running(p) \in SUBSET Structs /\ IsFiniteSet(Structs)
  BY EnvParseAssumption DEF EnvParseAssumption, Running, Children
<1>2. IsFiniteSet(Running(p))
  BY <1>1, FS_Subset
<1> QED
  BY <1>2, FS_CardinalityType, FS_EmptySet

ParseTyped == TypeOK /\ at \in [Structs -> Nat]

(* The scan that is to go on to its next field, and the struct there.      *)
LEMMA NextField ==
  ASSUME ParseTyped, NEW s \in Structs, at[s] <= Len(Fields[s])
  PROVE  /\ at[s] \in DOMAIN Fields[s] /\ Len(Fields[s]) \in Nat
         /\ Field(s).child \in (Structs \ {Root}) \cup {None}
         /\ \A k \in Structs \ {Root} :
                Field(s).child = k <=> Parent(k) = s /\ Place(k) = at[s]
         /\ Field(s).child # s
<1>1. at[s] \in 1..(Len(Fields[s]) + 1) /\ Fields[s] \in Seq([child : (Structs \ {Root}) \cup {None}, pointer : BOOLEAN])
  BY EnvParseAssumption DEF ParseTyped, TypeOK, EnvParseAssumption
<1>2. DOMAIN Fields[s] = 1..Len(Fields[s]) /\ Len(Fields[s]) \in Nat
  BY <1>1
<1>3. at[s] \in DOMAIN Fields[s]
  BY <1>1, <1>2
<1>4. Field(s).child \in (Structs \ {Root}) \cup {None}
  BY <1>3, FieldIs DEF Field
<1>5. ASSUME NEW k \in Structs \ {Root}
      PROVE  Field(s).child = k <=> Parent(k) = s /\ Place(k) = at[s]
  BY <1>3, PlaceIs DEF Field
<1>6. Field(s).child # s
  <2>1. CASE s = Root
    BY <1>4, <2>1, EnvParseAssumption DEF EnvParseAssumption
  <2>2. CASE s # Root
    BY <1>5, <2>2, PlaceIs
  <2> QED
    BY <2>1, <2>2
<1> QED
  BY <1>2, <1>3, <1>4, <1>5, <1>6

LEMMA LenFields ==
  ASSUME NEW s \in Structs
  PROVE  Len(Fields[s]) \in Nat /\ DOMAIN Fields[s] = 1..Len(Fields[s])
<1>1. Fields[s] \in Seq([child : (Structs \ {Root}) \cup {None}, pointer : BOOLEAN])
  BY EnvParseAssumption DEF EnvParseAssumption
<1> QED
  BY <1>1

(* A word of an error is stored in one variable.                           *)
LEMMA WordStored ==
  ASSUME errs \in [Structs -> [{"pointerErr", "structErr"} -> SUBSET Words]],
         ret \in [Structs -> SUBSET Words],
         NEW s \in Structs \ {Root}, NEW w \in Words, StoreWord(s, w)
  PROVE  /\ errs' \in [Structs -> [{"pointerErr", "structErr"} -> SUBSET Words]]
         /\ \A p \in Structs : \A v \in {"pointerErr", "structErr"} :
                errs'[p][v] = IF p = Parent(s) /\ v = Slot(s)
                              THEN (errs[p][v] \ {w}) \cup (ret[s] \cap {w}) ELSE errs[p][v]
<1> DEFINE p0 == Parent(s)
           v0 == Slot(s)
           new == (errs[p0][v0] \ {w}) \cup (ret[s] \cap {w})
<1>1. errs' = [errs EXCEPT ![p0] = [errs[p0] EXCEPT ![v0] = new]]
  BY Zenon DEF StoreWord
<1>2. p0 \in Structs /\ v0 \in {"pointerErr", "structErr"}
  BY PlaceIs, SlotIs
<1>3. new \in SUBSET Words
  BY <1>2
<1> HIDE DEF p0, v0, new
<1>4. [errs[p0] EXCEPT ![v0] = new] \in [{"pointerErr", "structErr"} -> SUBSET Words]
  BY <1>2, <1>3
<1>5. errs' \in [Structs -> [{"pointerErr", "structErr"} -> SUBSET Words]]
  BY <1>1, <1>4
<1>6. \A p \in Structs : \A v \in {"pointerErr", "structErr"} :
         errs'[p][v] = IF p = p0 /\ v = v0 THEN new ELSE errs[p][v]
  BY <1>1, <1>2
<1> QED
  BY <1>5, <1>6 DEF p0, v0, new

LEMMA StepParseTyped ==
  ASSUME ParsingInv, [Next]_vars
  PROVE  ParseTyped'
<1>1. ParseTyped /\ TreeInv
  BY DEF ParsingInv, ParseTyped
<1>t. /\ outcome \in [AllFields -> {"skip", "set", "fail"}]
      /\ pc \in [Structs -> PCs]
      /\ \A s \in Structs : at[s] \in 1..(Len(Fields[s]) + 1)
      /\ at \in [Structs -> Nat]
      /\ wg \in [Structs -> Nat]
      /\ errs \in [Structs -> [{"pointerErr", "structErr"} -> SUBSET Words]]
      /\ ret \in [Structs -> SUBSET Words]
      /\ left \in [Structs -> SUBSET Words]
      /\ written \subseteq AllFields
      /\ result \in Results
  BY <1>1 DEF ParseTyped, TypeOK
<1>2. ASSUME NEW s \in Structs, ScanField(s)
      PROVE  ParseTyped'
  <2>1. /\ at[s] <= Len(Fields[s])
        /\ at' = [at EXCEPT ![s] = @ + 1]
        /\ UNCHANGED <<outcome, errs, ret, left, result>>
    BY <1>2 DEF ScanField
  <2>2. /\ at[s] \in DOMAIN Fields[s] /\ Len(Fields[s]) \in Nat
        /\ Field(s).child \in (Structs \ {Root}) \cup {None}
    BY <1>1, <2>1, NextField
  <2>3. at' \in [Structs -> Nat] /\ \A j \in Structs : at'[j] \in 1..(Len(Fields[j]) + 1)
    BY <1>t, <2>1, <2>2
  <2>4. pc' \in [Structs -> PCs] /\ wg' \in [Structs -> Nat]
    <3>1. /\ pc' = IF Field(s).child = None THEN pc ELSE [pc EXCEPT ![Field(s).child] = "scanning"]
          /\ wg' = IF Field(s).child = None THEN wg ELSE [wg EXCEPT ![s] = @ + 1]
      BY <1>2, Zenon DEF ScanField
    <3> QED
      BY <1>t, <2>2, <3>1 DEF PCs
  <2>5. written' \subseteq AllFields
    <3>1. <<s, at[s]>> \in AllFields
      BY <2>2, FieldIs
    <3>2. written' = written \/ written' = written \cup {<<s, at[s]>>}
      BY <1>2, Zenon DEF ScanField
    <3> QED
      BY <1>t, <3>1, <3>2
  <2> QED
    BY <1>t, <2>1, <2>3, <2>4, <2>5 DEF ParseTyped, TypeOK
<1>3. ASSUME NEW s \in Structs, FieldFails(s)
      PROVE  ParseTyped'
  <2>1. /\ wg' = IF Field(s).child = None THEN wg ELSE [wg EXCEPT ![s] = @ + 1]
        /\ ret' = [ret EXCEPT ![s] = Words]
        /\ left' = [left EXCEPT ![s] = IF s = Root THEN {} ELSE Words]
        /\ result' = IF s = Root THEN "scan error" ELSE result
        /\ UNCHANGED <<outcome, at, errs, written>>
    BY <1>3, Zenon DEF FieldFails
  <2>2. pc' = [k \in Structs |-> IF k = s THEN IF s = Root THEN "done" ELSE "storing"
                                 ELSE IF k = Field(s).child THEN "scanning" ELSE pc[k]]
    BY <1>3, Zenon DEF FieldFails
  <2>3. pc' \in [Structs -> PCs]
    BY <1>t, <2>2 DEF PCs
  <2>4. wg' \in [Structs -> Nat]
    <3>1. wg' = wg \/ wg' = [wg EXCEPT ![s] = @ + 1]
      BY <2>1, Zenon
    <3> QED
      BY <1>t, <3>1
  <2>5. ret' \in [Structs -> SUBSET Words] /\ left' \in [Structs -> SUBSET Words] /\ result' \in Results
    BY <1>t, <2>1 DEF Results
  <2> QED
    BY <1>t, <2>1, <2>3, <2>4, <2>5 DEF ParseTyped, TypeOK
<1>4. ASSUME NEW s \in Structs, Scanned(s)
      PROVE  ParseTyped'
  <2>1. Return(s, Pick(s)) /\ UNCHANGED <<outcome, at, wg, errs, written>>
    BY <1>4, Zenon DEF Scanned, Pick
  <2>2. Pick(s) \in SUBSET Words
    BY <1>t DEF Pick
  <2> HIDE DEF Pick
  <2>3. /\ ret' \in [Structs -> SUBSET Words] /\ left' \in [Structs -> SUBSET Words]
        /\ pc' \in [Structs -> PCs] /\ result' \in Results
    BY <1>t, <2>1, <2>2 DEF Return, PCs, Results
  <2> QED
    BY <1>t, <2>1, <2>3 DEF ParseTyped, TypeOK
<1>5. ASSUME NEW s \in Structs \ {Root}, NEW w \in Words, StoreWord(s, w)
      PROVE  ParseTyped'
  <2>1. /\ left' = [left EXCEPT ![s] = @ \ {w}]
        /\ errs' = [errs EXCEPT ![Parent(s)][Slot(s)] = (@ \ {w}) \cup (ret[s] \cap {w})]
        /\ UNCHANGED <<outcome, pc, at, wg, ret, written, result>>
    BY <1>5, Zenon DEF StoreWord
  <2>2. left' \in [Structs -> SUBSET Words]
    BY <1>t, <2>1
  <2>3. errs' \in [Structs -> [{"pointerErr", "structErr"} -> SUBSET Words]]
    BY <1>t, <1>5, WordStored
  <2> QED
    BY <1>t, <2>1, <2>2, <2>3 DEF ParseTyped, TypeOK
<1>6. ASSUME NEW s \in Structs \ {Root}, Done(s)
      PROVE  ParseTyped'
  <2>1. /\ pc[s] = "storing"
        /\ pc' = [pc EXCEPT ![s] = "done"]
        /\ wg' = [wg EXCEPT ![Parent(s)] = @ - 1]
        /\ UNCHANGED <<outcome, at, errs, ret, left, written, result>>
    BY <1>6 DEF Done
  <2>2. pc' \in [Structs -> PCs]
    BY <1>t, <2>1 DEF PCs
  <2>3. wg[Parent(s)] - 1 \in Nat
    <3>1. Parent(s) \in Structs /\ s \in Running(Parent(s))
      BY <2>1, PlaceIs DEF Running, Children
    <3>2. Cardinality(Running(Parent(s))) # 0
      BY <3>1, RunningFinite
    <3> QED
      BY <1>1, <1>t, <3>1, <3>2 DEF TreeInv
  <2>4. wg' \in [Structs -> Nat]
    BY <1>t, <2>1, <2>3
  <2> QED
    BY <1>t, <2>1, <2>2, <2>4 DEF ParseTyped, TypeOK
<1>7. CASE Validate
  BY <1>t, <1>7 DEF Validate, ParseTyped, TypeOK, Results
<1>8. CASE UNCHANGED vars
  BY <1>t, <1>8 DEF vars, ParseTyped, TypeOK
<1> QED
  BY <1>2, <1>3, <1>4, <1>5, <1>6, <1>7, <1>8 DEF Next

(* The actions on the program counters, and on the WaitGroups.             *)
LEMMA RunningKept ==
  ASSUME NEW p \in Structs,
         \A k \in Children(p) : pc'[k] \in {"scanning", "storing"} <=> pc[k] \in {"scanning", "storing"}
  PROVE  Running(p)' = Running(p)
BY DEF Running

LEMMA RunningGains ==
  ASSUME NEW p \in Structs, NEW c \in Children(p),
         pc[c] \notin {"scanning", "storing"}, pc'[c] \in {"scanning", "storing"},
         \A k \in Children(p) \ {c} :
             pc'[k] \in {"scanning", "storing"} <=> pc[k] \in {"scanning", "storing"}
  PROVE  Cardinality(Running(p)') = Cardinality(Running(p)) + 1
<1>1. Running(p)' = Running(p) \cup {c} /\ c \notin Running(p)
  BY DEF Running
<1> QED
  BY <1>1, RunningFinite, FS_AddElement

LEMMA RunningLoses ==
  ASSUME NEW p \in Structs, NEW c \in Children(p),
         pc[c] \in {"scanning", "storing"}, pc'[c] \notin {"scanning", "storing"},
         \A k \in Children(p) \ {c} :
             pc'[k] \in {"scanning", "storing"} <=> pc[k] \in {"scanning", "storing"}
  PROVE  Cardinality(Running(p)') = Cardinality(Running(p)) - 1
<1>1. Running(p)' = Running(p) \ {c} /\ c \in Running(p)
  BY DEF Running
<1> QED
  BY <1>1, RunningFinite, FS_RemoveElement

(* What a scan that looks at a field does to its goroutines.               *)
LEMMA ChildStarts ==
  ASSUME ParseTyped, TreeInv, NEW s \in Structs, pc[s] = "scanning", at[s] <= Len(Fields[s]),
         NEW then \in {"scanning", IF s = Root THEN "done" ELSE "storing"},
         pc' = [k \in Structs |-> IF k = s THEN then
                                  ELSE IF k = Field(s).child THEN "scanning" ELSE pc[k]],
         wg' = IF Field(s).child = None THEN wg ELSE [wg EXCEPT ![s] = @ + 1],
         \/ then = "scanning" /\ at' = [at EXCEPT ![s] = @ + 1]
         \/ then # "scanning" /\ at' = at
  PROVE  TreeInv'
<1> DEFINE c == Field(s).child
<1>t. pc \in [Structs -> PCs] /\ wg \in [Structs -> Nat] /\ at \in [Structs -> Nat]
  BY DEF ParseTyped, TypeOK
<1>1. /\ at[s] \in DOMAIN Fields[s]
      /\ c \in (Structs \ {Root}) \cup {None}
      /\ \A k \in Structs \ {Root} : c = k <=> Parent(k) = s /\ Place(k) = at[s]
      /\ c # s
  BY NextField
<1>2. c # None => pc[c] = "idle" /\ c \in Children(s)
  <2> SUFFICES ASSUME c # None PROVE pc[c] = "idle" /\ c \in Children(s)
    OBVIOUS
  <2>1. c \in Structs \ {Root} /\ Parent(c) = s /\ Place(c) = at[s]
    BY <1>1
  <2>2. ~Started(c)
    BY <1>t, <2>1 DEF Started, Ended
  <2> QED
    BY <2>1, <2>2 DEF TreeInv, Children
<1> HIDE DEF c
<1>3. ASSUME NEW k \in Structs \ {Root}
      PROVE  pc'[k] = "idle" <=> ~Started(k)'
  <2>1. Parent(k) \in Structs /\ Parent(k) # k /\ Place(k) \in Nat
    BY PlaceIs, FieldIs
  <2>2. Started(k)' <=> Place(k) < at'[Parent(k)]
                        \/ (Place(k) = at'[Parent(k)] /\ pc'[Parent(k)] \in {"storing", "done"})
    BY DEF Started, Ended
  <2>3. Started(k) <=> Place(k) < at[Parent(k)]
                        \/ (Place(k) = at[Parent(k)] /\ pc[Parent(k)] \in {"storing", "done"})
    BY DEF Started, Ended
  <2>4. pc[k] = "idle" <=> ~Started(k)
    BY DEF TreeInv
  <2>5. CASE Parent(k) = s
    <3>1. Started(k)' <=> Place(k) < at[s] \/ Place(k) = at[s]
      <4>1. CASE then = "scanning"
        BY <1>t, <2>1, <2>2, <2>5, <4>1
      <4>2. CASE then # "scanning"
        BY <1>t, <2>1, <2>2, <2>5, <4>2
      <4> QED
        BY <4>1, <4>2
    <3>2. CASE k = c
      BY <1>1, <2>1, <2>5, <3>1, <3>2 DEF c
    <3>3. CASE k # c
      <4>1. pc'[k] = pc[k]
        BY <2>1, <2>5, <3>3 DEF c
      <4>2. Place(k) # at[s]
        BY <1>1, <2>5, <3>3
      <4> QED
        BY <2>3, <2>4, <2>5, <3>1, <4>1, <4>2
    <3> QED
      BY <3>2, <3>3
  <2>6. CASE Parent(k) # s
    <3>1. at'[Parent(k)] = at[Parent(k)]
      BY <1>t, <2>1, <2>6
    <3>2. pc'[Parent(k)] \in {"storing", "done"} <=> pc[Parent(k)] \in {"storing", "done"}
      <4>1. CASE Parent(k) = c
        <5>1. pc'[c] = "scanning" /\ pc[c] = "idle"
          BY <1>1, <1>2, <2>1, <4>1, EnvParseAssumption DEF c, EnvParseAssumption
        <5> QED
          BY <4>1, <5>1
      <4>2. CASE Parent(k) # c
        <5>1. pc'[Parent(k)] = pc[Parent(k)]
          BY <2>1, <2>6, <4>2 DEF c
        <5> QED
          BY <5>1
      <4> QED
        BY <4>1, <4>2
    <3>3. k # c
      BY <1>1, <2>6
    <3>4. pc'[k] = "idle" <=> pc[k] = "idle"
      BY <3>3 DEF c
    <3> QED
      BY <2>2, <2>3, <2>4, <3>1, <3>2, <3>4
  <2> QED
    BY <2>5, <2>6
<1>4. ASSUME NEW k \in Structs \ {Root}, k # c
      PROVE  pc'[k] \in {"scanning", "storing"} <=> pc[k] \in {"scanning", "storing"}
  BY <1>4 DEF c
<1>5. ASSUME NEW p \in Structs
      PROVE  wg'[p] = Cardinality(Running(p)')
  <2>1. wg[p] = Cardinality(Running(p))
    BY DEF TreeInv
  <2>2. CASE p = s /\ c # None
    <3>1. Cardinality(Running(p)') = Cardinality(Running(p)) + 1
      <4>1. pc'[c] = "scanning" /\ pc[c] = "idle" /\ c \in Children(p)
        BY <1>1, <1>2, <2>2 DEF c
      <4>2. \A k \in Children(p) \ {c} :
               pc'[k] \in {"scanning", "storing"} <=> pc[k] \in {"scanning", "storing"}
        BY <1>4 DEF Children
      <4> QED
        BY <4>1, <4>2, RunningGains
    <3> QED
      BY <1>t, <2>1, <2>2, <3>1 DEF c
  <2>3. CASE ~(p = s /\ c # None)
    <3>1. c \notin Children(p)
      BY <1>1, <1>2, <2>3, EnvParseAssumption DEF Children, EnvParseAssumption
    <3>2. Running(p)' = Running(p)
      BY <1>4, <3>1, RunningKept DEF Children
    <3> QED
      BY <1>t, <2>1, <2>3, <3>2 DEF c
  <2> QED
    BY <2>2, <2>3
<1>6. pc'[Root] \in {"scanning", "done"}
  <2>1. c # Root /\ Root \in Structs
    BY <1>1, EnvParseAssumption DEF EnvParseAssumption
  <2>2. pc[Root] \in {"scanning", "done"}
    BY DEF TreeInv
  <2>3. s = Root => then \in {"scanning", "done"}
    OBVIOUS
  <2> QED
    BY <2>1, <2>2, <2>3 DEF c
<1> QED
  BY <1>3, <1>5, <1>6 DEF TreeInv

LEMMA StepTree ==
  ASSUME ParseTyped, TreeInv, [Next]_vars
  PROVE  TreeInv'
<1>t. /\ pc \in [Structs -> PCs] /\ wg \in [Structs -> Nat] /\ at \in [Structs -> Nat]
      /\ \A s \in Structs : at[s] \in 1..(Len(Fields[s]) + 1)
  BY DEF ParseTyped, TypeOK
<1>1. ASSUME NEW s \in Structs, ScanField(s)
      PROVE  TreeInv'
  <2>1. /\ pc[s] = "scanning" /\ at[s] <= Len(Fields[s])
        /\ at' = [at EXCEPT ![s] = @ + 1]
        /\ pc' = IF Field(s).child = None THEN pc ELSE [pc EXCEPT ![Field(s).child] = "scanning"]
        /\ wg' = IF Field(s).child = None THEN wg ELSE [wg EXCEPT ![s] = @ + 1]
    BY <1>1, Zenon DEF ScanField
  <2>2. Field(s).child \in (Structs \ {Root}) \cup {None} /\ None \notin Structs /\ Field(s).child # s
    BY <2>1, NextField, EnvParseAssumption DEF EnvParseAssumption
  <2>3. pc' = [k \in Structs |-> IF k = s THEN "scanning"
                                 ELSE IF k = Field(s).child THEN "scanning" ELSE pc[k]]
    <3>1. CASE Field(s).child = None
      BY <1>t, <2>1, <2>2, <3>1
    <3>2. CASE Field(s).child # None
      BY <1>t, <2>1, <2>2, <3>2
    <3> QED
      BY <3>1, <3>2
  <2> QED
    BY <2>1, <2>3, ChildStarts
<1>2. ASSUME NEW s \in Structs, FieldFails(s)
      PROVE  TreeInv'
  <2>1. /\ pc[s] = "scanning" /\ at[s] <= Len(Fields[s])
        /\ at' = at
        /\ pc' = [k \in Structs |-> IF k = s THEN IF s = Root THEN "done" ELSE "storing"
                                    ELSE IF k = Field(s).child THEN "scanning" ELSE pc[k]]
        /\ wg' = IF Field(s).child = None THEN wg ELSE [wg EXCEPT ![s] = @ + 1]
    BY <1>2, Zenon DEF FieldFails
  <2>2. (IF s = Root THEN "done" ELSE "storing") # "scanning"
    OBVIOUS
  <2> QED
    BY <2>1, <2>2, ChildStarts
<1>3. ASSUME NEW s \in Structs, Scanned(s)
      PROVE  TreeInv'
  <2>1. /\ pc[s] = "scanning" /\ at[s] > Len(Fields[s])
        /\ pc' = [pc EXCEPT ![s] = IF s = Root THEN "done" ELSE "storing"]
        /\ at' = at /\ wg' = wg
    BY <1>3 DEF Scanned, Return
  <2>2. ASSUME NEW k \in Structs \ {Root}
        PROVE  Started(k)' <=> Started(k)
    <3>1. Parent(k) \in Structs /\ Place(k) \in Nat /\ Place(k) <= Len(Fields[Parent(k)])
          /\ Len(Fields[Parent(k)]) \in Nat
      <4>1. Parent(k) \in Structs /\ Place(k) \in DOMAIN Fields[Parent(k)]
        BY PlaceIs
      <4>2. Place(k) \in 1..Len(Fields[Parent(k)]) /\ Len(Fields[Parent(k)]) \in Nat
        BY <4>1, FieldIs
      <4> QED
        BY <4>1, <4>2
    <3>2. CASE Parent(k) = s
      <4>1. Place(k) < at[s]
        BY <1>t, <2>1, <3>1, <3>2
      <4> QED
        BY <2>1, <3>2, <4>1 DEF Started
    <3>3. CASE Parent(k) # s
      BY <1>t, <2>1, <3>1, <3>3 DEF Started, Ended
    <3> QED
      BY <3>2, <3>3
  <2>3. \A k \in Structs : pc'[k] = "idle" <=> pc[k] = "idle"
    BY <1>t, <2>1
  <2>4. \A k \in Structs \ {Root} :
           pc'[k] \in {"scanning", "storing"} <=> pc[k] \in {"scanning", "storing"}
    BY <1>t, <2>1
  <2>5. \A p \in Structs : Running(p)' = Running(p)
    BY <2>4, RunningKept DEF Children
  <2>6. pc'[Root] \in {"scanning", "done"}
    BY <1>t, <2>1 DEF TreeInv
  <2> QED
    BY <2>1, <2>2, <2>3, <2>5, <2>6 DEF TreeInv
<1>4. ASSUME NEW s \in Structs \ {Root}, Done(s)
      PROVE  TreeInv'
  <2>1. /\ pc[s] = "storing"
        /\ pc' = [pc EXCEPT ![s] = "done"]
        /\ wg' = [wg EXCEPT ![Parent(s)] = @ - 1]
        /\ at' = at
    BY <1>4 DEF Done
  <2>2. ASSUME NEW k \in Structs \ {Root}
        PROVE  /\ Started(k)' <=> Started(k)
               /\ pc'[k] = "idle" <=> pc[k] = "idle"
    <3>1. Parent(k) \in Structs
      BY PlaceIs
    <3>2. pc'[Parent(k)] \in {"storing", "done"} <=> pc[Parent(k)] \in {"storing", "done"}
      BY <1>t, <2>1, <3>1
    <3> QED
      BY <1>t, <2>1, <3>2 DEF Started, Ended
  <2>3. ASSUME NEW p \in Structs
        PROVE  wg'[p] = Cardinality(Running(p)')
    <3>1. wg[p] = Cardinality(Running(p))
      BY DEF TreeInv
    <3>2. CASE p = Parent(s)
      <4>1. Cardinality(Running(p)') = Cardinality(Running(p)) - 1
        <5>1. s \in Children(p) /\ pc[s] \in {"scanning", "storing"} /\ pc'[s] \notin {"scanning", "storing"}
          BY <1>t, <2>1, <3>2 DEF Children
        <5>2. \A k \in Children(p) \ {s} :
                 pc'[k] \in {"scanning", "storing"} <=> pc[k] \in {"scanning", "storing"}
          BY <1>t, <2>1 DEF Children
        <5> QED
          BY <5>1, <5>2, RunningLoses
      <4> QED
        BY <1>t, <2>1, <3>1, <3>2, <4>1
    <3>3. CASE p # Parent(s)
      <4>1. \A k \in Children(p) :
               pc'[k] \in {"scanning", "storing"} <=> pc[k] \in {"scanning", "storing"}
        BY <1>t, <2>1, <3>3 DEF Children
      <4>2. Running(p)' = Running(p)
        BY <4>1, RunningKept
      <4> QED
        BY <1>t, <2>1, <3>1, <3>3, <4>2
    <3> QED
      BY <3>2, <3>3
  <2>4. pc'[Root] \in {"scanning", "done"}
    BY <1>t, <2>1 DEF TreeInv
  <2> QED
    BY <2>2, <2>3, <2>4 DEF TreeInv
<1>5. ASSUME UNCHANGED <<pc, at, wg>>
      PROVE  TreeInv'
  BY <1>5 DEF TreeInv, Started, Ended, Running
<1>6. ASSUME NEW s \in Structs \ {Root}, NEW w \in Words, StoreWord(s, w)
      PROVE  TreeInv'
  BY <1>5, <1>6 DEF StoreWord
<1>7. CASE Validate \/ UNCHANGED vars
  BY <1>5, <1>7 DEF Validate, vars
<1> QED
  BY <1>1, <1>2, <1>3, <1>4, <1>6, <1>7 DEF Next

Passes(s) ==
    \A i \in DOMAIN Fields[s] :
        /\ i < at[s] => outcome[<<s, i>>] # "fail"
        /\ <<s, i>> \in written <=> i < at[s] /\ outcome[<<s, i>>] = "set"
Ends(s) ==
    \/ ~Ended(s) /\ ret[s] = {}
    \/ at[s] <= Len(Fields[s]) /\ outcome[<<s, at[s]>>] = "fail" /\ ret[s] = Words /\ Ended(s)
    \/ at[s] > Len(Fields[s]) /\ ret[s] = Pick(s) /\ (\A k \in Children(s) : pc[k] = "done") /\ Ended(s)

LEMMA ScanInvIs == ScanInv <=> \A s \in Structs : Passes(s) /\ Ends(s)
BY DEF ScanInv, Passes, Ends

(* A scan that an action is not about goes on as before.                   *)
LEMMA EndsKept ==
  ASSUME NEW s \in Structs, Ends(s), ret'[s] = ret[s], at'[s] = at[s], outcome' = outcome,
         Ended(s)' <=> Ended(s),
         (\A k \in Children(s) : pc[k] = "done") =>
             Pick(s)' = Pick(s) /\ \A k \in Children(s) : pc'[k] = "done"
  PROVE  Ends(s)'
BY DEF Ends

LEMMA PassesKept ==
  ASSUME NEW s \in Structs, Passes(s), at'[s] = at[s], outcome' = outcome, written' = written
  PROVE  Passes(s)'
BY DEF Passes

LEMMA PickKept ==
  ASSUME NEW s, errs'[s] = errs[s]
  PROVE  Pick(s)' = Pick(s)
BY DEF Pick

(* A scan that has passed its last field and waits for nobody any more has *)
(* nobody left to wait for.                                                *)
LEMMA WaitEnds ==
  ASSUME ParseTyped, TreeInv, NEW s \in Structs, at[s] > Len(Fields[s]), wg[s] = 0,
         NEW k \in Children(s)
  PROVE  pc[k] = "done"
<1>t. pc \in [Structs -> PCs] /\ at \in [Structs -> Nat]
  BY DEF ParseTyped, TypeOK
<1>1. k \in Structs \ {Root} /\ Parent(k) = s
  BY DEF Children
<1>2. Place(k) \in 1..Len(Fields[s]) /\ Len(Fields[s]) \in Nat
  BY <1>1, PlaceIs, LenFields
<1>3. Started(k)
  BY <1>t, <1>1, <1>2 DEF Started
<1>4. k \notin Running(s)
  BY RunningFinite DEF TreeInv
<1> QED
  BY <1>t, <1>1, <1>3, <1>4 DEF TreeInv, Running, PCs

LEMMA StepScan ==
  ASSUME ParseTyped, TreeInv, ScanInv, [Next]_vars
  PROVE  ScanInv'
<1>t. /\ pc \in [Structs -> PCs] /\ wg \in [Structs -> Nat] /\ at \in [Structs -> Nat]
      /\ \A s \in Structs : at[s] \in 1..(Len(Fields[s]) + 1)
      /\ ret \in [Structs -> SUBSET Words]
  BY DEF ParseTyped, TypeOK
<1>s. \A s \in Structs : Passes(s) /\ Ends(s)
  BY ScanInvIs
<1>1. ASSUME NEW s \in Structs, ScanField(s)
      PROVE  ScanInv'
  <2>1. /\ pc[s] = "scanning" /\ at[s] <= Len(Fields[s])
        /\ outcome[<<s, at[s]>>] # "fail"
        /\ at' = [at EXCEPT ![s] = @ + 1]
        /\ written' = IF outcome[<<s, at[s]>>] = "set" THEN written \cup {<<s, at[s]>>} ELSE written
        /\ pc' = IF Field(s).child = None THEN pc ELSE [pc EXCEPT ![Field(s).child] = "scanning"]
        /\ outcome' = outcome /\ errs' = errs /\ ret' = ret
    BY <1>1, Zenon DEF ScanField, GetFieldENV
  <2>2. /\ at[s] \in DOMAIN Fields[s]
        /\ Field(s).child # None => /\ Field(s).child \in Children(s)
                                    /\ pc[Field(s).child] = "idle"
    <3>1. /\ at[s] \in DOMAIN Fields[s]
          /\ Field(s).child \in (Structs \ {Root}) \cup {None}
          /\ \A k \in Structs \ {Root} : Field(s).child = k <=> Parent(k) = s /\ Place(k) = at[s]
      BY <2>1, NextField
    <3>2. ASSUME NEW k \in Structs \ {Root}, Parent(k) = s, Place(k) = at[s]
          PROVE  pc[k] = "idle"
      <4>1. ~Started(k)
        BY <1>t, <2>1, <3>2 DEF Started, Ended
      <4> QED
        BY <4>1 DEF TreeInv
    <3> QED
      BY <3>1, <3>2 DEF Children
  <2>3. ASSUME NEW j \in Structs
        PROVE  Passes(j)'
    <3>1. CASE j = s
      <4>1. ASSUME NEW i \in DOMAIN Fields[s]
            PROVE  /\ i < at'[s] => outcome'[<<s, i>>] # "fail"
                   /\ <<s, i>> \in written' <=> i < at'[s] /\ outcome'[<<s, i>>] = "set"
        <5>1. /\ i < at[s] => outcome[<<s, i>>] # "fail"
              /\ <<s, i>> \in written <=> i < at[s] /\ outcome[<<s, i>>] = "set"
          BY <1>s DEF Passes
        <5>2. i \in Nat /\ at[s] \in Nat /\ at'[s] = at[s] + 1
          BY <1>t, <2>1, FieldIs
        <5>3. i < at'[s] <=> i < at[s] \/ i = at[s]
          BY <5>2
        <5>4. <<s, i>> \in written' <=> <<s, i>> \in written \/ (i = at[s] /\ outcome[<<s, i>>] = "set")
          BY <2>1
        <5> QED
          BY <2>1, <5>1, <5>3, <5>4
      <4> QED
        BY <3>1, <4>1 DEF Passes
    <3>2. CASE j # s
      <4>1. \A i : <<j, i>> \in written' <=> <<j, i>> \in written
        BY <2>1, <3>2
      <4>2. at'[j] = at[j] /\ outcome' = outcome
        BY <1>t, <2>1, <3>2
      <4> QED
        BY <1>s, <4>1, <4>2 DEF Passes
    <3> QED
      BY <3>1, <3>2
  <2>4. ASSUME NEW j \in Structs
        PROVE  Ends(j)'
    <3>1. \A k \in Structs : pc'[k] = pc[k]
                             \/ (k \in Children(s) /\ pc[k] = "idle" /\ pc'[k] = "scanning")
      BY <1>t, <2>1, <2>2
    <3>2. Ended(j)' <=> Ended(j)
      BY <3>1 DEF Ended
    <3>3. CASE j = s
      <4>1. ~Ended(j) /\ ret'[j] = {}
        BY <1>s, <2>1, <3>3 DEF Ended, Ends
      <4> QED
        BY <3>2, <4>1 DEF Ends
    <3>4. CASE j # s
      <4>1. at'[j] = at[j] /\ ret'[j] = ret[j] /\ Pick(j)' = Pick(j)
        BY <1>t, <2>1, <3>4, PickKept
      <4>2. \A k \in Children(j) : pc[k] = "done" => pc'[k] = "done"
        BY <3>1, <3>4 DEF Children
      <4> QED
        BY <1>s, <2>1, <3>2, <4>1, <4>2, EndsKept
    <3> QED
      BY <3>3, <3>4
  <2> QED
    BY <2>3, <2>4 DEF ScanInv, Passes, Ends
<1>2. ASSUME NEW s \in Structs, FieldFails(s)
      PROVE  ScanInv'
  <2>1. /\ pc[s] = "scanning" /\ at[s] <= Len(Fields[s])
        /\ outcome[<<s, at[s]>>] = "fail"
        /\ pc' = [k \in Structs |-> IF k = s THEN IF s = Root THEN "done" ELSE "storing"
                                    ELSE IF k = Field(s).child THEN "scanning" ELSE pc[k]]
        /\ ret' = [ret EXCEPT ![s] = Words]
        /\ outcome' = outcome /\ at' = at /\ errs' = errs /\ written' = written
    BY <1>2, Zenon DEF FieldFails, GetFieldENV
  <2>2. Field(s).child \in Structs \ {Root} =>
            Field(s).child \in Children(s) /\ pc[Field(s).child] = "idle"
    <3>1. \A k \in Structs \ {Root} : Field(s).child = k <=> Parent(k) = s /\ Place(k) = at[s]
      BY <2>1, NextField
    <3>2. ASSUME NEW k \in Structs \ {Root}, Parent(k) = s, Place(k) = at[s]
          PROVE  pc[k] = "idle"
      <4>1. ~Started(k)
        BY <1>t, <2>1, <3>2 DEF Started, Ended
      <4> QED
        BY <4>1 DEF TreeInv
    <3> QED
      BY <3>1, <3>2 DEF Children
  <2>3. Field(s).child # s /\ Field(s).child \in (Structs \ {Root}) \cup {None}
    BY <2>1, NextField
  <2>4. ASSUME NEW j \in Structs
        PROVE  Ends(j)'
    <3>1. CASE j = s
      <4>1. Ended(j)'
        BY <2>1, <3>1 DEF Ended
      <4> QED
        BY <1>t, <2>1, <3>1, <4>1 DEF Ends
    <3>2. CASE j # s
      <4>1. \A k \in Structs \ {s} : pc'[k] = pc[k]
                             \/ (k \in Children(s) /\ pc[k] = "idle" /\ pc'[k] = "scanning")
        BY <2>1, <2>2, <2>3, EnvParseAssumption DEF EnvParseAssumption
      <4>2. Ended(j)' <=> Ended(j)
        BY <3>2, <4>1 DEF Ended
      <4>3. at'[j] = at[j] /\ ret'[j] = ret[j] /\ Pick(j)' = Pick(j)
        BY <1>t, <2>1, <3>2, PickKept
      <4>4. \A k \in Children(j) : pc[k] = "done" => pc'[k] = "done"
        BY <2>1, <3>2, <4>1 DEF Children
      <4> QED
        BY <1>s, <2>1, <4>2, <4>3, <4>4, EndsKept
    <3> QED
      BY <3>1, <3>2
  <2>5. \A j \in Structs : Passes(j)'
    BY <1>s, <2>1, PassesKept
  <2> QED
    BY <2>4, <2>5 DEF ScanInv, Passes, Ends
<1>3. ASSUME NEW s \in Structs, Scanned(s)
      PROVE  ScanInv'
  <2>1. /\ pc[s] = "scanning" /\ at[s] > Len(Fields[s]) /\ wg[s] = 0
        /\ ret' = [ret EXCEPT ![s] = Pick(s)]
        /\ pc' = [pc EXCEPT ![s] = IF s = Root THEN "done" ELSE "storing"]
        /\ outcome' = outcome /\ at' = at /\ errs' = errs /\ written' = written
    BY <1>3, Zenon DEF Scanned, Return, Pick
  <2>2. \A k \in Children(s) : pc[k] = "done"
    BY <2>1, WaitEnds
  <2>3. ASSUME NEW j \in Structs
        PROVE  Ends(j)'
    <3>1. Pick(j)' = Pick(j)
      BY <2>1, PickKept
    <3>2. \A k \in Children(j) : pc[k] = "done" => pc'[k] = "done"
      BY <1>t, <2>1 DEF Children
    <3>3. CASE j = s
      <4>1. Ended(j)' /\ ret'[j] = Pick(j)'
        BY <1>t, <2>1, <3>1, <3>3 DEF Ended
      <4> QED
        BY <2>1, <2>2, <3>2, <3>3, <4>1 DEF Ends
    <3>4. CASE j # s
      <4>1. at'[j] = at[j] /\ ret'[j] = ret[j] /\ (Ended(j)' <=> Ended(j))
        BY <1>t, <2>1, <3>4 DEF Ended
      <4> QED
        BY <1>s, <2>1, <3>1, <3>2, <4>1, EndsKept
    <3> QED
      BY <3>3, <3>4
  <2>4. \A j \in Structs : Passes(j)'
    BY <1>s, <2>1, PassesKept
  <2> QED
    BY <2>3, <2>4 DEF ScanInv, Passes, Ends
<1>4. ASSUME NEW s \in Structs \ {Root}, NEW w \in Words, StoreWord(s, w)
      PROVE  ScanInv'
  <2>1. /\ pc[s] = "storing"
        /\ outcome' = outcome /\ pc' = pc /\ at' = at /\ ret' = ret /\ written' = written
    BY <1>4 DEF StoreWord
  <2>2. \A j \in Structs \ {Parent(s)} : errs'[j] = errs[j]
    BY <1>4 DEF StoreWord, ParseTyped, TypeOK
  <2>3. ASSUME NEW j \in Structs
        PROVE  Ends(j)'
    <3>1. CASE j = Parent(s)
      <4>1. ~(\A k \in Children(j) : pc[k] = "done")
        BY <2>1, <3>1 DEF Children
      <4> QED
        BY <1>s, <2>1, <4>1, EndsKept DEF Ended
    <3>2. CASE j # Parent(s)
      <4>1. Pick(j)' = Pick(j)
        BY <2>2, <3>2, PickKept
      <4> QED
        BY <1>s, <2>1, <4>1, EndsKept DEF Ended
    <3> QED
      BY <3>1, <3>2
  <2>4. \A j \in Structs : Passes(j)'
    BY <1>s, <2>1, PassesKept
  <2> QED
    BY <2>3, <2>4 DEF ScanInv, Passes, Ends
<1>5. ASSUME NEW s \in Structs \ {Root}, Done(s)
      PROVE  ScanInv'
  <2>1. /\ pc[s] = "storing" /\ pc' = [pc EXCEPT ![s] = "done"]
        /\ outcome' = outcome /\ at' = at /\ errs' = errs /\ ret' = ret /\ written' = written
    BY <1>5 DEF Done
  <2>2. ASSUME NEW j \in Structs
        PROVE  Ends(j)'
    <3>1. Pick(j)' = Pick(j)
      BY <2>1, PickKept
    <3>2. \A k \in Children(j) : pc[k] = "done" => pc'[k] = "done"
      BY <1>t, <2>1 DEF Children
    <3>3. Ended(j)' <=> Ended(j)
      BY <1>t, <2>1 DEF Ended
    <3> QED
      BY <1>s, <2>1, <3>1, <3>2, <3>3, EndsKept
  <2>3. \A j \in Structs : Passes(j)'
    BY <1>s, <2>1, PassesKept
  <2> QED
    BY <2>2, <2>3 DEF ScanInv, Passes, Ends
<1>6. ASSUME UNCHANGED <<outcome, pc, at, errs, ret, written>>
      PROVE  ScanInv'
  BY <1>6 DEF ScanInv, Ended, Pick
<1>7. CASE Validate \/ UNCHANGED vars
  BY <1>6, <1>7 DEF Validate, vars
<1> QED
  BY <1>1, <1>2, <1>3, <1>4, <1>5, <1>7 DEF Next

(* Only a goroutine that stores a word touches an error variable; what it  *)
(* has to store is known before it starts to.                              *)
LEMMA ErrsKept ==
  ASSUME ErrsInv, errs' = errs,
         \A k \in Structs : ret[k] \subseteq ret'[k],
         \A k \in Structs \ {Root} :
             /\ pc'[k] = "done" => left'[k] = {}
             /\ Ended(k)' => \/ left'[k] = Words
                             \/ Ended(k) /\ left'[k] = left[k] /\ ret'[k] = ret[k]
  PROVE  ErrsInv'
<1>1. \A k \in Structs \ {Root} : pc'[k] = "done" => left'[k] = {}
  OBVIOUS
<1>2. ASSUME NEW p \in Structs, NEW v \in {"pointerErr", "structErr"}, NEW w \in errs'[p][v]
      PROVE  \E k \in Children(p) : Slot(k) = v /\ w \in ret'[k]
  <2>1. PICK k \in Children(p) : Slot(k) = v /\ w \in ret[k]
    BY <1>2 DEF ErrsInv
  <2> QED
    BY <2>1 DEF Children
<1>3. ASSUME NEW k \in Structs \ {Root}, ~Shares(k), Ended(k)', NEW w \in Words \ left'[k]
      PROVE  w \in errs'[Parent(k)][Slot(k)] <=> w \in ret'[k]
  <2>1. Ended(k) /\ left'[k] = left[k] /\ ret'[k] = ret[k]
    BY <1>3
  <2> QED
    BY <1>3, <2>1 DEF ErrsInv
<1> QED
  BY <1>1, <1>2, <1>3 DEF ErrsInv

(* Nobody else assigns the variable of a goroutine that does not share it. *)
LEMMA OneAssigns ==
  ASSUME NEW s \in Structs \ {Root}, NEW k \in Structs \ {Root}, ~Shares(k),
         Parent(k) = Parent(s), Slot(k) = Slot(s)
  PROVE  k = s
BY DEF Shares

LEMMA StepErrs ==
  ASSUME ParseTyped, TreeInv, ScanInv, ErrsInv, [Next]_vars
  PROVE  ErrsInv'
<1>t. /\ pc \in [Structs -> PCs] /\ at \in [Structs -> Nat]
      /\ \A s \in Structs : at[s] \in 1..(Len(Fields[s]) + 1)
      /\ errs \in [Structs -> [{"pointerErr", "structErr"} -> SUBSET Words]]
      /\ ret \in [Structs -> SUBSET Words] /\ left \in [Structs -> SUBSET Words]
  BY DEF ParseTyped, TypeOK
<1>e. \A k \in Structs \ {Root} : pc[k] = "done" => left[k] = {}
  BY DEF ErrsInv
<1>r. \A s \in Structs : pc[s] = "scanning" => ret[s] = {}
  BY ScanInvIs DEF Ends, Ended
<1>1. ASSUME NEW s \in Structs, ScanField(s)
      PROVE  ErrsInv'
  <2>1. /\ pc' = IF Field(s).child = None THEN pc ELSE [pc EXCEPT ![Field(s).child] = "scanning"]
        /\ errs' = errs /\ ret' = ret /\ left' = left
    BY <1>1, Zenon DEF ScanField
  <2>2. \A k \in Structs : pc'[k] = pc[k] \/ pc'[k] = "scanning"
    BY <1>t, <2>1
  <2> QED
    BY <1>e, <2>1, <2>2, ErrsKept DEF Ended
<1>2. ASSUME NEW s \in Structs, pc[s] = "scanning", errs' = errs,
             NEW e \in SUBSET Words, ret' = [ret EXCEPT ![s] = e],
             left' = [left EXCEPT ![s] = IF s = Root THEN {} ELSE Words],
             pc'[s] = IF s = Root THEN "done" ELSE "storing",
             \A k \in Structs \ {s} : pc'[k] = pc[k] \/ pc'[k] = "scanning"
      PROVE  ErrsInv'
  <2>1. \A k \in Structs : ret[k] \subseteq ret'[k]
    BY <1>t, <1>r, <1>2
  <2>2. ASSUME NEW k \in Structs \ {Root}
        PROVE  /\ pc'[k] = "done" => left'[k] = {}
               /\ Ended(k)' => \/ left'[k] = Words
                               \/ Ended(k) /\ left'[k] = left[k] /\ ret'[k] = ret[k]
    <3>1. CASE k = s
      BY <1>t, <1>2, <3>1 DEF Ended
    <3>2. CASE k # s
      BY <1>t, <1>e, <1>2, <3>2 DEF Ended
    <3> QED
      BY <3>1, <3>2
  <2> QED
    BY <1>2, <2>1, <2>2, ErrsKept
<1>3. ASSUME NEW s \in Structs, FieldFails(s)
      PROVE  ErrsInv'
  <2>1. /\ pc[s] = "scanning" /\ errs' = errs
        /\ ret' = [ret EXCEPT ![s] = Words]
        /\ left' = [left EXCEPT ![s] = IF s = Root THEN {} ELSE Words]
        /\ pc' = [k \in Structs |-> IF k = s THEN IF s = Root THEN "done" ELSE "storing"
                                    ELSE IF k = Field(s).child THEN "scanning" ELSE pc[k]]
    BY <1>3, Zenon DEF FieldFails
  <2>2. /\ pc'[s] = IF s = Root THEN "done" ELSE "storing"
        /\ \A k \in Structs \ {s} : pc'[k] = pc[k] \/ pc'[k] = "scanning"
        /\ Words \in SUBSET Words
    BY <2>1
  <2> QED
    BY <1>2, <2>1, <2>2
<1>4. ASSUME NEW s \in Structs, Scanned(s)
      PROVE  ErrsInv'
  <2>1. /\ pc[s] = "scanning" /\ errs' = errs
        /\ ret' = [ret EXCEPT ![s] = Pick(s)]
        /\ left' = [left EXCEPT ![s] = IF s = Root THEN {} ELSE Words]
        /\ pc' = [pc EXCEPT ![s] = IF s = Root THEN "done" ELSE "storing"]
    BY <1>4, Zenon DEF Scanned, Return, Pick
  <2>2. /\ pc'[s] = IF s = Root THEN "done" ELSE "storing"
        /\ \A k \in Structs \ {s} : pc'[k] = pc[k]
    BY <1>t, <2>1
  <2>3. Pick(s) \in SUBSET Words
    BY <1>t DEF Pick
  <2> QED
    BY <1>2, <2>1, <2>2, <2>3
<1>5. ASSUME NEW s \in Structs \ {Root}, NEW w \in Words, StoreWord(s, w)
      PROVE  ErrsInv'
  <2>1. /\ pc[s] = "storing" /\ w \in left[s]
        /\ left' = [left EXCEPT ![s] = @ \ {w}]
        /\ pc' = pc /\ ret' = ret
    BY <1>5 DEF StoreWord
  <2>2. \A p \in Structs : \A v \in {"pointerErr", "structErr"} :
            errs'[p][v] = IF p = Parent(s) /\ v = Slot(s)
                          THEN (errs[p][v] \ {w}) \cup (ret[s] \cap {w}) ELSE errs[p][v]
    BY <1>t, <1>5, WordStored
  <2>3. ASSUME NEW k \in Structs \ {Root}, pc'[k] = "done"
        PROVE  left'[k] = {}
    BY <1>t, <1>e, <2>1, <2>3
  <2>4. ASSUME NEW p \in Structs, NEW v \in {"pointerErr", "structErr"}, NEW x \in errs'[p][v]
        PROVE  \E k \in Children(p) : Slot(k) = v /\ x \in ret'[k]
    <3>1. CASE x \in errs[p][v]
      BY <2>1, <3>1 DEF ErrsInv
    <3>2. CASE x \notin errs[p][v]
      <4>1. p = Parent(s) /\ v = Slot(s) /\ x \in ret[s]
        BY <2>2, <2>4, <3>2
      <4> QED
        BY <2>1, <4>1 DEF Children
    <3> QED
      BY <3>1, <3>2
  <2>5. ASSUME NEW k \in Structs \ {Root}, ~Shares(k), Ended(k)', NEW x \in Words \ left'[k]
        PROVE  x \in errs'[Parent(k)][Slot(k)] <=> x \in ret'[k]
    <3>1. Ended(k) /\ Parent(k) \in Structs /\ Slot(k) \in {"pointerErr", "structErr"}
      BY <2>1, <2>5, PlaceIs, SlotIs DEF Ended
    <3>2. x \notin left[k] => (x \in errs[Parent(k)][Slot(k)] <=> x \in ret[k])
      BY <2>5, <3>1 DEF ErrsInv
    <3>3. CASE k = s
      <4>1. errs'[Parent(k)][Slot(k)] = (errs[Parent(k)][Slot(k)] \ {w}) \cup (ret[s] \cap {w})
        BY <2>2, <3>1, <3>3
      <4>2. x # w => x \notin left[k]
        BY <1>t, <2>1, <2>5, <3>3
      <4> QED
        BY <2>1, <3>2, <3>3, <4>1, <4>2
    <3>4. CASE k # s
      <4>1. errs'[Parent(k)][Slot(k)] = errs[Parent(k)][Slot(k)]
        BY <2>2, <2>5, <3>1, <3>4, OneAssigns
      <4>2. left'[k] = left[k]
        BY <1>t, <2>1, <3>4
      <4> QED
        BY <2>1, <2>5, <3>2, <4>1, <4>2
    <3> QED
      BY <3>3, <3>4
  <2> QED
    BY <2>3, <2>4, <2>5 DEF ErrsInv
<1>6. ASSUME NEW s \in Structs \ {Root}, Done(s)
      PROVE  ErrsInv'
  <2>1. /\ pc[s] = "storing" /\ left[s] = {}
        /\ pc' = [pc EXCEPT ![s] = "done"]
        /\ errs' = errs /\ ret' = ret /\ left' = left
    BY <1>6 DEF Done
  <2>2. \A k \in Structs : (pc'[k] = pc[k] /\ k # s) \/ (k = s /\ pc'[k] = "done")
    BY <1>t, <2>1
  <2>3. \A k \in Structs \ {Root} : /\ pc'[k] = "done" => left'[k] = {}
                                    /\ Ended(k)' => Ended(k)
    BY <1>e, <2>1, <2>2 DEF Ended
  <2> QED
    BY <2>1, <2>3, ErrsKept
<1>7. CASE Validate \/ UNCHANGED vars
  <2>1. pc' = pc /\ errs' = errs /\ ret' = ret /\ left' = left
    BY <1>7 DEF Validate, vars
  <2> QED
    BY <1>e, <2>1, ErrsKept DEF Ended
<1> QED
  BY <1>1, <1>3, <1>4, <1>5, <1>6, <1>7 DEF Next

(* What a variable holds when all who assign it are done.                  *)
LEMMA PickIsWhole ==
  ASSUME ParseTyped, TreeInv, ErrsInv, RetInv,
         NEW s \in Structs, \A k \in Children(s) : pc[k] = "done",
         \A k \in Structs \ {Root} : Shares(k) => ret[k] = {}
  PROVE  Pick(s) \in {{}, Words}
<1>t. /\ errs \in [Structs -> [{"pointerErr", "structErr"} -> SUBSET Words]]
      /\ ret \in [Structs -> SUBSET Words]
  BY DEF ParseTyped, TypeOK
<1>1. ASSUME NEW v \in {"pointerErr", "structErr"}
      PROVE  errs[s][v] \in {{}, Words}
  <2>1. SUFFICES ASSUME NEW w \in errs[s][v]
                 PROVE  errs[s][v] = Words
    OBVIOUS
  <2>2. PICK k \in Children(s) : Slot(k) = v /\ w \in ret[k]
    BY <2>1 DEF ErrsInv
  <2>3. k \in Structs \ {Root} /\ Parent(k) = s
    BY DEF Children
  <2>4. ~Shares(k)
    BY <2>2, <2>3
  <2>5. ret[k] = Words
    BY <2>2, <2>3 DEF RetInv
  <2>6. pc[k] = "done" /\ left[k] = {}
    BY <2>3 DEF ErrsInv
  <2>7. \A x \in Words : x \in errs[s][v]
    BY <2>2, <2>3, <2>4, <2>5, <2>6 DEF ErrsInv, Ended
  <2> QED
    BY <1>t, <2>7
<1> QED
  BY <1>1 DEF Pick

LEMMA StepRet ==
  ASSUME ParseTyped, TreeInv, ScanInv, ErrsInv, RetInv, [Next]_vars
  PROVE  RetInv'
<1>t. ret \in [Structs -> SUBSET Words] /\ pc \in [Structs -> PCs]
  BY DEF ParseTyped, TypeOK
<1>r. \A s \in Structs : pc[s] = "scanning" => ret[s] = {}
  BY ScanInvIs DEF Ends, Ended
<1>1. ASSUME ret' = ret
      PROVE  RetInv'
  BY <1>1 DEF RetInv
<1>2. ASSUME NEW s \in Structs, ret[s] = {}, NEW e \in SUBSET Words, ret' = [ret EXCEPT ![s] = e],
             e \in {{}, Words} \/ \E k \in Structs \ {Root} : Shares(k) /\ ret[k] # {}
      PROVE  RetInv'
  <2>1. \A k \in Structs : k # s => ret'[k] = ret[k]
    BY <1>t, <1>2
  <2>2. ret'[s] = e
    BY <1>t, <1>2
  <2>3. ASSUME NEW k \in Structs \ {Root}, Shares(k), ret[k] # {}
        PROVE  ret'[k] # {}
    BY <1>2, <2>1, <2>3
  <2> QED
    BY <1>2, <2>1, <2>2, <2>3 DEF RetInv
<1>3. ASSUME NEW s \in Structs, FieldFails(s)
      PROVE  RetInv'
  BY <1>2, <1>3, <1>r DEF FieldFails
<1>4. ASSUME NEW s \in Structs, Scanned(s)
      PROVE  RetInv'
  <2>1. /\ pc[s] = "scanning" /\ at[s] > Len(Fields[s]) /\ wg[s] = 0
        /\ ret' = [ret EXCEPT ![s] = Pick(s)]
    BY <1>4, Zenon DEF Scanned, Return, Pick
  <2>2. \A k \in Children(s) : pc[k] = "done"
    BY <2>1, WaitEnds
  <2>3. Pick(s) \in {{}, Words} \/ \E k \in Structs \ {Root} : Shares(k) /\ ret[k] # {}
    BY <2>2, PickIsWhole
  <2>4. Pick(s) \in SUBSET Words
    BY DEF Pick, ParseTyped, TypeOK
  <2> QED
    BY <1>2, <1>r, <2>1, <2>3, <2>4
<1> QED
  BY <1>1, <1>3, <1>4 DEF Next, ScanField, StoreWord, Done, Validate, vars

LEMMA StepResult ==
  ASSUME ParseTyped, TreeInv, ScanInv, ResultInv, [Next]_vars
  PROVE  ResultInv'
<1>t. pc \in [Structs -> PCs] /\ ret \in [Structs -> SUBSET Words] /\ Root \in Structs
  BY EnvParseAssumption DEF ParseTyped, TypeOK, EnvParseAssumption
<1>1. ASSUME pc'[Root] = "done" <=> pc[Root] = "done", ret'[Root] = ret[Root], result' = result
      PROVE  ResultInv'
  BY <1>1 DEF ResultInv, Passed
<1>2. ASSUME pc[Root] = "scanning", pc'[Root] = "done",
             result' = IF "type" \in ret'[Root] THEN "scan error" ELSE "scanned"
      PROVE  ResultInv'
  BY <1>2 DEF ResultInv, Passed
<1>3. ASSUME NEW s \in Structs, ScanField(s)
      PROVE  ResultInv'
  <2>1. /\ pc[s] = "scanning" /\ at[s] <= Len(Fields[s])
        /\ pc' = IF Field(s).child = None THEN pc ELSE [pc EXCEPT ![Field(s).child] = "scanning"]
        /\ ret' = ret /\ result' = result
    BY <1>3, Zenon DEF ScanField
  <2>2. Field(s).child # Root
    <3>1. Field(s).child \in (Structs \ {Root}) \cup {None}
      BY <2>1, NextField
    <3> QED
      BY <3>1, EnvParseAssumption DEF EnvParseAssumption
  <2>3. pc'[Root] = pc[Root]
    BY <1>t, <2>1, <2>2
  <2> QED
    BY <1>1, <2>1, <2>3
<1>4. ASSUME NEW s \in Structs, FieldFails(s)
      PROVE  ResultInv'
  <2>1. /\ pc[s] = "scanning" /\ at[s] <= Len(Fields[s])
        /\ pc' = [k \in Structs |-> IF k = s THEN IF s = Root THEN "done" ELSE "storing"
                                    ELSE IF k = Field(s).child THEN "scanning" ELSE pc[k]]
        /\ ret' = [ret EXCEPT ![s] = Words]
        /\ result' = IF s = Root THEN "scan error" ELSE result
    BY <1>4, Zenon DEF FieldFails
  <2>2. Field(s).child # Root
    <3>1. Field(s).child \in (Structs \ {Root}) \cup {None}
      BY <2>1, NextField
    <3> QED
      BY <3>1, EnvParseAssumption DEF EnvParseAssumption
  <2>3. CASE s = Root
    <3>1. pc'[Root] = "done" /\ ret'[Root] = Words
      BY <1>t, <2>1, <2>3
    <3> QED
      BY <1>2, <2>1, <2>3, <3>1 DEF Words
  <2>4. CASE s # Root
    <3>1. pc'[Root] = pc[Root] /\ ret'[Root] = ret[Root]
      BY <1>t, <2>1, <2>2, <2>4
    <3> QED
      BY <1>1, <2>1, <2>4, <3>1
  <2> QED
    BY <2>3, <2>4
<1>5. ASSUME NEW s \in Structs, Scanned(s)
      PROVE  ResultInv'
  <2>1. /\ pc[s] = "scanning"
        /\ pc' = [pc EXCEPT ![s] = IF s = Root THEN "done" ELSE "storing"]
        /\ ret' = [ret EXCEPT ![s] = Pick(s)]
        /\ result' = IF s # Root THEN result ELSE IF "type" \in Pick(s) THEN "scan error" ELSE "scanned"
    BY <1>5, Zenon DEF Scanned, Return, Pick
  <2>2. CASE s = Root
    <3>1. pc'[Root] = "done" /\ ret'[Root] = Pick(Root)
      BY <1>t, <2>1, <2>2
    <3> QED
      BY <1>2, <2>1, <2>2, <3>1
  <2>3. CASE s # Root
    <3>1. pc'[Root] = pc[Root] /\ ret'[Root] = ret[Root]
      BY <1>t, <2>1, <2>3
    <3> QED
      BY <1>1, <2>1, <2>3, <3>1
  <2> QED
    BY <2>2, <2>3
<1>6. ASSUME NEW s \in Structs \ {Root}, NEW w \in Words, StoreWord(s, w)
      PROVE  ResultInv'
  BY <1>1, <1>6 DEF StoreWord
<1>7. ASSUME NEW s \in Structs \ {Root}, Done(s)
      PROVE  ResultInv'
  BY <1>1, <1>7, <1>t DEF Done
<1>8. CASE Validate
  BY <1>8 DEF Validate, ResultInv, Passed
<1>9. CASE UNCHANGED vars
  BY <1>1, <1>9 DEF vars
<1> QED
  BY <1>3, <1>4, <1>5, <1>6, <1>7, <1>8, <1>9 DEF Next

LEMMA InitParsing == Init => ParsingInv
<1> SUFFICES ASSUME Init
             PROVE  ParsingInv
  OBVIOUS
<1>1. /\ outcome \in [AllFields -> {"skip", "set", "fail"}]
      /\ pc = [s \in Structs |-> IF s = Root THEN "scanning" ELSE "idle"]
      /\ at = [s \in Structs |-> 1]
      /\ wg = [s \in Structs |-> 0]
      /\ errs = [s \in Structs |-> [e \in {"pointerErr", "structErr"} |-> {}]]
      /\ ret = [s \in Structs |-> {}]
      /\ left = [s \in Structs |-> {}]
      /\ written = {}
      /\ result = "none"
  BY DEF Init
<1>r. Root \in Structs
  BY EnvParseAssumption DEF EnvParseAssumption
<1>2. ParseTyped
  <2>1. \A s \in Structs : at[s] \in 1..(Len(Fields[s]) + 1)
    BY <1>1, LenFields
  <2>2. pc \in [Structs -> PCs] /\ wg \in [Structs -> Nat] /\ at \in [Structs -> Nat]
    BY <1>1 DEF PCs
  <2> QED
    BY <1>1, <2>1, <2>2 DEF ParseTyped, TypeOK, Results
<1>3. TreeInv
  <2>1. ASSUME NEW s \in Structs \ {Root}
        PROVE  pc[s] = "idle" /\ ~Started(s)
    <3>1. Parent(s) \in Structs /\ Place(s) \in DOMAIN Fields[Parent(s)]
      BY PlaceIs
    <3>2. Place(s) \in Nat /\ Place(s) >= 1
      BY <3>1, LenFields
    <3> QED
      BY <1>1, <3>1, <3>2 DEF Started, Ended
  <2>2. ASSUME NEW s \in Structs
        PROVE  wg[s] = Cardinality(Running(s))
    <3>1. Running(s) = {}
      BY <2>1 DEF Running, Children
    <3> QED
      BY <1>1, <3>1, RunningFinite
  <2> QED
    BY <1>1, <1>r, <2>1, <2>2 DEF TreeInv
<1>4. ScanInv
  <2>1. ASSUME NEW s \in Structs
        PROVE  Passes(s)
    <3>1. \A i \in DOMAIN Fields[s] : ~(i < at[s])
      BY <1>1, LenFields
    <3> QED
      BY <1>1, <3>1 DEF Passes
  <2>2. ASSUME NEW s \in Structs
        PROVE  Ends(s)
    BY <1>1 DEF Ends, Ended
  <2> QED
    BY <2>1, <2>2, ScanInvIs
<1>5. ErrsInv
  BY <1>1 DEF ErrsInv, Ended
<1>6. RetInv
  BY <1>1 DEF RetInv
<1>7. ResultInv
  BY <1>1, <1>r DEF ResultInv, Passed
<1> QED
  BY <1>2, <1>3, <1>4, <1>5, <1>6, <1>7 DEF ParsingInv, ParseTyped

LEMMA StepParsing ==
  ASSUME ParsingInv, [Next]_vars
  PROVE  ParsingInv'
<1>1. ParseTyped /\ TreeInv /\ ScanInv /\ ErrsInv /\ RetInv /\ ResultInv
  BY DEF ParsingInv, ParseTyped
<1>2. ParseTyped' /\ TreeInv' /\ ScanInv' /\ ErrsInv' /\ RetInv' /\ ResultInv'
  BY <1>1, StepParseTyped, StepTree, StepScan, StepErrs, StepRet, StepResult
<1> QED
  BY <1>2 DEF ParsingInv, ParseTyped

(* The structs on the way from s to Root have their parents on it, and     *)
(* what a parent hands down to its children on the way comes to s.         *)
LEMMA OnTheWay ==
  ASSUME NEW s \in Structs
  PROVE  /\ Above[s] \subseteq Structs \ {Root}
         /\ s # Root => s \in Above[s]
         /\ \A k \in Above[s] : Parent(k) \in Above[s] \cup {Root}
<1>1. Above[s] = {k \in Structs \ {Root} :
                     \A S \in SUBSET Structs :
                         s \in S /\ (\A j \in S \ {Root} : Parent(j) \in S) => k \in S}
  BY Zenon DEF Above
<1>2. ASSUME NEW k \in Above[s], Parent(k) # Root
      PROVE  Parent(k) \in Above[s]
  <2>1. k \in Structs \ {Root} /\ Parent(k) \in Structs \ {Root}
    BY <1>1, <1>2, PlaceIs
  <2>2. ASSUME NEW S \in SUBSET Structs, s \in S, \A j \in S \ {Root} : Parent(j) \in S
        PROVE  Parent(k) \in S
    <3>1. k \in S
      BY <1>1, <2>2
    <3> QED
      BY <2>1, <2>2, <3>1
  <2> QED
    BY <1>1, <2>1, <2>2
<1>3. s # Root => s \in Above[s]
  BY <1>1
<1>4. Above[s] \subseteq Structs \ {Root}
  BY <1>1
<1> QED
  BY <1>2, <1>3, <1>4

LEMMA DownTheWay ==
  ASSUME NEW s \in Structs, NEW G, Root \in G,
         \A k \in Above[s] : Parent(k) \in G => k \in G
  PROVE  s \in G /\ Above[s] \subseteq G
<1> DEFINE S == Above[s] \ G
<1>1. S = {}
  <2>1. SUFFICES ASSUME S # {}
                 PROVE  FALSE
    OBVIOUS
  <2>2. S \in SUBSET (Structs \ {Root})
    BY OnTheWay
  <2>3. PICK k \in S : Parent(k) \notin S
    <3> HIDE DEF S
    <3> QED
      BY <2>1, <2>2, EnvParseAssumption, Zenon DEF EnvParseAssumption
  <2>4. Parent(k) \in Above[s] \cup {Root}
    BY OnTheWay
  <2> QED
    BY <2>3, <2>4
<1> QED
  BY <1>1, OnTheWay

LEMMA ParsedIsComplete == ParsingInv => CompleteWhenPassed
<1> SUFFICES ASSUME ParsingInv, Passed, NEW s \in Structs,
                    \A k \in Above[s] \cup {Root} : ~Fails(k)
             PROVE  /\ pc[s] = "done"
                    /\ written \cap FieldsOf(s) = {f \in FieldsOf(s) : outcome[f] = "set"}
  BY DEF CompleteWhenPassed
<1>t. /\ Root \in Structs
      /\ \A k \in Structs : at[k] \in 1..(Len(Fields[k]) + 1)
  BY EnvParseAssumption DEF EnvParseAssumption, ParsingInv, TypeOK
<1>s. \A k \in Structs : Passes(k) /\ Ends(k)
  BY ScanInvIs DEF ParsingInv
<1>1. pc[Root] = "done"
  BY DEF ParsingInv, ResultInv, Passed
<1>2. ASSUME NEW k \in Structs, ~Fails(k), pc[k] = "done"
      PROVE  /\ at[k] > Len(Fields[k])
             /\ \A j \in Children(k) : pc[j] = "done"
  <2>1. at[k] <= Len(Fields[k]) => outcome[<<k, at[k]>>] # "fail"
    <3>1. at[k] <= Len(Fields[k]) => at[k] \in DOMAIN Fields[k]
      BY <1>t, LenFields
    <3> QED
      BY <1>2, <3>1 DEF Fails, FieldsOf
  <2> QED
    BY <1>s, <1>2, <2>1 DEF Ends, Ended
<1> DEFINE G == {k \in Structs : pc[k] = "done"}
<1>3. ASSUME NEW k \in Above[s], Parent(k) \in G
      PROVE  k \in G
  <2>1. k \in Structs \ {Root} /\ Parent(k) \in Above[s] \cup {Root}
    BY OnTheWay
  <2>2. k \in Children(Parent(k))
    BY <2>1 DEF Children
  <2> QED
    BY <1>2, <1>3, <2>1, <2>2
<1>4. pc[s] = "done"
  <2>1. Root \in G
    BY <1>t, <1>1
  <2> HIDE DEF G
  <2>2. s \in G
    BY <1>3, <2>1, DownTheWay
  <2> QED
    BY <2>2 DEF G
<1>5. at[s] > Len(Fields[s])
  BY <1>2, <1>4, OnTheWay
<1>6. ASSUME NEW f \in FieldsOf(s)
      PROVE  f \in written <=> outcome[f] = "set"
  <2>1. PICK i \in DOMAIN Fields[s] : f = <<s, i>>
    BY DEF FieldsOf
  <2>2. i < at[s]
    BY <1>t, <1>5, LenFields
  <2> QED
    BY <1>s, <2>1, <2>2 DEF Passes
<1> QED
  BY <1>4, <1>6

LEMMA FailuresComeUp == ParsingInv => ErrorReported
<1> SUFFICES ASSUME ParsingInv
             PROVE  ErrorReported
  OBVIOUS
<1>t. /\ Root \in Structs
      /\ errs \in [Structs -> [{"pointerErr", "structErr"} -> SUBSET Words]]
      /\ \A k \in Structs : at[k] \in 1..(Len(Fields[k]) + 1)
  BY EnvParseAssumption DEF EnvParseAssumption, ParsingInv, TypeOK
<1>s. \A k \in Structs : Passes(k) /\ Ends(k)
  BY ScanInvIs DEF ParsingInv
<1>1. ASSUME Passed, NEW f \in AllFields, outcome[f] = "fail", \A k \in Above[f[1]] : ~Shares(k)
      PROVE  FALSE
  <2>1. PICK s \in Structs : f \in FieldsOf(s)
    BY DEF AllFields
  <2>2. PICK i \in DOMAIN Fields[s] : f = <<s, i>>
    BY <2>1 DEF FieldsOf
  <2> DEFINE G == {k \in Structs : pc[k] = "done" /\ "type" \notin ret[k]}
  <2>3. ASSUME NEW k \in G
        PROVE  at[k] > Len(Fields[k]) /\ ret[k] = Pick(k) /\ \A j \in Children(k) : pc[j] = "done"
    BY <1>s, <2>3 DEF Ends, Ended, Words
  <2>4. Root \in G
    BY <1>t, <1>1 DEF ParsingInv, ResultInv, Passed
  <2>5. ASSUME NEW k \in Above[s], Parent(k) \in G
        PROVE  k \in G
    <3>1. k \in Structs \ {Root} /\ ~Shares(k)
      BY <1>1, <2>2, OnTheWay
    <3>2. k \in Children(Parent(k))
      BY <3>1 DEF Children
    <3>3. pc[k] = "done" /\ ret[Parent(k)] = Pick(Parent(k)) /\ "type" \notin ret[Parent(k)]
      BY <2>3, <2>5, <3>2
    <3>4. "type" \notin errs[Parent(k)][Slot(k)]
      BY <3>3, SlotIs, <3>1 DEF Pick
    <3>5. "type" \in errs[Parent(k)][Slot(k)] <=> "type" \in ret[k]
      <4>1. left[k] = {} /\ Ended(k)
        BY <3>1, <3>3 DEF ParsingInv, ErrsInv, Ended
      <4> QED
        BY <3>1, <4>1 DEF ParsingInv, ErrsInv, Words
    <3> QED
      BY <3>1, <3>3, <3>4, <3>5
  <2>6. s \in G
    <3> HIDE DEF G
    <3> QED
      BY <2>4, <2>5, DownTheWay
  <2>7. i < at[s]
    BY <1>t, <2>3, <2>6, LenFields
  <2> QED
    BY <1>1, <1>s, <2>2, <2>7 DEF Passes
<1>2. ASSUME result = "scan error"
      PROVE  ret[Root] = Words \/ \E s \in Structs \ {Root} : Shares(s) /\ ret[s] # {}
  <2>1. ret[Root] # {}
    BY <1>2 DEF ParsingInv, ResultInv
  <2> QED
    BY <1>t, <2>1 DEF ParsingInv, RetInv
<1> QED
  BY <1>1, <1>2 DEF ErrorReported

(* What the scans, their WaitGroups and their errors are like at every     *)
(* step of Parse (parse.go:112-191).                                       *)
THEOREM ParsingInvariant == Spec => []ParsingInv
<1>1. Init => ParsingInv
  BY InitParsing
<1>2. ParsingInv /\ [Next]_vars => ParsingInv'
  BY StepParsing
<1> QED
  BY <1>1, <1>2, PTL DEF Spec

(* Parse of a struct with any number of fields, structs and pointers       *)
(* inside: what it hands to the validators and returns has been read to    *)
(* the last variable, and no goroutine writes to it any more, save in or   *)
(* below a struct whose scan fails (parse.go:180-183).                     *)
THEOREM PassedIsComplete == Spec => []ParseInv
<1>1. ParsingInv => ParseInv
  BY ParsedIsComplete DEF ParseInv, ParsingInv
<1> QED
  BY <1>1, ParsingInvariant, PTL

(* A variable that cannot be read, at any depth of such a struct, makes    *)
(* Parse return a whole error, unless a goroutine that passes it on shares *)
(* its variable with another (parse.go:155-190).                           *)
THEOREM ErrorsAreReported == Spec => []ErrorReported
BY FailuresComeUp, ParsingInvariant, PTL

(* Everything has been read, and nobody writes any more; something could   *)
(* not be read.                                                            *)
AllRead ==
    /\ \A s \in Structs : pc[s] = "done"
    /\ written = {f \in AllFields : outcome[f] = "set"}
SomethingFails == \E f \in AllFields : outcome[f] = "fail"

(* Scans return errors only if something fails.                            *)
QuietInv == SomethingFails \/ \A s \in Structs : ret[s] = {}

LEMMA StepQuiet ==
  ASSUME ParsingInv, QuietInv, [Next]_vars
  PROVE  QuietInv'
<1>t. /\ errs \in [Structs -> [{"pointerErr", "structErr"} -> SUBSET Words]]
      /\ ret \in [Structs -> SUBSET Words]
      /\ ParseTyped
  BY DEF ParsingInv, ParseTyped, TypeOK
<1>0. outcome' = outcome
  BY DEF Next, ScanField, FieldFails, Scanned, StoreWord, Done, Validate, vars
<1>1. SUFFICES ASSUME ~SomethingFails, NEW s \in Structs
               PROVE  ret'[s] = {}
  BY <1>0 DEF QuietInv, SomethingFails
<1>2. \A k \in Structs : ret[k] = {}
  BY <1>1 DEF QuietInv
<1>3. ASSUME NEW k \in Structs, FieldFails(k)
      PROVE  FALSE
  <2>1. at[k] <= Len(Fields[k]) /\ outcome[<<k, at[k]>>] = "fail"
    BY <1>3 DEF FieldFails, GetFieldENV
  <2>2. <<k, at[k]>> \in AllFields
    BY <1>t, <2>1, NextField, FieldIs
  <2> QED
    BY <1>1, <2>1, <2>2 DEF SomethingFails
<1>4. ASSUME NEW k \in Structs, Scanned(k)
      PROVE  ret'[s] = {}
  <2>1. ret' = [ret EXCEPT ![k] = Pick(k)]
    BY <1>4, Zenon DEF Scanned, Return, Pick
  <2>2. \A v \in {"pointerErr", "structErr"} : errs[k][v] = {}
    BY <1>2 DEF ParsingInv, ErrsInv, Children
  <2>3. Pick(k) = {}
    BY <2>2 DEF Pick
  <2> QED
    BY <1>t, <1>2, <2>1, <2>3
<1>5. CASE ret' = ret
  BY <1>2, <1>5
<1> QED
  BY <1>3, <1>4, <1>5 DEF Next, ScanField, StoreWord, Done, Validate, vars

(* In a struct that has, at every depth, one field with a struct and one   *)
(* pointer to one at most, no two goroutines assign one variable: then     *)
(* Parse fails if and only if something cannot be read, with a whole       *)
(* error, and has otherwise read everything and left nobody behind         *)
(* (parse.go:119-143).                                                     *)
THEOREM UnsharedParseIsExact ==
  ASSUME \A s \in Structs \ {Root} : ~Shares(s)
  PROVE  Spec => [](/\ Passed => ~SomethingFails /\ AllRead
                    /\ result = "scan error" => SomethingFails /\ ret[Root] = Words)
<1>1. Init => QuietInv
  BY DEF Init, QuietInv
<1>2. ParsingInv /\ QuietInv /\ [Next]_vars => QuietInv'
  BY StepQuiet
<1>3. ASSUME ParsingInv, QuietInv
      PROVE  /\ Passed => ~SomethingFails /\ AllRead
             /\ result = "scan error" => SomethingFails /\ ret[Root] = Words
  <2>0. Root \in Structs /\ \A s \in Structs : Above[s] \subseteq Structs \ {Root}
    BY OnTheWay, EnvParseAssumption DEF EnvParseAssumption
  <2>1. ErrorReported /\ CompleteWhenPassed
    BY <1>3, FailuresComeUp, ParsedIsComplete
  <2>2. ASSUME Passed
        PROVE  ~SomethingFails /\ AllRead
    <3>1. \A f \in AllFields : f[1] \in Structs
      BY DEF AllFields, FieldsOf
    <3>2. ~SomethingFails
      BY <2>0, <2>1, <2>2, <3>1 DEF ErrorReported, SomethingFails
    <3>3. \A k \in Structs : ~Fails(k)
      BY <3>2 DEF Fails, SomethingFails, AllFields
    <3>4. \A s \in Structs : /\ pc[s] = "done"
                             /\ written \cap FieldsOf(s) = {f \in FieldsOf(s) : outcome[f] = "set"}
      BY <2>0, <2>1, <2>2, <3>3 DEF CompleteWhenPassed
    <3>5. written \subseteq AllFields
      BY <1>3 DEF ParsingInv, TypeOK
    <3>6. written = {f \in AllFields : outcome[f] = "set"}
      BY <3>4, <3>5 DEF AllFields
    <3> QED
      BY <3>2, <3>4, <3>6 DEF AllRead
  <2>3. ASSUME result = "scan error"
        PROVE  SomethingFails /\ ret[Root] = Words
    <3>1. ret[Root] = Words
      BY <2>1, <2>3 DEF ErrorReported
    <3> QED
      BY <1>3, <2>0, <3>1 DEF QuietInv, Words
  <2> QED
    BY <2>2, <2>3
<1> QED
  BY <1>1, <1>2, <1>3, ParsingInvariant, PTL DEF Spec

(* What the run checks are behaviours of Parse and of OR and AND: both     *)
(* theorems are about them (MCForks).                                      *)
THEOREM RunsAreOfForks == MCSpec => Spec /\ Signal!Spec
<1>1. MCInit => Init /\ Signal!Init
  BY DEF MCInit
<1>2. [ParseStep \/ SignalStep]_<<call, vars, signalVars>> => [Next]_vars
  BY DEF ParseStep, SignalStep
<1>3. [ParseStep \/ SignalStep]_<<call, vars, signalVars>> => [Signal!Next]_(Signal!vars)
  BY DEF ParseStep, SignalStep, signalVars, Signal!vars
<1> QED
  BY <1>1, <1>2, <1>3, PTL DEF MCSpec, Spec, Signal!Spec
===============================================================================
