-------------------------------- MODULE EnvParse --------------------------------
(***************************************************************************)
(* ENV.Parse of environment/parse.go on a tree of structs.  scanStructENV  *)
(* goes through the fields of a struct in order and starts a goroutine for *)
(* each field that is a struct or points to one.  The goroutines of a      *)
(* struct's pointer fields share its variable pointerErr, those of its     *)
(* struct fields share structErr; nothing orders their assignments.        *)
(*                                                                         *)
(* An error is an interface value: two machine words, its type and its     *)
(* data, stored one at a time.  It is represented by the set of its words  *)
(* that are not nil, so that {} is nil and Words an error.                 *)
(***************************************************************************)
EXTENDS Naturals, Sequences, FiniteSets

CONSTANTS Structs, Root,
          Fields,       (* Fields[s]: the fields of s in order, each with   *)
                        (* child (a struct or None) and pointer             *)
          None

FieldsOf(s) == {<<s, i>> : i \in DOMAIN Fields[s]}
AllFields == UNION {FieldsOf(s) : s \in Structs}

(* The struct that a field holds or points to, and the field of a struct.  *)
Child(f) == Fields[f[1]][f[2]].child
PlaceOf(s) == CHOOSE f \in AllFields : Child(f) = s
Parent(s) == PlaceOf(s)[1]

(* Every struct but Root is the child of one field, and none is inside     *)
(* itself.                                                                 *)
ASSUME EnvParseAssumption ==
    /\ Root \in Structs
    /\ None \notin Structs
    /\ IsFiniteSet(Structs)
    /\ \A s \in Structs :
           Fields[s] \in Seq([child : (Structs \ {Root}) \cup {None}, pointer : BOOLEAN])
    /\ \A s \in Structs \ {Root} :
           \E f \in AllFields : \A g \in AllFields : Child(g) = s <=> g = f
    /\ \A S \in SUBSET (Structs \ {Root}) : S # {} => \E s \in S : Parent(s) \notin S

VARIABLES outcome,      (* what the environment makes of each field:        *)
                        (* getFieldENV skips it, sets it or fails           *)
          pc,           (* where the scan of each struct is                 *)
          at,           (* at[s]: the field it looks at                     *)
          wg,           (* wg[s]: its WaitGroup                             *)
          errs,         (* errs[s]: its pointerErr and structErr            *)
          ret,          (* ret[s]: the error its scan returns               *)
          left,         (* left[s]: the words of ret[s] yet to be stored    *)
          written,      (* the fields that have been set                    *)
          result        (* what Parse has come to                           *)

vars == <<outcome, pc, at, wg, errs, ret, left, written, result>>

Words == {"type", "data"}
PCs == {"idle", "scanning", "storing", "done"}
Results == {"none", "scanned", "nil", "scan error", "invalid"}

Field(s) == Fields[s][at[s]]
Slot(s) == IF Fields[Parent(s)][PlaceOf(s)[2]].pointer THEN "pointerErr" ELSE "structErr"

TypeOK ==
    /\ outcome \in [AllFields -> {"skip", "set", "fail"}]
    /\ pc \in [Structs -> PCs]
    /\ \A s \in Structs : at[s] \in 1..(Len(Fields[s]) + 1)
    /\ wg \in [Structs -> Nat]
    /\ errs \in [Structs -> [{"pointerErr", "structErr"} -> SUBSET Words]]
    /\ ret \in [Structs -> SUBSET Words]
    /\ left \in [Structs -> SUBSET Words]
    /\ written \subseteq AllFields
    /\ result \in Results

(* A field that holds a struct can be skipped or fails: its kind is not    *)
(* supported.  Parse has called scanStructENV on what obj points to.       *)
Init ==
    /\ outcome \in {o \in [AllFields -> {"skip", "set", "fail"}] :
                       \A f \in AllFields : o[f] = "set" => Child(f) = None}
    /\ pc = [s \in Structs |-> IF s = Root THEN "scanning" ELSE "idle"]
    /\ at = [s \in Structs |-> 1]
    /\ wg = [s \in Structs |-> 0]
    /\ errs = [s \in Structs |-> [e \in {"pointerErr", "structErr"} |-> {}]]
    /\ ret = [s \in Structs |-> {}]
    /\ left = [s \in Structs |-> {}]
    /\ written = {}
    /\ result = "none"

(* The scan of s returns e: Parse has it at once if s is Root; else the    *)
(* goroutine stores it in its parent's variable.                           *)
Return(s, e) ==
    /\ ret' = [ret EXCEPT ![s] = e]
    /\ pc' = [pc EXCEPT ![s] = IF s = Root THEN "done" ELSE "storing"]
    /\ left' = [left EXCEPT ![s] = IF s = Root THEN {} ELSE Words]
    /\ result' = IF s # Root THEN result ELSE IF "type" \in e THEN "scan error" ELSE "scanned"

(* What getFieldENV does with field f.                                     *)
GetFieldENV(f) == outcome[f]

(* The next field of s is looked at: a goroutine is started for its        *)
(* struct, and the field is set if its variable is.                        *)
ScanField(s) ==
    /\ pc[s] = "scanning"
    /\ at[s] <= Len(Fields[s])
    /\ GetFieldENV(<<s, at[s]>>) # "fail"
    /\ at' = [at EXCEPT ![s] = @ + 1]
    /\ written' = IF GetFieldENV(<<s, at[s]>>) = "set" THEN written \cup {<<s, at[s]>>} ELSE written
    /\ LET c == Field(s).child
       IN  /\ pc' = IF c = None THEN pc ELSE [pc EXCEPT ![c] = "scanning"]
           /\ wg' = IF c = None THEN wg ELSE [wg EXCEPT ![s] = @ + 1]
    /\ UNCHANGED <<outcome, errs, ret, left, result>>

(* It cannot be set: the scan of s returns the error without waiting for   *)
(* the goroutines it has started, the last one for this field.             *)
FieldFails(s) ==
    /\ pc[s] = "scanning"
    /\ at[s] <= Len(Fields[s])
    /\ GetFieldENV(<<s, at[s]>>) = "fail"
    /\ LET c == Field(s).child
           leaves == IF s = Root THEN "done" ELSE "storing"
       IN  /\ pc' = [k \in Structs |-> IF k = s THEN leaves ELSE IF k = c THEN "scanning" ELSE pc[k]]
           /\ wg' = IF c = None THEN wg ELSE [wg EXCEPT ![s] = @ + 1]
    /\ ret' = [ret EXCEPT ![s] = Words]
    /\ left' = [left EXCEPT ![s] = IF s = Root THEN {} ELSE Words]
    /\ result' = IF s = Root THEN "scan error" ELSE result
    /\ UNCHANGED <<outcome, at, errs, written>>

ScannedNoWait(s) ==             \* mutant: without wg.Wait
    /\ pc[s] = "scanning"
    /\ at[s] > Len(Fields[s])
    /\ Return(s, IF "type" \in errs[s].pointerErr THEN errs[s].pointerErr ELSE errs[s].structErr)
    /\ UNCHANGED <<outcome, at, wg, errs, written>>

ScannedPointerErr(s) ==         \* mutant: structErr is not returned
    /\ pc[s] = "scanning"
    /\ at[s] > Len(Fields[s])
    /\ wg[s] = 0
    /\ Return(s, errs[s].pointerErr)
    /\ UNCHANGED <<outcome, at, wg, errs, written>>

(* The fields are done and so are the goroutines: their errors are         *)
(* returned, pointerErr first.                                             *)
Scanned(s) ==
    /\ pc[s] = "scanning"
    /\ at[s] > Len(Fields[s])
    /\ wg[s] = 0
    /\ Return(s, IF "type" \in errs[s].pointerErr THEN errs[s].pointerErr ELSE errs[s].structErr)
    /\ UNCHANGED <<outcome, at, wg, errs, written>>

(* A goroutine stores one word of the error of its scan.                   *)
StoreWord(s, w) ==
    /\ pc[s] = "storing"
    /\ w \in left[s]
    /\ left' = [left EXCEPT ![s] = @ \ {w}]
    /\ errs' = [errs EXCEPT ![Parent(s)][Slot(s)] = (@ \ {w}) \cup (ret[s] \cap {w})]
    /\ UNCHANGED <<outcome, pc, at, wg, ret, written, result>>

DoneHalfway(s) ==               \* mutant: wg.Done does not wait for the assignment
    /\ pc[s] = "storing"
    /\ "data" \in left[s]
    /\ pc' = [pc EXCEPT ![s] = "done"]
    /\ wg' = [wg EXCEPT ![Parent(s)] = @ - 1]
    /\ UNCHANGED <<outcome, at, errs, ret, left, written, result>>

DoneOnSuccess(s) ==             \* mutant: wg.Done only when there is no error
    /\ pc[s] = "storing"
    /\ left[s] = {}
    /\ pc' = [pc EXCEPT ![s] = "done"]
    /\ wg' = IF ret[s] = {} THEN [wg EXCEPT ![Parent(s)] = @ - 1] ELSE wg
    /\ UNCHANGED <<outcome, at, errs, ret, left, written, result>>

(* It has stored the error: wg.Done().                                     *)
Done(s) ==
    /\ pc[s] = "storing"
    /\ left[s] = {}
    /\ pc' = [pc EXCEPT ![s] = "done"]
    /\ wg' = [wg EXCEPT ![Parent(s)] = @ - 1]
    /\ UNCHANGED <<outcome, at, errs, ret, left, written, result>>

(* Parse calls the validators and returns what the first that fails says.  *)
Validate ==
    /\ result = "scanned"
    /\ result' \in {"nil", "invalid"}
    /\ UNCHANGED <<outcome, pc, at, wg, errs, ret, left, written>>

Next == \/ \E s \in Structs : ScanField(s) \/ FieldFails(s) \/ Scanned(s)
        \/ \E s \in Structs \ {Root} : (\E w \in Words : StoreWord(s, w)) \/ Done(s)
        \/ Validate

Spec == Init /\ [][Next]_vars

(* Every goroutine that can go on does.                                    *)
FairSpec == Spec /\ WF_vars(Next)
-------------------------------------------------------------------------------
Passed == result \in {"scanned", "nil", "invalid"}

(* The structs on the way from s up to Root, s included and Root not: they *)
(* are in every set that has s and the parents of its structs.             *)
Above ==
    [s \in Structs |->
        {k \in Structs \ {Root} :
            \A S \in SUBSET Structs :
                s \in S /\ (\A j \in S \ {Root} : Parent(j) \in S) => k \in S}]

(* A field of s cannot be set.                                             *)
Fails(s) == \E f \in FieldsOf(s) : outcome[f] = "fail"

(* The validators, and Parse's caller, are given structs all of whose      *)
(* variables have been read, and that no goroutine writes to any more      *)
(* (parse.go:183): save those in or below a struct whose scan fails, which *)
(* returns without waiting (line 180), when its error has been lost.       *)
CompleteWhenPassed ==
    Passed => \A s \in Structs :
        (\A k \in Above[s] \cup {Root} : ~Fails(k)) =>
            /\ pc[s] = "done"
            /\ written \cap FieldsOf(s) = {f \in FieldsOf(s) : outcome[f] = "set"}

(* parse.go at every step: the scans are well typed, and what Parse hands  *)
(* to the validators and returns is read to the last variable and at rest, *)
(* as far as nothing fails (line 183).                                     *)
ParseInv == TypeOK /\ CompleteWhenPassed

(* Another goroutine assigns the variable that the goroutine of s assigns. *)
Shares(s) == \E k \in Structs \ {Root, s} : Parent(k) = Parent(s) /\ Slot(k) = Slot(s)

(* A field that cannot be set, at any depth, makes Parse return an error   *)
(* (parse.go:155-190), as the tests error_sub_struct_pointer and           *)
(* error_sub_struct require, and one with both its words, so that its      *)
(* message can be read: unless a goroutine that passes the error on shares *)
(* its variable (lines 158, 165), where a nil, or half of another error,   *)
(* may overwrite it.                                                       *)
ErrorReported ==
    /\ Passed => \A f \in AllFields :
                     outcome[f] = "fail" => \E s \in Above[f[1]] : Shares(s)
    /\ result = "scan error" =>
           ret[Root] = Words \/ \E s \in Structs \ {Root} : Shares(s) /\ ret[s] # {}

(* Parse returns, with or without errors: no goroutine it waits for is     *)
(* lost (parse.go:155-183).                                                *)
ParseReturns == <>(result \in {"nil", "scan error", "invalid"})
===============================================================================
