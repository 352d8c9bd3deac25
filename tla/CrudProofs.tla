------------------------------- MODULE CrudProofs -------------------------------
(***************************************************************************)
(* What the handlers of Crud keep for any columns, tags, requests and page *)
(* sizes: type correctness, the validity of what is stored, the truth of   *)
(* the first answer to each request, and that paging misses no row.        *)
(***************************************************************************)
EXTENDS Crud, FiniteSetTheorems, WellFoundedInduction, TLAPS

(* A handler that is about to execute its statement has an object that     *)
(* passed the validators; one that is about to answer, and has no error,   *)
(* has carried its statement out, and the object that it created has the   *)
(* key of the row.                                                         *)
Prepared(r) == pc[r] = "exec" => Valid(req[r])
Carried(r) == carried[r] = "yes" \/ (carried[r] = "lost" /\ req[r].method = "read")
Truthful(r) ==
    pc[r] = "answer" /\ ~failed[r] =>
        /\ Carried(r)
        /\ req[r].method = "create" => req[r].key = made[r]

HandlersInv == \A r \in Requests : Prepared(r) /\ Truthful(r)

CrudInv == TypeOK /\ HandlersInv /\ RowsAreValid /\ FirstAnswerIsTrue /\ AnswerNamesItsRow

LEMMA EmptySeq == <<>> \in Seq(Answers)
BY SMT

LEMMA InitCrud == Init => CrudInv
<1> SUFFICES ASSUME Init PROVE CrudInv
  OBVIOUS
<1> USE CrudAssumption DEF CrudAssumption
<1>1. Zeros \in Rows
  BY SMT DEF Zeros, Rows
<1>2. table \in [Keys -> Rows \cup {NoRow}]
  BY <1>1, SMT DEF Init
<1>3. /\ next \in 1..(MaxKey + 1)
      /\ \A k \in Keys : k >= next => table[k] = NoRow
  BY SMT DEF Init, Keys
<1>4. req \in [Requests -> Objects]
  BY <1>1, SMT DEF Init, Objects, Methods
<1>5. /\ pc \in [Requests -> {"new", "exec", "answer", "done"}]
      /\ failed \in [Requests -> BOOLEAN]
      /\ carried \in [Requests -> {"no", "yes", "lost"}]
      /\ made \in [Requests -> 0..MaxKey]
  BY SMT DEF Init
<1>6. \A r \in Requests : pc[r] = "new" /\ answers[r] = <<>>
  BY DEF Init
<1>7. TypeOK
  <2>1. answers \in [Requests -> Seq(Answers)]
    BY EmptySeq, Zenon DEF Init
  <2>2. page \in Nat /\ seen \subseteq Keys /\ began \subseteq Keys
    BY DEF Init
  <2>3. wrote \in [Keys -> [Columns -> Writers]]
    BY SMT DEF Init, Unwritten, Writers
  <2> HIDE DEF CrudAssumption
  <2> QED
    BY <1>2, <1>3, <1>4, <1>5, <1>6, <2>1, <2>2, <2>3 DEF Init, TypeOK
<1>8. HandlersInv
  BY <1>6 DEF HandlersInv, Prepared, Truthful
<1>9. RowsAreValid
  BY SMT DEF Init, RowsAreValid, Unwritten, Present
<1>10. FirstAnswerIsTrue /\ AnswerNamesItsRow
  <2>1. <<>> # <<"success">>
    BY SMT
  <2> QED
    BY <1>6, <2>1 DEF FirstAnswerIsTrue, AnswerNamesItsRow
<1> QED
  BY <1>7, <1>8, <1>9, <1>10 DEF CrudInv

(* What Create and Update store are rows.                                  *)
LEMMA CreatedRow ==
  ASSUME TypeOK, NEW r \in Requests
  PROVE  [c \in Columns |-> IF c \in Chosen("create") THEN req[r].row[c] ELSE Zero] \in Rows
<1> req[r].row \in Rows
  BY DEF TypeOK, Objects
<1> QED
  BY CrudAssumption, SMT DEF CrudAssumption, Rows

LEMMA UpdatedRow ==
  ASSUME TypeOK, NEW r \in Requests, NEW k \in Present
  PROVE  [c \in Columns |-> IF c \in Chosen("update") THEN req[r].row[c] ELSE table[k][c]] \in Rows
<1> req[r].row \in Rows /\ table[k] \in Rows
  BY DEF TypeOK, Objects, Present
<1> QED
  BY SMT DEF Rows

(* Who wrote their values.                                                 *)
LEMMA CreatedBy ==
  [c \in Columns |-> IF c \in Chosen("create") THEN "create" ELSE "none"] \in [Columns -> Writers]
BY SMT DEF Writers, Validated

LEMMA UpdatedBy ==
  ASSUME TypeOK, NEW k \in Present
  PROVE  [c \in Columns |-> IF c \in Chosen("update") THEN "update" ELSE wrote[k][c]]
           \in [Columns -> Writers]
<1> wrote[k] \in [Columns -> Writers]
  BY DEF TypeOK, Present
<1> QED
  BY SMT DEF Writers, Validated

(* What is sent, at once or by Answer, which begins with the failure if    *)
(* there is one.                                                           *)
LEMMA AnswersSent ==
  /\ <<"bad request">> \in Seq(Answers) /\ Head(<<"bad request">>) # "success"
  /\ <<"validation">> \in Seq(Answers) /\ Head(<<"validation">>) # "success"
  /\ <<"success">> # <<"bad request">> /\ <<"success">> # <<"validation">>
BY SMT DEF Answers

LEMMA AnswerSent ==
  ASSUME NEW failure \in BOOLEAN, NEW returns \in BOOLEAN,
         NEW sent,
         sent = (IF failure THEN <<"internal">> ELSE <<>>)
                \o (IF failure /\ returns THEN <<>> ELSE <<"success">>)
  PROVE  /\ sent \in Seq(Answers)
         /\ failure => Head(sent) # "success" /\ sent # <<"success">>
<1>1. CASE ~failure
  BY <1>1, SMT DEF Answers
<1>2. CASE failure /\ returns
  BY <1>2, SMT DEF Answers
<1>3. CASE failure /\ ~returns
  BY <1>3, SMT DEF Answers
<1> QED
  BY <1>1, <1>2, <1>3

LEMMA EndTyped ==
  ASSUME TypeOK, NEW r \in Requests, NEW sent \in Seq(Answers),
         pc' = [pc EXCEPT ![r] = "done"],
         answers' = [answers EXCEPT ![r] = sent]
  PROVE  /\ pc' \in [Requests -> {"new", "exec", "answer", "done"}]
         /\ answers' \in [Requests -> Seq(Answers)]
         /\ \A j \in Requests : pc'[j] # "done" => answers'[j] = <<>>
BY SMT DEF TypeOK

LEMMA StepTyped ==
  ASSUME CrudInv, [Next]_vars
  PROVE  TypeOK'
<1> USE DEF CrudInv, pager
<1>1. ASSUME NEW r \in Requests, Malformed(r)
      PROVE  TypeOK'
  <2>1. /\ pc' \in [Requests -> {"new", "exec", "answer", "done"}]
        /\ answers' \in [Requests -> Seq(Answers)]
        /\ \A j \in Requests : pc'[j] # "done" => answers'[j] = <<>>
    BY <1>1, AnswersSent, EndTyped, Zenon DEF Malformed
  <2> QED
    BY <1>1, <2>1 DEF Malformed, TypeOK
<1>2. ASSUME NEW r \in Requests, NEW o \in Inputs, Handle(r, o)
      PROVE  TypeOK'
  <2>1. /\ pc' \in [Requests -> {"new", "exec", "answer", "done"}]
        /\ answers' \in [Requests -> Seq(Answers)]
        /\ \A j \in Requests : pc'[j] # "done" => answers'[j] = <<>>
    <3>1. CASE Valid(o)
      <4>1. pc' = [pc EXCEPT ![r] = "exec"] /\ answers' = answers /\ pc[r] = "new"
        BY <1>2, <3>1, Zenon DEF Handle
      <4> QED
        BY <4>1, SMT DEF TypeOK
    <3>2. CASE ~Valid(o)
      BY <1>2, <3>2, AnswersSent, EndTyped, Zenon DEF Handle
    <3> QED
      BY <3>1, <3>2
  <2>2. req' \in [Requests -> Objects]
    <3>1. req' = [req EXCEPT ![r] = o]
      BY <1>2, Zenon DEF Handle
    <3> QED
      BY <3>1, SMT DEF Inputs, TypeOK
  <2> QED
    BY <1>2, <2>1, <2>2 DEF Handle, TypeOK
<1>3. ASSUME NEW r \in Requests, Create(r)
      PROVE  TypeOK'
  <2> DEFINE row == [c \in Columns |-> IF c \in Chosen("create") THEN req[r].row[c] ELSE Zero]
  <2>1. row \in Rows
    BY CreatedRow
  <2>2. PICK k \in Keys : /\ table' = [table EXCEPT ![k] = row]
                          /\ next' = IF k < next THEN next ELSE k + 1
                          /\ made' = [made EXCEPT ![r] = k]
                          /\ req' = IF failed'[r] THEN req ELSE [req EXCEPT ![r].key = k]
    BY <1>3, Zenon DEF Create
  <2>3. /\ table' \in [Keys -> Rows \cup {NoRow}]
        /\ next' \in 1..(MaxKey + 1)
        /\ \A j \in Keys : j >= next' => table'[j] = NoRow
    BY <2>1, <2>2, CrudAssumption, SMT DEF TypeOK, Keys, CrudAssumption
  <2>4. /\ req' \in [Requests -> Objects]
        /\ made' \in [Requests -> 0..MaxKey]
    <3>1. k \in 0..MaxKey
      BY CrudAssumption, SMT DEF Keys, CrudAssumption
    <3>2. [req[r] EXCEPT !.key = k] \in Objects
      <4>1. req[r] \in Objects
        BY DEF TypeOK
      <4> QED
        BY <3>1, <4>1, SMT DEF Objects
    <3>3. [req EXCEPT ![r].key = k] \in [Requests -> Objects]
      BY <3>2, SMT DEF TypeOK
    <3> QED
      BY <2>2, <3>1, <3>3, SMT DEF TypeOK
  <2>5. /\ pc' \in [Requests -> {"new", "exec", "answer", "done"}]
        /\ failed' \in [Requests -> BOOLEAN]
        /\ carried' \in [Requests -> {"no", "yes", "lost"}]
        /\ \A j \in Requests : pc'[j] # "done" => answers'[j] = <<>>
    BY <1>3, SMT DEF Create, Returns, TypeOK
  <2>6. wrote' \in [Keys -> [Columns -> Writers]]
    <3> DEFINE by == [c \in Columns |-> IF c \in Chosen("create") THEN "create" ELSE "none"]
    <3>1. by \in [Columns -> Writers]
      BY CreatedBy
    <3>2. PICK j \in Keys : wrote' = [wrote EXCEPT ![j] = by]
      BY <1>3, Zenon DEF Create
    <3> HIDE DEF by
    <3> QED
      BY <3>1, <3>2 DEF TypeOK
  <2> QED
    BY <1>3, <2>3, <2>4, <2>5, <2>6 DEF Create, Returns, TypeOK
<1>4. ASSUME NEW r \in Requests, Query(r)
      PROVE  TypeOK'
  BY <1>4, SMT DEF Query, Returns, TypeOK
<1>5. ASSUME NEW r \in Requests, Update(r)
      PROVE  TypeOK'
  <2> DEFINE k == req[r].key
             row == [c \in Columns |-> IF c \in Chosen("update") THEN req[r].row[c] ELSE table[k][c]]
  <2>1. table' = IF k \in Present THEN [table EXCEPT ![k] = row] ELSE table
    BY <1>5, Zenon DEF Update
  <2>2. k \in Present => row \in Rows
    BY UpdatedRow
  <2> HIDE DEF row
  <2>3. /\ table' \in [Keys -> Rows \cup {NoRow}]
        /\ \A j \in Keys : j >= next => table'[j] = NoRow
    BY <2>1, <2>2, SMT DEF TypeOK, Present
  <2>4. /\ pc' \in [Requests -> {"new", "exec", "answer", "done"}]
        /\ failed' \in [Requests -> BOOLEAN]
        /\ carried' \in [Requests -> {"no", "yes", "lost"}]
        /\ \A j \in Requests : pc'[j] # "done" => answers'[j] = <<>>
    BY <1>5, SMT DEF Update, Returns, TypeOK
  <2>5. wrote' \in [Keys -> [Columns -> Writers]]
    <3> DEFINE by == [c \in Columns |-> IF c \in Chosen("update") THEN "update" ELSE wrote[k][c]]
    <3>1. k \in Present => by \in [Columns -> Writers]
      BY UpdatedBy
    <3>2. wrote' = IF k \in Present THEN [wrote EXCEPT ![k] = by] ELSE wrote
      BY <1>5, Zenon DEF Update
    <3> HIDE DEF by, k
    <3> QED
      BY <3>1, <3>2 DEF TypeOK
  <2> QED
    BY <1>5, <2>3, <2>4, <2>5 DEF Update, Returns, TypeOK
<1>6. ASSUME NEW r \in Requests, Delete(r)
      PROVE  TypeOK'
  <2> DEFINE k == req[r].key
  <2>1. table' = [table EXCEPT ![k] = NoRow]
    BY <1>6, Zenon DEF Delete
  <2>0. k \in Keys
    BY <1>6, CrudAssumption, SMT DEF Delete, Returns, HandlersInv, Prepared, Valid, KeyGiven,
                                     TypeOK, Objects, Keys, CrudAssumption
  <2> HIDE DEF k
  <2>2. /\ table' \in [Keys -> Rows \cup {NoRow}]
        /\ \A j \in Keys : j >= next => table'[j] = NoRow
    <3>1. /\ table \in [Keys -> Rows \cup {NoRow}]
          /\ \A j \in Keys : j >= next => table[j] = NoRow
      BY DEF TypeOK
    <3>2. table' \in [Keys -> Rows \cup {NoRow}]
      BY <2>0, <2>1, <3>1, SMT
    <3>3. ASSUME NEW j \in Keys, j >= next
          PROVE  table'[j] = NoRow
      BY <2>1, <3>1, <3>3, SMT
    <3> QED
      BY <3>2, <3>3
  <2>3. /\ pc' \in [Requests -> {"new", "exec", "answer", "done"}]
        /\ failed' \in [Requests -> BOOLEAN]
        /\ carried' \in [Requests -> {"no", "yes", "lost"}]
        /\ \A j \in Requests : pc'[j] # "done" => answers'[j] = <<>>
    BY <1>6, SMT DEF Delete, Returns, TypeOK
  <2>4. deleted' \in BOOLEAN
    BY <1>6, SMT DEF Delete, TypeOK
  <2>5. wrote' \in [Keys -> [Columns -> Writers]]
    <3>1. wrote' = [wrote EXCEPT ![k] = Unwritten]
      BY <1>6, Zenon DEF Delete, k
    <3>2. Unwritten \in [Columns -> Writers]
      BY SMT DEF Unwritten, Writers
    <3> QED
      BY <3>1, <3>2 DEF TypeOK
  <2> QED
    BY <1>6, <2>2, <2>3, <2>4, <2>5 DEF Delete, Returns, TypeOK
<1>7. ASSUME NEW r \in Requests, Refused(r)
      PROVE  TypeOK'
  BY <1>7, SMT DEF Refused, TypeOK
<1>8. ASSUME NEW r \in Requests, Answer(r)
      PROVE  TypeOK'
  <2> DEFINE sent == (IF failed[r] THEN <<"internal">> ELSE <<>>)
                     \o (IF failed[r] /\ req[r].method = "delete" THEN <<>> ELSE <<"success">>)
  <2>1. sent \in Seq(Answers)
    BY AnswerSent, Zenon DEF TypeOK
  <2>2. answers' = [answers EXCEPT ![r] = sent]
    BY <1>8, Zenon DEF Answer
  <2> HIDE DEF sent
  <2>3. /\ pc' \in [Requests -> {"new", "exec", "answer", "done"}]
        /\ answers' \in [Requests -> Seq(Answers)]
        /\ \A j \in Requests : pc'[j] # "done" => answers'[j] = <<>>
    BY <1>8, <2>1, <2>2, EndTyped, Zenon DEF Answer
  <2> QED
    BY <1>8, <2>3 DEF Answer, TypeOK
<1>9. CASE ReadPage
  BY <1>9, SMT DEF ReadPage, Page, Present, TypeOK
<1>10. CASE UNCHANGED vars
  BY <1>10, SMT DEF vars, TypeOK
<1> QED
  BY <1>1, <1>2, <1>3, <1>4, <1>5, <1>6, <1>7, <1>8, <1>9, <1>10 DEF Next

(* Returns ends the part of a handler that uses its object, and says what  *)
(* became of the statement.                                                *)
LEMMA StepHandlers ==
  ASSUME CrudInv, [Next]_vars
  PROVE  HandlersInv'
<1> SUFFICES ASSUME NEW j \in Requests
             PROVE  Prepared(j)' /\ Truthful(j)'
  BY DEF HandlersInv
<1>1. Prepared(j) /\ Truthful(j)
  BY DEF CrudInv, HandlersInv
<1>2. ASSUME UNCHANGED tags,
             pc'[j] = pc[j], req'[j] = req[j], failed'[j] = failed[j],
             made'[j] = made[j], carried'[j] = carried[j]
      PROVE  Prepared(j)' /\ Truthful(j)'
  BY <1>1, <1>2 DEF Prepared, Truthful, Carried, Valid, KeyGiven, FieldsValid, Chosen, Tagged
<1>3. TypeOK
  BY DEF CrudInv
<1>4. ASSUME NEW r \in Requests, Malformed(r) \/ Answer(r)
      PROVE  Prepared(j)' /\ Truthful(j)'
  <2>1. pc' = [pc EXCEPT ![r] = "done"] /\ UNCHANGED <<tags, req, failed, made, carried>>
    BY <1>4, Zenon DEF Malformed, Answer
  <2>2. CASE j = r
    BY <1>3, <2>1, <2>2, SMT DEF TypeOK, Prepared, Truthful, Carried
  <2>3. CASE j # r
    BY <1>2, <1>3, <2>1, <2>3, SMT DEF TypeOK
  <2> QED
    BY <2>2, <2>3
<1>5. ASSUME NEW r \in Requests, NEW o \in Inputs, Handle(r, o)
      PROVE  Prepared(j)' /\ Truthful(j)'
  <2>1. CASE j = r
    <3>1. /\ req'[r] = o /\ UNCHANGED tags
          /\ pc'[r] = "done" \/ (pc'[r] = "exec" /\ Valid(o))
      <4>1. /\ req' = [req EXCEPT ![r] = o] /\ UNCHANGED tags
            /\ \/ pc' = [pc EXCEPT ![r] = "done"]
               \/ pc' = [pc EXCEPT ![r] = "exec"] /\ Valid(o)
        BY <1>5, Zenon DEF Handle
      <4> QED
        BY <1>3, <4>1 DEF TypeOK
    <3> QED
      BY <2>1, <3>1 DEF Prepared, Truthful, Carried, Valid, KeyGiven, FieldsValid, Chosen, Tagged
  <2>2. CASE j # r
    BY <1>2, <1>3, <1>5, <2>2, SMT DEF Handle, TypeOK
  <2> QED
    BY <2>1, <2>2
<1>6. ASSUME NEW r \in Requests, Create(r)
      PROVE  Prepared(j)' /\ Truthful(j)'
  <2>1. PICK k \in Keys : /\ made' = [made EXCEPT ![r] = k]
                          /\ req' = IF failed'[r] THEN req ELSE [req EXCEPT ![r].key = k]
    BY <1>6, Zenon DEF Create
  <2>2. CASE j = r
    <3>1. pc'[r] = "answer" /\ (~failed'[r] => carried'[r] = "yes")
      BY <1>3, <1>6, SMT DEF Create, Returns, TypeOK
    <3>2. ~failed'[r] => req'[r].key = made'[r]
      <4>1. req \in [Requests -> Objects] /\ made \in [Requests -> 0..MaxKey]
        BY <1>3 DEF TypeOK
      <4>2. req[r] \in Objects
        BY <4>1
      <4> QED
        BY <2>1, <4>1, <4>2, SMT DEF Objects
    <3> QED
      BY <2>2, <3>1, <3>2 DEF Prepared, Truthful, Carried
  <2>3. CASE j # r
    <3>1. req'[j] = req[j] /\ made'[j] = made[j]
      BY <1>3, <2>1, <2>3, SMT DEF TypeOK
    <3> QED
      BY <1>2, <1>3, <1>6, <2>3, <3>1, SMT DEF Create, Returns, TypeOK
  <2> QED
    BY <2>2, <2>3
<1>7. ASSUME NEW r \in Requests, Query(r) \/ Update(r) \/ Delete(r)
      PROVE  Prepared(j)' /\ Truthful(j)'
  <2>1. /\ Returns(r)
        /\ UNCHANGED <<req, made>>
        /\ req[r].method # "create"
    BY <1>7, SMT DEF Query, Update, Delete
  <2>2. CASE j = r
    BY <1>3, <2>1, <2>2, SMT DEF Returns, TypeOK, Prepared, Truthful, Carried
  <2>3. CASE j # r
    BY <1>2, <1>3, <2>1, <2>3, SMT DEF Returns, TypeOK
  <2> QED
    BY <2>2, <2>3
<1>8. ASSUME NEW r \in Requests, Refused(r)
      PROVE  Prepared(j)' /\ Truthful(j)'
  <2>1. CASE j = r
    BY <1>3, <1>8, <2>1, SMT DEF Refused, TypeOK, Prepared, Truthful, Carried
  <2>2. CASE j # r
    BY <1>2, <1>3, <1>8, <2>2, SMT DEF Refused, TypeOK
  <2> QED
    BY <2>1, <2>2
<1>9. CASE ReadPage \/ UNCHANGED vars
  BY <1>2, <1>9, Zenon DEF ReadPage, vars
<1> QED
  BY <1>4, <1>5, <1>6, <1>7, <1>8, <1>9 DEF Next

(* Only Create and Update write rows, and of the columns of an object that *)
(* has passed the validators.                                              *)
LEMMA StepRows ==
  ASSUME CrudInv, [Next]_vars
  PROVE  RowsAreValid'
<1> DEFINE Kept(k) == table'[k] = table[k] /\ wrote'[k] = wrote[k]
           Right(k) == \A c \in Columns :
                          "validator" \in tags[c] /\ wrote'[k][c] # "none" =>
                              table'[k][c] \notin Rejects[wrote'[k][c]][c]
<1>0. /\ table \in [Keys -> Rows \cup {NoRow}]
      /\ wrote \in [Keys -> [Columns -> Writers]]
  BY DEF CrudInv, TypeOK
<1>1. ASSUME UNCHANGED tags, \A k \in Keys : table'[k] # NoRow => Kept(k) \/ Right(k)
      PROVE  RowsAreValid'
  BY <1>1 DEF CrudInv, RowsAreValid, Present
<1>2. ASSUME NEW r \in Requests, pc[r] = "exec"
      PROVE  FieldsValid(req[r])
  BY <1>2 DEF CrudInv, HandlersInv, Prepared, Valid
<1>3. ASSUME NEW r \in Requests, Create(r)
      PROVE  RowsAreValid'
  <2> DEFINE row == [c \in Columns |-> IF c \in Chosen("create") THEN req[r].row[c] ELSE Zero]
             by == [c \in Columns |-> IF c \in Chosen("create") THEN "create" ELSE "none"]
  <2>1. ASSUME NEW c \in Columns, "validator" \in tags[c], by[c] # "none"
        PROVE  row[c] \notin Rejects[by[c]][c]
    <3>1. FieldsValid(req[r]) /\ req[r].method = "create"
      BY <1>2, <1>3 DEF Create, Returns
    <3>2. c \in Chosen("create") /\ by[c] = "create" /\ row[c] = req[r].row[c]
      BY <2>1
    <3> QED
      BY <2>1, <3>1, <3>2 DEF FieldsValid, Validated
  <2>2. PICK k \in Keys : table' = [table EXCEPT ![k] = row] /\ wrote' = [wrote EXCEPT ![k] = by]
    BY <1>3, Zenon DEF Create
  <2>3. UNCHANGED tags
    BY <1>3 DEF Create, Returns
  <2> HIDE DEF row, by
  <2>4. Right(k)
    BY <1>0, <2>1, <2>2
  <2>5. \A j \in Keys \ {k} : Kept(j)
    BY <1>0, <2>2
  <2> QED
    BY <1>1, <2>3, <2>4, <2>5
<1>4. ASSUME NEW r \in Requests, Update(r)
      PROVE  RowsAreValid'
  <2> DEFINE k == req[r].key
             row == [c \in Columns |-> IF c \in Chosen("update") THEN req[r].row[c] ELSE table[k][c]]
             by == [c \in Columns |-> IF c \in Chosen("update") THEN "update" ELSE wrote[k][c]]
  <2>1. ASSUME NEW c \in Columns, "validator" \in tags[c], by[c] # "none", k \in Present
        PROVE  row[c] \notin Rejects[by[c]][c]
    <3>1. CASE c \in Chosen("update")
      <4>1. FieldsValid(req[r]) /\ req[r].method = "update"
        BY <1>2, <1>4 DEF Update, Returns
      <4>2. by[c] = "update" /\ row[c] = req[r].row[c]
        BY <3>1
      <4> QED
        BY <2>1, <3>1, <4>1, <4>2 DEF FieldsValid, Validated
    <3>2. CASE c \notin Chosen("update")
      <4>1. by[c] = wrote[k][c] /\ row[c] = table[k][c]
        BY <3>2
      <4> QED
        BY <2>1, <4>1 DEF CrudInv, RowsAreValid
    <3> QED
      BY <3>1, <3>2
  <2>2. /\ table' = IF k \in Present THEN [table EXCEPT ![k] = row] ELSE table
        /\ wrote' = IF k \in Present THEN [wrote EXCEPT ![k] = by] ELSE wrote
    BY <1>4, Zenon DEF Update
  <2>3. UNCHANGED tags
    BY <1>4 DEF Update, Returns
  <2> HIDE DEF row, by, k
  <2>4. k \in Present => Right(k)
    <3> SUFFICES ASSUME k \in Present PROVE Right(k)
      OBVIOUS
    <3>1. k \in Keys /\ table'[k] = row /\ wrote'[k] = by
      BY <1>0, <2>2 DEF Present
    <3> QED
      BY <2>1, <3>1
  <2>5. \A j \in Keys : (j = k /\ k \in Present) \/ Kept(j)
    BY <1>0, <2>2
  <2> QED
    BY <1>1, <2>3, <2>4, <2>5
<1>5. ASSUME NEW r \in Requests, Delete(r)
      PROVE  RowsAreValid'
  <2> DEFINE k == req[r].key
  <2>1. /\ table' = [table EXCEPT ![k] = NoRow]
        /\ wrote' = [wrote EXCEPT ![k] = Unwritten]
        /\ UNCHANGED tags
    BY <1>5, Zenon DEF Delete, Returns
  <2> HIDE DEF k
  <2> QED
    BY <1>0, <1>1, <2>1
<1>6. ASSUME UNCHANGED <<table, wrote, tags>>
      PROVE  RowsAreValid'
  BY <1>1, <1>6
<1>7. ASSUME NEW r \in Requests,
             Malformed(r) \/ Query(r) \/ Refused(r) \/ Answer(r)
               \/ \E o \in Inputs : Handle(r, o)
      PROVE  RowsAreValid'
  BY <1>6, <1>7, Zenon DEF Malformed, Query, Returns, Refused, Answer, Handle
<1>8. CASE ReadPage \/ UNCHANGED vars
  BY <1>6, <1>8, Zenon DEF ReadPage, vars
<1> QED
  BY <1>3, <1>4, <1>5, <1>7, <1>8, Zenon DEF Next

(* The answers to a request change only with the last step of its handler, *)
(* after which what they are about does not.                               *)
LEMMA StepAnswers ==
  ASSUME CrudInv, [Next]_vars
  PROVE  FirstAnswerIsTrue' /\ AnswerNamesItsRow'
<1> SUFFICES ASSUME NEW j \in Requests
             PROVE  /\ answers'[j] # <<>> /\ Head(answers'[j]) = "success" => Carried(j)' /\ ~failed'[j]
                    /\ answers'[j] = <<"success">> /\ req'[j].method = "create"
                         => req'[j].key = made'[j]
  BY DEF FirstAnswerIsTrue, AnswerNamesItsRow, Carried
<1> DEFINE Goal ==
      /\ answers'[j] # <<>> /\ Head(answers'[j]) = "success" => Carried(j)' /\ ~failed'[j]
      /\ answers'[j] = <<"success">> /\ req'[j].method = "create" => req'[j].key = made'[j]
<1>1. TypeOK
  BY DEF CrudInv
<1>2. ASSUME answers'[j] = answers[j], req'[j] = req[j], failed'[j] = failed[j],
             made'[j] = made[j], carried'[j] = carried[j]
      PROVE  Goal
  BY <1>2 DEF CrudInv, FirstAnswerIsTrue, AnswerNamesItsRow, Carried
<1>3. ASSUME answers'[j] = answers[j], pc[j] # "done"
      PROVE  Goal
  <2>1. answers'[j] = <<>>
    BY <1>1, <1>3 DEF TypeOK
  <2>2. <<>> # <<"success">>
    BY SMT
  <2> QED
    BY <2>1, <2>2
<1> HIDE DEF Goal
<1>4. ASSUME NEW r \in Requests, Malformed(r)
      PROVE  Goal
  <2>1. answers' = [answers EXCEPT ![r] = <<"bad request">>] /\ UNCHANGED <<req, failed, made, carried>>
    BY <1>4, Zenon DEF Malformed
  <2> QED
    BY <1>1, <1>2, <2>1, AnswersSent DEF TypeOK, Goal
<1>5. ASSUME NEW r \in Requests, NEW o \in Inputs, Handle(r, o)
      PROVE  Goal
  <2>1. /\ UNCHANGED <<failed, made, carried>> /\ pc[r] = "new"
        /\ req' = [req EXCEPT ![r] = o]
        /\ UNCHANGED answers \/ answers' = [answers EXCEPT ![r] = <<"validation">>]
    BY <1>5, Zenon DEF Handle
  <2>2. CASE j = r
    BY <1>1, <1>3, <2>1, <2>2, AnswersSent DEF TypeOK, Goal
  <2>3. CASE j # r
    BY <1>1, <1>2, <2>1, <2>3 DEF TypeOK
  <2> QED
    BY <2>2, <2>3
<1>6. ASSUME NEW r \in Requests, Create(r) \/ Query(r) \/ Update(r) \/ Delete(r)
      PROVE  Goal
  <2>1. Returns(r)
    BY <1>6 DEF Create, Query, Update, Delete
  <2>2. CASE j = r
    BY <1>3, <2>1, <2>2 DEF Returns
  <2>3. CASE j # r
    <3>1. req'[j] = req[j] /\ made'[j] = made[j]
      BY <1>1, <1>6, <2>3 DEF Create, Query, Update, Delete, TypeOK
    <3> QED
      BY <1>1, <1>2, <2>1, <2>3, <3>1 DEF Returns, TypeOK
  <2> QED
    BY <2>2, <2>3
<1>7. ASSUME NEW r \in Requests, Refused(r)
      PROVE  Goal
  <2>1. CASE j = r
    BY <1>3, <1>7, <2>1 DEF Refused
  <2>2. CASE j # r
    BY <1>1, <1>2, <1>7, <2>2 DEF Refused, TypeOK
  <2> QED
    BY <2>1, <2>2
<1>8. ASSUME NEW r \in Requests, Answer(r)
      PROVE  Goal
  <2> DEFINE sent == (IF failed[r] THEN <<"internal">> ELSE <<>>)
                     \o (IF failed[r] /\ req[r].method = "delete" THEN <<>> ELSE <<"success">>)
  <2>1. failed[r] => Head(sent) # "success" /\ sent # <<"success">>
    BY <1>1, AnswerSent, Zenon DEF TypeOK
  <2>2. /\ answers' = [answers EXCEPT ![r] = sent]
        /\ UNCHANGED <<req, failed, made, carried>> /\ pc[r] = "answer"
    BY <1>8, Zenon DEF Answer
  <2> HIDE DEF sent
  <2>3. CASE j = r
    <3>1. Truthful(r)
      BY DEF CrudInv, HandlersInv
    <3>2. /\ answers'[j] = sent /\ failed'[j] = failed[r]
          /\ req'[j] = req[r] /\ made'[j] = made[r] /\ (Carried(j)' <=> Carried(r))
      BY <1>1, <2>2, <2>3 DEF TypeOK, Carried
    <3>3. ~failed[r] => Carried(r) /\ (req[r].method = "create" => req[r].key = made[r])
      BY <2>2, <3>1 DEF Truthful
    <3> QED
      BY <2>1, <3>2, <3>3 DEF Goal
  <2>4. CASE j # r
    BY <1>1, <1>2, <2>2, <2>4 DEF TypeOK
  <2> QED
    BY <2>3, <2>4
<1>9. ASSUME ReadPage \/ UNCHANGED vars
      PROVE  Goal
  BY <1>2, <1>9, Zenon DEF ReadPage, vars
<1>10. Goal
  BY <1>4, <1>5, <1>6, <1>7, <1>8, <1>9 DEF Next
<1> QED
  BY <1>10 DEF Goal

(* The invariant is inductive, and so it always holds.                     *)
LEMMA CrudInvariant == Spec => []CrudInv
<1>1. CrudInv /\ [Next]_vars => CrudInv'
  BY StepTyped, StepHandlers, StepRows, StepAnswers DEF CrudInv
<1> QED
  BY InitCrud, <1>1, PTL DEF Spec

(* The variables of Crud keep their types, keys that were not given out    *)
(* have no rows, and nothing is answered before a handler's last step.     *)
THEOREM CrudTypeCorrect == Spec => []TypeOK
<1>1. CrudInv => TypeOK
  BY DEF CrudInv
<1> QED
  BY CrudInvariant, <1>1, PTL

(* For any struct, tags and validators, no row ever holds a value that a   *)
(* create or an update has written and that a validator of its column      *)
(* rejects for that method (register.go:138-170, 190-230).  The defaults   *)
(* that no request has written are not promised to be valid.               *)
THEOREM StoredRowsAreValid == Spec => []RowsAreValid
<1>1. CrudInv => RowsAreValid
  BY DEF CrudInv
<1> QED
  BY CrudInvariant, <1>1, PTL

(* For any number of concurrent requests, a first answer of success means  *)
(* that the statement was carried out without an error (handler.go:28-42)  *)
(* and its result was not lost, except for a Read, which does not look     *)
(* whether it was (model.go:192-204); and the key that a create is         *)
(* answered with is that of its own row (model.go:164-175).                *)
THEOREM AnswersToldAreTrue == Spec => []AnswersAreTrue
<1>1. CrudInv => AnswersAreTrue
  BY DEF CrudInv, AnswersAreTrue
<1> QED
  BY CrudInvariant, <1>1, PTL

(* A finite set of finite sets that is not empty has one that strictly     *)
(* contains no other.                                                      *)
LEMMA SmallestSet ==
  ASSUME NEW S, IsFiniteSet(S), NEW T, \A U \in T : U \subseteq S, T # {}
  PROVE  \E U \in T : \A V \in T : V \subseteq U => V = U
<1>1. IsWellFoundedOn(StrictSubsetOrdering(S), SUBSET S)
  BY FS_StrictSubsetOrderingWellFounded, FS_FiniteSubsetsOfFinite, Zenon
<1>2. PICK U \in T : \A V \in T : <<V, U>> \notin StrictSubsetOrdering(S)
  <2>1. T \subseteq SUBSET S
    OBVIOUS
  <2> QED
    BY <1>1, <2>1, WFMin, Zenon
<1>3. ASSUME NEW V \in T, V \subseteq U, V # U
      PROVE  FALSE
  <2>1. <<V, U>> \in (SUBSET S) \X (SUBSET S)
    OBVIOUS
  <2>2. <<V, U>>[1] = V /\ <<V, U>>[2] = U
    OBVIOUS
  <2>3. <<V, U>> \in StrictSubsetOrdering(S)
    BY <1>3, <2>1, <2>2, Zenon DEF StrictSubsetOrdering
  <2> QED
    BY <1>2, <2>3
<1> QED
  BY <1>3

(* A finite set of numbers that is not empty has a least one.              *)
LEMMA LeastOf ==
  ASSUME NEW S \in SUBSET Nat, IsFiniteSet(S), S # {}
  PROVE  \E u \in S : \A v \in S : u <= v
<1> DEFINE Below(k) == {j \in S : j < k}
           Sets == {Below(k) : k \in S}
<1>1. (\A U \in Sets : U \subseteq S) /\ Sets # {}
  OBVIOUS
<1>2. PICK U \in Sets : \A V \in Sets : V \subseteq U => V = U
  <2> HIDE DEF Sets
  <2> QED
    BY <1>1, SmallestSet
<1>3. PICK u \in S : U = Below(u)
  OBVIOUS
<1>4. ASSUME NEW v \in S, ~(u <= v)
      PROVE  FALSE
  <2>1. v \in Nat /\ u \in Nat
    OBVIOUS
  <2>2. v < u
    BY <1>4, <2>1
  <2>3. Below(v) \subseteq Below(u) /\ v \in Below(u) /\ v \notin Below(v)
    <3>1. \A j \in S : j < v => j < u
      BY <2>1, <2>2
    <3>2. ~(v < v)
      BY <2>1
    <3> QED
      BY <2>2, <3>1, <3>2
  <2>4. Below(v) \in Sets
    OBVIOUS
  <2> QED
    BY <1>2, <1>3, <2>3, <2>4, Zenon
<1> QED
  BY <1>4

(* The place of a number in a finite set, counted from the largest, is the *)
(* number of larger ones; if there is a place from m on, there is place m. *)
LEMMA PlacesHaveNoGaps ==
  ASSUME NEW S \in SUBSET Nat, IsFiniteSet(S), NEW m \in Nat,
         NEW k \in S, Cardinality({j \in S : j > k}) >= m
  PROVE  \E i \in S : Cardinality({j \in S : j > i}) = m
<1> DEFINE Larger(i) == {j \in S : j > i}
           Late == {i \in S : Cardinality(Larger(i)) >= m}
           Sets == {Larger(i) : i \in Late}
<1>0. \A i \in S : IsFiniteSet(Larger(i)) /\ Cardinality(Larger(i)) \in Nat
  <2> TAKE i \in S
  <2>1. Larger(i) \in SUBSET S
    OBVIOUS
  <2> HIDE DEF Larger
  <2> QED
    BY <2>1, FS_Subset, FS_CardinalityType
<1>1. (\A U \in Sets : U \subseteq S) /\ Sets # {}
  <2>1. k \in Late
    OBVIOUS
  <2> QED
    BY <2>1
<1>2. PICK U \in Sets : \A V \in Sets : V \subseteq U => V = U
  <2> HIDE DEF Sets
  <2> QED
    BY <1>1, SmallestSet
<1>3. PICK i \in Late : U = Larger(i)
  OBVIOUS
<1>4. ASSUME Cardinality(Larger(i)) # m
      PROVE  FALSE
  <2>1. Cardinality(Larger(i)) > m
    BY <1>0, <1>3, <1>4
  <2>2. Larger(i) # {}
    BY <2>1, FS_EmptySet
  <2>3. PICK u \in Larger(i) : \A v \in Larger(i) : u <= v
    <3>1. Larger(i) \in SUBSET Nat
      OBVIOUS
    <3> QED
      BY <1>0, <2>2, <3>1, LeastOf, Zenon
  <2>4. Larger(u) = Larger(i) \ {u}
    <3>1. u \in Nat /\ i \in Nat /\ u > i /\ \A j \in S : j \in Nat
      OBVIOUS
    <3>2. ASSUME NEW j \in S, j > u
          PROVE  j > i /\ j # u
      BY <3>1, <3>2
    <3>3. ASSUME NEW j \in S, j > i, j # u
          PROVE  j > u
      BY <2>3, <3>1, <3>3
    <3> QED
      BY <3>2, <3>3
  <2>5. Cardinality(Larger(u)) = Cardinality(Larger(i)) - 1
    <3>1. i \in S /\ IsFiniteSet(Larger(i))
      BY <1>0
    <3>2. u \in Larger(i)
      OBVIOUS
    <3> HIDE DEF Larger, Late, Sets
    <3>3. Cardinality(Larger(i) \ {u}) = Cardinality(Larger(i)) - 1
      BY <3>1, <3>2, FS_RemoveElement
    <3> QED
      BY <2>4, <3>3
  <2>6. u \in Late
    BY <1>0, <2>1, <2>5
  <2>7. Larger(u) \subseteq Larger(i) /\ Larger(u) # Larger(i)
    BY <2>3, <2>4
  <2>8. Larger(u) \in Sets
    BY <2>6
  <2> QED
    BY <1>2, <1>3, <2>7, <2>8, Zenon
<1> QED
  BY <1>3, <1>4

(* The rows that List puts before a row; the page that a row is on tells   *)
(* how many they are.                                                      *)
Newer(k) == {j \in Present : j > k}

(* Until a row is deleted, the rows that the paging client has not been    *)
(* sent yet are there and come after the pages that it has read: inserted  *)
(* rows only push them towards the pages it has still to read.             *)
PagingInv ==
    /\ page > 1 /\ ~deleted =>
         /\ began \subseteq Present
         /\ \A k \in began \ seen : Cardinality(Newer(k)) >= (page - 1) * PerPage
    /\ PagesMissNothing

LEMMA NewerFinite ==
  /\ Present \in SUBSET Nat /\ IsFiniteSet(Present)
  /\ \A k \in Present : IsFiniteSet(Newer(k)) /\ Cardinality(Newer(k)) \in Nat
<1>1. IsFiniteSet(Keys) /\ Keys \in SUBSET Nat
  BY CrudAssumption, FS_Interval DEF CrudAssumption, Keys
<1>2. Present \in SUBSET Keys /\ \A k \in Present : Newer(k) \in SUBSET Keys
  BY DEF Present, Newer
<1> QED
  BY <1>1, <1>2, FS_Subset, FS_CardinalityType

(* While rows are only added, each row keeps at least those before it.     *)
LEMMA RowsOnlyMoveOn ==
  ASSUME TypeOK, PagingInv, UNCHANGED pager, Present \subseteq Present',
         deleted' = deleted
  PROVE  PagingInv'
<1>1. ASSUME page > 1, ~deleted, NEW k \in began \ seen
      PROVE  Cardinality(Newer(k)') >= (page - 1) * PerPage
  <2>1. Cardinality(Newer(k)) >= (page - 1) * PerPage /\ k \in Present
    BY <1>1 DEF PagingInv
  <2>2. IsFiniteSet(Newer(k)') /\ Newer(k) \subseteq Newer(k)' /\ Cardinality(Newer(k)') \in Nat
    <3>1. IsFiniteSet(Keys) /\ Newer(k)' \in SUBSET Keys
      BY CrudAssumption, FS_Interval DEF CrudAssumption, Keys, Newer, Present
    <3> QED
      BY <3>1, FS_Subset, FS_CardinalityType DEF Newer
  <2>3. Cardinality(Newer(k)) <= Cardinality(Newer(k)')
    BY <2>2, FS_Subset
  <2>4. Cardinality(Newer(k)) \in Nat
    BY <2>1, NewerFinite
  <2>5. (page - 1) * PerPage \in Int
    BY CrudAssumption DEF CrudAssumption, TypeOK
  <2> QED
    BY <2>1, <2>2, <2>3, <2>4, <2>5
<1>2. page' = page /\ seen' = seen /\ began' = began
  BY DEF pager
<1> QED
  BY <1>1, <1>2 DEF PagingInv, PagesMissNothing

(* A page is empty only if all rows come before it.                        *)
LEMMA EmptyPage ==
  ASSUME NEW p \in Nat \ {0}, Page(p) = {}, NEW k \in Present
  PROVE  ~(Cardinality(Newer(k)) >= (p - 1) * PerPage)
<1> DEFINE offset == (p - 1) * PerPage
<1>1. offset \in Nat /\ PerPage \in Nat \ {0}
  BY CrudAssumption DEF CrudAssumption
<1>2. SUFFICES ASSUME Cardinality(Newer(k)) >= offset
               PROVE  FALSE
  OBVIOUS
<1> HIDE DEF offset
<1>3. PICK i \in Present : Cardinality(Newer(i)) = offset
  BY <1>1, <1>2, NewerFinite, PlacesHaveNoGaps DEF Newer
<1>4. offset \in offset..(offset + PerPage - 1)
  BY <1>1
<1>5. i \in Page(p)
  BY <1>3, <1>4, Zenon DEF Page, Newer, offset
<1> QED
  BY <1>5

LEMMA StepPaging ==
  ASSUME TypeOK, TypeOK', PagingInv, [Next]_vars
  PROVE  PagingInv'
<1>1. ASSUME NEW r \in Requests, Create(r)
      PROVE  PagingInv'
  <2> DEFINE row == [c \in Columns |-> IF c \in Chosen("create") THEN req[r].row[c] ELSE Zero]
  <2>1. row \in Rows /\ row # NoRow
    BY CreatedRow, CrudAssumption DEF CrudAssumption
  <2>2. PICK k \in Keys : table' = [table EXCEPT ![k] = row] /\ table[k] = NoRow
    BY <1>1, Zenon DEF Create
  <2>3. UNCHANGED pager /\ deleted' = deleted
    BY <1>1 DEF Create, Returns
  <2> HIDE DEF row
  <2>4. table \in [Keys -> Rows \cup {NoRow}]
    BY DEF TypeOK
  <2>5. Present \subseteq Present'
    BY <2>1, <2>2, <2>4 DEF Present
  <2> QED
    BY <2>3, <2>5, RowsOnlyMoveOn
<1>2. ASSUME NEW r \in Requests, Update(r)
      PROVE  PagingInv'
  <2> DEFINE k == req[r].key
             row == [c \in Columns |-> IF c \in Chosen("update") THEN req[r].row[c] ELSE table[k][c]]
  <2>1. k \in Present => row \in Rows /\ row # NoRow
    BY UpdatedRow, CrudAssumption DEF CrudAssumption
  <2>2. table' = IF k \in Present THEN [table EXCEPT ![k] = row] ELSE table
    BY <1>2, Zenon DEF Update
  <2>3. UNCHANGED pager /\ deleted' = deleted
    BY <1>2 DEF Update, Returns
  <2> HIDE DEF row, k
  <2>4. table \in [Keys -> Rows \cup {NoRow}]
    BY DEF TypeOK
  <2>5. Present \subseteq Present'
    BY <2>1, <2>2, <2>4 DEF Present
  <2> QED
    BY <2>3, <2>5, RowsOnlyMoveOn
<1>3. ASSUME NEW r \in Requests, Delete(r)
      PROVE  PagingInv'
  <2> DEFINE k == req[r].key
  <2>1. /\ table' = [table EXCEPT ![k] = NoRow]
        /\ deleted' = (deleted \/ k \in Present)
        /\ UNCHANGED pager
    BY <1>3, Zenon DEF Delete, Returns
  <2> HIDE DEF k
  <2>2. CASE k \in Present
    BY <2>1, <2>2 DEF PagingInv, PagesMissNothing
  <2>3. CASE k \notin Present
    <3>1. table \in [Keys -> Rows \cup {NoRow}] /\ deleted \in BOOLEAN
      BY DEF TypeOK
    <3>2. Present \subseteq Present' /\ deleted' = deleted
      BY <2>1, <2>3, <3>1 DEF Present
    <3> QED
      BY <2>1, <3>2, RowsOnlyMoveOn
  <2> QED
    BY <2>2, <2>3
<1>4. CASE ReadPage
  <2>1. /\ page \in Nat \ {0}
        /\ seen' = seen \cup Page(page)
        /\ page' = IF Page(page) = {} THEN 0 ELSE page + 1
        /\ began' = IF page = 1 THEN Present ELSE began
        /\ deleted' = (deleted /\ page # 1)
        /\ UNCHANGED table
    BY <1>4 DEF ReadPage, TypeOK
  <2>2. SUFFICES ASSUME ~deleted'
                 PROVE  PagingInv'
    BY DEF PagingInv, PagesMissNothing
  <2>3. /\ began' \subseteq Present
        /\ \A k \in began' \ seen : Cardinality(Newer(k)) >= (page - 1) * PerPage
    <3>1. CASE page = 1
      <4>1. (page - 1) * PerPage = 0
        BY <3>1, CrudAssumption DEF CrudAssumption
      <4>2. \A k \in Present : Cardinality(Newer(k)) >= 0
        BY NewerFinite
      <4> QED
        BY <2>1, <3>1, <4>1, <4>2
    <3>2. CASE page > 1
      <4>1. page # 1
        BY <2>1, <3>2
      <4>2. began' = began /\ ~deleted
        BY <2>1, <2>2, <4>1, Zenon
      <4> QED
        BY <3>2, <4>2, Zenon DEF PagingInv
    <3> QED
      BY <2>1, <3>1, <3>2
  <2>4. CASE Page(page) = {}
    <3>1. \A k \in began' : k \in seen
      BY <2>1, <2>3, <2>4, EmptyPage
    <3> QED
      BY <2>1, <2>4, <3>1 DEF PagingInv, PagesMissNothing
  <2>5. CASE Page(page) # {}
    <3>1. page' = page + 1 /\ page' > 1 /\ (page' - 1) * PerPage = page * PerPage
      BY <2>1, <2>5
    <3>2. /\ Present' = Present
          /\ \A k : Newer(k)' = Newer(k)
      BY <2>1 DEF Present, Newer
    <3>3. ASSUME NEW k \in began' \ seen'
          PROVE  Cardinality(Newer(k)) >= page * PerPage
      <4> DEFINE offset == (page - 1) * PerPage
      <4>1. Cardinality(Newer(k)) >= offset /\ k \in Present /\ Cardinality(Newer(k)) \in Nat
        BY <2>1, <2>3, <3>3, NewerFinite
      <4>2. Cardinality(Newer(k)) \notin offset..(offset + PerPage - 1)
        BY <2>1, <3>3, <4>1, Zenon DEF Page, Newer
      <4>3. offset \in Nat /\ PerPage \in Nat /\ offset + PerPage = page * PerPage
        <5>1. page \in Nat \ {0} /\ PerPage \in Nat
          BY <2>1, CrudAssumption DEF CrudAssumption
        <5> QED
          BY <5>1
      <4> HIDE DEF offset
      <4> QED
        BY <4>1, <4>2, <4>3
    <3> QED
      BY <2>3, <3>1, <3>2, <3>3 DEF PagingInv, PagesMissNothing
  <2> QED
    BY <2>4, <2>5
<1>5. ASSUME UNCHANGED <<table, pager, deleted>>
      PROVE  PagingInv'
  BY <1>5, RowsOnlyMoveOn DEF Present
<1>6. ASSUME NEW r \in Requests,
             Malformed(r) \/ Query(r) \/ Refused(r) \/ Answer(r)
               \/ \E o \in Inputs : Handle(r, o)
      PROVE  PagingInv'
  BY <1>5, <1>6, Zenon DEF Malformed, Query, Returns, Refused, Answer, Handle
<1>7. CASE UNCHANGED vars
  BY <1>5, <1>7, Zenon DEF vars, pager
<1> QED
  BY <1>1, <1>2, <1>3, <1>4, <1>6, <1>7, Zenon DEF Next

(* A client that pages through the table while any number of requests      *)
(* insert and change rows is sent every row that was there when it began,  *)
(* for any size of table and page, if none is deleted (model.go:233-258).  *)
THEOREM PagingMissesNothing == Spec => []PagesMissNothing
<1>1. Init => PagingInv
  BY DEF Init, PagingInv, PagesMissNothing
<1>2. CrudInv /\ CrudInv' /\ PagingInv /\ [Next]_vars => PagingInv'
  BY StepPaging DEF CrudInv
<1>3. PagingInv => PagesMissNothing
  BY DEF PagingInv
<1> QED
  BY CrudInvariant, <1>1, <1>2, <1>3, PTL DEF Spec
================================================================================
