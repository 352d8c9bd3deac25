---------------------------------- MODULE Crud ----------------------------------
(***************************************************************************)
(* crudl: the handlers that Register makes for one table, serving requests *)
(* at the same time, and the parsing, validation and answering of          *)
(* http/handler.go that they go through.  A client pages through the table *)
(* meanwhile.  Which handler a request reaches is not a matter of this     *)
(* module (HttpServer); several servers may have handlers of one table.    *)
(*                                                                         *)
(* External: the database, where every statement is atomic, and may be     *)
(* refused, or carried out while its result is lost; and the validators,   *)
(* which reject some values of the columns they are named for, and not the *)
(* same ones of a create and an update.  Values of columns are told apart  *)
(* as far as that only.  The primary key is an AUTO_INCREMENT int64, whose *)
(* value 0 stands for none.                                                *)
(***************************************************************************)
EXTENDS Naturals, Sequences, FiniteSets

CONSTANTS Columns, PK,          (* the fields of the struct                 *)
          Structs,              (* the tags they may have                   *)
          Kinds,                (* the handlers in use                      *)
          Values, Zero,         (* of columns; Zero is what is not given    *)
          Rejects,              (* what the validators reject               *)
          Requests,
          MaxKey,               (* bound: the largest primary key           *)
          Stored,               (* the rows there are at first              *)
          PerPage,
          NoRow

Fields == Columns \cup {PK}
Tags == {"create", "update", "select", "list", "validator"}
Methods == {"create", "read", "update", "delete", "list"}
Validated == {"create", "update"}       (* with validators of fields        *)
Keys == 1..MaxKey
Rows == [Columns -> Values]

ASSUME CrudAssumption ==
    /\ PK \notin Columns
    /\ Structs \subseteq [Fields -> SUBSET Tags]
    /\ Kinds \subseteq Methods
    /\ Zero \in Values
    /\ Rejects \in [Validated -> [Columns -> SUBSET Values]]
    /\ MaxKey \in Nat
    /\ Stored \in 0..MaxKey
    /\ PerPage \in Nat \ {0}
    /\ NoRow \notin Rows

VARIABLES tags,         (* the tags of the fields                           *)
          table,        (* the rows of the table, by their primary key      *)
          next,         (* its AUTO_INCREMENT                               *)
          pc,           (* where the handler of each request is             *)
          req,          (* its method and object; a page has its number     *)
                        (* for key                                          *)
          failed,       (* the statement returned an error                  *)
          answers,      (* what was sent to the client, in order            *)
          made,         (* history: the row that a request inserted         *)
          carried,      (* history: its statement was carried out, perhaps  *)
                        (* with its result lost                             *)
          wrote,        (* history: the method that wrote each value        *)
          page,         (* the paging client: the page it reads next, 0 at  *)
                        (* the end                                          *)
          seen,         (* the rows it was sent                             *)
          began,        (* history: the rows when it began                  *)
          deleted       (* history: a row was deleted since                 *)

vars == <<tags, table, next, pc, req, failed, answers, made, carried, wrote, page, seen, began, deleted>>
pager == <<page, seen, began>>

Zeros == [c \in Columns |-> Zero]
Unwritten == [c \in Columns |-> "none"]
Present == {k \in Keys : table[k] # NoRow}
Answers == {"bad request", "validation", "internal", "success"}
Writers == Validated \cup {"none"}
Objects == [method : Methods, key : 0..MaxKey, row : Rows]

TypeOK ==
    /\ tags \in Structs
    /\ table \in [Keys -> Rows \cup {NoRow}]
    /\ next \in 1..(MaxKey + 1)
    /\ \A k \in Keys : k >= next => table[k] = NoRow
    /\ pc \in [Requests -> {"new", "exec", "answer", "done"}]
    /\ req \in [Requests -> Objects]
    /\ failed \in [Requests -> BOOLEAN]
    /\ answers \in [Requests -> Seq(Answers)]
    /\ \A r \in Requests : pc[r] # "done" => answers[r] = <<>>
    /\ made \in [Requests -> 0..MaxKey]
    /\ carried \in [Requests -> {"no", "yes", "lost"}]
    /\ wrote \in [Keys -> [Columns -> Writers]]
    /\ page \in Nat
    /\ seen \subseteq Keys
    /\ began \subseteq Keys
    /\ deleted \in BOOLEAN

Init ==
    /\ tags \in Structs
    /\ table = [k \in Keys |-> IF k <= Stored THEN Zeros ELSE NoRow]
    /\ next = Stored + 1
    /\ pc = [r \in Requests |-> "new"]
    /\ req = [r \in Requests |-> [method |-> "list", key |-> 0, row |-> Zeros]]
    /\ failed = [r \in Requests |-> FALSE]
    /\ answers = [r \in Requests |-> <<>>]
    /\ made = [r \in Requests |-> 0]
    /\ carried = [r \in Requests |-> "no"]
    /\ wrote = [k \in Keys |-> Unwritten]
    /\ page = 1
    /\ seen = {}
    /\ began = {}
    /\ deleted = FALSE

(* scanStructMySQL and the fields each registration takes: those with the  *)
(* tag, or all if none has it.                                             *)
Tagged(t) == {f \in Fields : t \in tags[f]}
Chosen(t) == IF Tagged(t) = {} THEN Fields ELSE Tagged(t)

(* validatePrimaryKey.                                                     *)
KeyGiven(o) == o.key # 0

OnlyCreateValidators(o) ==      \* mutant: registerU forgets the fields' validators
    o.method = "create" =>
        \A c \in Columns \cap Chosen(o.method) :
            "validator" \in tags[c] => o.row[c] \notin Rejects[o.method][c]

(* The validators that registerC and registerU find for the fields taken.  *)
FieldsValid(o) ==
    o.method \in Validated =>
        \A c \in Columns \cap Chosen(o.method) :
            "validator" \in tags[c] => o.row[c] \notin Rejects[o.method][c]

(* ParseParameters runs all validators of the route.                       *)
Valid(o) ==
    /\ o.method \in {"read", "update", "delete"} => KeyGiven(o)
    /\ FieldsValid(o)

(* What the handlers distinguish of the objects that requests carry.       *)
Inputs ==
    {o \in Objects : /\ o.method \in Kinds
                     /\ o.method \in Validated \/ o.row = Zeros}

(* A request whose parameters cannot be parsed.                            *)
Malformed(r) ==
    /\ pc[r] = "new"
    /\ pc' = [pc EXCEPT ![r] = "done"]
    /\ answers' = [answers EXCEPT ![r] = <<"bad request">>]
    /\ UNCHANGED <<tags, table, next, req, failed, made, carried, wrote, pager, deleted>>

(* A handler begins: ParseParameters runs the validators of the route.     *)
Handle(r, o) ==
    /\ pc[r] = "new"
    /\ req' = [req EXCEPT ![r] = o]
    /\ IF Valid(o)
       THEN pc' = [pc EXCEPT ![r] = "exec"] /\ UNCHANGED answers
       ELSE pc' = [pc EXCEPT ![r] = "done"] /\ answers' = [answers EXCEPT ![r] = <<"validation">>]
    /\ UNCHANGED <<tags, table, next, failed, made, carried, wrote, pager, deleted>>

(* The statement was carried out and returns, with an error if its result  *)
(* is lost.  Read does not look at rows.Err: where the connection fails    *)
(* while it fetches the row it returns no row and no error.                *)
Returns(r) ==
    /\ pc[r] = "exec"
    /\ pc' = [pc EXCEPT ![r] = "answer"]
    /\ \E lost, err \in BOOLEAN :
          /\ err => lost
          /\ lost => err \/ req[r].method = "read"
          /\ failed' = [failed EXCEPT ![r] = err]
          /\ carried' = [carried EXCEPT ![r] = IF lost THEN "lost" ELSE "yes"]
    /\ UNCHANGED <<tags, answers, pager>>

(* Create: the key is the database's, or the object's if it is inserted    *)
(* too and not 0.  The object gets the key if no error was returned.       *)
Create(r) ==
    LET o == req[r]
        k == IF PK \in Chosen("create") /\ o.key # 0 THEN o.key ELSE next
        row == [c \in Columns |-> IF c \in Chosen("create") THEN o.row[c] ELSE Zero]
        by == [c \in Columns |-> IF c \in Chosen("create") THEN "create" ELSE "none"]
    IN  /\ o.method = "create"
        /\ Returns(r)
        /\ k \in Keys
        /\ table[k] = NoRow
        /\ table' = [table EXCEPT ![k] = row]
        /\ wrote' = [wrote EXCEPT ![k] = by]
        /\ next' = IF k < next THEN next ELSE k + 1
        /\ made' = [made EXCEPT ![r] = k]
        /\ req' = IF failed'[r] THEN req ELSE [req EXCEPT ![r].key = k]
        /\ UNCHANGED deleted

(* Read and List change nothing; the offset of page 0 is refused.          *)
Query(r) ==
    /\ \/ req[r].method = "read"
       \/ req[r].method = "list" /\ req[r].key # 0
    /\ Returns(r)
    /\ UNCHANGED <<table, next, req, made, wrote, deleted>>

(* Update overwrites the fields taken with those of the object; there need *)
(* not be such a row.                                                      *)
Update(r) ==
    LET o == req[r]
        row == [c \in Columns |-> IF c \in Chosen("update") THEN o.row[c] ELSE table[o.key][c]]
        by == [c \in Columns |-> IF c \in Chosen("update") THEN "update" ELSE wrote[o.key][c]]
    IN  /\ o.method = "update"
        /\ Returns(r)
        /\ table' = IF o.key \in Present THEN [table EXCEPT ![o.key] = row] ELSE table
        /\ wrote' = IF o.key \in Present THEN [wrote EXCEPT ![o.key] = by] ELSE wrote
        /\ UNCHANGED <<next, req, made, deleted>>

(* Delete: there need not be such a row either.                            *)
Delete(r) ==
    LET o == req[r]
    IN  /\ o.method = "delete"
        /\ Returns(r)
        /\ table' = [table EXCEPT ![o.key] = NoRow]
        /\ wrote' = [wrote EXCEPT ![o.key] = Unwritten]
        /\ deleted' = (deleted \/ o.key \in Present)
        /\ UNCHANGED <<next, req, made>>

(* The database refuses the statement.                                     *)
Refused(r) ==
    /\ pc[r] = "exec"
    /\ pc' = [pc EXCEPT ![r] = "answer"]
    /\ failed' = [failed EXCEPT ![r] = TRUE]
    /\ UNCHANGED <<tags, table, next, req, answers, made, carried, wrote, pager, deleted>>

AnswerSwapped(r) ==             \* mutant: the success is sent before the error is looked at
    /\ pc[r] = "answer"
    /\ pc' = [pc EXCEPT ![r] = "done"]
    /\ answers' = [answers EXCEPT ![r] =
                     IF failed[r] THEN <<"success", "internal">> ELSE <<"success">>]
    /\ UNCHANGED <<tags, table, next, req, failed, made, carried, wrote, pager, deleted>>

AnswerNewest(r) ==              \* mutant: the key sent is the last one of the table
    /\ pc[r] = "answer"
    /\ pc' = [pc EXCEPT ![r] = "done"]
    /\ answers' = [answers EXCEPT ![r] = <<"success">>]
    /\ req' = [req EXCEPT ![r].key = next - 1]
    /\ UNCHANGED <<tags, table, next, failed, made, carried, wrote, pager, deleted>>

(* The end of a handler: after an error of the database, handleDelete      *)
(* returns; the others go on and send the success as well.                 *)
Answer(r) ==
    /\ pc[r] = "answer"
    /\ pc' = [pc EXCEPT ![r] = "done"]
    /\ answers' = [answers EXCEPT ![r] =
                     (IF failed[r] THEN <<"internal">> ELSE <<>>)
                     \o (IF failed[r] /\ req[r].method = "delete" THEN <<>> ELSE <<"success">>)]
    /\ UNCHANGED <<tags, table, next, req, failed, made, carried, wrote, pager, deleted>>

PageSkips(p) ==                 \* mutant: the offset is pageID * perPage
    {k \in Present : Cardinality({j \in Present : j > k}) \in (p * PerPage)..(p * PerPage + PerPage - 1)}

(* List's rows: the largest keys first, perPage of them from the offset.   *)
Page(p) ==
    LET offset == (p - 1) * PerPage
    IN  {k \in Present : Cardinality({j \in Present : j > k}) \in offset..(offset + PerPage - 1)}

(* The paging client's request for the next page, until one is empty.      *)
ReadPage ==
    /\ "list" \in Kinds
    /\ page > 0
    /\ seen' = seen \cup Page(page)
    /\ page' = IF Page(page) = {} THEN 0 ELSE page + 1
    /\ began' = IF page = 1 THEN Present ELSE began
    /\ deleted' = (deleted /\ page # 1)
    /\ UNCHANGED <<tags, table, next, pc, req, failed, answers, made, carried, wrote>>

Next == \/ \E r \in Requests :
              \/ Malformed(r) \/ Create(r) \/ Query(r) \/ Update(r) \/ Delete(r)
              \/ Refused(r) \/ Answer(r)
              \/ \E o \in Inputs : Handle(r, o)
        \/ ReadPage

Spec == Init /\ [][Next]_vars
-------------------------------------------------------------------------------
(* Whatever the tags, a row never holds a value that was written by a      *)
(* method for which a validator of its column rejects it: every way into   *)
(* the table passes the validators (register.go:152-160, 211-219,          *)
(* http/handler.go:80-92).  What no request wrote, the rows there were at  *)
(* first and the defaults of columns that a create does not insert, no     *)
(* validator has seen, and an update that leaves a column out writes Zero, *)
(* which is kept out only by a validator that rejects it.                  *)
RowsAreValid ==
    \A k \in Present, c \in Columns :
        "validator" \in tags[c] /\ wrote[k][c] # "none" =>
            table[k][c] \notin Rejects[wrote[k][c]][c]

(* The first answer, which sets the status of the response, says success   *)
(* only if the statement was carried out and returned no error, and its    *)
(* result was not lost, which only Read may overlook (handler.go:28-42,    *)
(* model.go:157-259).                                                      *)
FirstAnswerIsTrue ==
    \A r \in Requests :
        answers[r] # <<>> /\ Head(answers[r]) = "success" =>
            /\ ~failed[r]
            /\ carried[r] = "yes" \/ (carried[r] = "lost" /\ req[r].method = "read")

(* The key a successful create is answered with is that of the row it      *)
(* inserted, whatever is inserted meanwhile (model.go:164-175).            *)
AnswerNamesItsRow ==
    \A r \in Requests :
        answers[r] = <<"success">> /\ req[r].method = "create" => req[r].key = made[r]

(* What a client is told of its request is true: also while other requests *)
(* run between a statement and its answer (handler.go:28-42).              *)
AnswersAreTrue == FirstAnswerIsTrue /\ AnswerNamesItsRow

(* A client that reads page after page meets every row that was there when *)
(* it began, whatever is created and updated, if none is deleted meanwhile *)
(* (model.go:30, 233-258).                                                 *)
PagesMissNothing == page = 0 /\ ~deleted => began \subseteq seen
===============================================================================
