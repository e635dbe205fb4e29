---------------------------- MODULE PreparedSql ----------------------------
(***************************************************************************)
(* connection.py, AsyncDatabase.prepare: named parameters become numbers,  *)
(* in the order in which they first appear, and the values are put in that *)
(* order.  A statement is a sequence of tokens: N is ":pN" before prepare  *)
(* and "$N" after it, 0 is any other text.  A pure function: TLC evaluates *)
(* the assumptions at the end over all short statements and over those     *)
(* that the service uses.                                                  *)
(***************************************************************************)
EXTENDS Naturals, Sequences

LOCAL INSTANCE SequencesExt

Params == 1..7
Text == 0
NoValue == 100   \* None, what params.get gives for a key that is not there

-----------------------------------------------------------------------------
(* The parameters in the order of their first appearance. *)
Order(sql) ==
  FoldLeft(LAMBDA order, token :
             IF token \in Params /\ ~Contains(order, token) THEN Append(order, token) ELSE order,
           <<>>, sql)

Number(order, param) == CHOOSE i \in DOMAIN order : order[i] = param

(* re.sub *)
NewSql(sql) ==
  LET order == Order(sql) IN
  [i \in DOMAIN sql |-> IF sql[i] \in Params THEN Number(order, sql[i]) ELSE sql[i]]

Values(sql, params) ==
  LET order == Order(sql) IN
  [i \in DOMAIN order |-> IF order[i] \in DOMAIN params THEN params[order[i]] ELSE NoValue]

-----------------------------------------------------------------------------
(* The parameters of the statements of messages.py that Controller.py      *)
(* uses, and the keys of the dictionary it gives to prepare with each.     *)
Statements ==
  { [sql |-> <<1, 2, 3, 4, 5, 6, 7>>, given |-> 1..7],  \* CREATE_MESSAGE
    [sql |-> <<1>>, given |-> {1}],                     \* GET_MESSAGE_BY_ID_FOR_UPDATE
    [sql |-> <<2, 3, 4, 1>>, given |-> 1..4],           \* UPDATE_MESSAGE_CONTENT_AND_PATHS
    [sql |-> <<2, 1>>, given |-> 1..2],                 \* SOFT_DELETE_MESSAGE
    [sql |-> <<1, 2>>, given |-> 1..2],           \* LIST_..._NOT_DELETED_DESC_FIRST
    [sql |-> <<1, 2, 3, 4>>, given |-> 1..4] }    \* LIST_..._NOT_DELETED_DESC_BEFORE

-----------------------------------------------------------------------------
(* PostgreSQL puts value n in the place of $n, and asyncpg refuses a list  *)
(* of values that is not as long as the largest number.                    *)
Bound(new, values) ==
  [i \in DOMAIN new |-> IF new[i] # Text THEN values[new[i]] ELSE new[i]]

(* What the named parameters mean: each place has the value of its name.   *)
Meant(sql, params) ==
  [i \in DOMAIN sql |-> IF sql[i] \in Params THEN params[sql[i]] ELSE sql[i]]

Given(params) == [p \in params |-> 10 + p]

(* Whatever the order of the names and however often each appears, every   *)
(* place is given its own value, and no value is left over.                *)
BindsEachName(sql) ==
  LET params == Given(Params)
      new == NewSql(sql)
  IN /\ Bound(new, Values(sql, params)) = Meant(sql, params)
     /\ {new[i] : i \in DOMAIN new} \ {Text} = DOMAIN Values(sql, params)

ShortStatements == UNION {[1..n -> {1, 2, 3, Text}] : n \in 0..6}

ASSUME PrepareBinds == \A sql \in ShortStatements : BindsEachName(sql)

(* No statement of the controller is run with a value that was not given.  *)
ASSUME AllGiven ==
  \A s \in Statements :
    LET params == Given(s.given) IN
    /\ BindsEachName(s.sql)
    /\ ToSet(Values(s.sql, params)) = {params[p] : p \in s.given}
=============================================================================
