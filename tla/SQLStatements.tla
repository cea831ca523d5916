--------------------------- MODULE SQLStatements ---------------------------
(***************************************************************************)
(* gw/sqldbs: tables, columns, conditions and the statements the dialects     *)
(* build from them.  A statement keeps what binding can get wrong: which       *)
(* placeholder stands where, in the order of the text, and the arguments       *)
(* beside it.  A placeholder is its number, $n, or 0 for a plain question mark *)
(* that takes its number from its place in the text.                           *)
(***************************************************************************)
EXTENDS Integers, Sequences, FiniteSets, SequencesExt

Null == -1

-----------------------------------------------------------------------------
\* Table declarations.

\* Columns.Choose: none means all; a name twice, or not declared, is refused.
Choosable(columns, names) == IsInjective(names) /\ Range(names) \subseteq Range(columns)
Choose(columns, names) == IF names = <<>> THEN columns ELSE names

\* NewTable: the key leads; no column twice; only one column can be generated.
TableDeclarable(pk, auto, nonPK) ==
    /\ pk # <<>> /\ (auto => Len(pk) = 1)
    /\ IsInjective(pk \o nonPK)
NewTable(name, pk, auto, nonPK) == [name |-> name, pk |-> pk, auto |-> auto, columns |-> pk \o nonPK]

\* ValidatePK: one value per key column.
ValidPK(table, key) == Len(key) = Len(table.pk)

SinglePK(table) == Len(table.pk) = 1

-----------------------------------------------------------------------------
\* Conditions, and the text they come to with their arguments.
Pred(kind, column, values) == [kind |-> kind, column |-> column, values |-> values, conds |-> <<>>]
BinPred(column, op, v) == Pred(op, column, <<v>>)
InPred(column, values) == Pred("IN", column, values)
NotInPred(column, values) == Pred("NOT IN", column, values)
NullPred(column) == Pred("IS NULL", column, <<>>)
NotNullPred(column) == Pred("IS NOT NULL", column, <<>>)
And(conds) == [kind |-> "AND", column |-> "", values |-> <<>>, conds |-> conds]
Or(conds) == [kind |-> "OR", column |-> "", values |-> <<>>, conds |-> conds]
Not(cond) == [kind |-> "NOT", column |-> "", values |-> <<>>, conds |-> <<cond>>]

Text(kind, column, marks, parts) == [kind |-> kind, column |-> column, marks |-> marks, parts |-> parts]
NoText == Text("", "", <<>>, <<>>)

\* BindRepr: a connective over nothing is no text, over one condition that one;
\* the arguments follow the order of the question marks.
RECURSIVE BindRepr(_)
BindRepr(cond) ==
    LET parts == [n \in DOMAIN cond.conds |-> BindRepr(cond.conds[n])] IN
    IF cond.kind \in {"AND", "OR"} /\ parts = <<>> THEN [text |-> NoText, args |-> <<>>]
    ELSE IF cond.kind \in {"AND", "OR"} /\ Len(parts) = 1 THEN parts[1]
    ELSE [text |-> Text(cond.kind, cond.column, [n \in DOMAIN cond.values |-> 0],
                        [n \in DOMAIN parts |-> parts[n].text]),
          args |-> cond.values \o FlattenSeq([n \in DOMAIN parts |-> parts[n].args])]

RECURSIVE MarksIn(_)
MarksIn(text) == text.marks \o FlattenSeq([n \in DOMAIN text.parts |-> MarksIn(text.parts[n])])

\* NthPlaceholder of a client: PostgreSQL numbers its placeholders, MySQL does not.
PgNthPlaceholder(n) == n
MyNthPlaceholder(n) == 0
NthPlaceholder(client, n) == IF client = "pgsql" THEN PgNthPlaceholder(n) ELSE MyNthPlaceholder(n)

\* The text with the client's placeholders for its question marks, from start on.
RECURSIVE Translated(_, _, _)
Translated(text, client, start) ==
    [text EXCEPT
        !.marks = [n \in DOMAIN @ |-> NthPlaceholder(client, start + n - 1)],
        !.parts = [n \in DOMAIN @ |-> Translated(@[n], client,
            start + Len(text.marks) + Len(FlattenSeq([k \in 1..(n - 1) |-> MarksIn(text.parts[k])])))]]

\* WhereClause.Build
NoCond == [kind |-> "nil", column |-> "", values |-> <<>>, conds |-> <<>>]
Build(cond, client, start) ==
    IF cond = NoCond THEN [text |-> NoText, args |-> <<>>]
    ELSE LET repr == BindRepr(cond) IN [repr EXCEPT !.text = Translated(@, client, start)]

\* WherePK: the equality chain over the key columns, in key order.
WherePK(client, table, start) ==
    Text("AND", "", <<>>,
        [n \in DOMAIN table.pk |-> Text("=", table.pk[n], <<NthPlaceholder(client, start + n - 1)>>, <<>>)])

\* InPlaceholders, as the relation loaders write it.
InText(client, column, start, cnt) ==
    Text("IN", column, [n \in 1..cnt |-> NthPlaceholder(client, start + n - 1)], <<>>)

-----------------------------------------------------------------------------
\* Statements.  SELECT reads columns, INSERT has one tuple of placeholders per row,
\* UPDATE one assignment per column; Refused is the error before anything runs.
Statement(verb, table, columns, tuples, where, args) ==
    [verb |-> verb, table |-> table.name, columns |-> columns, tuples |-> tuples, where |-> where, args |-> args]
Refused == [verb |-> "refused", table |-> "", columns |-> <<>>, tuples |-> <<>>, where |-> NoText, args |-> <<>>]

\* A call that returns before it sends anything, without an error.
Nothing == [Refused EXCEPT !.verb = "nothing"]

\* CheckRawVerb: the caller's statement opens with the verb its method promises.
CheckRawVerb(verb, stmt) == IF stmt.verb = verb THEN stmt ELSE Refused

\* ReplaceStaticPlaceholders: plain question marks get numbers, in order.
ReplaceStaticPlaceholders(stmt) ==
    [stmt EXCEPT
        !.tuples = [r \in DOMAIN @ |-> [c \in DOMAIN @[r] |->
                       c + Len(FlattenSeq(SubSeq(stmt.tuples, 1, r - 1)))]],
        !.where = Translated(@, "pgsql", Len(FlattenSeq(stmt.tuples)) + 1)]
=============================================================================
