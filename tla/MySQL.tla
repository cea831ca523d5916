------------------------------- MODULE MySQL -------------------------------
(***************************************************************************)
(* sqldbs/mysql: the statements the MySQL driver builds.  Every placeholder   *)
(* is a plain question mark, so the arguments must follow the text.           *)
(***************************************************************************)
EXTENDS SQLStatements

Marks(n) == [k \in 1..n |-> 0]

\* The generic text is MySQL's own; a condition without text adds nothing.
Where(cond) == IF cond = NoCond THEN [text |-> NoText, args |-> <<>>] ELSE BindRepr(cond)

SelectRow(table, key, names) ==
    IF ~Choosable(table.columns, names) \/ ~ValidPK(table, key) THEN Refused
    ELSE Statement("SELECT", table, Choose(table.columns, names), <<>>, WherePK("mysql", table, 1), key)

SelectRows(table, cond, names) ==
    IF ~Choosable(table.columns, names) THEN Refused
    ELSE LET where == Where(cond) IN
         Statement("SELECT", table, Choose(table.columns, names), <<>>, where.text, where.args)

InsertRow(table, columns, values) ==
    IF columns = <<>> \/ Len(columns) # Len(values) \/ ~Choosable(table.columns, columns) THEN Refused
    ELSE Statement("INSERT", table, columns, <<Marks(Len(columns))>>, NoText, values)

\* InsertRows is one statement with a tuple per row and the rows' values end to end.
InsertRows(table, columns, rows) ==
    IF columns = <<>> \/ ~Choosable(table.columns, columns) THEN Refused
    ELSE IF rows = <<>> THEN Nothing
    ELSE Statement("INSERT", table, columns, [r \in DOMAIN rows |-> Marks(Len(columns))],
                   NoText, FlattenSeq(rows))

\* buildInsertAutoIncrementingPK: the server reports the generated key by itself.
InsertRowAutoIncrementingPK(table, columns, values) ==
    IF \/ ~table.auto \/ ~SinglePK(table)
       \/ columns = <<>> \/ table.pk[1] \in Range(columns) \/ ~Choosable(table.columns, columns) THEN Refused
    ELSE Statement("INSERT", table, columns, <<Marks(Len(columns))>>, NoText, values)

UpdateRow(table, key, columns, values) ==
    IF columns = <<>> \/ Len(columns) # Len(values)
         \/ ~Choosable(table.columns, columns) \/ ~ValidPK(table, key) THEN Refused
    ELSE Statement("UPDATE", table, columns, <<Marks(Len(columns))>>,
                   WherePK("mysql", table, Len(columns) + 1), values \o key)

UpdateRows(table, columns, values, cond) ==
    IF columns = <<>> \/ Len(columns) # Len(values) \/ ~Choosable(table.columns, columns) THEN Refused
    ELSE LET where == Where(cond) IN
         Statement("UPDATE", table, columns, <<Marks(Len(columns))>>, where.text, values \o where.args)

DeleteRow(table, key) ==
    IF ~ValidPK(table, key) THEN Refused
    ELSE Statement("DELETE", table, <<>>, <<>>, WherePK("mysql", table, 1), key)

DeleteRows(table, cond) ==
    LET where == Where(cond) IN Statement("DELETE", table, <<>>, <<>>, where.text, where.args)

\* The statement of a call of the Executor interface on a DB; a transaction has
\* builders of its own, which write the same.
Built(c) ==
    CASE c.op = "SelectRow" -> SelectRow(c.table, c.key, c.columns)
      [] c.op = "SelectRows" -> SelectRows(c.table, c.cond, c.columns)
      [] c.op = "InsertRow" -> InsertRow(c.table, c.columns, c.values)
      [] c.op = "InsertRows" -> InsertRows(c.table, c.columns, c.values)
      [] c.op = "InsertRowAutoIncrementingPK" -> InsertRowAutoIncrementingPK(c.table, c.columns, c.values)
      [] c.op = "UpdateRow" -> UpdateRow(c.table, c.key, c.columns, c.values)
      [] c.op = "UpdateRows" -> UpdateRows(c.table, c.columns, c.values, c.cond)
      [] c.op = "DeleteRow" -> DeleteRow(c.table, c.key)
      [] c.op = "DeleteRows" -> DeleteRows(c.table, c.cond)
TxBuilt(c) == Built(c)

-----------------------------------------------------------------------------
\* FetchSchema: a key is database-assigned when it is one column marked
\* auto_increment.
FetchSchema(fact) ==
    [t \in DOMAIN fact |->
        [columns |-> fact[t].columns, pk |-> fact[t].pk,
         auto |-> Len(fact[t].pk) = 1 /\ fact[t].pk[1] \in fact[t].generated]]

\* loadRawStmtsToStore: a .mysql file as it is, a .sql one, as it is too,
\* only where no .mysql file has the key.  WalkDir goes by name.
LoadRawSQL(files) ==
    IF files.mysql # <<>> THEN files.mysql[1] ELSE files.sql[1]
=============================================================================
