------------------------------- MODULE PgSQL -------------------------------
(***************************************************************************)
(* sqldbs/pgsql: the statements the PostgreSQL driver builds.  Placeholders   *)
(* are numbered, so each builder counts them itself.                          *)
(***************************************************************************)
EXTENDS SQLStatements

Dollars(from, n) == [k \in 1..n |-> from + k - 1]

SelectRow(table, key, names) ==
    IF ~Choosable(table.columns, names) \/ ~ValidPK(table, key) THEN Refused
    ELSE Statement("SELECT", table, Choose(table.columns, names), <<>>, WherePK("pgsql", table, 1), key)

SelectRows(table, cond, names) ==
    IF ~Choosable(table.columns, names) THEN Refused
    ELSE LET where == Build(cond, "pgsql", 1) IN
         Statement("SELECT", table, Choose(table.columns, names), <<>>, where.text, where.args)

InsertRow(table, columns, values) ==
    IF columns = <<>> \/ Len(columns) # Len(values) \/ ~Choosable(table.columns, columns) THEN Refused
    ELSE Statement("INSERT", table, columns, <<Dollars(1, Len(columns))>>, NoText, values)

\* InsertRows streams the rows themselves through COPY: there is nothing to bind.
InsertRows(table, columns, rows) ==
    IF columns = <<>> \/ ~Choosable(table.columns, columns) THEN Refused
    ELSE IF rows = <<>> THEN Nothing
    ELSE Statement("COPY", table, columns, rows, NoText, <<>>)

\* buildInsertAutoIncrementingPK asks the generated key back as it inserts.
InsertRowAutoIncrementingPK(table, columns, values) ==
    IF \/ ~table.auto \/ ~SinglePK(table)
       \/ columns = <<>> \/ table.pk[1] \in Range(columns) \/ ~Choosable(table.columns, columns) THEN Refused
    ELSE Statement("INSERT", table, columns, <<Dollars(1, Len(columns))>>, NoText, values)

UpdateRow(table, key, columns, values) ==
    IF columns = <<>> \/ Len(columns) # Len(values)
         \/ ~Choosable(table.columns, columns) \/ ~ValidPK(table, key) THEN Refused
    ELSE Statement("UPDATE", table, columns, <<Dollars(1, Len(columns))>>,
                   WherePK("pgsql", table, Len(columns) + 1), values \o key)

\* Mutant of UpdateRows: the condition is numbered on its own.
UpdateRowsRestarted(table, columns, values, cond) ==
    IF columns = <<>> \/ Len(columns) # Len(values) \/ ~Choosable(table.columns, columns) THEN Refused
    ELSE LET where == Build(cond, "pgsql", 1) IN
         Statement("UPDATE", table, columns, <<Dollars(1, Len(columns))>>, where.text, values \o where.args)

UpdateRows(table, columns, values, cond) ==
    IF columns = <<>> \/ Len(columns) # Len(values) \/ ~Choosable(table.columns, columns) THEN Refused
    ELSE LET where == Build(cond, "pgsql", Len(columns) + 1) IN
         Statement("UPDATE", table, columns, <<Dollars(1, Len(columns))>>, where.text, values \o where.args)

DeleteRow(table, key) ==
    IF ~ValidPK(table, key) THEN Refused
    ELSE Statement("DELETE", table, <<>>, <<>>, WherePK("pgsql", table, 1), key)

DeleteRows(table, cond) ==
    LET where == Build(cond, "pgsql", 1) IN Statement("DELETE", table, <<>>, <<>>, where.text, where.args)

\* The statement of a call of the Executor interface on a DB; a transaction has
\* builders of its own, which write the same.
Built(c) ==
    CASE c.op = "SelectRow" -> SelectRow(c.table, c.key, c.columns)
      [] c.op = "SelectRows" -> SelectRows(c.table, c.cond, c.columns)
      [] c.op = "InsertRow" -> InsertRow(c.table, c.columns, c.values)
      [] c.op = "InsertRows" -> InsertRows(c.table, c.columns, c.values)
      [] c.op = "InsertRowAutoIncrementingPK" -> InsertRowAutoIncrementingPK(c.table, c.columns, c.values)
      [] c.op = "UpdateRow" -> UpdateRow(c.table, c.key, c.columns, c.values)
      [] c.op = "UpdateRows" -> UpdateRows(c.table, c.columns, c.values, c.cond)
      [] c.op = "DeleteRow" -> DeleteRow(c.table, c.key)
      [] c.op = "DeleteRows" -> DeleteRows(c.table, c.cond)
TxBuilt(c) == Built(c)

-----------------------------------------------------------------------------
\* FetchSchema: a key is database-assigned when it is one column with a generator
\* of its own, an owned sequence or identity.
FetchSchema(fact) ==
    [t \in DOMAIN fact |->
        [columns |-> fact[t].columns, pk |-> fact[t].pk,
         auto |-> Len(fact[t].pk) = 1 /\ fact[t].pk[1] \in fact[t].generated]]

\* loadRawStmtsToStore: a .pgsql file as it is, a .sql one with its placeholders
\* numbered and only where no .pgsql file has the key.  WalkDir goes by name.
LoadRawSQL(files) ==
    IF files.pgsql # <<>> THEN files.pgsql[1] ELSE ReplaceStaticPlaceholders(files.sql[1])
=============================================================================
