----------------------------- MODULE SQLModels -----------------------------
(***************************************************************************)
(* gw/sqldbs, the model layer: model types bind columns to fields, are vetted *)
(* against a schema, and turn every operation into one call of the executor.  *)
(* A type is its table and the columns it binds, in binding order; a model is *)
(* a type's fields, a value for every bound column.                           *)
(***************************************************************************)
EXTENDS SQLStatements

\* RegisterDBModelOrPanic: the table's other columns are the bindings' own.
RegisterDBModel(name, pk, auto, bindings) ==
    [table |-> NewTable(name, pk, auto, SelectSeq(bindings, LAMBDA c : c \notin Range(pk))),
     bindings |-> bindings]
\* A model on a table declared by hand, NewTableOrPanic.
BindTable(table, bindings) == [table |-> table, bindings |-> bindings]

\* ValidateDBModelBindings
ValidateDBModelBindings(type) ==
    /\ type.bindings # <<>> /\ IsInjective(type.bindings)
    /\ Range(type.bindings) \subseteq Range(type.table.columns)
    /\ Range(type.table.pk) \subseteq Range(type.bindings)

\* VerifyTablesAgainstSchema: a declaration claims a part of the table and its key.
VerifyTable(table, schema) ==
    /\ table.name \in DOMAIN schema
    /\ LET fact == schema[table.name] IN
       /\ Range(table.columns) \subseteq DOMAIN fact.columns
       /\ Range(table.pk) = Range(fact.pk)
       /\ table.auto = fact.auto

VetDBModelAgainstDB(type, schema) == VerifyTable(type.table, schema) /\ ValidateDBModelBindings(type)

\* Mutant of VetDBModelInsert: a column without a default is let through.
VetDBModelInsertLoose(type, schema) == VetDBModelAgainstDB(type, schema)

\* VetDBModelInsert: what the table does not declare, the database must supply.
VetDBModelInsert(type, schema) ==
    /\ VetDBModelAgainstDB(type, schema)
    /\ LET fact == schema[type.table.name] IN
       \A c \in DOMAIN fact.columns : c \in Range(type.table.columns) \/ fact.columns[c].nullable \/ fact.columns[c].default

\* VetAgainstDB of a group, every member on its own.
VetGroup(types, schema) == \A type \in types : VetDBModelAgainstDB(type, schema)

-----------------------------------------------------------------------------
\* Mutant of splitBindingsByKey: the key in the order of the bindings.
KeyOfBindings(type) == SelectSeq(type.bindings, LAMBDA c : c \in Range(type.table.pk))

\* splitBindingsByKey: the key in the table's order, the rest in the bindings'.
Splits(type) == IsInjective(type.bindings) /\ Range(type.table.pk) \subseteq Range(type.bindings)
KeyOf(type) == type.table.pk
NonKeyOf(type) == SelectSeq(type.bindings, LAMBDA c : c \notin Range(type.table.pk))

\* pkValueFromBindings, and the values a write takes from the fields.
Values(fields, columns) == [n \in DOMAIN columns |-> fields[columns[n]]]

\* A call of the Executor interface; "" is the error returned before one.
NewCall(op, table, key, columns, values, cond) ==
    [op |-> op, table |-> table, key |-> key, columns |-> columns, values |-> values, cond |-> cond]
NoCall(type) == NewCall("", type.table, <<>>, <<>>, <<>>, NoCond)

HydrateDBModel(type, fields) ==
    IF ~Splits(type) THEN NoCall(type)
    ELSE NewCall("SelectRow", type.table, Values(fields, KeyOf(type)),
                 IF NonKeyOf(type) = <<>> THEN KeyOf(type) ELSE NonKeyOf(type), <<>>, NoCond)

FetchDBModel(type, key) == NewCall("SelectRow", type.table, key, type.bindings, <<>>, NoCond)

InsertDBModel(type, fields) ==
    NewCall("InsertRow", type.table, <<>>, type.bindings, Values(fields, type.bindings), NoCond)

\* A model that carries a key is refused: 0 is a key not yet given.
InsertDBModelAutoIncrementingPK(type, id, fields) ==
    IF id # 0 \/ ~Splits(type) THEN NoCall(type)
    ELSE NewCall("InsertRowAutoIncrementingPK", type.table, <<>>, NonKeyOf(type),
                 Values(fields, NonKeyOf(type)), NoCond)

\* updateColumns narrows the write; a name outside the other bindings is refused.
UpdateDBModel(type, fields, updateColumns) ==
    LET written == IF updateColumns = <<>> THEN NonKeyOf(type) ELSE updateColumns IN
    IF ~Splits(type) \/ ~(Range(updateColumns) \subseteq Range(NonKeyOf(type))) \/ written = <<>> THEN NoCall(type)
    ELSE NewCall("UpdateRow", type.table, Values(fields, KeyOf(type)), written, Values(fields, written), NoCond)

DeleteDBModel(type, fields) ==
    IF ~Splits(type) THEN NoCall(type)
    ELSE NewCall("DeleteRow", type.table, Values(fields, KeyOf(type)), <<>>, <<>>, NoCond)

-----------------------------------------------------------------------------
\* The collection forms, over the models of a collection in its order and its ids.
InsertDBModelCollection(type, models) ==
    NewCall("InsertRows", type.table, <<>>, type.bindings,
            [n \in DOMAIN models |-> Values(models[n].fields, type.bindings)], NoCond)

\* One call per model; the loop stops at the first error.
UpdateDBModelCollection(type, models, updateColumns) ==
    [n \in DOMAIN models |-> UpdateDBModel(type, models[n].fields, updateColumns)]

DeleteDBModelCollection(type, ids) ==
    IF ~SinglePK(type.table) THEN NoCall(type)
    ELSE NewCall("DeleteRows", type.table, <<>>, <<>>, <<>>, InPred(type.table.pk[1], ids))

-----------------------------------------------------------------------------
\* Queries by a statement of their own, placeholders by the client.
SelectBaseOf(type, where, args) ==
    IF ~Choosable(type.table.columns, type.bindings) THEN Refused
    ELSE Statement("SELECT", type.table, Choose(type.table.columns, type.bindings), <<>>, where, args)

QueryDBModelCollection(client, type, cond) ==
    LET where == Build(cond, client, 1) IN SelectBaseOf(type, where.text, where.args)

QueryDBModelCollectionByColumn(client, type, column, values) ==
    CASE values = <<>> -> Refused
      [] Len(values) = 1 -> CheckRawVerb("SELECT",
            SelectBaseOf(type, Text("=", column, <<NthPlaceholder(client, 1)>>, <<>>), values))
      [] OTHER -> CheckRawVerb("SELECT", SelectBaseOf(type, InText(client, column, 1, Len(values)), values))

\* LoadDBModelHasMany writes one placeholder per parent and binds the parents' ids.
LoadDBModelHasMany(client, type, column, cnt, ids) == SelectBaseOf(type, InText(client, column, 1, cnt), ids)

\* Mutant of LoadDBModelHasManyQueryOpts: the condition widens the children.
LoadDBModelHasManyQueryOptsEither(client, type, column, ids, cond) ==
    QueryDBModelCollection(client, type, Or(<<InPred(column, ids), cond>>))

LoadDBModelHasManyQueryOpts(client, type, column, ids, cond) ==
    QueryDBModelCollection(client, type,
        IF cond = NoCond THEN InPred(column, ids) ELSE And(<<InPred(column, ids), cond>>))

LoadDBModelBelongsToOnItem(client, type, fk) ==
    QueryDBModelCollection(client, type, BinPred(type.table.pk[1], "=", fk))

LoadDBModelHasManyQueryOptsOnItem(client, type, column, id, cond) ==
    QueryDBModelCollection(client, type,
        IF cond = NoCond THEN BinPred(column, "=", id) ELSE And(<<BinPred(column, "=", id), cond>>))
=============================================================================
