------------------------------ MODULE SQLData ------------------------------
(***************************************************************************)
(* The SQL layer end to end: an app works on the same data through the        *)
(* PostgreSQL driver and through the MySQL driver, call by call in step.  The *)
(* two databases are external: they bind arguments to placeholders, judge the *)
(* text, keep keys unique and answer.  Work goes to the DB or, while one is   *)
(* open, to a transaction; the app rolls a transaction back after an error.   *)
(***************************************************************************)
EXTENDS SQLModels, Collections

Pg == INSTANCE PgSQL
My == INSTANCE MySQL

CONSTANTS
    Models,        \* model types by name
    Facts,         \* what the database can contain, by version
    Populations,   \* the rows an app may find when it starts
    Fields,        \* the models an app writes, by type name
    Conds,         \* the conditions it queries and writes by, by type name
    Relations,     \* the foreign keys: child, column, parent, whether optional
    Slices,        \* the slices of models it makes collections of
    FoundRows,     \* whether MySQL counts the rows an UPDATE matched
    FirstGenerated,\* generated keys lie above the ones apps write themselves
    MaxCalls

\* NewTable returns an error for any other declaration: no app gets past one.
ASSUME TablesDeclared ==
    \A type \in DOMAIN Models :
        LET table == Models[type].table IN
        TableDeclarable(table.pk, table.auto,
                        SubSeq(table.columns, Len(table.pk) + 1, Len(table.columns)))

VARIABLES
    version,       \* of the database's schema
    cached,        \* the version of the snapshot a DB holds
    vetted,        \* whether the app's types passed against that snapshot
    committed,     \* rows by dialect and table, with the key generator
    tx,            \* the open transaction
    held,          \* the collection in the app's hands, by dialect
    last,          \* the last call and its answers
    calls

vars == <<version, cached, vetted, committed, tx, held, last, calls>>

Dialects == {"pgsql", "mysql"}
Tables == {Models[t].table.name : t \in DOMAIN Models}
NoTx == [open |-> FALSE, data |-> [d \in Dialects |-> 0], failed |-> FALSE]
NoHeld == [type |-> "", coll |-> NewEmptyOrderedCollection, links |-> EmptyMap, many |-> EmptyMap, child |-> ""]
Answer(err, count, got) == [err |-> err, count |-> count, got |-> got]
Noted(op, type, fields, columns, answers) ==
    [op |-> op, type |-> type, fields |-> fields, columns |-> columns, answers |-> answers]
Idle == Noted("", "", 0, <<>>, [d \in Dialects |-> Answer("", 0, {})])

Init ==
    /\ version = "base" /\ cached = "base" /\ vetted = FALSE
    /\ \E rows \in Populations : committed = [d \in Dialects |-> [rows |-> rows, gen |-> FirstGenerated]]
    /\ tx = NoTx /\ held = [d \in Dialects |-> NoHeld] /\ last = Idle /\ calls = 0

-----------------------------------------------------------------------------
\* The databases.  Truth is 2, 0 or 1 for unknown, as SQL has it.
Compare(op, a, b) ==
    IF a = Null \/ b = Null THEN 1
    ELSE IF CASE op = "=" -> a = b [] op = "!=" -> a # b [] op = ">" -> a > b [] op = "<" -> a < b
              [] op = ">=" -> a >= b [] op = "<=" -> a <= b THEN 2 ELSE 0
Least(s) == IF s = {} THEN 2 ELSE CHOOSE n \in s : \A k \in s : n <= k
Greatest(s) == IF s = {} THEN 0 ELSE CHOOSE n \in s : \A k \in s : n >= k
Member(a, bs) == Greatest({Compare("=", a, b) : b \in Range(bs)})

\* The truth of a node over its column's value, its values and its parts' truths.
Judge(kind, a, bs, parts) ==
    CASE kind = "IN" -> Member(a, bs)
      [] kind = "NOT IN" -> 2 - Member(a, bs)
      [] kind = "IS NULL" -> IF a = Null THEN 2 ELSE 0
      [] kind = "IS NOT NULL" -> IF a = Null THEN 0 ELSE 2
      [] kind = "AND" -> Least(Range(parts))
      [] kind = "OR" -> Greatest(Range(parts))
      [] kind = "NOT" -> 2 - parts[1]
      [] OTHER -> Compare(kind, a, bs[1])

RECURSIVE Truth(_, _, _)
Truth(text, row, args) ==
    Judge(text.kind, IF text.column = "" THEN Null ELSE row[text.column],
          [n \in DOMAIN text.marks |-> args[text.marks[n]]],
          [n \in DOMAIN text.parts |-> Truth(text.parts[n], row, args)])

RECURSIVE Parses(_)
Parses(text) ==
    /\ text.kind # ""
    /\ text.kind \in {"IN", "NOT IN"} => text.marks # <<>>
    /\ \A n \in DOMAIN text.parts : Parses(text.parts[n])

Marked(stmt) == (IF stmt.verb = "COPY" THEN <<>> ELSE FlattenSeq(stmt.tuples)) \o MarksIn(stmt.where)

\* PostgreSQL takes numbered placeholders, MySQL plain ones in the order of the text.
Prepared(d, stmt) == IF d = "mysql" THEN ReplaceStaticPlaceholders(stmt) ELSE stmt
WellFormed(d, stmt) ==
    /\ stmt.where # NoText => Parses(stmt.where)
    /\ d = "mysql" => Range(Marked(stmt)) \subseteq {0}
    /\ Range(Marked(Prepared(d, stmt))) = 1..Len(stmt.args)
    /\ stmt.verb = "COPY" => \A r \in DOMAIN stmt.tuples : Len(stmt.tuples[r]) = Len(stmt.columns)

KeyIn(table, row) == Values(row, Facts["base"][table].pk)
Supplied(fact, columns) ==
    /\ Range(columns) \subseteq DOMAIN fact.columns
    /\ \A c \in DOMAIN fact.columns \ Range(columns) :
          fact.columns[c].nullable \/ fact.columns[c].default \/ c \in fact.generated

\* The row an INSERT of these values makes: the generator's key, or a null, or
\* the default of 1 where no value is given.
Made(table, columns, values, gen) ==
    LET fact == Facts["base"][table] IN
    [c \in DOMAIN fact.columns |->
        IF c \in Range(columns) THEN values[CHOOSE n \in DOMAIN columns : columns[n] = c]
        ELSE IF c \in fact.generated THEN gen
        ELSE IF fact.columns[c].nullable THEN Null ELSE 1]

Failed(data, err) == [data |-> data, answer |-> Answer(err, 0, {})]
Done(data, count, got) == [data |-> data, answer |-> Answer("", count, got)]

Insert(data, stmt, rows) ==
    LET fact == Facts[version][stmt.table]
        old == data.rows[stmt.table]
        new == [r \in DOMAIN rows |-> Made(stmt.table, stmt.columns, rows[r], data.gen)]
        keys == [r \in DOMAIN new |-> KeyIn(stmt.table, new[r])]
        generates == fact.generated \ Range(stmt.columns) # {} IN
    IF \/ ~Supplied(fact, stmt.columns)
       \/ \E r \in DOMAIN new, c \in Range(stmt.columns) : new[r][c] = Null /\ ~fact.columns[c].nullable
    THEN Failed(data, "schema")
    ELSE IF ~IsInjective(keys) \/ Range(keys) \cap {KeyIn(stmt.table, row) : row \in old} # {}
    THEN Failed(data, "duplicate")
    ELSE Done([rows |-> [data.rows EXCEPT ![stmt.table] = @ \cup Range(new)],
               gen |-> IF generates THEN data.gen + 1 ELSE data.gen],
              Len(rows), IF generates THEN {data.gen} ELSE {})

Engine(d, data, sent) ==
    LET stmt == Prepared(d, sent)
        table == stmt.table
        Hit(row) == stmt.where = NoText \/ Truth(stmt.where, row, stmt.args) = 2
        hits == {row \in data.rows[table] : Hit(row)}
        After(row) == [c \in DOMAIN row |->
            IF c \in Range(stmt.columns)
            THEN stmt.args[stmt.tuples[1][CHOOSE n \in DOMAIN stmt.columns : stmt.columns[n] = c]] ELSE row[c]] IN
    CASE stmt.verb = "refused" -> Failed(data, "refused")
      [] stmt.verb = "nothing" -> Done(data, 0, {})
      [] stmt.verb \notin {"refused", "nothing"} /\ ~WellFormed(d, sent) -> Failed(data, "malformed")
      [] stmt.verb = "SELECT" /\ WellFormed(d, sent) ->
            Done(data, 0, {Values(row, stmt.columns) : row \in hits})
      [] stmt.verb = "INSERT" /\ WellFormed(d, sent) ->
            Insert(data, stmt, [r \in DOMAIN stmt.tuples |-> [n \in DOMAIN stmt.tuples[r] |-> stmt.args[stmt.tuples[r][n]]]])
      [] stmt.verb = "COPY" /\ WellFormed(d, sent) -> Insert(data, stmt, stmt.tuples)
      [] stmt.verb = "UPDATE" /\ WellFormed(d, sent) ->
            IF \E row \in hits, c \in Range(stmt.columns) :
                  After(row)[c] = Null /\ ~Facts[version][table].columns[c].nullable
            THEN Failed(data, "schema")
            ELSE Done([data EXCEPT !.rows[table] = {IF Hit(row) THEN After(row) ELSE row : row \in @}],
                      Cardinality({row \in hits : d = "pgsql" \/ FoundRows \/ After(row) # row}), {})
      [] stmt.verb = "DELETE" /\ WellFormed(d, sent) ->
            Done([data EXCEPT !.rows[table] = @ \ hits], Cardinality(hits), {})

-----------------------------------------------------------------------------
\* Calls on the executor: the DB, or the open transaction.
Current == IF tx.open THEN tx.data ELSE committed
Stmt(d, call) ==
    IF call.op = "" THEN Refused
    ELSE IF tx.open THEN IF d = "pgsql" THEN Pg!TxBuilt(call) ELSE My!TxBuilt(call)
    ELSE IF d = "pgsql" THEN Pg!Built(call) ELSE My!Built(call)
Sent(call) == [d \in Dialects |-> Engine(d, Current[d], Stmt(d, call))]

\* A run of calls that stops at the first error, and the total it reports.
InTurn(called) ==
    [d \in Dialects |->
        FoldLeft(LAMBDA done, call :
                    IF done.answer.err # "" THEN done
                    ELSE LET out == Engine(d, done.data, Stmt(d, call)) IN
                         [data |-> out.data,
                          answer |-> [out.answer EXCEPT !.count = @ + done.answer.count]],
                 Done(Current[d], 0, {}), called)]

Perform(op, type, fields, columns, out) ==
    /\ calls < MaxCalls /\ ~tx.failed
    /\ calls' = calls + 1
    /\ LET data == [d \in Dialects |-> out[d].data] IN
       IF tx.open
       THEN /\ tx' = [tx EXCEPT !.data = data, !.failed = \E d \in Dialects : out[d].answer.err # ""]
            /\ UNCHANGED committed
       ELSE committed' = data /\ UNCHANGED tx
    /\ last' = Noted(op, type, fields, columns, [d \in Dialects |-> out[d].answer])
    /\ UNCHANGED <<version, cached, vetted, held>>

Columns(type) == {<<>>, <<Last(Models[type].table.columns)>>, <<Models[type].table.columns[1]>>}

HydrateModel == \E type \in DOMAIN Models : \E f \in Fields[type] :
    Perform("Hydrate", type, f, <<>>, Sent(HydrateDBModel(Models[type], f)))
FetchModel == \E type \in DOMAIN Models : \E f \in Fields[type] :
    Perform("Fetch", type, f, <<>>, Sent(FetchDBModel(Models[type], Values(f, Models[type].table.pk))))
InsertModel == \E type \in DOMAIN Models : \E f \in Fields[type] :
    Perform("Insert", type, f, <<>>, Sent(InsertDBModel(Models[type], f)))
InsertModelAuto == \E type \in DOMAIN Models : \E f \in Fields[type], id \in {0, 1} :
    /\ SinglePK(Models[type].table)
    /\ Perform("InsertAuto", type, f, <<>>, Sent(InsertDBModelAutoIncrementingPK(Models[type], id, f)))
UpdateModel == \E type \in DOMAIN Models : \E f \in Fields[type], columns \in Columns(type) :
    Perform("Update", type, f, columns, Sent(UpdateDBModel(Models[type], f, columns)))
DeleteModel == \E type \in DOMAIN Models : \E f \in Fields[type] :
    Perform("Delete", type, f, <<>>, Sent(DeleteDBModel(Models[type], f)))

\* Writes by a condition, straight on the executor.
UpdateWhere == \E type \in DOMAIN Models : \E f \in Fields[type], cond \in Conds[type] :
    LET t == Models[type] IN
    Perform("UpdateWhere", type, [fields |-> f, cond |-> cond], NonKeyOf(t),
            Sent(NewCall("UpdateRows", t.table, <<>>, NonKeyOf(t), Values(f, NonKeyOf(t)), cond)))
DeleteWhere == \E type \in DOMAIN Models : \E cond \in Conds[type] :
    Perform("DeleteWhere", type, [cond |-> cond], <<>>,
            Sent(NewCall("DeleteRows", Models[type].table, <<>>, <<>>, <<>>, cond)))

\* A raw statement of the app's, written once with plain question marks, through
\* each client's store and UpdateRowsRaw.
RawFile(t, fields) ==
    LET column == Last(NonKeyOf(t)) IN
    Statement("UPDATE", t.table, <<column>>, <<<<0>>>>, WherePK("mysql", t.table, 1),
              <<fields[column]>> \o Values(fields, t.table.pk))
Stored(d, file) ==
    IF d = "pgsql" THEN Pg!LoadRawSQL([sql |-> <<file>>, pgsql |-> <<>>])
    ELSE My!LoadRawSQL([sql |-> <<file>>, mysql |-> <<>>])
UpdateRaw == \E type \in DOMAIN Models : \E f \in Fields[type] :
    Perform("Update", type, f, <<Last(NonKeyOf(Models[type]))>>,
            [d \in Dialects |-> Engine(d, Current[d], CheckRawVerb("UPDATE", Stored(d, RawFile(Models[type], f))))])

\* The collection forms, on what the app holds; an empty one sends nothing.
Holding == held["pgsql"].type # ""
HeldType == Models[held["pgsql"].type]
HeldModels == ForEach(held["pgsql"].coll)
Collectively(op, columns, out) ==
    /\ Holding /\ HeldModels # <<>>
    /\ Perform(op, held["pgsql"].type, [models |-> HeldModels], columns, out)
InsertHeld == Collectively("InsertAll", <<>>, Sent(InsertDBModelCollection(HeldType, HeldModels)))
UpdateHeld == Collectively("UpdateAll", NonKeyOf(HeldType), InTurn(UpdateDBModelCollection(HeldType, HeldModels, <<>>)))
DeleteHeld == Collectively("DeleteAll", <<>>, Sent(DeleteDBModelCollection(HeldType, IDs(held["pgsql"].coll))))

-----------------------------------------------------------------------------
\* Transactions.
BeginTx ==
    /\ ~tx.open /\ calls < MaxCalls
    /\ tx' = [open |-> TRUE, data |-> committed, failed |-> FALSE]
    /\ last' = Idle /\ calls' = calls + 1
    /\ UNCHANGED <<version, cached, vetted, committed, held>>
Commit ==
    /\ tx.open /\ ~tx.failed
    /\ committed' = tx.data /\ tx' = NoTx /\ last' = Idle
    /\ UNCHANGED <<version, cached, vetted, held, calls>>
Rollback ==
    /\ tx.open
    /\ tx' = NoTx /\ last' = Idle
    /\ committed' = [d \in Dialects |-> [committed[d] EXCEPT !.gen = tx.data[d].gen]]
    /\ UNCHANGED <<version, cached, vetted, held, calls>>

\* The schema: it moves on its own, a DB's snapshot only when refreshed.
Migrate ==
    /\ ~tx.open /\ calls < MaxCalls /\ \E v \in DOMAIN Facts \ {version} : version' = v
    /\ last' = Idle /\ calls' = calls + 1
    /\ UNCHANGED <<cached, vetted, committed, tx, held>>
RefreshSchema ==
    /\ cached # version
    /\ cached' = version /\ vetted' = FALSE /\ last' = Idle
    /\ UNCHANGED <<version, committed, tx, held, calls>>
Snapshot(d) == IF d = "pgsql" THEN Pg!FetchSchema(Facts[cached]) ELSE My!FetchSchema(Facts[cached])
\* VetDBModelGroupsAgainstDBs, and every type the app inserts through.
Vet ==
    /\ ~vetted
    /\ \A d \in Dialects : VetGroup(Range(Models), Snapshot(d)) /\ \A t \in DOMAIN Models : VetDBModelInsert(Models[t], Snapshot(d))
    /\ vetted' = TRUE /\ last' = Idle
    /\ UNCHANGED <<version, cached, committed, tx, held, calls>>

-----------------------------------------------------------------------------
\* Reads into collections.  The query functions and the relation loaders take a
\* DB: they read what is committed, whatever transaction is open.
\* A model's identity; that of a composite key is its values, here in one number.
GetID(type, fields) == FoldLeft(LAMBDA id, v : 10 * id + v, 0, Values(fields, type.table.pk))
Scanned(type, values) ==
    LET fields == [c \in Range(type.bindings) |-> values[CHOOSE n \in DOMAIN values : type.bindings[n] = c]] IN
    [id |-> GetID(type, fields), fields |-> fields]
\* ScanRowsToDBModelCollection, in the order the rows come.
Collected(type, rows) ==
    FoldLeft(Add, NewEmptyOrderedCollection, SetToSeq({Scanned(type, values) : values \in rows}))

Hold(type, coll) == [type |-> type, coll |-> coll,
                     links |-> [id \in DOMAIN coll.items |-> None],
                     many |-> [id \in DOMAIN coll.items |-> NewEmptyOrderedCollection], child |-> ""]

\* What a read on the DB leaves: the app's collection and the answers.
Reads(op, cond, out, after) ==
    /\ calls < MaxCalls /\ calls' = calls + 1
    /\ held' = after
    /\ last' = Noted(op, held'["pgsql"].type, [cond |-> cond], <<>>, [d \in Dialects |-> [out[d] EXCEPT !.got = {}]])
    /\ UNCHANGED <<version, cached, vetted, committed, tx>>
Read(d, stmt) == Engine(d, committed[d], stmt).answer

Query == \E type \in DOMAIN Models : \E cond \in Conds[type] \cup {NoCond} :
    LET out == [d \in Dialects |-> Read(d, QueryDBModelCollection(d, Models[type], cond))] IN
    Reads("Query", cond, out, [d \in Dialects |-> Hold(type, Collected(Models[type], out[d].got))])

\* Collections the app makes and works on itself.
Derive(after) ==
    /\ held' = after /\ held' # held /\ last' = Idle
    /\ calls < MaxCalls /\ calls' = calls + 1
    /\ UNCHANGED <<version, cached, vetted, committed, tx>>
Slice == \E s \in Slices :
    Derive([d \in Dialects |-> Hold(s.type, NewOrderedCollection(s.models))])
Rank(c) == [m \in Range(c.items) |-> m.fields[NonKeyOf(HeldType)[1]]]
Reshaped(c) ==
    LET itself == [m \in Range(c.items) |-> m]
        rank == Rank(c) IN
    {RemoveOrder(c), Filter(c, [m \in Range(c.items) |-> rank[m] = 1]),
     Sort(c, {<<a, b>> \in Range(c.items) \X Range(c.items) : rank[b] < rank[a]}),
     BuildOrderedCollectionFrom(c, itself), BuildUnorderedCollectionFrom(c, itself)}
        \cup {Add(c, [id |-> GetID(HeldType, f), fields |-> f]) : f \in Fields[held["pgsql"].type]}
        \cup Range(GroupBy(c, rank).collections)
Reshape == Holding /\ \E c \in Reshaped(held["pgsql"].coll) : Derive([d \in Dialects |-> Hold(held[d].type, c)])
\* Flatten the children loaded on the parents held.
Gather ==
    /\ held["pgsql"].child # ""
    /\ Derive([d \in Dialects |-> Hold(held[d].child, Flatten(held[d].coll,
                          [m \in Range(held[d].coll.items) |-> held[d].many[m.id]]))])

-----------------------------------------------------------------------------
\* The relation loaders.
ForeignKey(r, c) == [m \in Range(c.items) |-> m.fields[r.fk]]
FKeys(r, c) == CollectUniqueToSliceWithSkip(c, ForeignKey(r, c), IF r.optional THEN {Null} ELSE {})
Parents(r, d, out) == IF FKeys(r, held[d].coll) = <<>> THEN NewEmptyOrderedCollection
                      ELSE Collected(Models[r.parent], out[d].got)
ParentsRead(r) ==
    [d \in Dialects |->
        IF FKeys(r, held[d].coll) = <<>> THEN Answer("", 0, {})
        ELSE Read(d, QueryDBModelCollectionByColumn(d, Models[r.parent], Models[r.parent].table.pk[1],
                                                    FKeys(r, held[d].coll)))]

LoadOptionalBelongsTo == \E r \in Relations :
    /\ held["pgsql"].type = r.child /\ r.optional
    /\ LET out == ParentsRead(r) IN
       Reads("LoadOptional", NoCond, out,
             [d \in Dialects |-> IF out[d].err # "" THEN held[d] ELSE
                 [held[d] EXCEPT !.links = LinkOptionalBelongsTo(held[d].coll, Parents(r, d, out), @,
                                                                 ForeignKey(r, held[d].coll))]])

\* The strict loader fails on a child without its parent, some links written.
LoadBelongsTo == \E r \in Relations :
    /\ held["pgsql"].type = r.child /\ ~r.optional
    /\ LET out == ParentsRead(r)
           ids == DOMAIN held["pgsql"].coll.items
           Whole(d) == Linkable(held[d].coll, Parents(r, d, out), ForeignKey(r, held[d].coll)) = ids IN
       \E reached \in SUBSET ids :
          Reads("LoadBelongsTo", NoCond,
                [d \in Dialects |-> IF out[d].err = "" /\ ~Whole(d) THEN Answer("unlinked", 0, {}) ELSE out[d]],
                [d \in Dialects |-> IF out[d].err # "" THEN held[d] ELSE
                    [held[d] EXCEPT !.links = LinkBelongsTo(held[d].coll, Parents(r, d, out), @,
                                                            ForeignKey(r, held[d].coll), reached)]])

\* Children of the parents held, all of them or those a condition keeps.
HasMany(op, r, cond, out) ==
    Reads(op, cond, out,
          [d \in Dialects |->
              LET children == Collected(Models[r.child], out[d].got) IN
              IF out[d].err # "" THEN held[d]
              ELSE [held[d] EXCEPT !.child = r.child,
                                   !.many = LinkHasMany(held[d].coll, children, ForeignKey(r, children))]])
LoadHasMany == \E r \in Relations :
    /\ held["pgsql"].type = r.parent /\ LenOf(held["pgsql"].coll) > 0
    /\ HasMany("LoadHasMany", r, NoCond,
           [d \in Dialects |-> Read(d, LoadDBModelHasMany(d, Models[r.child], r.fk,
                                        LenOf(held[d].coll), IDs(held[d].coll)))])
LoadHasManyQueryOpts == \E r \in Relations : \E cond \in Conds[r.child] :
    /\ held["pgsql"].type = r.parent /\ LenOf(held["pgsql"].coll) > 0
    /\ HasMany("LoadHasMany", r, cond,
           [d \in Dialects |-> Read(d, LoadDBModelHasManyQueryOpts(d, Models[r.child], r.fk,
                                        IDs(held[d].coll), cond))])

\* The single-item loaders, on the first model held.
OnFirst(d) == First(held[d].coll)[1]
LoadBelongsToOnItem == \E r \in Relations :
    /\ held["pgsql"].type = r.child /\ LenOf(held["pgsql"].coll) = 1 /\ ~r.optional
    /\ LET out == [d \in Dialects |-> Read(d, LoadDBModelBelongsToOnItem(d, Models[r.parent], OnFirst(d).fields[r.fk]))]
           Found(d) == out[d].err = "" /\ out[d].got # {} IN
       Reads("LoadBelongsTo", NoCond,
             [d \in Dialects |-> IF out[d].err = "" /\ ~Found(d) THEN Answer("unlinked", 0, {}) ELSE out[d]],
             [d \in Dialects |-> IF ~Found(d) THEN held[d] ELSE
                 [held[d] EXCEPT !.links[OnFirst(d).id] = First(Collected(Models[r.parent], out[d].got))[1]]])
LoadHasManyOnItem == \E r \in Relations : \E cond \in Conds[r.child] \cup {NoCond} :
    /\ held["pgsql"].type = r.parent /\ LenOf(held["pgsql"].coll) = 1
    /\ LET out == [d \in Dialects |-> Read(d, LoadDBModelHasManyQueryOptsOnItem(d, Models[r.child], r.fk,
                                                 OnFirst(d).id, cond))] IN
       Reads("LoadHasMany", cond, out,
             [d \in Dialects |-> IF out[d].err # "" THEN held[d] ELSE
                 [held[d] EXCEPT !.child = r.child, !.many[OnFirst(d).id] = Collected(Models[r.child], out[d].got)]])

Next ==
    \/ HydrateModel \/ FetchModel \/ InsertModel \/ InsertModelAuto \/ UpdateModel \/ DeleteModel
    \/ UpdateWhere \/ DeleteWhere \/ UpdateRaw \/ InsertHeld \/ UpdateHeld \/ DeleteHeld
    \/ BeginTx \/ Commit \/ Rollback \/ Migrate \/ RefreshSchema \/ Vet
    \/ Query \/ Slice \/ Reshape \/ Gather
    \/ LoadOptionalBelongsTo \/ LoadBelongsTo \/ LoadHasMany \/ LoadHasManyQueryOpts
    \/ LoadBelongsToOnItem \/ LoadHasManyOnItem

Spec == Init /\ [][Next]_vars

-----------------------------------------------------------------------------
\* The two drivers write the same SQL twice over and must not drift apart: after
\* any calls, in and out of transactions, the databases hold the same rows, the
\* app the same collections, and every call got the same answer.
DialectsAgree ==
    /\ committed["pgsql"] = committed["mysql"] /\ tx.data["pgsql"] = tx.data["mysql"]
    /\ held["pgsql"] = held["mysql"] /\ last.answers["pgsql"] = last.answers["mysql"]

\* What a condition says of a row, read off the condition itself.
RECURSIVE Holds(_, _)
Holds(cond, row) ==
    IF cond = NoCond THEN 2
    ELSE Judge(cond.kind, IF cond.column = "" THEN Null ELSE row[cond.column], cond.values,
               [n \in DOMAIN cond.conds |-> Holds(cond.conds[n], row)])

\* The rows of a table once a model's columns are written to the row of its key.
Overwritten(rows, t, fields, columns) ==
    {IF KeyIn(t.table.name, row) = KeyIn(t.table.name, fields)
     THEN [c \in DOMAIN row |-> IF c \in Range(columns) THEN fields[c] ELSE row[c]] ELSE row : row \in rows}

\* What a call promises of its table's rows, before and after, and of its answer.
Lands(call, t, before, after, answer) ==
    LET f == call.fields
        name == t.table.name
        SameKey(row, fields) == KeyIn(name, row) = KeyIn(name, fields)
        Carries(row, fields, columns) == \A c \in Range(columns) : row[c] = fields[c] IN
    CASE call.op \in {"Fetch", "Hydrate"} ->
            LET columns == IF call.op = "Fetch" THEN t.bindings ELSE NonKeyOf(t) IN
            after = before /\ answer.got = {Values(row, columns) : row \in {r \in before : SameKey(r, f)}}
      [] call.op = "Insert" ->
            \E row \in after : after = before \cup {row} /\ row \notin before /\ Carries(row, f, t.bindings)
      [] call.op = "InsertAuto" ->
            \E row \in after : /\ after = before \cup {row} /\ row \notin before /\ Carries(row, f, NonKeyOf(t))
                               /\ answer.got = {row[t.table.pk[1]]}
      [] call.op = "Update" ->
            /\ after = Overwritten(before, t, f, IF call.columns = <<>> THEN NonKeyOf(t) ELSE call.columns)
            /\ answer.count = Cardinality({row \in before : SameKey(row, f)})
      [] call.op = "Delete" -> after = {row \in before : ~SameKey(row, f)}
      [] call.op = "UpdateWhere" ->
            after = {IF Holds(f.cond, row) = 2
                     THEN [c \in DOMAIN row |-> IF c \in Range(call.columns) THEN f.fields[c] ELSE row[c]]
                     ELSE row : row \in before}
      [] call.op = "DeleteWhere" -> after = {row \in before : Holds(f.cond, row) # 2}
      [] call.op = "InsertAll" ->
            /\ before \subseteq after /\ answer.count = Len(f.models)
            /\ \A n \in DOMAIN f.models : \E row \in after \ before : Carries(row, f.models[n].fields, t.bindings)
      [] call.op = "UpdateAll" ->
            after = FoldLeft(LAMBDA rows, m : Overwritten(rows, t, m.fields, NonKeyOf(t)), before, f.models)
      [] call.op = "DeleteAll" ->
            after = {row \in before : \A n \in DOMAIN f.models : ~SameKey(row, f.models[n].fields)}
      [] OTHER -> after = before

\* Every write a model makes lands where the model says: an accepted call changes
\* exactly the rows its key, its condition or its collection names, exactly in the
\* columns it names, to the fields' values, and answers with what it did; a refused
\* single call changes nothing.
WritesLand ==
    [][calls' # calls /\ last'.type # "" => \A d \in Dialects :
         LET t == Models[last'.type]
             answer == last'.answers[d]
             before == Current[d].rows
             after == Current'[d].rows IN
         /\ \A name \in Tables \ {t.table.name} : after[name] = before[name]
         /\ answer.err = "" => Lands(last', t, before[t.table.name], after[t.table.name], answer)
         /\ answer.err # "" /\ last'.op # "UpdateAll" => after = before]_vars

\* A model vetted for inserting against a snapshot that is still true is never
\* refused by the database for the shape of the row (VetDBModelInsert "judges that
\* refusal cold").
VettedInsertsFit ==
    last.op \in {"Insert", "InsertAll"} /\ vetted /\ cached = version =>
        \A d \in Dialects : last.answers[d].err # "schema"

\* A loader links exactly what is committed: a parent gets all the children whose
\* key names it and that the condition keeps, no other, none twice; a child gets its
\* parent as it is stored, and one without a parent that had no link keeps none.
RelationsExact ==
    [][calls' # calls /\ last'.op \in {"LoadHasMany", "LoadBelongsTo", "LoadOptional"} => \A d \in Dialects :
         LET c == held[d].coll
             ok == last'.answers[d].err = ""
             Kept(type) == {Scanned(Models[type], Values(row, Models[type].bindings)) :
                               row \in committed[d].rows[Models[type].table.name]}
             Of(r, id) == {m \in Kept(r.child) : m.fields[r.fk] = id /\ Holds(last'.fields.cond, m.fields) = 2}
             Parent(r, id) == {m \in Kept(r.parent) : m.id = c.items[id].fields[r.fk]} IN
         /\ last'.op = "LoadHasMany" => ok /\ \A r \in Relations, id \in DOMAIN c.items :
                LET got == held'[d].many[id] IN
                r.parent = held[d].type /\ r.child = held'[d].child =>
                    Range(got.items) = Of(r, id) /\ Len(got.order) = Cardinality(Of(r, id))
         /\ last'.op = "LoadBelongsTo" => \E r \in Relations : r.child = held[d].type /\
                IF ok THEN \A id \in DOMAIN c.items : {held'[d].links[id]} = Parent(r, id)
                ELSE /\ \E id \in DOMAIN c.items : Parent(r, id) = {}
                     /\ \A id \in DOMAIN c.items : held'[d].links[id] \in Parent(r, id) \cup {held[d].links[id]}
         /\ last'.op = "LoadOptional" => ok /\ \E r \in Relations : r.child = held[d].type /\
                \A id \in DOMAIN c.items :
                    IF Parent(r, id) # {} THEN {held'[d].links[id]} = Parent(r, id)
                    ELSE held[d].links[id] = None => held'[d].links[id] = None]_vars
=============================================================================
