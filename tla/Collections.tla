---------------------------- MODULE Collections ----------------------------
(***************************************************************************)
(* gw/coll and gw/collgrp: sets of models by id, with an optional order, and  *)
(* the linking of related collections.  A model is a record with its id.      *)
(* Without an order Go iterates in an order of its own choice.  A callback of *)
(* the app is a function on the models of the collection.                     *)
(***************************************************************************)
EXTENDS Integers, Sequences, FiniteSets, SequencesExt, Functions

EmptyMap == [id \in {} |-> 0]
Entry(model) == [id \in {model.id} |-> model]

NewEmptyOrderedCollection == [items |-> EmptyMap, order |-> <<>>, ordered |-> TRUE]
NewEmptyUnorderedCollection == [items |-> EmptyMap, order |-> <<>>, ordered |-> FALSE]

\* A later model of the same id replaces the one in the map; the ordered form
\* writes one place in the order for every model of the slice.
ItemsOf(models) == FoldLeft(LAMBDA map, m : Entry(m) @@ map, EmptyMap, models)
NewOrderedCollection(models) ==
    [items |-> ItemsOf(models), order |-> [n \in DOMAIN models |-> models[n].id], ordered |-> TRUE]

LenOf(c) == Cardinality(DOMAIN c.items)
RemoveOrder(c) == [c EXCEPT !.order = <<>>, !.ordered = FALSE]

AddIfNew(c, model) ==
    IF model.id \in DOMAIN c.items THEN c
    ELSE [c EXCEPT !.items = Entry(model) @@ @, !.order = IF c.ordered THEN Append(@, model.id) ELSE @]
Add(c, model) == [AddIfNew(c, model) EXCEPT !.items = Entry(model) @@ @]

IDs(c) == IF c.ordered THEN c.order ELSE SetToSeq(DOMAIN c.items)
ForEach(c) == [n \in DOMAIN IDs(c) |-> c.items[IDs(c)[n]]]

\* less: the pairs of models the app's comparison puts in this order.
Sort(c, less) ==
    [c EXCEPT !.ordered = TRUE, !.order = SortSeq(IDs(c), LAMBDA i, j : <<c.items[i], c.items[j]>> \in less)]

\* The order is kept only while there is one with something in it.
Filter(c, keep) ==
    LET kept == {id \in DOMAIN c.items : keep[c.items[id]]} IN
    [items |-> Restrict(c.items, kept),
     order |-> SelectSeq(c.order, LAMBDA id : id \in kept), ordered |-> c.order # <<>>]

FirstBy(c, keep) == SelectSeq(ForEach(c), LAMBDA m : keep[m])
First(c) == FirstBy(c, [m \in Range(c.items) |-> TRUE])

Distinct(values) == FoldLeft(LAMBDA seen, v : IF v \in Range(seen) THEN seen ELSE Append(seen, v), <<>>, values)
CollectUniqueToSlice(c, value) == Distinct([n \in DOMAIN IDs(c) |-> value[ForEach(c)[n]]])
CollectUniqueToSliceWithSkip(c, value, skip) ==
    SelectSeq(CollectUniqueToSlice(c, value), LAMBDA v : v \notin skip)

\* BuildOrderedCollectionFrom follows the source's order, and only that.
BuildOrderedCollectionFrom(c, made) ==
    FoldLeft(LAMBDA to, id : AddIfNew(to, made[c.items[id]]), NewEmptyOrderedCollection, c.order)
BuildUnorderedCollectionFrom(c, made) ==
    FoldLeft(LAMBDA to, id : AddIfNew(to, made[c.items[id]]), NewEmptyUnorderedCollection, SetToSeq(DOMAIN c.items))

Flatten(c, sub) ==
    FoldLeft(AddIfNew, NewEmptyOrderedCollection,
             FlattenSeq([n \in DOMAIN IDs(c) |-> ForEach(sub[ForEach(c)[n]])]))

\* GroupBy: a collection per key, groups in the order they first appear.
GroupBy(c, key) ==
    [collections |-> [k \in {key[m] : m \in Range(c.items)} |->
        FoldLeft(AddIfNew, IF c.ordered THEN NewEmptyOrderedCollection ELSE NewEmptyUnorderedCollection,
                 SelectSeq(ForEach(c), LAMBDA m : key[m] = k))],
     order |-> IF c.ordered THEN CollectUniqueToSlice(c, key) ELSE <<>>]

-----------------------------------------------------------------------------
\* Linking.  The result is what each relation field holds; None is a nil one.
None == [id |-> 0]

\* The children whose parent is there.
Linkable(children, parents, foreignKey) ==
    {id \in DOMAIN children.items : foreignKey[children.items[id]] \in DOMAIN parents.items}

\* The optional link writes only where a parent is found.
LinkOptionalBelongsTo(children, parents, links, foreignKey) ==
    [id \in DOMAIN children.items |->
        IF id \in Linkable(children, parents, foreignKey)
        THEN parents.items[foreignKey[children.items[id]]] ELSE links[id]]

\* The strict link stops at the first child without its parent, the ones it reached before linked.
LinkBelongsTo(children, parents, links, foreignKey, reached) ==
    LET linkable == Linkable(children, parents, foreignKey) IN
    [id \in DOMAIN children.items |->
        IF id \in linkable /\ (id \in reached \/ linkable = DOMAIN children.items)
        THEN parents.items[foreignKey[children.items[id]]] ELSE links[id]]

\* Every parent gets a collection, an empty one when it has no children.
LinkHasMany(parents, children, foreignKey) ==
    [id \in DOMAIN parents.items |->
        FoldLeft(Add, NewEmptyOrderedCollection,
                 SelectSeq(ForEach(children), LAMBDA m : foreignKey[m] = id))]
=============================================================================
