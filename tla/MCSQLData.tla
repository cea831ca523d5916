----------------------------- MODULE MCSQLData -----------------------------
(***************************************************************************)
(* Items with a generated key and a nullable owner, a slim model of them, and *)
(* seats with a key of two columns bound out of order.                        *)
(***************************************************************************)
EXTENDS SQLData

Column(nullable, default) == [nullable |-> nullable, default |-> default]
ItemColumns == [c \in {"id", "owner", "tag"} |-> Column(c = "owner", FALSE)]
ItemFact(more, generated) ==
    [columns |-> more @@ ItemColumns, pk |-> <<"id">>, generated |-> generated]
SeatFact == [columns |-> [c \in {"hall", "no", "holder"} |-> Column(FALSE, FALSE)],
             pk |-> <<"no", "hall">>, generated |-> {}]
More(nullable, default) == [c \in {"extra"} |-> Column(nullable, default)]
Fact(item) == [t \in {"item", "seat"} |-> IF t = "item" THEN item ELSE SeatFact]

MCFacts ==
    [v \in {"base", "required", "defaulted", "unassigned"} |->
        Fact(CASE v = "base" -> ItemFact(EmptyMap, {"id"})
               [] v = "required" -> ItemFact(More(FALSE, FALSE), {"id"})
               [] v = "defaulted" -> ItemFact(More(FALSE, TRUE), {"id"})
               [] v = "unassigned" -> ItemFact(EmptyMap, {}))]

Item == RegisterDBModel("item", <<"id">>, TRUE, <<"id", "owner", "tag">>)
Seat == RegisterDBModel("seat", <<"hall", "no">>, FALSE, <<"no", "holder", "hall">>)
\* A slim projection: a model of the same table with a claim of its own.
Label == RegisterDBModel("item", <<"id">>, TRUE, <<"tag", "id">>)
\* A model that binds a part of a table declared by hand.
Owning == BindTable(Item.table, <<"id", "owner">>)

MCModels == [t \in {"Item", "Seat", "Label"} |-> CASE t = "Item" -> Item [] t = "Seat" -> Seat [] OTHER -> Label]
MCModelsShared == [t \in {"Owning", "Seat"} |-> IF t = "Seat" THEN Seat ELSE Owning]

AnItem(id, owner, tag) ==
    [c \in {"id", "owner", "tag"} |-> CASE c = "id" -> id [] c = "owner" -> owner [] OTHER -> tag]
ASeat(hall, no, holder) ==
    [c \in {"hall", "no", "holder"} |-> CASE c = "hall" -> hall [] c = "no" -> no [] OTHER -> holder]

MCFields ==
    [t \in {"Item", "Seat", "Label", "Owning"} |->
        CASE t = "Item" -> {AnItem(1, 2, 2), AnItem(2, Null, 1)}
          [] t = "Seat" -> {ASeat(1, 2, 1), ASeat(2, 1, 2)}
          [] t = "Label" -> {[c \in {"id", "tag"} |-> 2]}
          [] OTHER -> {[c \in {"id", "owner"} |-> 1]}]
MCPopulations ==
    {[t \in {"item", "seat"} |-> IF t = "item" THEN {AnItem(1, Null, 1), AnItem(2, 1, 2)}
                                ELSE {ASeat(1, 2, 2), ASeat(1, 1, 1)}]}
MCConds ==
    [t \in {"Item", "Seat", "Label", "Owning"} |->
        CASE t = "Item" -> {And(<<BinPred("tag", ">=", 2), Or(<<NullPred("owner"), And(<<NotNullPred("owner"), Not(InPred("id", <<1, 3>>))>>)>>)>>)}
          [] t = "Seat" -> {Or(<<BinPred("no", "=", 1), NotInPred("holder", <<2, 3>>)>>)}
          [] OTHER -> {}]
MCRelations ==
    {[child |-> "Item", fk |-> "owner", parent |-> "Item", optional |-> TRUE],
     [child |-> "Seat", fk |-> "holder", parent |-> "Item", optional |-> FALSE]}
Model(type, f) == [id |-> GetID(type, f), fields |-> f]
MCSlices == {[type |-> "Item", models |-> <<Model(Item, AnItem(2, 2, 2)), Model(Item, AnItem(1, 1, 1))>>]}
=============================================================================
