-------------------------- MODULE MCSnapshotStore --------------------------
(* Constants for checking SnapshotStore with TLC: three dumps.  "Player"    *)
(* has a member of every kind, overloaded accessors, an index property and  *)
(* a property of its own; "Enemy" is another build of the same type names;  *)
(* the last dump holds a type twice and is rejected by the schema.          *)
EXTENDS SnapshotStore

CONSTANTS i1, i2, p1, d1, d2, d3
MCImporters == {i1, i2}
MCPaths == {p1}

Empty(name) ==
    [name |-> name, parent |-> "", declaring |-> "", methods |-> <<>>, fields |-> <<>>,
     properties |-> <<>>, rmethods |-> <<>>, rproperties |-> <<>>, rsz |-> <<>>,
     generics |-> <<>>, deserializers |-> <<>>]

Method(prefix, name, params, returns, id) ==
    [name |-> <<prefix, name>>, params |-> params, returns |-> returns, id |-> id]

Player ==
    [Empty("Player") EXCEPT
        !.parent = "Object", !.declaring = "Game",
        !.methods = <<Method("set_", "Weapon", <<"Weapon">>, "", "1"),
                      Method("get_", "Weapon", <<>>, "Weapon", "2"),
                      Method("get_", "Item", <<"Int32">>, "Weapon", "3"),
                      Method("get_", "Item", <<"String">>, "Object", "4"),
                      Method("", "Find", <<"Int32">>, "Player", "5")>>,
        !.fields = <<[name |-> <<"", "Weapon">>, type |-> "Weapon"], [name |-> <<"", "Tag">>, type |-> ""]>>,
        !.properties = <<[name |-> <<"", "Weapon">>, getter |-> <<"get_", "Weapon">>]>>,
        !.rmethods = <<[name |-> <<"", "Find">>, params |-> <<"Int32">>, returns |-> "Player"]>>,
        !.rproperties = <<[name |-> <<"", "Weapon">>, type |-> "Weapon"]>>,
        !.rsz = <<[name |-> <<"", "v0">>, type |-> "Weapon", id |-> "0"],
                  [name |-> <<"", "v0">>, type |-> "Weapon", id |-> "1"],
                  [name |-> <<"", "v1">>, type |-> "", id |-> "2"]>>,
        !.generics = <<"Weapon">>, !.deserializers = <<"Weapon">>]

Enemy == [Empty("Player") EXCEPT
            !.methods = <<Method("set_", "Item", <<"Int32", "Weapon">>, "", "1"),
                          Method("set_", "", <<"Int32">>, "", "2")>>]

MCDumps == {d1, d2, d3}
MCContent == (d1 :> <<Player, Empty("Weapon")>>) @@ (d2 :> <<Empty("Weapon"), Enemy>>)
             @@ (d3 :> <<Enemy, Empty("Weapon"), Enemy>>)
=============================================================================
