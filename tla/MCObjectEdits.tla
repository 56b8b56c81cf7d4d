--------------------------- MODULE MCObjectEdits ---------------------------
(* Small timelines for ObjectEdits: two objects that can be told apart only by their *)
(* label, a long one with a middle point, and room for one that is created.          *)
EXTENDS ObjectEdits

CONSTANTS h1, h2, h3, c1, c2

Object1 == [scene |-> 1, layer |-> 1, start |-> 1, end |-> 3, label |-> "a", sections |-> <<1, 2>>]
Object2 == [scene |-> 1, layer |-> 2, start |-> 1, end |-> 1, label |-> "a", sections |-> <<1>>]

Opened == [objects |-> (h1 :> Object1) @@ (h2 :> Object2), locked |-> {}, scene |-> 1]
OneProject == {Opened}

Move(s, l, f) == [kind |-> "move", scene |-> s, layer |-> l, frame |-> f]
Name(x) == [kind |-> "name", label |-> x]
Section(k, i, f) == [kind |-> k, index |-> i, frame |-> f]
Create(l, f, n, x) == [kind |-> "create", scene |-> 1, layer |-> l, frame |-> f, length |-> n,
                       label |-> x]

SomeCommands ==
    {Move(1, 2, 2), Move(1, 1, 2), Move(1, 1, 3), Move(1, 1, 4), [kind |-> "delete"], Name("b"),
     Section("createSection", 0, 3), Section("deleteSection", 1, 0), Section("moveSection", 1, 3),
     Create(2, 2, 1, "a"), Create(2, 3, 2, "long"), Name("long")}
=============================================================================
