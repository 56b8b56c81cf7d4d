------------------------ MODULE MCNativeOperations ------------------------
(* A project with two objects and two scenes for NativeOperations, and one or two *)
(* commands of every kind.                                                        *)
EXTENDS NativeOperations

CONSTANTS h1, h2, h3, h4, h5, h6, h7

A == [scene |-> 1, layer |-> 1, frame |-> 1, label |-> "a"]
B == [scene |-> 1, layer |-> 2, frame |-> 1, label |-> "a"]

TwoObjects ==
    [objects |-> (h1 :> A) @@ (h2 :> B), locked |-> {}, scenes |-> {1, 2}, scene |-> 1,
     cursor |-> [s \in Scenes |-> 1]]

Move(o, l, f) == [op |-> "move", object |-> o, layer |-> l, frame |-> f]
Delete(o) == [op |-> "delete", object |-> o]
Name(o, x) == [op |-> "name", object |-> o, label |-> x]
Alias(l, f, more) == [op |-> "create", layer |-> l, frame |-> f, label |-> "a", more |-> more]
Create(l, f) == Alias(l, f, {})
Lock(l, b) == [op |-> "layer", layer |-> l, lock |-> b]

Batch(ops) == [kind |-> "batch", ops |-> ops, dryRun |-> FALSE]
Batches ==
    {Batch(ops) : ops \in {
        <<Move(A, 1, 2), Create(1, 1)>>, <<Move(A, 1, 2), Create(1, 2)>>,
        <<Move(A, 1, 2), Move(B, 1, 1)>>, <<Delete(A), Move(B, 1, 1)>>, <<Delete(A), Name(A, "b")>>,
        <<Lock(1, TRUE), Move(A, 2, 2)>>, <<Name(A, "b"), Delete(A), Create(3, 1)>>,
        <<Name(B, "long"), Move(B, 2, 2)>>,
        <<Alias(1, 2, {<<2, 2>>}), Move(B, 2, 2)>>,
        <<Alias(3, 1, {<<2, 1>>, <<3, 2>>}), Delete(A), Create(3, 2)>>}}

Singles ==
    {[kind |-> "layer", layer |-> 2, lock |-> TRUE, dryRun |-> FALSE],
     [kind |-> "effect", object |-> A, label |-> "b", dryRun |-> FALSE],
     [kind |-> "item", object |-> A, label |-> "b", dryRun |-> FALSE],
     [kind |-> "item", object |-> A, label |-> "a", dryRun |-> FALSE],
     [kind |-> "setup", create |-> TRUE, dryRun |-> FALSE],
     [kind |-> "setup", create |-> FALSE, dryRun |-> FALSE],
     [kind |-> "sceneCreate", scene |-> 3, dryRun |-> FALSE],
     [kind |-> "cursor", frame |-> 2, conditional |-> TRUE],
     [kind |-> "open", scene |-> 2, conditional |-> FALSE],
     [kind |-> "save"],
     [kind |-> "effect", object |-> B, label |-> "b", dryRun |-> TRUE]}

Psds ==
    {[kind |-> "psd", scene |-> 1, layer |-> 1, frame |-> 2, name |-> n, dryRun |-> FALSE] :
        n \in {"none", "psdNamed", "psdLong"}}
    \cup {[kind |-> "voice", scene |-> 1, layer |-> 1, frame |-> 2, route |-> r, dryRun |-> FALSE] :
        r \in {"direct", "object"}}
    \cup {[kind |-> "psd", scene |-> 1, layer |-> 1, frame |-> 1, name |-> "none", dryRun |-> TRUE],
          [kind |-> "psd", scene |-> 1, layer |-> 3, frame |-> 1, name |-> "none", dryRun |-> TRUE]}

AllCommands == Batches \cup Singles \cup Psds
=============================================================================
