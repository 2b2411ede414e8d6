--------------------------- MODULE MCRunDirectory ---------------------------
(* Instances of RunDirectory: an old box a, a new box b and a box x that     *)
(* fits no run which has an old box already; ports p and q.                  *)
EXTENDS RunDirectory, TLC

CONSTANTS c1, c2, c3, a, b, x, p, q, e1, e2

Call(phase, node, port, overwrite, inventory) ==
    [phase |-> phase, node |-> node, port |-> port,
     overwrite |-> overwrite, inventory |-> inventory]
Pair(old, new) == [old |-> [node |-> a, port |-> old], new |-> [node |-> b, port |-> new]]

\* A migration created in the GUI: both boxes and one pair of ports.
Created ==
    [kind |-> "migration", devices |-> (a :> "old" @@ b :> "new"),
     mapping |-> {Pair(p, p)}, captures |-> <<>>]
\* The same with the old box captured.
Begun == [Created EXCEPT !.captures = (Slot("pre", a, AllPorts) :> c1)]

BoxA == {[node |-> a, port |-> AllPorts]}
Boxes == {[node |-> n, port |-> AllPorts] : n \in {a, b}}

\* The whole old box, a port of the new box, the misfit.
CompetingJobs ==
    c1 :> Call("pre", a, AllPorts, FALSE, "parse")
    @@ c2 :> Call("post", b, p, FALSE, "stored")
    @@ c3 :> Call("pre", x, AllPorts, FALSE, "given")

\* The old box again, while a port of the new box is captured against it.
OverwriteJobs ==
    c1 :> Call("pre", a, AllPorts, FALSE, "given")
    @@ c2 :> Call("post", b, p, FALSE, "given")
    @@ c3 :> Call("pre", a, AllPorts, TRUE, "given")

\* A port of the old box with the inventory of the whole box, which the other
\* capture parses again.
InventoryJobs ==
    c1 :> Call("pre", a, AllPorts, FALSE, "parse")
    @@ c2 :> Call("pre", a, p, FALSE, "stored")

\* The old box is captured twice more at once, its services parsed both times;
\* c1 is the past capture of a run that has Begun.
EditedJobs ==
    c1 :> Call("pre", a, AllPorts, FALSE, "parse")
    @@ c2 :> Call("rollback", a, AllPorts, FALSE, "parse")
    @@ c3 :> Call("pre", a, AllPorts, TRUE, "parse")

\* The whole list is replaced; one pair is added that contradicts the list.
Edits ==
    e1 :> [kind |-> "set", ports |-> {[old |-> p, new |-> p], [old |-> q, new |-> q]}]
    @@ e2 :> [kind |-> "add", pair |-> Pair(q, p)]
=============================================================================
