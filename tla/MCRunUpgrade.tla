---------------------------- MODULE MCRunUpgrade ----------------------------
(* Instances of RunUpgrade: an old box a captured twice, a new box b captured *)
(* against it, and one upgrade.                                               *)
EXTENDS RunUpgrade, TLC

CONSTANTS c1, c2, c3, c4, a, b, p

Call(phase, node, port, overwrite, inventory) ==
    [phase |-> phase, node |-> node, port |-> port,
     overwrite |-> overwrite, inventory |-> inventory]

\* A migration with both boxes and one pair of ports, its old box captured.
Begun ==
    [kind |-> "migration",
     devices |-> (a :> "old" @@ b :> "new"),
     mapping |-> {[old |-> [node |-> a, port |-> p], new |-> [node |-> b, port |-> p]]},
     captures |-> (Slot("pre", a, AllPorts) :> c1)]
\* The same after a port of the new box was captured against the old one.
Checked == [Begun EXCEPT !.captures = @ @@ (Slot("post", b, p) :> c4)]

\* The whole old box, its overwrite, a port of the new box twice.
Jobs ==
    c1 :> Call("pre", a, AllPorts, FALSE, "given")
    @@ c2 :> Call("post", b, p, FALSE, "parse")
    @@ c3 :> Call("pre", a, AllPorts, TRUE, "given")
    @@ c4 :> Call("post", b, p, FALSE, "given")

\* Both captures of the old box parse its inventory.
JobsOfOldBox ==
    c1 :> Call("pre", a, AllPorts, FALSE, "parse")
    @@ c3 :> Call("pre", a, AllPorts, TRUE, "parse")
=============================================================================
