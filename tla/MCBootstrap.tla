---------------------------- MODULE MCBootstrap ----------------------------
(***************************************************************************)
(* Job definitions of three ops: a duplicate id or none, two groups one of *)
(* which has the name of an op, and dependencies on nothing, on one or two *)
(* ops, on the op itself or on an unknown one, in either direction.        *)
(***************************************************************************)
EXTENDS Bootstrap

Shapes == [group : {NoGroup, "a"}, depends_on : SUBSET {"a", "b"} \cup {{"c"}, {"x"}},
           serves : BOOLEAN]

OpOf(id, shape) == [id |-> id, group |-> shape.group, depends_on |-> shape.depends_on,
                    serves |-> shape.serves]

ThreeOps ==
    {<<OpOf("a", x), OpOf("b", y), OpOf(last, z)>> :
        x \in Shapes, y \in Shapes, z \in Shapes, last \in {"a", "c"}}
=============================================================================
