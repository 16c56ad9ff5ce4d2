---------------------------- MODULE MCNestedSync ----------------------------
(* Two roots, one of which has objects of two levels. *)
EXTENDS NestedSync, TLC

CONSTANTS a, b, c, v1, v2

Leaf(x) == <<>> :> x
Fields(f) == UNION {{<<name>> \o r : r \in DOMAIN f[name]} : name \in DOMAIN f}
Object(f) ==
    [r \in {<<>>} \cup Fields(f) |-> IF r = <<>> THEN Obj ELSE f[Head(r)][Tail(r)]]
Objects(fields) == {Object(f) : f \in fields}

Inner == Objects({c :> Undefined, c :> Leaf(v1), c :> Leaf(v2)})
Outer == Objects({b :> x : x \in Inner} \cup {(b :> Leaf(Function)) @@ (c :> Leaf(v1))}
                   \cup {(b :> Object(c :> Leaf(v1))) @@ (c :> Leaf(v1))})

MCRootValues == (<<a>> :> ({Leaf(v1)} \cup Outer)) @@ (<<b>> :> {Leaf(v1)})
MCKeys == {<<a>>, <<a, c>>, <<a, b, c>>}
=============================================================================
