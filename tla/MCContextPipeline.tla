------------------------- MODULE MCContextPipeline -------------------------
(* Contexts of a few items of all kinds, some with equal contents, and     *)
(* records on file that some of them repeat.                               *)
EXTENDS AdaptiveContext

Item(kind, hash, mark, noise, long, tokens, elided) ==
    [kind |-> kind, hash |-> hash, mark |-> mark, noise |-> noise, long |-> long,
     tokens |-> tokens, elided |-> elided]

Big == Item("memory", "a", "none", FALSE, FALSE, 3, 3)
Small == Item("memory", "f", "none", FALSE, FALSE, 1, 1)
Same == Item("memory", "f", "none", FALSE, FALSE, 2, 2)

MCSaved == {<<>>, <<Big, Small>>, <<Small, Same>>, <<Same, Big, Small>>}

\* A remark, a system prompt with the same content, a retired remark, tool
\* output of each sort, one of them protected, and a blank message.
MCItems == {Big, Small, Same} \cup {
    Item("message", "a", "none", FALSE, FALSE, 2, 2),
    Item("system", "a", "none", FALSE, FALSE, 2, 2),
    Item("message", "b", "obsolete", FALSE, FALSE, 1, 1),
    Item("tool", "c", "none", TRUE, FALSE, 1, 1),
    Item("tool", "d", "none", FALSE, TRUE, 4, 2),
    Item("tool", "e", "critical", FALSE, TRUE, 3, 1),
    Item("message", "f", "none", FALSE, FALSE, 1, 1),
    Item("message", "g", "none", FALSE, FALSE, 0, 0)}
=============================================================================
