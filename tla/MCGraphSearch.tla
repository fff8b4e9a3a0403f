---------------------------- MODULE MCGraphSearch ----------------------------
(* Imports: all graphs of three files, one with a loop, and some of four     *)
(* files: rings with a chord, apart, and sharing a file.                     *)
(* Relations: all parts of a ring of four definitions, and a star.           *)
EXTENDS GraphSearch

MCNodes == 1 .. 4

Ring == {<<1, 2>>, <<2, 3>>, <<3, 4>>, <<4, 1>>}

MCImports ==
    SUBSET ((1 .. 3) \X (1 .. 3) \ {<<n, n>> : n \in 1 .. 3})
    \cup {{<<1, 1>>, <<1, 2>>}, Ring, Ring \cup {<<1, 3>>}, {<<1, 2>>, <<3, 4>>, <<4, 3>>},
          {<<1, 2>>, <<2, 1>>, <<1, 3>>, <<3, 1>>, <<3, 4>>, <<4, 3>>}}

MCRelations == SUBSET Ring \cup {{<<1, 2>>, <<3, 2>>, <<2, 4>>}}
=============================================================================
