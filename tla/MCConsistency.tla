--------------------------- MODULE MCConsistency ---------------------------
(* Claims about the repository of MCGraphIngest, none of whose packages may    *)
(* import another.                                                             *)
EXTENDS Consistency, MCGraphIngest

MCWithin == {<<<<run>>, <<test_run>>>>, <<<<load>>, <<User, load>>>>, <<<<load>>, <<Item, load>>>>}
MCPackages == {ui, db}
MCAllowed == [p \in MCPackages |-> {}]
=============================================================================
