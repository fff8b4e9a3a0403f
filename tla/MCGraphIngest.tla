--------------------------- MODULE MCGraphIngest ---------------------------
(* Tests, a library they use by absolute and by relative imports, and the      *)
(* package at the root.  The library has classes with a method of one name,    *)
(* which the tests call by the class, and imports something of the tests.      *)
EXTENDS GraphIngest, TLC

CONSTANTS lib, tests, package, top, ui, db, User, Item, run, load, test_run

MCFiles == {lib, tests, package}
MCNames == {top, ui, db, User, Item, run, load, test_run}
MCModuleOf == (lib :> <<top, db>>) @@ (tests :> <<top, ui>>) @@ (package :> <<Blank>>)

Def(q) == [qual |-> q, class |-> FALSE]
Class(q) == [qual |-> q, class |-> TRUE]
Call(q, raw) == [kind |-> "calls", by |-> Def(q), raw |-> raw]
Base(q, raw) == [kind |-> "inherits", by |-> Class(q), raw |-> raw]
Import(q) == [local |-> q[1], full |-> q, symbol |-> FALSE]
From(q) == [local |-> Last(q), full |-> q, symbol |-> TRUE]
Source(defs, uses, imports) == [ok |-> TRUE, defs |-> defs, uses |-> uses, imports |-> imports]
Broken == [ok |-> FALSE, defs |-> <<>>, uses |-> {}, imports |-> <<>>]

MCSources ==
    (lib :> {Source(<<Def(<<load>>)>>, {}, <<>>),
             Source(<<Class(<<User>>), Def(<<User, load>>), Class(<<Item>>), Def(<<Item, load>>)>>,
                    {Base(<<Item>>, <<User>>), Call(<<Item, load>>, <<run>>), Call(<<User, load>>, <<test_run>>)},
                    <<Import(<<top, ui, run>>)>>),
             Broken})
    @@ (tests :> {Source(<<Def(<<run>>), Def(<<test_run>>)>>,
                         {Call(<<run>>, <<load>>), Call(<<test_run>>, <<run>>), Call(<<test_run>>, <<load>>)},
                         <<From(<<top, db, load>>)>>),
                  Source(<<Def(<<run>>), Def(<<test_run>>)>>,
                         {Call(<<run>>, <<test_run>>), Call(<<test_run>>, <<User, load>>)},
                         <<From(<<Blank, db, User>>)>>)})
    @@ (package :> {Source(<<Def(<<load>>)>>, {Call(<<load>>, <<Item, run>>)}, <<From(<<top, db, Item>>)>>)})
=============================================================================
