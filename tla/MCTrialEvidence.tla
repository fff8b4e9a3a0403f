-------------------------- MODULE MCTrialEvidence --------------------------
(* A module and a marker file; agents that mend, remove, mark or spoil.  Of  *)
(* the texts "dos" is "bad" with other line ends and "page" has a form feed. *)
EXTENDS TrialEvidence, TLC

MCNewlines == [c \in Lines |-> IF c = "dos" THEN "bad" ELSE c]

MCFixtures == {[code |-> c, mark |-> "absent"] : c \in {"bad", "dos", "page"}}
MCPlainFixtures == {[code |-> "bad", mark |-> "absent"]}

\* A baseline that an agent works on as well, compared with another condition; and
\* a spec too small for a claim, for another scorer.
MCSpecs == {
    [conditions |-> <<"naive", "verity">>, n |-> 2, keys |-> {"m"}, scorer |-> "full",
     commands |-> {"naive", "verity"}],
    [conditions |-> <<"idle", "probe">>, n |-> 1, keys |-> {"success"}, scorer |-> "exit",
     commands |-> {"probe"}]}

\* naive may mend bad code and leave an empty marker, verity removes the code or sets
\* a page, and a probe mends it or leaves a marker that is no text.
MCWork(condition, tree) ==
    CASE condition = "naive" -> IF tree["code"] = "bad" THEN {tree, [code |-> "good", mark |-> "empty"]}
                                ELSE {tree}
      [] condition = "verity" -> {[tree EXCEPT !["code"] = IF tree["code"] = "dos" THEN "page" ELSE "absent"]}
      [] condition = "probe" -> {[tree EXCEPT !["code"] = "good"]}
                                \cup {t \in {[tree EXCEPT !["mark"] = "binary"]} : tree["code"] = "bad"}

\* Exit 0 once the code is not bad; m counts what is right, or is none at all.  The
\* scorer of other line ends is of two minds, and leaves a marker where there was
\* none.  The other scorer prints no metrics, or some that are no numbers.
MCScore(scorer, tree) ==
    LET exit == IF tree["code"] \in {"bad", "dos"} THEN 1 ELSE 0
        m == IF exit = 1 THEN 0 ELSE IF tree["mark"] = "absent" THEN 1 ELSE 2
        Full(value, left) == [exit |-> exit, json |-> "m" :> value, left |-> left]
    IN  IF scorer = "exit"
        THEN {[exit |-> exit, json |-> IF exit = 1 THEN None ELSE "m" :> -1, left |-> tree]}
        ELSE IF tree["code"] = "dos"
        THEN {Full(m, [tree EXCEPT !["mark"] = "page"]), Full(NaN, tree)}
        ELSE {Full(m, tree)}
=============================================================================
