----------------------------- MODULE AtomicWrite -----------------------------
(***************************************************************************)
(* atomic_write_text (core/atomic.py): the text goes to a temporary file   *)
(* in the directory of the target, which os.replace then renames over the  *)
(* target.  Several processes may write one target; each may fail at any   *)
(* step, or be killed there.                                               *)
(***************************************************************************)
EXTENDS Naturals, FiniteSets

CONSTANTS Procs,    \* processes that call atomic_write_text
          Values,   \* the texts they write
          NoValue,  \* what a reader gets when the target does not exist
          Torn,     \* what a reader would get from a half-written target
          Temps,    \* bound: the names mkstemp can come up with
          Target,   \* the name of the file written
          MaxKills  \* bound: processes killed in the middle of a call

ASSUME NamesAssumption == Target \notin Temps /\ MaxKills \in Nat
ASSUME ValuesAssumption == NoValue \notin Values /\ Torn \notin Values /\ Torn # NoValue

VARIABLES files,  \* the directory: [names -> contents]
          call,   \* [Procs -> the call the process is in]
          seen,   \* what the last reader of the target got
          kills   \* how many processes were killed in a call

vars == <<files, call, seen, kills>>

Names == Temps \cup {Target}
NoFile == [exists |-> FALSE, whole |-> FALSE, text |-> NoValue]
Content == [exists: BOOLEAN, whole: BOOLEAN, text: Values \cup {NoValue}]

NoCall == [step |-> "none", name |-> Target, text |-> NoValue]

ValueOf(file) == IF ~file.exists THEN NoValue ELSE IF file.whole THEN file.text ELSE Torn
----------------------------------------------------------------------------
Init ==
    /\ files = [n \in Names |-> NoFile]
    /\ call = [p \in Procs |-> NoCall]
    /\ seen = NoValue
    /\ kills = 0

\* Mutant: Path.write_text, which truncates the target and fills it.
MakeInPlace(p, v, n) ==
    /\ call[p].step = "none"
    /\ files' = [files EXCEPT ![Target] = [exists |-> TRUE, whole |-> FALSE, text |-> v]]
    /\ call' = [call EXCEPT ![p] = [step |-> "write", name |-> Target, text |-> v]]
    /\ UNCHANGED <<seen, kills>>

\* mkstemp creates a file no other name in the directory has; it is empty.
Make(p, v, n) ==
    /\ call[p].step = "none"
    /\ ~files[n].exists
    /\ files' = [files EXCEPT ![n] = [exists |-> TRUE, whole |-> FALSE, text |-> v]]
    /\ call' = [call EXCEPT ![p] = [step |-> "write", name |-> n, text |-> v]]
    /\ UNCHANGED <<seen, kills>>

\* handle.write and the close that flushes it.
Fill(p) ==
    /\ call[p].step = "write"
    /\ LET c == call[p]
       IN  /\ files' = [files EXCEPT ![c.name] = [exists |-> TRUE, whole |-> TRUE, text |-> c.text]]
           /\ call' = [call EXCEPT ![p] = [step |-> "replace", name |-> c.name, text |-> c.text]]
    /\ UNCHANGED <<seen, kills>>

Replace(p) ==
    /\ call[p].step = "replace"
    /\ files' = [files EXCEPT ![Target] = files[call[p].name], ![call[p].name] = NoFile]
    /\ call' = [call EXCEPT ![p] = NoCall]
    /\ UNCHANGED <<seen, kills>>

\* Mutant: no except clause.
FailUncaught(p) ==
    /\ call[p].step # "none"
    /\ call' = [call EXCEPT ![p] = NoCall]
    /\ UNCHANGED <<files, seen, kills>>

\* Any exception before the rename took effect: the temporary file is unlinked.
Fail(p) ==
    /\ call[p].step # "none"
    /\ files' = [files EXCEPT ![call[p].name] = NoFile]
    /\ call' = [call EXCEPT ![p] = NoCall]
    /\ UNCHANGED <<seen, kills>>

\* SIGKILL: nothing is cleaned up.
Killed(p) ==
    /\ call[p].step # "none"
    /\ kills < MaxKills
    /\ kills' = kills + 1
    /\ call' = [call EXCEPT ![p] = NoCall]
    /\ UNCHANGED <<files, seen>>

\* Somebody opens the target and reads it.
Observe ==
    /\ seen' = ValueOf(files[Target])
    /\ UNCHANGED <<files, call, kills>>

Next ==
    \/ \E p \in Procs :
        \/ \E v \in Values, n \in Temps : Make(p, v, n)
        \/ Fill(p) \/ Replace(p) \/ Fail(p) \/ Killed(p)
    \/ Observe

Spec == Init /\ [][Next]_vars
----------------------------------------------------------------------------
(* Correctness.                                                            *)

TypeOK ==
    /\ files \in [Names -> Content]
    /\ call \in [Procs -> [step: {"none", "write", "replace"}, name: Names,
                           text: Values \cup {NoValue}]]
    /\ seen \in Values \cup {NoValue, Torn}
    /\ kills \in Nat

\* Each running call has a temporary file to itself, which holds the whole text
\* by the time it is renamed; the target is never half-written.  No file is left
\* of a call that failed: without a kill each one belongs to a call under way.
CallsAreApart ==
    /\ files[Target].exists => files[Target].whole /\ files[Target].text \in Values
    /\ \A p \in Procs : call[p].step # "none" =>
        /\ call[p].name \in Temps
        /\ call[p].text \in Values
        /\ files[call[p].name].exists
        /\ files[call[p].name].text = call[p].text
        /\ call[p].step = "replace" => files[call[p].name].whole
    /\ \A p, q \in Procs :
        (call[p].step # "none" /\ call[q].step # "none" /\ p # q) => call[p].name # call[q].name
    /\ kills = 0 =>
        \A n \in Temps : files[n].exists => \E p \in Procs : call[p].step # "none" /\ call[p].name = n

Register == INSTANCE AtomicRegister WITH value <- ValueOf(files[Target])

\* Writers, failures, kills and readers together implement a register: "a
\* reader sees either the old content or the new, never a mix".
ImplementsRegister == Register!Spec
=============================================================================
