------------------------ MODULE TrialEvidence_proofs ------------------------
(***************************************************************************)
(* A report on disk has its evidence, what was published derives again, a  *)
(* replay that confirms every trial backs the report, and a difference     *)
(* that is called real is in the data; for any specs, agents, scorers and  *)
(* fixtures, whichever runs died before or after a report and wherever.    *)
(***************************************************************************)
EXTENDS TrialEvidence, FoldFacts, FiniteSetTheorems, SequenceTheorems, TLAPS

IsSequence(s) == \E n \in Nat : s = [i \in 1 .. n |-> s[i]]

\* The lines of a manifest about a trial of a run, and whether they are the
\* evidence of a record.
LinesIn(m, r, t) == {j \in DOMAIN m : m[j].id = r /\ m[j].trial = t}
BackedIn(m, r, x) ==
    \E j \in DOMAIN m : /\ LinesIn(m, r, x.trial) = {j}
                        /\ m[j].metrics = x.metrics /\ m[j].exit = x.exit

Total(s) == Len(s.conditions) * s.n

\* How many trials of the run under way have been retained.
Retained == IF run.step \in {"diff", "entry"} THEN Len(run.records) - 1 ELSE Len(run.records)

RunOK ==
    run # Idle =>
        /\ DOMAIN run = {"step", "spec", "hash", "records", "missing", "publishable", "steady"}
        /\ run.step \in {"trial", "diff", "entry", "judge", "spec", "report"}
        /\ run.spec \in Specs
        /\ IsSequence(run.records)
        /\ \A k \in 1 .. Len(run.records) : run.records[k].trial = Trial(run.spec, k)
        /\ Len(run.records) \in 0 .. Total(run.spec)
        /\ run.step = "trial" => Len(run.records) < Total(run.spec)
        /\ run.step \in {"diff", "entry"} => Len(run.records) > 0
        /\ run.step \in {"judge", "spec", "report"} => Len(run.records) = Total(run.spec)

\* Every line is of a run that began, or of none.
ManifestOK ==
    /\ runs \in Nat
    /\ IsSequence(manifest)
    /\ \A j \in DOMAIN manifest :
        manifest[j].id \in 0 .. runs /\ (manifest[j].id # 0 => ~manifest[j].torn)

\* As long as every line can be read, the run under way has one for each trial it
\* has retained and none for those to come.
RetainedOK ==
    run # Idle =>
        /\ run.step \in {"spec", "report"} => Readable
        /\ Readable => \A k \in 1 .. Total(run.spec) :
            /\ k <= Retained => BackedIn(manifest, runs, run.records[k])
            /\ k > Retained => LinesIn(manifest, runs, Trial(run.spec, k)) = {}

ReportOK ==
    /\ report.run \in 0 .. runs
    /\ run # Idle => report.run < runs
    /\ report.run # 0 =>
        /\ {report.trials[k].trial : k \in DOMAIN report.trials} = Trials(report.spec)
        /\ \A k \in DOMAIN report.trials : BackedIn(manifest, report.run, report.trials[k])

EvidenceInv == RunOK /\ ManifestOK /\ RetainedOK /\ ReportOK
----------------------------------------------------------------------------
(* Trials.                                                                 *)

\* Quotient and remainder of a trial's number lie within the conditions and the repetitions.
LEMMA DivFacts ==
    ASSUME NEW n \in Nat \ {0}, NEW c \in Nat, NEW x \in 0 .. c * n - 1
    PROVE  /\ x \div n \in 0 .. c - 1
           /\ x % n \in 0 .. n - 1
           /\ x = n * (x \div n) + (x % n)
<1>1. x \in Nat /\ x \div n \in Nat /\ x % n \in 0 .. n - 1
  OBVIOUS
<1>2. x = n * (x \div n) + (x % n)
  BY Z3
<1>3. ASSUME x \div n >= c PROVE FALSE
  <2>. DEFINE q == x \div n
  <2>1. n * q >= n * c
    <3>. HIDE DEF q
    <3>1. q - c \in Nat
      BY <1>1, <1>3 DEF q
    <3>2. q \in Int
      BY <1>1 DEF q
    <3>3. \A a, b \in Nat : a * b >= 0
      OBVIOUS
    <3>. QED BY <3>1, <3>2, <3>3
  <2>. QED BY <2>1, <1>1, <1>2
<1>. QED BY <1>1, <1>2, <1>3

\* A spec has at least one condition and one trial of it.
LEMMA SpecFacts ==
    ASSUME NEW s \in Specs
    PROVE  /\ s.n \in Nat \ {0} /\ Len(s.conditions) \in Nat \ {0}
           /\ Total(s) \in Nat \ {0}
<1>1. s.n \in Nat \ {0} /\ s.conditions \in Seq(STRING) /\ s.conditions # <<>>
  BY SpecsAssumption
<1>2. Len(s.conditions) \in Nat \ {0}
  BY <1>1
<1>3. \A a, b \in Nat \ {0} : a * b \in Nat \ {0}
  OBVIOUS
<1>. QED BY <1>1, <1>2, <1>3 DEF Total

\* No two trials of a run share their name.
LEMMA TrialInjective ==
    ASSUME NEW s \in Specs, NEW j \in 1 .. Total(s), NEW k \in 1 .. Total(s),
           Trial(s, j) = Trial(s, k)
    PROVE  j = k
<1>. DEFINE n == s.n
            c == Len(s.conditions)
<1>1. n \in Nat \ {0} /\ c \in Nat /\ j - 1 \in 0 .. c * n - 1 /\ k - 1 \in 0 .. c * n - 1
  BY SpecFacts DEF Total
<1>2. /\ (j - 1) \div n \in 0 .. c - 1 /\ (k - 1) \div n \in 0 .. c - 1
      /\ j - 1 = n * ((j - 1) \div n) + ((j - 1) % n)
      /\ k - 1 = n * ((k - 1) \div n) + ((k - 1) % n)
      /\ (j - 1) % n \in Int /\ (k - 1) % n \in Int
  <2>. DEFINE P(x) == /\ x \div n \in 0 .. c - 1 /\ x % n \in 0 .. n - 1
                      /\ x = n * (x \div n) + (x % n)
  <2>. HIDE DEF n, c
  <2>1. \A x \in 0 .. c * n - 1 : P(x)
    BY <1>1, DivFacts
  <2>2. P(j - 1) /\ P(k - 1)
    <3>. HIDE DEF P
    <3>. QED BY <1>1, <2>1
  <2>3. n \in Int
    BY <1>1
  <2>. QED BY <2>2, <2>3
<1>3. /\ s.conditions[((j - 1) \div n) + 1] = s.conditions[((k - 1) \div n) + 1]
      /\ ((j - 1) % n) + 1 = ((k - 1) % n) + 1
  BY DEF Trial
<1>4. ((j - 1) \div n) + 1 = ((k - 1) \div n) + 1
  <2>1. DOMAIN s.conditions = 1 .. c
    BY SpecsAssumption
  <2>2. \A a, b \in 1 .. c : s.conditions[a] = s.conditions[b] => a = b
    BY <2>1, SpecsAssumption
  <2>. DEFINE a == ((j - 1) \div n) + 1
              b == ((k - 1) \div n) + 1
  <2>3. a \in 1 .. c /\ b \in 1 .. c
    <3>. HIDE DEF n, c
    <3>. QED BY <1>1, <1>2
  <2>. QED BY <2>2, <2>3, <1>3
<1>5. (j - 1) % n = (k - 1) % n /\ (j - 1) \div n = (k - 1) \div n
  <2>. HIDE DEF n, c
  <2>. QED BY <1>2, <1>3, <1>4
<1>. HIDE DEF n, c
<1>. QED BY <1>1, <1>2, <1>5

\* A run has as many trials as their numbers say.
LEMMA TrialsCount ==
    ASSUME NEW s \in Specs
    PROVE  /\ Trials(s) = {Trial(s, k) : k \in 1 .. Total(s)}
           /\ Cardinality(Trials(s)) = Total(s)
<1>. DEFINE T == {Trial(s, k) : k \in 1 .. Total(s)}
            f == [k \in 1 .. Total(s) |-> Trial(s, k)]
<1>1. Trials(s) = T
  BY DEF Trials, Total
<1>2. f \in Bijection(1 .. Total(s), T)
  <2>1. f \in [1 .. Total(s) -> T]
    OBVIOUS
  <2>2. \A j, k \in 1 .. Total(s) : f[j] = f[k] => j = k
    BY TrialInjective
  <2>3. \A t \in T : \E k \in 1 .. Total(s) : f[k] = t
    OBVIOUS
  <2>. QED BY <2>1, <2>2, <2>3 DEF Bijection, Injection, Surjection, IsInjective
<1>3. IsFiniteSet(1 .. Total(s)) /\ Cardinality(1 .. Total(s)) = Total(s)
  BY SpecFacts, FS_Interval
<1>4. Cardinality(T) = Cardinality(1 .. Total(s))
  <2>. HIDE DEF T, f
  <2>. QED BY <1>2, <1>3, FS_Bijection DEF ExistsBijection
<1>. QED BY <1>1, <1>3, <1>4
----------------------------------------------------------------------------
(* Lines.                                                                  *)

\* Append, for sequences of whatever elements.
LEMMA SequenceFacts ==
    ASSUME NEW s, IsSequence(s)
    PROVE  /\ Len(s) \in Nat /\ DOMAIN s = 1 .. Len(s)
           /\ s # <<>> => Len(s) \in DOMAIN s
           /\ \A e : /\ IsSequence(Append(s, e)) /\ Len(Append(s, e)) = Len(s) + 1
                     /\ Append(s, e)[Len(s) + 1] = e
                     /\ \A i \in 1 .. Len(s) : Append(s, e)[i] = s[i]
<1>. PICK n \in Nat : s = [i \in 1 .. n |-> s[i]]
  BY DEF IsSequence
<1>1. \A S : (\A i \in 1 .. n : s[i] \in S) => s \in Seq(S)
  <2>. SUFFICES ASSUME NEW S, \A i \in 1 .. n : s[i] \in S PROVE s \in Seq(S)
    OBVIOUS
  <2>1. s \in [1 .. n -> S]
    OBVIOUS
  <2>. QED BY <2>1
<1>2. s \in Seq({s[i] : i \in 1 .. n})
  BY <1>1
<1>3. Len(s) = n /\ DOMAIN s = 1 .. n
  BY <1>2
<1>4. ASSUME NEW e
      PROVE  /\ IsSequence(Append(s, e)) /\ Len(Append(s, e)) = n + 1
             /\ Append(s, e)[n + 1] = e
             /\ \A i \in 1 .. n : Append(s, e)[i] = s[i]
  <2>. DEFINE S == {s[i] : i \in 1 .. n} \cup {e}
  <2>1. s \in Seq(S) /\ e \in S
    BY <1>1
  <2>. HIDE DEF S
  <2>2. Append(s, e) \in Seq(S) /\ Len(Append(s, e)) = n + 1
    BY <2>1, <1>3
  <2>3. Append(s, e) = [i \in 1 .. n + 1 |-> Append(s, e)[i]]
    BY <2>2
  <2>4. IsSequence(Append(s, e))
    <3>. DEFINE a == Append(s, e)
    <3>1. n + 1 \in Nat /\ a = [i \in 1 .. n + 1 |-> a[i]]
      BY <2>3
    <3>. HIDE DEF a
    <3>2. IsSequence(a)
      BY <3>1 DEF IsSequence
    <3>. QED BY <3>2 DEF a
  <2>5. Append(s, e)[n + 1] = e /\ \A i \in 1 .. n : Append(s, e)[i] = s[i]
    BY <2>1, <1>3
  <2>. QED BY <2>2, <2>4, <2>5
<1>5. s # <<>> => n > 0
  <2>1. n = 0 => s = <<>>
    BY <1>2, <1>3, EmptySeq
  <2>. QED BY <2>1
<1>. QED BY <1>3, <1>4, <1>5

\* A new line is the evidence of its own trial alone.
LEMMA AppendLines ==
    ASSUME NEW m, IsSequence(m), NEW e, NEW r
    PROVE  /\ \A t : (e.id # r \/ e.trial # t) => LinesIn(Append(m, e), r, t) = LinesIn(m, r, t)
           /\ \A x : (e.id # r \/ e.trial # x.trial) /\ BackedIn(m, r, x) => BackedIn(Append(m, e), r, x)
           /\ \A x : /\ e.id = r /\ e.trial = x.trial /\ e.metrics = x.metrics /\ e.exit = x.exit
                     /\ LinesIn(m, r, x.trial) = {}
                     => BackedIn(Append(m, e), r, x)
<1>. DEFINE a == Append(m, e)
            n == Len(m)
<1>1. /\ n \in Nat /\ DOMAIN m = 1 .. n /\ DOMAIN a = 1 .. n + 1
      /\ a[n + 1] = e /\ \A i \in 1 .. n : a[i] = m[i]
  BY SequenceFacts
<1>. HIDE DEF a, n
<1>2. \A t : (e.id # r \/ e.trial # t) => LinesIn(a, r, t) = LinesIn(m, r, t)
  BY <1>1 DEF LinesIn
<1>3. \A x : (e.id # r \/ e.trial # x.trial) /\ BackedIn(m, r, x) => BackedIn(a, r, x)
  BY <1>1, <1>2 DEF BackedIn
<1>4. ASSUME NEW x, e.id = r, e.trial = x.trial, e.metrics = x.metrics, e.exit = x.exit,
             LinesIn(m, r, x.trial) = {}
      PROVE  BackedIn(a, r, x)
  <2>1. LinesIn(a, r, x.trial) = {n + 1}
    BY <1>1, <1>4 DEF LinesIn
  <2>. QED BY <2>1, <1>1, <1>4 DEF BackedIn
<1>. QED BY <1>2, <1>3, <1>4 DEF a

\* Spoiling a line of no run disturbs no evidence.
LEMMA GarbleLines ==
    ASSUME NEW m, IsSequence(m), NEW i \in DOMAIN m, m[i].id = 0, NEW r, r # 0
    PROVE  LET g == [m EXCEPT ![i] = Garbled] IN
           /\ IsSequence(g) /\ DOMAIN g = DOMAIN m
           /\ \A t : LinesIn(g, r, t) = LinesIn(m, r, t)
           /\ \A x : BackedIn(m, r, x) => BackedIn(g, r, x)
<1>. DEFINE g == [m EXCEPT ![i] = Garbled]
<1>1. /\ DOMAIN g = DOMAIN m /\ g[i] = Garbled /\ Garbled.id = 0
      /\ \A j \in DOMAIN m : j # i => g[j] = m[j]
  BY DEF Garbled
<1>2. IsSequence(g)
  BY DEF IsSequence
<1>. HIDE DEF g
<1>3. \A t : LinesIn(g, r, t) = LinesIn(m, r, t)
  BY <1>1 DEF LinesIn
<1>4. \A x : BackedIn(m, r, x) => BackedIn(g, r, x)
  <2>. SUFFICES ASSUME NEW x, BackedIn(m, r, x) PROVE BackedIn(g, r, x)
    OBVIOUS
  <2>1. PICK j \in DOMAIN m : /\ LinesIn(m, r, x.trial) = {j}
                              /\ m[j].metrics = x.metrics /\ m[j].exit = x.exit
    BY DEF BackedIn
  <2>2. m[j].id = r
    BY <2>1 DEF LinesIn
  <2>. QED BY <1>1, <1>3, <2>1, <2>2 DEF BackedIn
<1>. QED BY <1>1, <1>2, <1>3, <1>4 DEF g
----------------------------------------------------------------------------
(* The invariant.                                                          *)

\* Nothing is retained at first.
LEMMA InitEvidence == Init => EvidenceInv
<1>. SUFFICES ASSUME Init PROVE EvidenceInv
  OBVIOUS
<1>1. run = Idle /\ manifest = <<>> /\ report.run = 0 /\ runs = 0
  BY DEF Init, NoReport
<1>2. IsSequence(<<>>) /\ DOMAIN <<>> = {}
  <2>1. <<>> = [i \in 1 .. 0 |-> <<>>[i]]
    OBVIOUS
  <2>. QED BY <2>1 DEF IsSequence
<1>. QED BY <1>1, <1>2 DEF EvidenceInv, RunOK, ManifestOK, RetainedOK, ReportOK

\* A run that begins has an id of which the manifest has no line.
LEMMA BeginEvidence ==
    ASSUME EvidenceInv, NEW s \in Specs, Begin(s)
    PROVE  EvidenceInv'
<1>1. /\ run = Idle /\ runs \in Nat /\ runs' = runs + 1
      /\ manifest' = manifest /\ report' = report
      /\ run' = [step |-> "trial", spec |-> s, hash |-> fixture, records |-> <<>>,
                 missing |-> {}, publishable |-> FALSE, steady |-> TRUE]
  BY DEF Begin, EvidenceInv, ManifestOK, evidence
<1>2. RunOK'
  <2>1. IsSequence(<<>>) /\ Len(<<>>) = 0
    <3>1. <<>> = [i \in 1 .. 0 |-> <<>>[i]]
      OBVIOUS
    <3>. QED BY <3>1 DEF IsSequence
  <2>2. Total(s) \in Nat \ {0}
    BY SpecFacts
  <2>. QED BY <1>1, <2>1, <2>2 DEF RunOK
<1>3. ManifestOK'
  BY <1>1 DEF EvidenceInv, ManifestOK
<1>4. RetainedOK'
  <2>1. \A t : LinesIn(manifest, runs + 1, t) = {}
    BY <1>1 DEF EvidenceInv, ManifestOK, LinesIn
  <2>2. run'.step = "trial" /\ run'.records = <<>> /\ run'.spec = s
    BY <1>1
  <2>3. Retained' = 0
    BY <2>2 DEF Retained
  <2>. QED BY <1>1, <2>1, <2>2, <2>3 DEF RetainedOK
<1>5. ReportOK'
  BY <1>1 DEF EvidenceInv, ReportOK
<1>. QED BY <1>2, <1>3, <1>4, <1>5 DEF EvidenceInv

\* A run that dies, or an edit: what is retained stays, and run may only end or
\* lose its steadiness.
LEMMA RunsOn ==
    ASSUME EvidenceInv, manifest' = manifest, report' = report, runs' = runs,
           run' = Idle \/ run' = run \/ (run # Idle /\ run' = [run EXCEPT !.steady = FALSE])
    PROVE  EvidenceInv'
<1>1. CASE run' = Idle
  BY <1>1 DEF EvidenceInv, RunOK, ManifestOK, RetainedOK, ReportOK
<1>2. CASE run' = run
  BY <1>2 DEF EvidenceInv, RunOK, ManifestOK, RetainedOK, ReportOK, Retained, Readable
<1>3. CASE run # Idle /\ run' = [run EXCEPT !.steady = FALSE]
  <2>1. /\ DOMAIN run' = DOMAIN run /\ run'.step = run.step /\ run'.spec = run.spec
        /\ run'.records = run.records
    BY <1>3 DEF EvidenceInv, RunOK
  <2>2. RunOK'
    BY <1>3, <2>1 DEF EvidenceInv, RunOK
  <2>3. RetainedOK'
    BY <1>3, <2>1 DEF EvidenceInv, RetainedOK, Retained, Readable
  <2>. QED BY <1>3, <2>2, <2>3 DEF EvidenceInv, ManifestOK, ReportOK
<1>. QED BY <1>1, <1>2, <1>3

\* A trial that has run is not retained yet.
LEMMA TrialStep ==
    ASSUME EvidenceInv, RunTrial
    PROVE  EvidenceInv'
<1>. DEFINE n == Len(run.records)
<1>1. /\ run # Idle /\ run.step = "trial" /\ manifest' = manifest /\ report' = report /\ runs' = runs
      /\ IsSequence(run.records) /\ n \in Nat /\ n < Total(run.spec) /\ run.spec \in Specs
  BY SequenceFacts DEF RunTrial, Idle, EvidenceInv, RunOK, evidence
<1>2. PICK x : /\ run' = [run EXCEPT !.step = "diff", !.records = Append(@, x)]
               /\ x.trial = Trial(run.spec, n + 1)
  <2>. DEFINE R(out) == [trial |-> Trial(run.spec, n + 1), exit |-> out.exit,
                         metrics |-> Metrics(out), artifact |-> out.left]
  <2>1. \E out : run' = [run EXCEPT !.step = "diff", !.records = Append(@, R(out))]
    BY Zenon DEF RunTrial
  <2>2. \A out : R(out).trial = Trial(run.spec, n + 1)
    OBVIOUS
  <2>. HIDE DEF R
  <2>. QED BY <2>1, <2>2
<1>3. /\ DOMAIN run' = DOMAIN run /\ run'.step = "diff" /\ run'.spec = run.spec
      /\ run'.records = Append(run.records, x) /\ run' # Idle
  BY <1>1, <1>2 DEF EvidenceInv, RunOK, Idle
<1>4. /\ IsSequence(run'.records) /\ Len(run'.records) = n + 1
      /\ run'.records[n + 1] = x
      /\ \A k \in 1 .. n : run'.records[k] = run.records[k]
  BY <1>1, <1>3, SequenceFacts
<1>5. RunOK'
  <2>1. \A k \in 1 .. n + 1 : run'.records[k].trial = Trial(run.spec, k)
    BY <1>1, <1>2, <1>4 DEF EvidenceInv, RunOK
  <2>2. Total(run.spec) \in Nat
    BY <1>1, SpecFacts
  <2>. QED BY <1>1, <1>3, <1>4, <2>1, <2>2 DEF EvidenceInv, RunOK
<1>6. RetainedOK'
  <2>1. Retained = n /\ Retained' = n
    BY <1>1, <1>3, <1>4 DEF Retained
  <2>. QED BY <1>1, <1>3, <1>4, <2>1 DEF EvidenceInv, RetainedOK, Readable
<1>7. ManifestOK' /\ ReportOK'
  BY <1>1 DEF EvidenceInv, ManifestOK, ReportOK
<1>. QED BY <1>5, <1>6, <1>7 DEF EvidenceInv

\* The diff changes neither manifest nor report.
LEMMA DiffStep ==
    ASSUME EvidenceInv, RetainDiff
    PROVE  EvidenceInv'
<1>1. /\ run # Idle /\ run.step = "diff" /\ manifest' = manifest /\ report' = report /\ runs' = runs
      /\ DOMAIN run' = DOMAIN run /\ run'.step = "entry" /\ run'.spec = run.spec
      /\ run'.records = run.records /\ run' # Idle
  <2>1. run # Idle /\ run.step = "diff" /\ manifest' = manifest /\ report' = report /\ runs' = runs
    BY DEF RetainDiff, Idle
  <2>2. PICK x : run' = [run EXCEPT !.step = "entry", !.missing = x]
    BY DEF RetainDiff
  <2>. QED BY <2>1, <2>2 DEF Idle, EvidenceInv, RunOK
<1>2. RunOK'
  BY <1>1 DEF EvidenceInv, RunOK
<1>3. RetainedOK'
  BY <1>1 DEF EvidenceInv, RetainedOK, Retained, Readable
<1>. QED BY <1>1, <1>2, <1>3 DEF EvidenceInv, ManifestOK, ReportOK

\* What happens to the manifest behind a run's back changes neither the evidence of
\* earlier reports nor, as long as every line can be read, that of the run itself.
LEMMA EntryStep ==
    ASSUME EvidenceInv, AppendEntry
    PROVE  EvidenceInv'
<1>. DEFINE n == Len(run.records)
            spoilt == manifest # <<>> /\ manifest[Len(manifest)].torn
<1>1. /\ run # Idle /\ run.step = "entry" /\ report' = report /\ runs' = runs /\ runs \in Nat
      /\ manifest' = IF spoilt THEN [manifest EXCEPT ![Len(manifest)] = Garbled]
                     ELSE Append(manifest, Entry)
  BY DEF AppendEntry, Idle, EvidenceInv, ManifestOK
<1>2. /\ run.spec \in Specs /\ IsSequence(run.records) /\ n \in Nat /\ n > 0
      /\ n <= Total(run.spec) /\ run.records[n].trial = Trial(run.spec, n)
      /\ Total(run.spec) \in Nat
  BY <1>1, SequenceFacts, SpecFacts DEF EvidenceInv, RunOK
<1>3. /\ DOMAIN run' = DOMAIN run /\ run'.spec = run.spec /\ run'.records = run.records
      /\ run' # Idle
      /\ run'.step = IF n = Total(run.spec) THEN "judge" ELSE "trial"
  <2>1. PICK step \in {"judge", "trial"} :
            /\ run' = [run EXCEPT !.missing = {}, !.step = step]
            /\ step = "judge" <=> n = Cardinality(Trials(run.spec))
    BY DEF AppendEntry
  <2>2. Cardinality(Trials(run.spec)) = Total(run.spec)
    BY <1>2, TrialsCount
  <2>. QED BY <1>1, <2>1, <2>2 DEF Idle, EvidenceInv, RunOK
<1>4. RunOK'
  BY <1>1, <1>2, <1>3 DEF EvidenceInv, RunOK
<1>5. Retained = n - 1 /\ Retained' = n
  BY <1>1, <1>3 DEF Retained
<1>6. CASE spoilt
  <2>. DEFINE i == Len(manifest)
  <2>1. i \in DOMAIN manifest /\ manifest[i].id = 0
    BY <1>6, SequenceFacts DEF EvidenceInv, ManifestOK
  <2>. HIDE DEF i
  <2>2. /\ IsSequence(manifest') /\ DOMAIN manifest' = DOMAIN manifest
        /\ \A r, x : r # 0 /\ BackedIn(manifest, r, x) => BackedIn(manifest', r, x)
    BY <1>1, <1>6, <2>1, GarbleLines DEF i, EvidenceInv, ManifestOK
  <2>3. manifest'[i] = Garbled /\ \A j \in DOMAIN manifest : j # i => manifest'[j] = manifest[j]
    BY <1>1, <1>6, <2>1 DEF i
  <2>4. ~Readable'
    BY <2>1, <2>2, <2>3 DEF Readable
  <2>5. ManifestOK'
    BY <1>1, <2>1, <2>2, <2>3 DEF EvidenceInv, ManifestOK, Garbled
  <2>6. RetainedOK'
    BY <1>3, <2>4 DEF RetainedOK
  <2>7. ReportOK'
    BY <1>1, <1>3, <2>2 DEF EvidenceInv, ReportOK
  <2>. QED BY <1>4, <2>5, <2>6, <2>7 DEF EvidenceInv
<1>7. CASE ~spoilt
  <2>. DEFINE e == Entry
  <2>1. /\ e.id = runs /\ ~e.torn /\ e.trial = run.records[n].trial
        /\ e.metrics = run.records[n].metrics /\ e.exit = run.records[n].exit
    BY DEF Entry, Latest
  <2>. HIDE DEF e
  <2>2. IsSequence(manifest) /\ manifest' = Append(manifest, e)
    BY <1>1, <1>7 DEF EvidenceInv, ManifestOK, e
  <2>3. /\ IsSequence(manifest') /\ Len(manifest) \in Nat /\ DOMAIN manifest = 1 .. Len(manifest)
        /\ DOMAIN manifest' = 1 .. Len(manifest) + 1
        /\ manifest'[Len(manifest) + 1] = e
        /\ \A j \in DOMAIN manifest : manifest'[j] = manifest[j]
    BY <2>2, SequenceFacts
  <2>4. ManifestOK'
    <3>1. ASSUME NEW j \in DOMAIN manifest'
          PROVE  j \in DOMAIN manifest \/ manifest'[j] = e
      BY <2>3
    <3>2. ASSUME NEW j \in DOMAIN manifest'
          PROVE  manifest'[j].id \in 0 .. runs
      <4>1. CASE j \in DOMAIN manifest
        BY <2>3, <4>1 DEF EvidenceInv, ManifestOK
      <4>2. CASE manifest'[j] = e
        BY <1>1, <2>1, <4>2
      <4>. QED BY <3>1, <4>1, <4>2
    <3>3. ASSUME NEW j \in DOMAIN manifest', manifest'[j].id # 0
          PROVE  ~manifest'[j].torn
      <4>1. CASE j \in DOMAIN manifest
        <5>1. manifest'[j] = manifest[j]
          BY <2>3, <4>1
        <5>2. manifest[j].id # 0 => ~manifest[j].torn
          BY <4>1 DEF EvidenceInv, ManifestOK
        <5>. QED BY <3>3, <5>1, <5>2, Zenon
      <4>2. CASE manifest'[j] = e
        BY <2>1, <4>2, Zenon
      <4>. QED BY <3>1, <4>1, <4>2
    <3>. QED BY <1>1, <2>3, <3>2, <3>3 DEF ManifestOK
  <2>5. RetainedOK'
    <3>1. Readable' => Readable
      BY <2>3 DEF Readable
    <3>. SUFFICES ASSUME Readable, NEW k \in 1 .. Total(run.spec)
                  PROVE  /\ k <= n => BackedIn(manifest', runs, run.records[k])
                         /\ k > n => LinesIn(manifest', runs, Trial(run.spec, k)) = {}
      BY <1>1, <1>3, <1>5, <3>1 DEF RetainedOK
    <3>2. /\ k <= n - 1 => BackedIn(manifest, runs, run.records[k])
          /\ k > n - 1 => LinesIn(manifest, runs, Trial(run.spec, k)) = {}
      BY <1>1, <1>5 DEF EvidenceInv, RetainedOK
    <3>3. k # n => Trial(run.spec, k) # Trial(run.spec, n)
      BY <1>2, TrialInjective
    <3>4. e.id = runs /\ e.trial = Trial(run.spec, n)
      BY <1>2, <2>1
    <3>5. k <= n => run.records[k].trial = Trial(run.spec, k)
      BY <1>1, <1>2 DEF EvidenceInv, RunOK
    <3>6. CASE k < n
      <4>1. BackedIn(manifest, runs, run.records[k]) /\ run.records[k].trial # e.trial
        BY <1>2, <3>2, <3>3, <3>4, <3>5, <3>6
      <4>2. BackedIn(manifest', runs, run.records[k])
        BY <2>2, <4>1, AppendLines
      <4>. QED BY <1>2, <3>6, <4>2
    <3>7. CASE k = n
      <4>1. LinesIn(manifest, runs, run.records[n].trial) = {}
        BY <1>2, <3>2, <3>7
      <4>2. BackedIn(manifest', runs, run.records[n])
        BY <2>1, <2>2, <4>1, AppendLines
      <4>. QED BY <1>2, <3>7, <4>2
    <3>8. CASE k > n
      <4>1. LinesIn(manifest, runs, Trial(run.spec, k)) = {} /\ Trial(run.spec, k) # e.trial
        BY <1>2, <3>2, <3>3, <3>4, <3>8
      <4>2. \A t : e.trial # t => LinesIn(Append(manifest, e), runs, t) = LinesIn(manifest, runs, t)
        BY <2>2, AppendLines
      <4>3. LinesIn(manifest', runs, Trial(run.spec, k)) = {}
        <5>. DEFINE t == Trial(run.spec, k)
        <5>. HIDE DEF t
        <5>1. LinesIn(manifest, runs, t) = {} /\ t # e.trial
          BY <4>1 DEF t
        <5>2. LinesIn(manifest', runs, t) = {}
          BY <2>2, <4>2, <5>1
        <5>. QED BY <5>2 DEF t
      <4>. QED BY <1>2, <3>8, <4>3
    <3>. QED BY <1>2, <3>6, <3>7, <3>8
  <2>6. ReportOK'
    <3>1. report.run # runs
      BY <1>1 DEF EvidenceInv, ReportOK
    <3>2. \A x : BackedIn(manifest, report.run, x) => BackedIn(manifest', report.run, x)
      BY <2>1, <2>2, <3>1, AppendLines
    <3>. QED BY <1>1, <1>3, <3>2 DEF EvidenceInv, ReportOK
  <2>. QED BY <1>4, <2>4, <2>5, <2>6 DEF EvidenceInv
<1>. QED BY <1>6, <1>7

\* A run goes on to its report only if the manifest can be read.
LEMMA JudgeStep ==
    ASSUME EvidenceInv, Judge
    PROVE  EvidenceInv'
<1>1. /\ run # Idle /\ run.step = "judge" /\ manifest' = manifest /\ report' = report /\ runs' = runs
  BY DEF Judge, Idle, evidence
<1>2. CASE ~Readable
  <2>1. run' = Idle
    BY <1>2 DEF Judge
  <2>. QED BY <1>1, <2>1, RunsOn
<1>3. CASE Readable
  <2>1. PICK x : run' = [run EXCEPT !.step = "spec", !.publishable = x]
    BY <1>3 DEF Judge
  <2>2. /\ DOMAIN run' = DOMAIN run /\ run'.step = "spec" /\ run'.spec = run.spec
        /\ run'.records = run.records /\ run' # Idle
    BY <1>1, <2>1 DEF Idle, EvidenceInv, RunOK
  <2>3. RunOK'
    BY <1>1, <2>2 DEF EvidenceInv, RunOK
  <2>4. RetainedOK'
    BY <1>1, <1>3, <2>2 DEF EvidenceInv, RetainedOK, Retained, Readable
  <2>. QED BY <1>1, <2>2, <2>3, <2>4 DEF EvidenceInv, ManifestOK, ReportOK
<1>. QED BY <1>2, <1>3

\* The spec changes neither manifest nor report.
LEMMA SpecStep ==
    ASSUME EvidenceInv, WriteSpec
    PROVE  EvidenceInv'
<1>1. /\ run # Idle /\ run.step = "spec" /\ manifest' = manifest /\ report' = report /\ runs' = runs
      /\ run' = [run EXCEPT !.step = "report"]
  BY DEF WriteSpec, Idle
<1>2. /\ DOMAIN run' = DOMAIN run /\ run'.step = "report" /\ run'.spec = run.spec
      /\ run'.records = run.records /\ run' # Idle
  BY <1>1 DEF Idle, EvidenceInv, RunOK
<1>3. RunOK'
  BY <1>1, <1>2 DEF EvidenceInv, RunOK
<1>4. RetainedOK'
  BY <1>1, <1>2 DEF EvidenceInv, RetainedOK, Retained, Readable
<1>. QED BY <1>1, <1>2, <1>3, <1>4 DEF EvidenceInv, ManifestOK, ReportOK

\* A run that reports has retained all its trials.
LEMMA ReportStep ==
    ASSUME EvidenceInv, WriteReport
    PROVE  EvidenceInv'
<1>1. /\ run # Idle /\ run.step = "report" /\ manifest' = manifest /\ runs' = runs /\ run' = Idle
      /\ report'.run = runs /\ report'.spec = run.spec /\ report'.trials = run.records
  BY DEF WriteReport, Idle
<1>2. /\ run.spec \in Specs /\ Len(run.records) = Total(run.spec) /\ IsSequence(run.records)
      /\ DOMAIN run.records = 1 .. Total(run.spec)
      /\ \A k \in 1 .. Total(run.spec) : run.records[k].trial = Trial(run.spec, k)
  BY <1>1, SequenceFacts DEF EvidenceInv, RunOK
<1>3. \A k \in 1 .. Total(run.spec) : BackedIn(manifest, runs, run.records[k])
  <2>1. Retained = Total(run.spec)
    BY <1>1, <1>2 DEF Retained
  <2>. QED BY <1>1, <2>1 DEF EvidenceInv, RetainedOK
<1>4. {run.records[k].trial : k \in DOMAIN run.records} = Trials(run.spec)
  BY <1>2, TrialsCount
<1>5. runs \in Nat
  BY DEF EvidenceInv, ManifestOK
<1>6. ReportOK'
  BY <1>1, <1>2, <1>3, <1>4, <1>5 DEF ReportOK
<1>7. ManifestOK' /\ RunOK' /\ RetainedOK'
  BY <1>1 DEF EvidenceInv, ManifestOK, RunOK, RetainedOK
<1>. QED BY <1>6, <1>7 DEF EvidenceInv

\* A run that dies leaves at most a line of no run.
LEMMA DieStep ==
    ASSUME EvidenceInv, Die
    PROVE  EvidenceInv'
<1>1. run' = Idle /\ report' = report /\ runs' = runs
  BY DEF Die
<1>2. CASE manifest' = manifest
  BY <1>1, <1>2, RunsOn
<1>3. CASE manifest' = Append(manifest, Torn)
  <2>1. Torn.id = 0 /\ runs \in Nat /\ IsSequence(manifest)
    BY DEF Torn, EvidenceInv, ManifestOK
  <2>2. /\ IsSequence(manifest') /\ Len(manifest) \in Nat /\ DOMAIN manifest = 1 .. Len(manifest)
        /\ DOMAIN manifest' = 1 .. Len(manifest) + 1
        /\ manifest'[Len(manifest) + 1] = Torn
        /\ \A j \in DOMAIN manifest : manifest'[j] = manifest[j]
    BY <1>3, <2>1, SequenceFacts
  <2>3. ManifestOK'
    BY <1>1, <2>1, <2>2 DEF EvidenceInv, ManifestOK
  <2>4. \A r, x : r # 0 /\ BackedIn(manifest, r, x) => BackedIn(manifest', r, x)
    BY <1>3, <2>1, AppendLines
  <2>5. ReportOK'
    BY <1>1, <2>4 DEF EvidenceInv, ReportOK
  <2>. QED BY <1>1, <2>3, <2>5 DEF EvidenceInv, RunOK, RetainedOK
<1>. QED BY <1>2, <1>3 DEF Die

\* The invariant is inductive.
LEMMA NextEvidence == EvidenceInv /\ [Next]_vars => EvidenceInv'
<1>. SUFFICES ASSUME EvidenceInv, [Next]_vars PROVE EvidenceInv'
  OBVIOUS
<1>1. ASSUME NEW s \in Specs, Begin(s) PROVE EvidenceInv'
  BY <1>1, BeginEvidence
<1>2. CASE RunTrial
  BY <1>2, TrialStep
<1>3. CASE RetainDiff
  BY <1>3, DiffStep
<1>4. CASE AppendEntry
  BY <1>4, EntryStep
<1>5. CASE Judge
  BY <1>5, JudgeStep
<1>6. CASE WriteSpec
  BY <1>6, SpecStep
<1>7. CASE WriteReport
  BY <1>7, ReportStep
<1>8. CASE Die
  BY <1>8, DieStep
<1>9. CASE Edit
  <2>1. manifest' = manifest /\ report' = report /\ runs' = runs
    BY <1>9 DEF Edit, evidence
  <2>2. run' = IF run = Idle THEN run ELSE [run EXCEPT !.steady = FALSE]
    BY <1>9 DEF Edit
  <2>. QED BY <2>1, <2>2, RunsOn
<1>10. CASE VerifyBegin \/ VerifyLoad \/ VerifyEntry \/ UNCHANGED vars
  <2>1. manifest' = manifest /\ report' = report /\ runs' = runs /\ run' = run
    BY <1>10 DEF VerifyBegin, VerifyLoad, VerifyEntry, vars, evidence
  <2>. QED BY <2>1, RunsOn
<1>. QED BY <1>1, <1>2, <1>3, <1>4, <1>5, <1>6, <1>7, <1>8, <1>9, <1>10 DEF Next
----------------------------------------------------------------------------
\* A report on disk has, for each trial of its run and for no other, exactly one
\* line in the manifest with the report's metrics and exit code, whatever died,
\* was cut short or was edited before it or since (run_eval, write_trial_evidence
\* and write_run_evidence), for any specs, agents and scorers.
THEOREM ReportsAreBacked == Spec => []ReportIsBacked
<1>1. EvidenceInv => ReportIsBacked
  <2>. SUFFICES ASSUME EvidenceInv, report.run # 0, NEW k \in DOMAIN report.trials
                PROVE  LET lines == {j \in DOMAIN manifest :
                            manifest[j].id = report.run /\ manifest[j].trial = report.trials[k].trial}
                       IN  Cardinality(lines) = 1
                           /\ \A j \in lines : /\ manifest[j].metrics = report.trials[k].metrics
                                               /\ manifest[j].exit = report.trials[k].exit
    BY DEF EvidenceInv, ReportOK, ReportIsBacked
  <2>1. PICK j \in DOMAIN manifest :
            /\ LinesIn(manifest, report.run, report.trials[k].trial) = {j}
            /\ manifest[j].metrics = report.trials[k].metrics
            /\ manifest[j].exit = report.trials[k].exit
    BY DEF EvidenceInv, ReportOK, BackedIn
  <2>2. Cardinality({j}) = 1
    BY FS_Singleton
  <2>. QED BY <2>1, <2>2 DEF LinesIn
<1>2. Spec => []EvidenceInv
  BY InitEvidence, NextEvidence, PTL DEF Spec
<1>. QED BY <1>1, <1>2, PTL
----------------------------------------------------------------------------
(* What is retained derives what was published.                            *)

\* The diff there is by now is the one that an entry's artifact was retained with.
Derives(e) ==
    /\ e.fixture \in Trees /\ e.artifact \in Trees /\ e.trial \in TrialIds
    /\ e.unreproducible = Unreproducible(e.fixture, e.artifact)
    /\ diffs[e.trial] = Diff(e.fixture, e.artifact)

\* Trees are trees, trials have a place for their diff, and a line of no run is spoilt.
ShapeOK ==
    /\ fixture \in Trees
    /\ DOMAIN diffs = TrialIds
    /\ \A j \in DOMAIN manifest : manifest[j] \in {Torn, Garbled} \/ manifest[j].id # 0

\* As long as nobody edits the fixture, a run's trials are made from the tree it
\* hashed, and each of its lines derives.
SteadyOK ==
    run # Idle /\ run.steady =>
        /\ fixture = run.hash
        /\ \A k \in 1 .. Len(run.records) : run.records[k].artifact \in Trees
        /\ run.step = "entry" =>
            /\ diffs[Latest.trial] = Diff(run.hash, Latest.artifact)
            /\ run.missing = Unreproducible(run.hash, Latest.artifact)
        /\ Readable => \A j \in DOMAIN manifest :
            manifest[j].id = runs => Derives(manifest[j])
        /\ run.step \in {"spec", "report"} /\ run.publishable => \A j \in DOMAIN manifest :
            manifest[j].id = runs => manifest[j].unreproducible = {}
        /\ run.step = "report" => spec = run.spec

\* The evidence of a published report stays until the next run begins.
RestOK ==
    report.run = runs /\ runs # 0 /\ report.publishable /\ report.steady =>
        /\ spec = report.spec /\ spec \in Specs
        /\ \A j \in DOMAIN manifest : manifest[j].id = runs =>
            Derives(manifest[j]) /\ manifest[j].unreproducible = {}

Fields == {"step", "target", "calm", "between", "entries", "spec", "report", "base", "results"}

\* The report a verification reads is one whose evidence derives.
Confirmable ==
    /\ report.publishable /\ report.steady
    /\ report.run = check.target /\ runs = check.target

Confirms(k) ==
    LET e == check.entries[k]
    IN  IF check.base # e.fixture THEN check.results[k].verdict = "drift"
        ELSE ~Lossy(e) /\ Repeats(e) => check.results[k].verdict = "ok"

\* A verification that nothing has disturbed has in hand what is on disk, and every
\* verdict it has reached so far is the right one.
CheckOK ==
    /\ check.step \in {"idle", "load", "replay", "done", "raised"}
    /\ check.step \in {"load", "replay"} => DOMAIN check = Fields
    /\ check.step \in {"load", "replay", "done"} /\ check.calm =>
        /\ run = Idle /\ check.target # 0
        /\ check.entries = [k \in {j \in DOMAIN manifest : manifest[j].id = check.target} |-> manifest[k]]
        /\ check.step = "load" => check.results = <<>> /\ DOMAIN check.entries # {}
        /\ check.step = "replay" =>
            /\ spec # None /\ check.spec = spec /\ check.report = report /\ check.base = fixture
            /\ DOMAIN check.results \subseteq DOMAIN check.entries
            /\ DOMAIN check.results # DOMAIN check.entries
        /\ check.step = "done" =>
            /\ check.report = report
            /\ spec # None => DOMAIN check.entries \subseteq DOMAIN check.results
        /\ check.step \in {"replay", "done"} /\ spec # None /\ Confirmable =>
            \A k \in DOMAIN check.results : Confirms(k)

DerivesInv == EvidenceInv /\ ShapeOK /\ SteadyOK /\ RestOK /\ CheckOK
----------------------------------------------------------------------------
\* A diff that omits nothing, from a tree to another, applies to the first and gives
\* the second, unless it loses something.
LEMMA DiffDerives ==
    ASSUME NEW base \in Trees, NEW tree \in Trees, Unreproducible(base, tree) = {},
           \A f \in Files : base[f] # tree[f] =>
                /\ {base[f], tree[f]} # {"absent", "empty"}
                /\ Side(base[f]) = base[f] /\ Side(tree[f]) = tree[f] /\ base[f] \notin Split
    PROVE  /\ ~Refused(Diff(base, tree), base)
           /\ \A t \in Applied(Diff(base, tree), base) : t = tree
<1>. DEFINE d == Diff(base, tree)
<1>1. DOMAIN d = {f \in Files : "binary" \notin {base[f], tree[f]} /\ ~SameLines(base[f], tree[f])}
  BY DEF Diff
<1>2. \A f \in DOMAIN d : d[f].old = Side(base[f]) /\ d[f].new = Side(tree[f])
  BY DEF Diff
<1>. HIDE DEF d
<1>3. \A f \in Files : f \notin DOMAIN d => base[f] = tree[f]
  BY <1>1 DEF Unreproducible, SameLines
<1>4. \A f \in DOMAIN d : base[f] # tree[f]
  BY <1>1 DEF SameLines
<1>5. \A f \in DOMAIN d : f \in Files /\ Exact(d[f], base[f]) /\ d[f].new = tree[f]
  BY <1>1, <1>2, <1>4 DEF Exact
<1>6. ~Refused(d, base)
  BY <1>5 DEF Refused
<1>7. ASSUME NEW t \in Applied(d, base) PROVE t = tree
  <2>1. t \in Trees /\ \A f \in Files : t[f] \in IF f \in DOMAIN d THEN Patched(d[f], base[f]) ELSE {base[f]}
    BY <1>7 DEF Applied
  <2>2. \A f \in Files : t[f] = tree[f]
    BY <1>3, <1>5, <2>1 DEF Patched
  <2>. QED BY <2>1, <2>2 DEF Trees
<1>. QED BY <1>6, <1>7 DEF d

\* The verdict on an entry that derives.
LEMMA ReplayDerives ==
    ASSUME NEW e, Derives(e), e.unreproducible = {}, check.base = fixture,
           NEW x \in Replayed(e)
    PROVE  IF check.base # e.fixture THEN x.verdict = "drift"
           ELSE ~Lossy(e) /\ Repeats(e) => x.verdict = "ok"
<1>1. CASE check.base # e.fixture
  BY <1>1 DEF Replayed, Result
<1>2. ASSUME check.base = e.fixture, ~Lossy(e), Repeats(e) PROVE x.verdict = "ok"
  <2>1. /\ ~Refused(diffs[e.trial], fixture)
        /\ \A t \in Applied(diffs[e.trial], fixture) : t = e.artifact
    <3>1. \A f \in Files : e.fixture[f] # e.artifact[f] =>
                /\ {e.fixture[f], e.artifact[f]} # {"absent", "empty"}
                /\ Side(e.fixture[f]) = e.fixture[f] /\ Side(e.artifact[f]) = e.artifact[f]
                /\ e.fixture[f] \notin Split
      BY <1>2 DEF Lossy
    <3>2. /\ e.fixture \in Trees /\ e.artifact \in Trees /\ Unreproducible(e.fixture, e.artifact) = {}
          /\ diffs[e.trial] = Diff(e.fixture, e.artifact) /\ fixture = e.fixture
      BY <1>2 DEF Derives
    <3>. QED BY <3>1, <3>2, DiffDerives
  <2>2. PICK t \in Applied(diffs[e.trial], fixture) : x \in Rescored(e, t)
    BY <1>2, <2>1 DEF Replayed
  <2>3. x \in Rescored(e, e.artifact)
    BY <2>1, <2>2
  <2>4. PICK out \in Score(check.spec.scorer, e.artifact) :
            x = IF Agrees(e, out) THEN Result(e, "ok", Metrics(out)) ELSE Result(e, "mismatch", <<>>)
    BY <2>3 DEF Rescored
  <2>5. Agrees(e, out)
    BY <1>2 DEF Repeats
  <2>. QED BY <2>4, <2>5 DEF Result
<1>. QED BY <1>1, <1>2

\* A set of line numbers has a least one.
LEMMA MinFacts ==
    ASSUME NEW T \in SUBSET Nat, T # {}
    PROVE  Min(T) \in T /\ \A y \in T : Min(T) <= y
<1>1. \E x \in T : \A y \in T : x <= y
  BY LeastNat
<1>. QED BY <1>1 DEF Min
----------------------------------------------------------------------------
(* Steps.                                                                  *)

\* At first there is nothing to derive.
LEMMA InitDerives == Init => DerivesInv
<1>. SUFFICES ASSUME Init PROVE DerivesInv
  OBVIOUS
<1>1. EvidenceInv
  BY InitEvidence
<1>2. /\ fixture \in Trees /\ run = Idle /\ manifest = <<>> /\ runs = 0
      /\ check = Idle /\ DOMAIN diffs = TrialIds
  BY SpecsAssumption DEF Init
<1>3. check.step = "idle"
  BY <1>2 DEF Idle
<1>. QED BY <1>1, <1>2, <1>3 DEF DerivesInv, ShapeOK, SteadyOK, RestOK, CheckOK

\* A step of another actor ends what a verification in progress can claim.
LEMMA DisturbedCheck ==
    ASSUME CheckOK, Disturbs
    PROVE  CheckOK'
<1>1. CASE check.step \in {"load", "replay"}
  <2>1. check' = [check EXCEPT !.calm = FALSE]
    BY <1>1 DEF Disturbs
  <2>2. "calm" \in DOMAIN check
    BY <1>1 DEF CheckOK, Fields
  <2>3. check'.step = check.step /\ DOMAIN check' = DOMAIN check /\ ~check'.calm
    BY <2>1, <2>2
  <2>. QED BY <1>1, <2>3 DEF CheckOK
<1>2. CASE ~(check.step \in {"load", "replay"})
  <2>1. check'.step = "idle"
    BY <1>2 DEF Disturbs, Idle
  <2>. QED BY <2>1 DEF CheckOK
<1>. QED BY <1>1, <1>2

\* A run that begins hashes the fixture and has no line yet.
LEMMA BeginDerives ==
    ASSUME DerivesInv, NEW s \in Specs, Begin(s)
    PROVE  ShapeOK' /\ SteadyOK' /\ RestOK'
<1>1. /\ fixture' = fixture /\ manifest' = manifest /\ diffs' = diffs /\ report' = report
      /\ runs' = runs + 1
      /\ run' = [step |-> "trial", spec |-> s, hash |-> fixture, records |-> <<>>,
                 missing |-> {}, publishable |-> FALSE, steady |-> TRUE]
  BY DEF Begin, evidence
<1>2. /\ runs \in Nat /\ report.run \in 0 .. runs
      /\ \A j \in DOMAIN manifest : manifest[j].id \in 0 .. runs
  BY DEF DerivesInv, EvidenceInv, ManifestOK, ReportOK
<1>3. ShapeOK'
  BY <1>1 DEF DerivesInv, ShapeOK
<1>4. RestOK'
  BY <1>1, <1>2 DEF RestOK
<1>5. \A j \in DOMAIN manifest' : manifest'[j].id # runs'
  BY <1>1, <1>2
<1>6. /\ run'.step = "trial" /\ run'.hash = fixture' /\ run'.records = <<>>
      /\ 1 .. Len(run'.records) = {}
  BY <1>1
<1>7. SteadyOK'
  BY <1>5, <1>6 DEF SteadyOK
<1>. QED BY <1>3, <1>4, <1>7

\* A trial is scored on the tree its agent left.
LEMMA TrialDerives ==
    ASSUME DerivesInv, RunTrial
    PROVE  ShapeOK' /\ SteadyOK' /\ RestOK'
<1>. DEFINE n == Len(run.records)
            t == Trial(run.spec, n + 1)
            From == IF t[1] \in run.spec.commands THEN Work(t[1], fixture) ELSE {fixture}
            R(out) == [trial |-> t, exit |-> out.exit, metrics |-> Metrics(out), artifact |-> out.left]
<1>1. /\ run # Idle /\ run.step = "trial" /\ UNCHANGED <<fixture, manifest, diffs, spec, report, runs>>
      /\ run.spec \in Specs /\ IsSequence(run.records) /\ n \in Nat
  BY SequenceFacts DEF RunTrial, Idle, evidence, DerivesInv, EvidenceInv, RunOK
<1>0. PICK tree \in From : \E out \in Score(run.spec.scorer, tree) :
            run' = [run EXCEPT !.step = "diff", !.records = Append(@, R(out))]
  BY Zenon DEF RunTrial
<1>2. PICK out \in Score(run.spec.scorer, tree) :
            run' = [run EXCEPT !.step = "diff", !.records = Append(@, R(out))]
  BY <1>0
<1>3. tree \in Trees
  <2>1. fixture \in Trees
    BY DEF DerivesInv, ShapeOK
  <2>2. t[1] \in run.spec.commands => Work(t[1], fixture) \subseteq Trees
    <3>. HIDE DEF t
    <3>. QED BY <1>1, <2>1, SpecsAssumption
  <2>. QED BY <1>0, <2>1, <2>2
<1>. DEFINE x == R(out)
<1>4. x.artifact \in Trees
  BY <1>1, <1>2, <1>3, ScoreAssumption
<1>. HIDE DEF x, R
<1>5. /\ run'.step = "diff" /\ run'.spec = run.spec /\ run'.hash = run.hash
      /\ run'.steady = run.steady /\ run'.records = Append(run.records, x)
  BY <1>1, <1>2 DEF DerivesInv, EvidenceInv, RunOK, x
<1>6. /\ Len(run'.records) = n + 1
      /\ run'.records[n + 1] = x
      /\ \A k \in 1 .. n : run'.records[k] = run.records[k]
  BY <1>1, <1>5, SequenceFacts
<1>7. ShapeOK'
  BY <1>1 DEF DerivesInv, ShapeOK
<1>8. RestOK'
  BY <1>1 DEF DerivesInv, RestOK, Derives
<1>9. ASSUME run.steady
      PROVE  \A k \in 1 .. Len(run'.records) :
                run'.records[k].artifact \in Trees
  <2>1. \A k \in 1 .. n : run.records[k].artifact \in Trees
    BY <1>1, <1>9 DEF DerivesInv, SteadyOK
  <2>2. ASSUME NEW k \in 1 .. n + 1 PROVE k = n + 1 \/ k \in 1 .. n
    BY <1>1
  <2>. QED BY <1>1, <1>4, <1>5, <1>6, <2>1, <2>2
<1>10. ASSUME run.steady, Readable, NEW j \in DOMAIN manifest, manifest[j].id = runs
       PROVE  Derives(manifest[j])
  BY <1>1, <1>10 DEF DerivesInv, SteadyOK
<1>11. run.steady => fixture = run.hash
  BY <1>1 DEF DerivesInv, SteadyOK
<1>12. SteadyOK'
  BY <1>1, <1>5, <1>9, <1>10, <1>11 DEF SteadyOK, Derives, Readable
<1>. QED BY <1>7, <1>8, <1>12

\* The diff of a trial goes where no line of the run has its own.
LEMMA DiffDerivesStep ==
    ASSUME DerivesInv, RetainDiff
    PROVE  ShapeOK' /\ SteadyOK' /\ RestOK'
<1>. DEFINE n == Len(run.records)
            d == Diff(fixture, Latest.artifact)
<1>1. /\ run # Idle /\ run.step = "diff" /\ UNCHANGED <<fixture, manifest, spec, report, runs>>
      /\ diffs' = [diffs EXCEPT ![Latest.trial] = d]
      /\ run' = [run EXCEPT !.step = "entry", !.missing = Unreproducible(fixture, Latest.artifact)]
  BY DEF RetainDiff, Idle
<1>2. /\ run'.step = "entry" /\ run'.spec = run.spec /\ run'.hash = run.hash
      /\ run'.steady = run.steady /\ run'.records = run.records
      /\ run'.missing = Unreproducible(fixture, Latest.artifact)
  BY <1>1 DEF DerivesInv, EvidenceInv, RunOK
<1>3. Latest' = Latest
  BY <1>2 DEF Latest
<1>4. /\ run.spec \in Specs /\ n \in 1 .. Total(run.spec)
      /\ Latest.trial = Trial(run.spec, n)
  <2>1. IsSequence(run.records) /\ n \in Nat
    BY <1>1, SequenceFacts DEF DerivesInv, EvidenceInv, RunOK
  <2>. QED BY <1>1, <2>1 DEF DerivesInv, EvidenceInv, RunOK, Latest
<1>5. Latest.trial \in TrialIds
  <2>1. Latest.trial \in Trials(run.spec)
    BY <1>4, TrialsCount
  <2>. QED BY <1>4, <2>1 DEF TrialIds
<1>6. diffs'[Latest.trial] = d /\ DOMAIN diffs' = TrialIds
  BY <1>1, <1>5 DEF DerivesInv, ShapeOK
<1>7. ShapeOK'
  BY <1>1, <1>6 DEF DerivesInv, ShapeOK
<1>8. RestOK'
  BY <1>1 DEF DerivesInv, EvidenceInv, ReportOK, RestOK
<1>9. ASSUME run.steady
      PROVE  /\ fixture = run.hash
             /\ \A k \in 1 .. n : run.records[k].artifact \in Trees
             /\ Readable => \A j \in DOMAIN manifest :
                    manifest[j].id = runs => Derives(manifest[j])
  BY <1>1, <1>9 DEF DerivesInv, SteadyOK
<1>10. ASSUME run.steady, Readable, NEW j \in DOMAIN manifest, manifest[j].id = runs
       PROVE  Derives(manifest[j])'
  <2>1. LinesIn(manifest, runs, Latest.trial) = {}
    <3>1. Retained = n - 1
      BY <1>1 DEF Retained
    <3>. QED BY <1>1, <1>4, <1>10, <3>1 DEF DerivesInv, EvidenceInv, RetainedOK
  <2>2. manifest[j].trial # Latest.trial
    BY <1>10, <2>1 DEF LinesIn
  <2>3. Derives(manifest[j])
    BY <1>9, <1>10
  <2>4. diffs'[manifest[j].trial] = diffs[manifest[j].trial]
    BY <1>1, <2>2, <2>3 DEF DerivesInv, ShapeOK, Derives
  <2>. QED BY <1>1, <1>2, <2>3, <2>4 DEF Derives
<1>11. run.steady => /\ diffs'[Latest.trial] = Diff(run.hash, Latest.artifact)
                     /\ run'.missing = Unreproducible(run.hash, Latest.artifact)
  BY <1>2, <1>6, <1>9
<1>12. SteadyOK'
  <2>1. Readable' => Readable
    BY <1>1 DEF Readable
  <2>. QED BY <1>1, <1>2, <1>3, <1>9, <1>10, <1>11, <2>1 DEF SteadyOK
<1>. QED BY <1>7, <1>8, <1>12

\* A new line is the diff and the numbers of the trial that was just retained.
LEMMA EntryDerives ==
    ASSUME DerivesInv, AppendEntry
    PROVE  ShapeOK' /\ SteadyOK' /\ RestOK'
<1>. DEFINE n == Len(run.records)
            spoilt == manifest # <<>> /\ manifest[Len(manifest)].torn
<1>1. /\ run # Idle /\ run.step = "entry" /\ UNCHANGED <<fixture, diffs, spec, report, runs>>
      /\ manifest' = IF spoilt THEN [manifest EXCEPT ![Len(manifest)] = Garbled]
                     ELSE Append(manifest, Entry)
  BY DEF AppendEntry, Idle
<1>2. /\ runs \in Nat /\ runs # 0 /\ report.run # runs /\ IsSequence(manifest)
      /\ DOMAIN manifest = 1 .. Len(manifest) /\ Len(manifest) \in Nat
  <2>1. IsSequence(manifest)
    BY DEF DerivesInv, EvidenceInv, ManifestOK
  <2>. QED BY <1>1, <2>1, SequenceFacts DEF DerivesInv, EvidenceInv, ManifestOK, ReportOK
<1>3. PICK step \in {"judge", "trial"} : run' = [run EXCEPT !.missing = {}, !.step = step]
  BY DEF AppendEntry
<1>4. /\ run'.step \in {"judge", "trial"} /\ run'.spec = run.spec /\ run'.hash = run.hash
      /\ run'.steady = run.steady /\ run'.records = run.records
  BY <1>1, <1>3 DEF DerivesInv, EvidenceInv, RunOK
<1>5. RestOK'
  BY <1>1, <1>2 DEF RestOK
<1>6. /\ run.spec \in Specs /\ n \in 1 .. Total(run.spec)
      /\ Latest.trial = Trial(run.spec, n) /\ Latest = run.records[n]
  <2>1. IsSequence(run.records) /\ n \in Nat
    BY <1>1, SequenceFacts DEF DerivesInv, EvidenceInv, RunOK
  <2>. QED BY <1>1, <2>1 DEF DerivesInv, EvidenceInv, RunOK, Latest
<1>7. Latest.trial \in TrialIds
  <2>1. Latest.trial \in Trials(run.spec)
    BY <1>6, TrialsCount
  <2>. QED BY <1>6, <2>1 DEF TrialIds
<1>8. ASSUME run.steady
      PROVE  /\ fixture = run.hash
             /\ \A k \in 1 .. n : run.records[k].artifact \in Trees
             /\ diffs[Latest.trial] = Diff(run.hash, Latest.artifact)
             /\ run.missing = Unreproducible(run.hash, Latest.artifact)
             /\ Readable => \A j \in DOMAIN manifest :
                    manifest[j].id = runs => Derives(manifest[j])
  BY <1>1, <1>8 DEF DerivesInv, SteadyOK
<1>9. run.steady => Derives(Entry)
  <2>. SUFFICES ASSUME run.steady PROVE Derives(Entry)
    OBVIOUS
  <2>1. Latest.artifact \in Trees
    BY <1>6, <1>8
  <2>2. /\ Entry.fixture = run.hash /\ Entry.artifact = Latest.artifact
        /\ Entry.trial = Latest.trial /\ Entry.unreproducible = run.missing
        /\ Entry.exit = Latest.exit /\ Entry.metrics = Latest.metrics
    BY DEF Entry
  <2>3. run.hash \in Trees
    BY <1>8 DEF DerivesInv, ShapeOK
  <2>. QED BY <1>7, <1>8, <2>1, <2>2, <2>3 DEF Derives
<1>10. Entry.id = runs
  BY DEF Entry
<1>11. CASE spoilt
  <2>. DEFINE i == Len(manifest)
  <2>1. i \in DOMAIN manifest
    BY <1>2, <1>11, SequenceFacts
  <2>. HIDE DEF i
  <2>2. /\ DOMAIN manifest' = DOMAIN manifest /\ manifest'[i] = Garbled
        /\ \A j \in DOMAIN manifest : j # i => manifest'[j] = manifest[j]
    BY <1>1, <1>11, <2>1 DEF i
  <2>3. ~Readable'
    BY <2>1, <2>2 DEF Readable
  <2>4. ShapeOK'
    BY <1>1, <2>2 DEF DerivesInv, ShapeOK
  <2>5. SteadyOK'
    BY <1>1, <1>4, <1>8, <2>3 DEF SteadyOK
  <2>. QED BY <1>5, <2>4, <2>5
<1>12. CASE ~spoilt
  <2>1. manifest' = Append(manifest, Entry)
    BY <1>1, <1>12
  <2>2. /\ DOMAIN manifest' = 1 .. Len(manifest) + 1
        /\ manifest'[Len(manifest) + 1] = Entry
        /\ \A j \in DOMAIN manifest : manifest'[j] = manifest[j]
    BY <1>2, <2>1, SequenceFacts
  <2>3. \A j \in DOMAIN manifest' : j \in DOMAIN manifest \/ manifest'[j] = Entry
    BY <1>2, <2>2
  <2>4. ShapeOK'
    BY <1>1, <1>2, <1>10, <2>2, <2>3 DEF DerivesInv, ShapeOK
  <2>5. ASSUME run.steady, Readable', NEW j \in DOMAIN manifest', manifest'[j].id = runs
        PROVE  Derives(manifest'[j])
    <3>1. Readable
      BY <1>2, <2>2, <2>5 DEF Readable
    <3>. QED BY <1>8, <1>9, <2>2, <2>3, <2>5, <3>1
  <2>6. ASSUME run.steady, Readable', NEW j \in DOMAIN manifest', manifest'[j].id = runs
        PROVE  Derives(manifest[j])'
    BY <1>1, <1>4, <2>5, <2>6 DEF Derives
  <2>7. SteadyOK'
    BY <1>1, <1>4, <1>8, <2>6 DEF SteadyOK
  <2>. QED BY <1>5, <2>4, <2>7
<1>. QED BY <1>11, <1>12

\* What may be published has no line that lacks something.
LEMMA JudgeDerives ==
    ASSUME DerivesInv, Judge
    PROVE  ShapeOK' /\ SteadyOK' /\ RestOK'
<1>1. run # Idle /\ run.step = "judge" /\ UNCHANGED <<fixture, manifest, diffs, spec, report, runs>>
  BY DEF Judge, Idle, evidence
<1>2. ShapeOK' /\ RestOK'
  BY <1>1 DEF DerivesInv, ShapeOK, RestOK, Derives
<1>3. CASE ~Readable
  BY <1>2, <1>3 DEF Judge, SteadyOK
<1>4. CASE Readable
  <2>1. run' = [run EXCEPT !.step = "spec", !.publishable = Publishable(run.spec, run.records)]
    BY <1>4 DEF Judge
  <2>2. /\ run'.step = "spec" /\ run'.spec = run.spec /\ run'.hash = run.hash
        /\ run'.steady = run.steady /\ run'.records = run.records
        /\ run'.publishable = Publishable(run.spec, run.records)
    BY <1>1, <2>1 DEF DerivesInv, EvidenceInv, RunOK
  <2>3. run'.publishable => \A j \in DOMAIN manifest : manifest[j].unreproducible = {}
    BY <2>2 DEF Publishable
  <2>4. SteadyOK'
    BY <1>1, <2>2, <2>3 DEF DerivesInv, SteadyOK, Derives, Readable
  <2>. QED BY <1>2, <2>4
<1>. QED BY <1>3, <1>4

\* The spec that is written is the run's.
LEMMA SpecDerives ==
    ASSUME DerivesInv, WriteSpec
    PROVE  ShapeOK' /\ SteadyOK' /\ RestOK'
<1>1. /\ run # Idle /\ run.step = "spec" /\ UNCHANGED <<fixture, manifest, diffs, report, runs>>
      /\ spec' = run.spec /\ run' = [run EXCEPT !.step = "report"]
  BY DEF WriteSpec, Idle
<1>2. /\ run'.step = "report" /\ run'.spec = run.spec /\ run'.hash = run.hash
      /\ run'.steady = run.steady /\ run'.records = run.records
      /\ run'.publishable = run.publishable
  BY <1>1 DEF DerivesInv, EvidenceInv, RunOK
<1>3. report.run # runs
  BY <1>1 DEF DerivesInv, EvidenceInv, ManifestOK, ReportOK
<1>4. ShapeOK' /\ RestOK'
  BY <1>1, <1>3 DEF DerivesInv, ShapeOK, RestOK
<1>5. SteadyOK'
  BY <1>1, <1>2 DEF DerivesInv, SteadyOK, Derives, Readable
<1>. QED BY <1>4, <1>5

\* A report is published with evidence that derives.
LEMMA ReportDerives ==
    ASSUME DerivesInv, WriteReport
    PROVE  ShapeOK' /\ SteadyOK' /\ RestOK'
<1>1. /\ run # Idle /\ run.step = "report" /\ UNCHANGED <<fixture, manifest, diffs, spec, runs>>
      /\ run' = Idle /\ report'.run = runs /\ report'.spec = run.spec
      /\ report'.publishable = run.publishable /\ report'.steady = run.steady
  BY DEF WriteReport, Idle
<1>2. run.spec \in Specs /\ Readable
  BY <1>1 DEF DerivesInv, EvidenceInv, RunOK, RetainedOK
<1>3. run.steady =>
        /\ spec = run.spec
        /\ \A j \in DOMAIN manifest : manifest[j].id = runs => Derives(manifest[j])
        /\ run.publishable => \A j \in DOMAIN manifest :
            manifest[j].id = runs => manifest[j].unreproducible = {}
  BY <1>1, <1>2 DEF DerivesInv, SteadyOK
<1>4. ShapeOK' /\ SteadyOK'
  BY <1>1 DEF DerivesInv, ShapeOK, SteadyOK
<1>5. RestOK'
  BY <1>1, <1>2, <1>3 DEF RestOK, Derives
<1>. QED BY <1>4, <1>5

\* A run that dies is not the run of the report.
LEMMA DieDerives ==
    ASSUME DerivesInv, Die
    PROVE  ShapeOK' /\ SteadyOK' /\ RestOK'
<1>1. /\ run # Idle /\ run' = Idle /\ UNCHANGED <<fixture, diffs, spec, report, runs>>
      /\ manifest' = manifest \/ manifest' = Append(manifest, Torn)
  BY DEF Die
<1>2. report.run # runs /\ IsSequence(manifest)
  BY <1>1 DEF DerivesInv, EvidenceInv, ManifestOK, ReportOK
<1>3. \A j \in DOMAIN manifest' :
        (j \in DOMAIN manifest /\ manifest'[j] = manifest[j]) \/ manifest'[j] = Torn
  <2>1. \A j \in 1 .. Len(manifest) + 1 : j \in 1 .. Len(manifest) \/ j = Len(manifest) + 1
    BY <1>2, SequenceFacts
  <2>2. CASE manifest' = Append(manifest, Torn)
    <3>1. /\ DOMAIN manifest' = 1 .. Len(manifest) + 1
          /\ manifest'[Len(manifest) + 1] = Torn
          /\ \A j \in DOMAIN manifest : manifest'[j] = manifest[j]
          /\ DOMAIN manifest = 1 .. Len(manifest)
      BY <1>2, <2>2, SequenceFacts
    <3>. QED BY <2>1, <3>1
  <2>. QED BY <1>1, <2>2
<1>4. ShapeOK'
  BY <1>1, <1>3 DEF DerivesInv, ShapeOK
<1>. QED BY <1>1, <1>2, <1>4 DEF SteadyOK, RestOK

\* An edit of the fixture leaves the evidence alone, and a run that it disturbs is
\* not steady any more.
LEMMA EditDerives ==
    ASSUME DerivesInv, Edit
    PROVE  ShapeOK' /\ SteadyOK' /\ RestOK'
<1>1. /\ UNCHANGED <<manifest, diffs, spec, report, runs>>
      /\ run' = IF run = Idle THEN run ELSE [run EXCEPT !.steady = FALSE]
  BY DEF Edit, evidence
<1>2. PICK f \in Files, c \in Edited : fixture' = [fixture EXCEPT ![f] = c]
  BY DEF Edit
<1>3. fixture' \in Trees
  BY <1>2, SpecsAssumption DEF DerivesInv, ShapeOK, Trees
<1>4. ShapeOK' /\ RestOK'
  BY <1>1, <1>3 DEF DerivesInv, ShapeOK, RestOK, Derives
<1>5. SteadyOK'
  <2>1. CASE run = Idle
    BY <1>1, <2>1 DEF SteadyOK
  <2>2. CASE run # Idle
    <3>1. ~run'.steady
      BY <1>1, <2>2 DEF DerivesInv, EvidenceInv, RunOK
    <3>. QED BY <3>1 DEF SteadyOK
  <2>. QED BY <2>1, <2>2
<1>. QED BY <1>4, <1>5

\* A verification settles on the run of the last line, which is a run's if every
\* line can be read.
LEMMA VerifyBeginDerives ==
    ASSUME DerivesInv, VerifyBegin
    PROVE  CheckOK'
<1>. DEFINE target == manifest[Len(manifest)].id
<1>1. /\ UNCHANGED <<fixture, run, manifest, spec, report, runs>>
      /\ manifest # <<>>
  BY DEF VerifyBegin, evidence
<1>2. CASE ~Readable
  <2>1. check'.step = "raised"
    BY <1>2 DEF VerifyBegin
  <2>. QED BY <2>1 DEF CheckOK
<1>3. CASE Readable
  <2>1. check' = [step |-> "load", target |-> target, calm |-> run = Idle, between |-> run = Idle,
                  entries |-> [k \in {j \in DOMAIN manifest : manifest[j].id = target} |-> manifest[k]],
                  spec |-> None, report |-> NoReport, base |-> None, results |-> <<>>]
    BY <1>3 DEF VerifyBegin
  <2>2. Len(manifest) \in DOMAIN manifest
    BY <1>1, SequenceFacts DEF DerivesInv, EvidenceInv, ManifestOK
  <2>3. target # 0
    BY <1>3, <2>2 DEF DerivesInv, ShapeOK, Readable
  <2>. HIDE DEF target
  <2>4. /\ check'.step = "load" /\ check'.target = target /\ check'.results = <<>>
        /\ DOMAIN check' = Fields
        /\ check'.entries = [k \in {j \in DOMAIN manifest : manifest[j].id = target} |-> manifest[k]]
        /\ check'.calm => run = Idle
    BY <2>1 DEF Fields
  <2>5. DOMAIN check'.entries # {}
    BY <2>2, <2>4 DEF target
  <2>. QED BY <1>1, <2>3, <2>4, <2>5 DEF CheckOK
<1>. QED BY <1>2, <1>3

\* It reads spec, report and fixture as they are now.
LEMMA VerifyLoadDerives ==
    ASSUME DerivesInv, VerifyLoad
    PROVE  CheckOK'
<1>1. /\ UNCHANGED <<fixture, run, manifest, spec, report, runs>>
      /\ check.step = "load" /\ DOMAIN check = Fields
  BY DEF VerifyLoad, evidence, DerivesInv, CheckOK
<1>2. CASE spec = None
  <2>1. PICK r : check' = [check EXCEPT !.step = "done", !.report = report, !.results = r]
    BY <1>2, Zenon DEF VerifyLoad
  <2>2. /\ check'.step = "done" /\ check'.calm = check.calm /\ check'.target = check.target
        /\ check'.entries = check.entries /\ check'.report = report
    BY <1>1, <2>1 DEF Fields
  <2>. QED BY <1>1, <1>2, <2>2 DEF DerivesInv, CheckOK
<1>3. CASE spec # None
  <2>1. check' = [check EXCEPT !.step = "replay", !.spec = spec, !.report = report, !.base = fixture]
    BY <1>3 DEF VerifyLoad
  <2>2. /\ DOMAIN check' = Fields
        /\ check'.step = "replay" /\ check'.spec = spec /\ check'.report = report
        /\ check'.base = fixture
        /\ check'.calm = check.calm /\ check'.target = check.target
        /\ check'.entries = check.entries /\ check'.results = check.results
    BY <1>1, <2>1 DEF Fields
  <2>3. DOMAIN <<>> = {}
    OBVIOUS
  <2>4. check.calm =>
            /\ run = Idle /\ check.target # 0
            /\ check.entries = [k \in {j \in DOMAIN manifest : manifest[j].id = check.target} |-> manifest[k]]
            /\ DOMAIN check.results = {} /\ DOMAIN check.entries # {}
    BY <1>1, <2>3 DEF DerivesInv, CheckOK
  <2>. QED BY <1>1, <1>3, <2>2, <2>4 DEF CheckOK
<1>. QED BY <1>2, <1>3

\* Each entry gets the verdict it deserves.
LEMMA VerifyEntryDerives ==
    ASSUME DerivesInv, VerifyEntry
    PROVE  CheckOK'
<1>. DEFINE todo == DOMAIN check.entries \ DOMAIN check.results
            k == Min(todo)
            last == todo = {k}
<1>1. /\ UNCHANGED <<fixture, run, manifest, diffs, spec, report, runs>>
      /\ check.step = "replay" /\ DOMAIN check = Fields
  BY DEF VerifyEntry, evidence, DerivesInv, CheckOK
<1>2. PICK x \in Replayed(check.entries[k]) :
      check' = [check EXCEPT !.results = [j \in DOMAIN @ \cup {k} |-> IF j = k THEN x ELSE @[j]],
                             !.step = IF last THEN "done" ELSE "replay"]
  BY DEF VerifyEntry
<1>3. /\ DOMAIN check' = DOMAIN check /\ check'.step = (IF last THEN "done" ELSE "replay")
      /\ check'.calm = check.calm /\ check'.target = check.target /\ check'.entries = check.entries
      /\ check'.spec = check.spec /\ check'.report = check.report /\ check'.base = check.base
      /\ check'.results =
            [j \in DOMAIN check.results \cup {k} |-> IF j = k THEN x ELSE check.results[j]]
  BY <1>1, <1>2 DEF Fields
<1>4. /\ DOMAIN check'.results = DOMAIN check.results \cup {k} /\ check'.results[k] = x
      /\ \A j \in DOMAIN check.results : j # k => check'.results[j] = check.results[j]
  BY <1>3
<1>5. CASE check.calm
  <2>1. /\ run = Idle /\ check.target # 0
        /\ check.entries = [j \in {i \in DOMAIN manifest : manifest[i].id = check.target} |-> manifest[j]]
        /\ spec # None /\ check.spec = spec /\ check.report = report /\ check.base = fixture
        /\ DOMAIN check.results \subseteq DOMAIN check.entries
        /\ DOMAIN check.results # DOMAIN check.entries
        /\ Confirmable => \A j \in DOMAIN check.results : Confirms(j)
    BY <1>1, <1>5 DEF DerivesInv, CheckOK
  <2>2. k \in todo
    <3>1. DOMAIN check.entries \subseteq DOMAIN manifest
      BY <2>1
    <3>2. DOMAIN manifest \subseteq Nat
      BY SequenceFacts DEF DerivesInv, EvidenceInv, ManifestOK
    <3>3. todo \in SUBSET Nat /\ todo # {}
      BY <2>1, <3>1, <3>2
    <3>. HIDE DEF todo
    <3>. QED BY <3>3, MinFacts
  <2>. HIDE DEF k
  <2>3. k \in DOMAIN manifest /\ manifest[k].id = check.target /\ check.entries[k] = manifest[k]
    BY <2>1, <2>2
  <2>4. ASSUME Confirmable
        PROVE  IF check.base # manifest[k].fixture THEN x.verdict = "drift"
               ELSE ~Lossy(manifest[k]) /\ Repeats(manifest[k]) => x.verdict = "ok"
    <3>1. Derives(manifest[k]) /\ manifest[k].unreproducible = {}
      BY <2>1, <2>3, <2>4 DEF DerivesInv, RestOK, Confirmable
    <3>2. x \in Replayed(manifest[k])
      BY <1>2, <2>3
    <3>. QED BY <2>1, <3>1, <3>2, ReplayDerives
  <2>5. Confirmable' => Confirmable
    BY <1>1, <1>3 DEF Confirmable
  <2>6. ASSUME Confirmable, NEW j \in DOMAIN check'.results
        PROVE  Confirms(j)'
    <3>1. CASE j = k
      BY <1>3, <1>4, <2>3, <2>4, <2>6, <3>1 DEF Confirms, Lossy, Repeats
    <3>2. CASE j # k
      <4>1. Confirms(j)
        BY <1>4, <2>1, <2>6, <3>2
      <4>. QED BY <1>3, <1>4, <2>6, <3>2, <4>1 DEF Confirms, Lossy, Repeats
    <3>. QED BY <3>1, <3>2
  <2>7. last => DOMAIN check'.results = DOMAIN check.entries
    BY <1>4, <2>1, <2>2
  <2>8. ~last => DOMAIN check'.results # DOMAIN check.entries
    BY <1>4, <2>2
  <2>9. DOMAIN check'.results \subseteq DOMAIN check.entries
    BY <1>4, <2>1, <2>2
  <2>. HIDE DEF last
  <2>. QED BY <1>1, <1>3, <2>1, <2>5, <2>6, <2>7, <2>8, <2>9 DEF CheckOK
<1>6. CASE ~check.calm
  BY <1>1, <1>3, <1>6 DEF CheckOK
<1>. QED BY <1>5, <1>6

\* The invariant is inductive.
LEMMA NextDerives == DerivesInv /\ [Next]_vars => DerivesInv'
<1>. SUFFICES ASSUME DerivesInv, [Next]_vars PROVE DerivesInv'
  OBVIOUS
<1>1. EvidenceInv'
  BY NextEvidence DEF DerivesInv
<1>2. Disturbs => CheckOK'
  BY DisturbedCheck DEF DerivesInv
<1>3. ASSUME NEW s \in Specs, Begin(s) PROVE DerivesInv'
  <2>1. Disturbs
    BY <1>3 DEF Begin
  <2>. QED BY <1>1, <1>2, <1>3, <2>1, BeginDerives DEF DerivesInv
<1>4. CASE RunTrial
  <2>1. Disturbs
    BY <1>4 DEF RunTrial
  <2>. QED BY <1>1, <1>2, <1>4, <2>1, TrialDerives DEF DerivesInv
<1>5. CASE RetainDiff
  <2>1. Disturbs
    BY <1>5 DEF RetainDiff
  <2>. QED BY <1>1, <1>2, <1>5, <2>1, DiffDerivesStep DEF DerivesInv
<1>6. CASE AppendEntry
  <2>1. Disturbs
    BY <1>6 DEF AppendEntry
  <2>. QED BY <1>1, <1>2, <1>6, <2>1, EntryDerives DEF DerivesInv
<1>7. CASE Judge
  <2>1. Disturbs
    BY <1>7 DEF Judge
  <2>. QED BY <1>1, <1>2, <1>7, <2>1, JudgeDerives DEF DerivesInv
<1>8. CASE WriteSpec
  <2>1. Disturbs
    BY <1>8 DEF WriteSpec
  <2>. QED BY <1>1, <1>2, <1>8, <2>1, SpecDerives DEF DerivesInv
<1>9. CASE WriteReport
  <2>1. Disturbs
    BY <1>9 DEF WriteReport
  <2>. QED BY <1>1, <1>2, <1>9, <2>1, ReportDerives DEF DerivesInv
<1>10. CASE Die
  <2>1. Disturbs
    BY <1>10 DEF Die
  <2>. QED BY <1>1, <1>2, <1>10, <2>1, DieDerives DEF DerivesInv
<1>11. CASE Edit
  <2>1. Disturbs
    BY <1>11 DEF Edit
  <2>. QED BY <1>1, <1>2, <1>11, <2>1, EditDerives DEF DerivesInv
<1>12. ASSUME VerifyBegin \/ VerifyLoad \/ VerifyEntry PROVE DerivesInv'
  <2>1. UNCHANGED <<fixture, run, manifest, diffs, spec, report, runs>>
    BY <1>12 DEF VerifyBegin, VerifyLoad, VerifyEntry, evidence
  <2>2. ShapeOK' /\ SteadyOK' /\ RestOK'
    BY <2>1 DEF DerivesInv, ShapeOK, SteadyOK, RestOK, Derives, Readable, Latest
  <2>. QED BY <1>1, <1>12, <2>2, VerifyBeginDerives, VerifyLoadDerives, VerifyEntryDerives
       DEF DerivesInv
<1>13. ASSUME UNCHANGED vars PROVE DerivesInv'
  <2>1. UNCHANGED <<fixture, run, manifest, diffs, spec, report, runs, check>>
    BY <1>13 DEF vars, evidence
  <2>2. ShapeOK' /\ SteadyOK' /\ RestOK'
    BY <2>1 DEF DerivesInv, ShapeOK, SteadyOK, RestOK, Derives, Readable, Latest
  <2>3. CheckOK'
    <3>1. ASSUME NEW k PROVE Confirms(k)' <=> Confirms(k)
      BY <2>1 DEF Confirms, Repeats, Lossy
    <3>2. Confirmable' <=> Confirmable
      BY <2>1 DEF Confirmable
    <3>. QED BY <2>1, <3>1, <3>2 DEF DerivesInv, CheckOK
  <2>. QED BY <1>1, <2>2, <2>3 DEF DerivesInv
<1>. QED BY <1>3, <1>4, <1>5, <1>6, <1>7, <1>8, <1>9, <1>10, <1>11, <1>12, <1>13 DEF Next

\* The evidence of a publishable run, as long as nothing was edited during it, gives
\* its numbers again: a verification that nothing disturbs (verify_evidence) says that
\* the fixture moved, or confirms each entry whose diff could hold the change and whose
\* scorer repeats itself on what it left; for any agents, scorers and trees, whichever
\* runs came before, died or tore a line.
THEOREM PublishedAlwaysRederives == Spec => []PublishedRederives
<1>1. DerivesInv => PublishedRederives
  <2>. SUFFICES ASSUME DerivesInv, OnReport, check.calm, check.report.publishable,
                       check.report.steady, runs = check.target,
                       NEW k \in DOMAIN check.entries
                PROVE  Confirms(k)
    BY DEF PublishedRederives, Confirms
  <2>1. /\ check.step = "done" /\ check.target = check.report.run
        /\ check.report = report /\ check.target # 0
    BY DEF OnReport, DerivesInv, CheckOK
  <2>2. Confirmable
    BY <2>1 DEF Confirmable
  <2>3. spec \in Specs
    BY <2>1 DEF DerivesInv, RestOK
  <2>4. spec # None
    BY <2>3, SpecsAssumption
  <2>5. k \in DOMAIN check.results /\ Confirms(k)
    BY <2>1, <2>2, <2>4 DEF DerivesInv, CheckOK
  <2>. QED BY <2>5
<1>2. Spec => []DerivesInv
  BY InitDerives, NextDerives, PTL DEF Spec
<1>. QED BY <1>1, <1>2, PTL
----------------------------------------------------------------------------
(* Types.                                                                  *)

TypesInv == EvidenceInv /\ CheckOK /\ TypeOK

\* Metrics hold the exit code's, whatever the scorer prints.
LEMMA MetricsType ==
    ASSUME NEW s \in Specs, NEW tree \in Trees, NEW out \in Score(s.scorer, tree)
    PROVE  /\ out.exit \in Nat /\ out.left \in Trees
           /\ Metrics(out) \in MetricSets /\ "success" \in DOMAIN Metrics(out)
<1>1. "success" \in DOMAIN Metrics(out)
  BY DEF Metrics
<1>. QED BY <1>1, ScoreAssumption

\* Nothing is on disk at first.
LEMMA InitTypes == Init => TypeOK
<1>. SUFFICES ASSUME Init PROVE TypeOK
  OBVIOUS
<1>1. /\ fixture \in Trees /\ run = Idle /\ manifest = <<>> /\ diffs = [t \in TrialIds |-> None]
      /\ spec = None /\ runs = 0 /\ edits = 0 /\ checks = 0 /\ check = Idle
  BY SpecsAssumption DEF Init
<1>2. 0 \in 0 .. MaxRuns /\ 0 \in 0 .. MaxEdits /\ 0 \in 0 .. MaxChecks
  BY SpecsAssumption
<1>3. check.step = "idle"
  BY <1>1 DEF Idle
<1>. QED BY <1>1, <1>2, <1>3 DEF TypeOK

\* The steps of a run keep the types.
LEMMA RunTypes ==
    ASSUME TypesInv, CheckOK', RunTrial \/ RetainDiff \/ AppendEntry
    PROVE  TypeOK'
<1>. DEFINE n == Len(run.records)
<1>0. check'.step \in {"idle", "load", "replay", "done", "raised"}
  BY DEF CheckOK
<1>1. /\ run # Idle /\ UNCHANGED <<fixture, spec, runs, edits, checks>>
  <2>1. RunTrial => run.step = "trial" /\ UNCHANGED <<fixture, spec, runs, edits, checks>>
    BY DEF RunTrial, evidence, bounds
  <2>2. RetainDiff => run.step = "diff" /\ UNCHANGED <<fixture, spec, runs, edits, checks>>
    BY DEF RetainDiff, bounds
  <2>3. AppendEntry => run.step = "entry" /\ UNCHANGED <<fixture, spec, runs, edits, checks>>
    BY DEF AppendEntry, bounds
  <2>4. Idle.step = "idle"
    BY DEF Idle
  <2>. QED BY <2>1, <2>2, <2>3, <2>4
<1>2. /\ DOMAIN run = {"step", "spec", "hash", "records", "missing", "publishable", "steady"}
      /\ run.spec \in Specs /\ run.hash \in Trees /\ fixture \in Trees
      /\ IsSequence(run.records) /\ n \in Nat /\ DOMAIN run.records = 1 .. n
      /\ \A k \in DOMAIN run.records : IsRecord(run.records[k])
  BY <1>1, SequenceFacts DEF TypesInv, EvidenceInv, RunOK, TypeOK
<1>3. CASE RunTrial
  <2>. DEFINE t == Trial(run.spec, n + 1)
              From == IF t[1] \in run.spec.commands THEN Work(t[1], fixture) ELSE {fixture}
              R(out) == [trial |-> t, exit |-> out.exit, metrics |-> Metrics(out), artifact |-> out.left]
  <2>0. PICK tree \in From : \E out \in Score(run.spec.scorer, tree) :
            run' = [run EXCEPT !.step = "diff", !.records = Append(@, R(out))]
    BY <1>3, Zenon DEF RunTrial
  <2>1. PICK out \in Score(run.spec.scorer, tree) :
            run' = [run EXCEPT !.step = "diff", !.records = Append(@, R(out))]
    BY <2>0
  <2>2. tree \in Trees
    <3>1. t[1] \in run.spec.commands => Work(t[1], fixture) \subseteq Trees
      <4>. HIDE DEF t
      <4>. QED BY <1>2, SpecsAssumption
    <3>. QED BY <1>2, <2>0, <3>1
  <2>3. t \in TrialIds
    <3>1. n + 1 \in 1 .. Total(run.spec)
      <4>1. run.step = "trial"
        BY <1>3 DEF RunTrial
      <4>. QED BY <1>1, <1>2, <4>1, SpecFacts DEF TypesInv, EvidenceInv, RunOK
    <3>2. t \in Trials(run.spec)
      BY <1>2, <3>1, TrialsCount
    <3>. QED BY <1>2, <3>2 DEF TrialIds
  <2>. DEFINE x == R(out)
  <2>4. IsRecord(x)
    <3>. HIDE DEF t
    <3>. QED BY <1>2, <2>1, <2>2, <2>3, MetricsType DEF IsRecord
  <2>. HIDE DEF x, R
  <2>5. /\ run'.step = "diff" /\ run'.spec = run.spec /\ run'.hash = run.hash
        /\ run'.records = Append(run.records, x)
    BY <1>2, <2>1 DEF x
  <2>6. \A k \in DOMAIN run'.records : IsRecord(run'.records[k])
    <3>1. /\ DOMAIN run'.records = 1 .. n + 1 /\ run'.records[n + 1] = x
          /\ \A k \in 1 .. n : run'.records[k] = run.records[k]
      BY <1>2, <2>5, SequenceFacts
    <3>2. \A k \in 1 .. n + 1 : k \in 1 .. n \/ k = n + 1
      BY <1>2
    <3>. QED BY <1>2, <2>4, <3>1, <3>2
  <2>7. UNCHANGED <<manifest, diffs>>
    BY <1>3 DEF RunTrial, evidence
  <2>. QED BY <1>0, <1>1, <1>2, <2>5, <2>6, <2>7 DEF TypesInv, TypeOK
<1>4. CASE RetainDiff
  <2>. DEFINE d == Diff(fixture, Latest.artifact)
  <2>1. /\ diffs' = [diffs EXCEPT ![Latest.trial] = d] /\ manifest' = manifest
    BY <1>4 DEF RetainDiff
  <2>2. PICK y : run' = [run EXCEPT !.step = "entry", !.missing = y]
    BY <1>4 DEF RetainDiff
  <2>3. /\ run'.step = "entry" /\ run'.spec = run.spec /\ run'.hash = run.hash
        /\ run'.records = run.records
    BY <1>2, <2>2
  <2>4. \A f \in DOMAIN d : f \in Files /\ d[f].old # d[f].new
    BY DEF Diff, SameLines
  <2>. HIDE DEF d
  <2>5. \A t \in TrialIds : diffs'[t] = diffs[t] \/ diffs'[t] = d
    <3>1. DOMAIN diffs' = DOMAIN diffs /\ \A t \in DOMAIN diffs : diffs'[t] = diffs[t] \/ diffs'[t] = d
      BY <2>1
    <3>2. ASSUME NEW t, t \notin DOMAIN diffs PROVE diffs'[t] = diffs[t] \/ diffs'[t] = d
      BY <2>1, <3>2
    <3>. QED BY <3>1, <3>2
  <2>6. \A t \in TrialIds : diffs'[t] = None
                \/ \A f \in DOMAIN diffs'[t] : f \in Files /\ diffs'[t][f].old # diffs'[t][f].new
    BY <2>4, <2>5 DEF TypesInv, TypeOK
  <2>. QED BY <1>0, <1>1, <1>2, <2>1, <2>3, <2>6 DEF TypesInv, TypeOK
<1>5. CASE AppendEntry
  <2>1. PICK step \in {"judge", "trial"} : run' = [run EXCEPT !.missing = {}, !.step = step]
    BY <1>5 DEF AppendEntry
  <2>2. /\ run'.step \in {"judge", "trial"} /\ run'.spec = run.spec /\ run'.hash = run.hash
        /\ run'.records = run.records
    BY <1>2, <2>1
  <2>3. IsRecord(Entry)
    <3>1. run.step = "entry"
      BY <1>5 DEF AppendEntry
    <3>2. n \in DOMAIN run.records
      BY <1>1, <1>2, <3>1 DEF TypesInv, EvidenceInv, RunOK
    <3>3. IsRecord(Latest)
      BY <1>2, <3>2 DEF Latest
    <3>. QED BY <3>3 DEF IsRecord, Entry
  <2>4. IsSequence(manifest) /\ Len(manifest) \in Nat /\ DOMAIN manifest = 1 .. Len(manifest)
    BY SequenceFacts DEF TypesInv, EvidenceInv, ManifestOK
  <2>5. \A k \in DOMAIN manifest' : manifest'[k] \in {Torn, Garbled} \/ IsRecord(manifest'[k])
    <3>1. CASE manifest' = [manifest EXCEPT ![Len(manifest)] = Garbled]
      <4>1. DOMAIN manifest' = DOMAIN manifest
            /\ \A k \in DOMAIN manifest : manifest'[k] = manifest[k] \/ manifest'[k] = Garbled
        BY <3>1
      <4>. QED BY <4>1 DEF TypesInv, TypeOK
    <3>2. CASE manifest' = Append(manifest, Entry)
      <4>1. /\ DOMAIN manifest' = 1 .. Len(manifest) + 1
            /\ manifest'[Len(manifest) + 1] = Entry
            /\ \A k \in DOMAIN manifest : manifest'[k] = manifest[k]
        BY <2>4, <3>2, SequenceFacts
      <4>2. \A k \in DOMAIN manifest' : k \in DOMAIN manifest \/ manifest'[k] = Entry
        BY <2>4, <4>1
      <4>. QED BY <2>3, <4>1, <4>2 DEF TypesInv, TypeOK
    <3>. QED BY <1>5, <3>1, <3>2 DEF AppendEntry
  <2>6. diffs' = diffs
    BY <1>5 DEF AppendEntry
  <2>. QED BY <1>0, <1>1, <1>2, <2>2, <2>5, <2>6 DEF TypesInv, TypeOK
<1>. QED BY <1>3, <1>4, <1>5

\* Other steps of a run make nothing of a new kind.
LEMMA OtherTypes ==
    ASSUME TypesInv, CheckOK', Next,
           ~(RunTrial \/ RetainDiff \/ AppendEntry)
    PROVE  TypeOK'
<1>0. check'.step \in {"idle", "load", "replay", "done", "raised"}
  BY DEF CheckOK
<1>1. ASSUME NEW s \in Specs, Begin(s) PROVE TypeOK'
  <2>1. /\ UNCHANGED <<fixture, manifest, diffs, spec, edits, checks>> /\ runs' = runs + 1
        /\ runs < MaxRuns /\ run'.step = "trial" /\ run'.spec = s /\ run'.hash = fixture
        /\ run'.records = <<>>
    BY <1>1 DEF Begin, evidence, bounds
  <2>2. runs' \in 0 .. MaxRuns
    BY <2>1, SpecsAssumption DEF TypesInv, TypeOK
  <2>. QED BY <1>0, <2>1, <2>2 DEF TypesInv, TypeOK
<1>2. CASE Judge \/ WriteSpec \/ WriteReport
  <2>1. /\ UNCHANGED <<fixture, manifest, diffs, runs, edits, checks>> /\ run # Idle
        /\ spec' \in {spec, run.spec}
    BY <1>2 DEF Judge, WriteSpec, WriteReport, evidence, bounds, Idle
  <2>2. run' = Idle \/ \E step \in {"spec", "report"} :
            (\E y : run' = [run EXCEPT !.step = step, !.publishable = y]) \/ run' = [run EXCEPT !.step = step]
    BY <1>2 DEF Judge, WriteSpec, WriteReport
  <2>3. DOMAIN run = {"step", "spec", "hash", "records", "missing", "publishable", "steady"}
    BY <2>1 DEF TypesInv, EvidenceInv, RunOK
  <2>4. run' = Idle \/ (/\ run'.step \in {"spec", "report"} /\ run'.spec = run.spec
                        /\ run'.hash = run.hash /\ run'.records = run.records)
    BY <2>2, <2>3
  <2>5. run.spec \in Specs /\ spec' \in Specs \cup {None}
    BY <2>1 DEF TypesInv, TypeOK
  <2>. QED BY <1>0, <2>1, <2>4, <2>5 DEF TypesInv, TypeOK
<1>3. CASE Die
  <2>1. UNCHANGED <<fixture, diffs, spec, runs, edits, checks>> /\ run' = Idle
    BY <1>3 DEF Die, bounds
  <2>2. IsSequence(manifest) /\ Len(manifest) \in Nat /\ DOMAIN manifest = 1 .. Len(manifest)
    BY SequenceFacts DEF TypesInv, EvidenceInv, ManifestOK
  <2>3. \A k \in DOMAIN manifest' : manifest'[k] \in {Torn, Garbled} \/ IsRecord(manifest'[k])
    <3>1. CASE manifest' = manifest
      BY <3>1 DEF TypesInv, TypeOK
    <3>2. CASE manifest' = Append(manifest, Torn)
      <4>1. /\ DOMAIN manifest' = 1 .. Len(manifest) + 1
            /\ manifest'[Len(manifest) + 1] = Torn
            /\ \A k \in DOMAIN manifest : manifest'[k] = manifest[k]
        BY <2>2, <3>2, SequenceFacts
      <4>2. \A k \in DOMAIN manifest' : k \in DOMAIN manifest \/ manifest'[k] = Torn
        BY <2>2, <4>1
      <4>. QED BY <4>1, <4>2 DEF TypesInv, TypeOK
    <3>. QED BY <1>3, <3>1, <3>2 DEF Die
  <2>. QED BY <1>0, <2>1, <2>3 DEF TypesInv, TypeOK
<1>4. CASE Edit
  <2>1. /\ UNCHANGED <<manifest, diffs, spec, runs, checks>> /\ edits' = edits + 1 /\ edits < MaxEdits
        /\ run' = IF run = Idle THEN run ELSE [run EXCEPT !.steady = FALSE]
    BY <1>4 DEF Edit, evidence
  <2>2. PICK f \in Files, c \in Edited : fixture' = [fixture EXCEPT ![f] = c]
    BY <1>4 DEF Edit
  <2>3. fixture' \in Trees
    BY <2>2, SpecsAssumption DEF TypesInv, TypeOK, Trees
  <2>4. edits' \in 0 .. MaxEdits
    BY <2>1, SpecsAssumption DEF TypesInv, TypeOK
  <2>5. run' = Idle \/ (/\ run # Idle /\ run'.step = run.step /\ run'.spec = run.spec
                        /\ run'.hash = run.hash /\ run'.records = run.records)
    BY <2>1 DEF TypesInv, EvidenceInv, RunOK
  <2>. QED BY <1>0, <2>1, <2>3, <2>4, <2>5 DEF TypesInv, TypeOK
<1>5. CASE VerifyBegin \/ VerifyLoad \/ VerifyEntry
  <2>1. /\ UNCHANGED <<fixture, run, manifest, diffs, spec, runs, edits>>
        /\ checks' = checks \/ (checks' = checks + 1 /\ checks < MaxChecks)
    BY <1>5 DEF VerifyBegin, VerifyLoad, VerifyEntry, evidence, bounds
  <2>2. checks' \in 0 .. MaxChecks
    BY <2>1, SpecsAssumption DEF TypesInv, TypeOK
  <2>. QED BY <1>0, <2>1, <2>2 DEF TypesInv, TypeOK
<1>. QED BY <1>1, <1>2, <1>3, <1>4, <1>5 DEF Next

\* The types are kept.
LEMMA TypesStep == DerivesInv /\ TypeOK /\ [Next]_vars => TypeOK'
<1>. SUFFICES ASSUME DerivesInv, TypeOK, [Next]_vars PROVE TypeOK'
  OBVIOUS
<1>1. TypesInv /\ CheckOK'
  BY NextDerives DEF TypesInv, DerivesInv
<1>2. CASE UNCHANGED vars
  BY <1>2 DEF vars, evidence, bounds, TypeOK
<1>3. CASE Next
  BY <1>1, <1>3, RunTypes, OtherTypes
<1>. QED BY <1>2, <1>3

\* Every record and every line of the manifest is of a trial of a spec, with the
\* numbers a scorer can print (run_trials, parse_metrics), and a diff holds changes
\* only (tree_diff).
THEOREM TrialTypes == Spec => []TypeOK
<1>1. Init => DerivesInv /\ TypeOK
  BY InitTypes, InitDerives
<1>. QED BY <1>1, NextDerives, TypesStep, PTL DEF Spec
----------------------------------------------------------------------------
(* Differences.                                                            *)

\* What a publishable report is made from: each trial reports each metric of the
\* spec, and no noise floor is a single value.
Conclusive(s, records) ==
    /\ s \in Specs /\ IsSequence(records)
    /\ \A k \in DOMAIN records : IsRecord(records[k]) /\ s.keys \subseteq DOMAIN records[k].metrics
    /\ ~Degenerate(s, records)

ConclusiveOK ==
    /\ run # Idle /\ run.step \in {"spec", "report"} /\ run.publishable =>
        Conclusive(run.spec, run.records)
    /\ report.publishable =>
        /\ Conclusive(report.spec, report.trials)
        /\ report.comparisons = Comparisons(report.spec, report.trials)

\* The mean of numbers is not beyond all of them.
LEMMA SumBounds ==
    ASSUME NEW S, IsFiniteSet(S), NEW f, NEW lo \in Nat, NEW hi \in Nat,
           \A x \in S : f[x] \in Nat
    PROVE  /\ (\A x \in S : f[x] >= lo) => SumOver(f, S) >= Cardinality(S) * lo
           /\ (\A x \in S : f[x] <= hi) => SumOver(f, S) <= Cardinality(S) * hi
<1>. DEFINE P(s) == /\ (\A x \in s : f[x] >= lo) => SumOver(f, s) >= Cardinality(s) * lo
                    /\ (\A x \in s : f[x] <= hi) => SumOver(f, s) <= Cardinality(s) * hi
            T == {s \in SUBSET S : ~P(s)}
<1>1. ASSUME T # {} PROVE FALSE
  <2>1. T \in SUBSET SUBSET S
    OBVIOUS
  <2>2. PICK X \in T : \A Y \in T : Y \subseteq X => Y = X
    <3>. HIDE DEF T
    <3>. QED BY <1>1, <2>1, MinimalSubset
  <2>3. IsFiniteSet(X) /\ \A x \in X : f[x] \in Nat
    BY <2>2, FS_Subset
  <2>4. CASE X = {}
    <3>1. SumOver(f, X) = 0 /\ Cardinality(X) = 0
      BY <2>3, <2>4, SumStep, FS_EmptySet
    <3>. QED BY <2>2, <3>1
  <2>5. CASE X # {}
    <3>1. PICK z \in X : TRUE
      BY <2>5
    <3>. DEFINE U == X \ {z}
                m == Cardinality(U)
    <3>2. P(U)
      <4>1. U \in SUBSET S /\ U \subseteq X /\ U # X
        BY <2>2, <3>1
      <4>. HIDE DEF P, U
      <4>. QED BY <2>2, <4>1
    <3>3. IsFiniteSet(U) /\ m \in Nat /\ Cardinality(X) = m + 1
      <4>1. IsFiniteSet(U) /\ Cardinality(U) = Cardinality(X) - 1
        BY <2>3, <3>1, FS_RemoveElement
      <4>2. Cardinality(X) \in Nat
        BY <2>3, FS_CardinalityType
      <4>3. Cardinality(U) \in Nat
        <5>. HIDE DEF U
        <5>. QED BY <4>1, FS_CardinalityType
      <4>. QED BY <4>1, <4>2, <4>3
    <3>4. SumOver(f, X) = f[z] + SumOver(f, U)
      BY <2>3, <3>1, SumRemove
    <3>5. SumOver(f, U) \in Nat /\ f[z] \in Nat
      BY <2>3, <3>1, <3>3, SumStep
    <3>6. (\A x \in X : f[x] >= lo) => f[z] >= lo /\ SumOver(f, U) >= m * lo
      BY <3>1, <3>2
    <3>7. (\A x \in X : f[x] <= hi) => f[z] <= hi /\ SumOver(f, U) <= m * hi
      BY <3>1, <3>2
    <3>8. (m + 1) * lo = m * lo + lo /\ (m + 1) * hi = m * hi + hi
          /\ m * lo \in Nat /\ m * hi \in Nat
      <4>. HIDE DEF m
      <4>1. m \in Nat
        BY <3>3
      <4>2. \A a, b \in Nat : (a + 1) * b = a * b + b /\ a * b \in Nat
        OBVIOUS
      <4>. QED BY <4>1, <4>2
    <3>. HIDE DEF U, m
    <3>9. (\A x \in X : f[x] >= lo) => SumOver(f, X) >= Cardinality(X) * lo
      BY <3>3, <3>4, <3>5, <3>6, <3>8
    <3>10. (\A x \in X : f[x] <= hi) => SumOver(f, X) <= Cardinality(X) * hi
      BY <3>3, <3>4, <3>5, <3>7, <3>8
    <3>. QED BY <2>2, <3>9, <3>10
  <2>. QED BY <2>4, <2>5
<1>. QED BY <1>1

\* A finite set of numbers has a greatest one.
LEMMA GreatestFacts ==
    ASSUME NEW S, IsFiniteSet(S), S \subseteq Nat, S # {}
    PROVE  Max(S) \in S /\ \A y \in S : Max(S) >= y
<1>. DEFINE B(s) == \E n \in Nat : \A y \in s : y <= n
            T == {s \in SUBSET S : ~B(s)}
<1>1. ASSUME T # {} PROVE FALSE
  <2>1. T \in SUBSET SUBSET S
    OBVIOUS
  <2>2. PICK X \in T : \A Y \in T : Y \subseteq X => Y = X
    <3>. HIDE DEF T
    <3>. QED BY ONLY IsFiniteSet(S), <1>1, <2>1, MinimalSubset
  <2>3. X # {}
    BY <2>2
  <2>4. PICK z \in X : TRUE
    BY <2>3
  <2>5. B(X \ {z})
    <3>1. X \ {z} \in SUBSET S /\ X \ {z} \subseteq X /\ X \ {z} # X
      BY <2>2, <2>4
    <3>. HIDE DEF B
    <3>. QED BY <2>2, <3>1
  <2>6. PICK n \in Nat : \A y \in X \ {z} : y <= n
    BY <2>5
  <2>7. z \in Nat /\ X \subseteq Nat
    BY <2>2, <2>4
  <2>8. \A y \in X : y <= n + z
    BY <2>6, <2>7
  <2>9. n + z \in Nat
    BY <2>7
  <2>10. B(X)
    BY <2>8, <2>9
  <2>. QED BY <2>2, <2>10
<1>2. B(S)
  <2>. HIDE DEF B
  <2>. QED BY <1>1
<1>3. PICK n \in Nat : S \in SUBSET (0 .. n)
  BY <1>2
<1>. QED BY <1>3, MaxFacts

\* What a metric measures is a number, or a NaN.
LEMMA MetricsAreNumbers ==
    ASSUME NEW x \in MetricSets, NEW m \in DOMAIN x
    PROVE  x[m] \in Nat \cup {NaN}
<1>1. PICK K \in SUBSET Keys : x \in [K -> Values]
  BY DEF MetricSets
<1>2. x[m] \in Values
  BY <1>1
<1>. QED BY <1>2, SpecsAssumption

\* The trials within differ, and one of the others lies beyond them all.
IsReal(r, key, within, others) ==
    /\ \E j, k \in within : r[j].metrics[key] # r[k].metrics[key]
    /\ \/ \E k \in others : \A j \in within : r[k].metrics[key] > r[j].metrics[key]
       \/ \E k \in others : \A j \in within : r[k].metrics[key] < r[j].metrics[key]

\* A difference that is called real is one of the data.
LEMMA RealDifference ==
    ASSUME NEW s, NEW r, Conclusive(s, r), NEW p \in DOMAIN Comparisons(s, r),
           Comparisons(s, r)[p] = "likely_real_difference",
           NEW within,
           within = {k \in DOMAIN r : r[k].trial[1] = Baseline(s) /\ r[k].metrics[p[2]] # NaN},
           NEW others,
           others = {k \in DOMAIN r : r[k].trial[1] = p[1] /\ r[k].metrics[p[2]] # NaN}
    PROVE  IsReal(r, p[2], within, others)
<1>. DEFINE key == p[2]
            base == Reporting(r, Baseline(s), key)
            rep == Reporting(r, p[1], key)
            w == [k \in rep |-> r[k].metrics[key]]
            v == [k \in others |-> r[k].metrics[key]]
            floor == Floor(r, Baseline(s), key)
            sum == SumOver(v, others)
<1>1. p \in Compared(s) \X s.keys /\ Comparisons(s, r)[p] = Compare(r, Baseline(s), p[1], p[2])
  BY DEF Comparisons
<1>2. \A k \in DOMAIN r : key \in DOMAIN r[k].metrics /\ r[k].metrics[key] \in Nat \cup {NaN}
  <2>1. key \in s.keys
    BY <1>1
  <2>2. \A m \in MetricSets : \A x \in DOMAIN m : m[x] \in Nat \cup {NaN}
    BY MetricsAreNumbers
  <2>3. \A k \in DOMAIN r : r[k].metrics \in MetricSets /\ key \in DOMAIN r[k].metrics
    BY <2>1 DEF Conclusive, IsRecord
  <2>. QED BY <2>2, <2>3
<1>3. /\ base = {k \in DOMAIN r : r[k].trial[1] = Baseline(s)}
      /\ rep = {k \in DOMAIN r : r[k].trial[1] = p[1]}
  BY <1>2 DEF Reporting
<1>4. IsFiniteSet(base) /\ IsFiniteSet(within) /\ IsFiniteSet(others) /\ base \subseteq Nat
  <2>1. Len(r) \in Nat /\ DOMAIN r = 1 .. Len(r)
    BY SequenceFacts DEF Conclusive
  <2>2. IsFiniteSet(DOMAIN r) /\ DOMAIN r \subseteq Nat
    BY <2>1, FS_Interval
  <2>3. base \subseteq DOMAIN r /\ within \subseteq DOMAIN r /\ others \subseteq DOMAIN r
    BY <1>3
  <2>. HIDE DEF base
  <2>. QED BY <2>2, <2>3, FS_Subset
<1>5. floor = {r[k].metrics[key] : k \in within} /\ floor \in SUBSET Nat
  <2>1. floor = {r[k].metrics[key] : k \in base} \ {NaN}
    BY DEF Floor
  <2>2. within = {k \in base : r[k].metrics[key] # NaN}
    BY <1>3
  <2>3. \A k \in base : r[k].metrics[key] \in Nat \cup {NaN}
    BY <1>2, <1>3
  <2>. HIDE DEF floor, base, key
  <2>. QED BY <2>1, <2>2, <2>3
<1>6. /\ ~(Cardinality(base) < 2) /\ others = rep /\ others # {}
      /\ ~NoFloor(r, Baseline(s), key)
      /\ sum < Cardinality(others) * Min(floor) \/ sum > Cardinality(others) * Max(floor)
  <2>1. Compare(r, Baseline(s), p[1], key) = "likely_real_difference"
    BY <1>1
  <2>2. /\ ~(Cardinality(base) < 2) /\ rep # {}
        /\ ~NoFloor(r, Baseline(s), key) /\ ~(\E k \in rep : w[k] = NaN)
        /\ \/ SumOver(w, rep) < Cardinality(rep) * Min(floor)
           \/ SumOver(w, rep) > Cardinality(rep) * Max(floor)
    <3>. HIDE DEF key
    <3>. QED BY <2>1, Zenon DEF Compare, SumOver
  <2>3. rep = others
    <3>1. \A k \in rep : r[k].metrics[key] # NaN
      BY <2>2
    <3>. QED BY <1>3, <3>1
  <2>4. w = v
    BY <2>3
  <2>. HIDE DEF rep, w, floor, v, base
  <2>. QED BY <2>2, <2>3, <2>4
<1>. HIDE DEF key
<1>7. IsFiniteSet(floor)
  <2>. DEFINE g == [k \in within |-> r[k].metrics[key]]
  <2>1. g \in Surjection(within, floor)
    BY <1>5 DEF Surjection
  <2>. HIDE DEF g, floor
  <2>. QED BY <1>4, <2>1, FS_Surjection
<1>8. floor # {}
  <2>1. base # {}
    <3>. SUFFICES ASSUME base = {} PROVE FALSE
      OBVIOUS
    <3>1. Cardinality(base) = 0
      BY FS_EmptySet
    <3>. QED BY <1>6, <3>1
  <2>2. Min(base) \in base
    <3>. HIDE DEF base
    <3>. QED BY <1>4, <2>1, MinFacts
  <2>3. r[Min(base)].metrics[key] # NaN
    BY <1>6 DEF NoFloor
  <2>4. Min(base) \in within
    BY <1>3, <2>2, <2>3 DEF key
  <2>. HIDE DEF floor, base
  <2>. QED BY <1>5, <2>4
<1>9. /\ Min(floor) \in floor /\ \A y \in floor : Min(floor) <= y
      /\ Max(floor) \in floor /\ \A y \in floor : Max(floor) >= y
  <2>. HIDE DEF floor
  <2>. QED BY <1>5, <1>7, <1>8, MinFacts, GreatestFacts
<1>10. Cardinality(floor) # 1
  <2>1. Compare(r, Baseline(s), p[1], p[2]) # "insufficient_data"
    BY <1>1
  <2>2. ~Degenerate(s, r)
    BY DEF Conclusive
  <2>3. ~NoFloor(r, Baseline(s), p[2])
    BY <1>6 DEF key
  <2>. QED BY <1>1, <2>1, <2>2, <2>3 DEF Degenerate, key
<1>11. \E j, k \in within : r[j].metrics[key] # r[k].metrics[key]
  <2>. SUFFICES ASSUME \A j, k \in within : r[j].metrics[key] = r[k].metrics[key] PROVE FALSE
    OBVIOUS
  <2>1. PICK j \in within : TRUE
    BY <1>5, <1>8
  <2>2. floor = {r[j].metrics[key]}
    <3>. DEFINE a == r[j].metrics[key]
    <3>1. floor = {r[k].metrics[key] : k \in within}
      BY <1>5
    <3>2. \A k \in within : r[k].metrics[key] = a
      BY <2>1
    <3>. HIDE DEF floor, a
    <3>3. floor = {a}
      BY ONLY <2>1, <3>1, <3>2
    <3>. QED BY <3>3 DEF a
  <2>3. Cardinality(floor) = 1
    <3>1. \A x : Cardinality({x}) = 1
      BY FS_Singleton
    <3>. HIDE DEF floor
    <3>. QED BY <2>2, <3>1
  <2>. QED BY <1>10, <2>3
<1>12. \A k \in others : v[k] = r[k].metrics[key] /\ v[k] \in Nat
  BY <1>2 DEF key
<1>13. Min(floor) \in Nat /\ Max(floor) \in Nat
  BY <1>5, <1>9
<1>14. CASE sum < Cardinality(others) * Min(floor)
  <2>1. ~(sum >= Cardinality(others) * Min(floor))
    <3>1. sum \in Nat
      BY <1>4, <1>12, SumStep
    <3>2. Cardinality(others) * Min(floor) \in Nat
      <4>1. Cardinality(others) \in Nat
        BY <1>4, FS_CardinalityType
      <4>2. \A a, b \in Nat : a * b \in Nat
        OBVIOUS
      <4>. QED BY <1>13, <4>1, <4>2
    <3>. QED BY <1>14, <3>1, <3>2
  <2>2. PICK k \in others : ~(v[k] >= Min(floor))
    <3>. HIDE DEF v, floor
    <3>. QED BY <1>4, <1>12, <1>13, <2>1, SumBounds
  <2>3. \A j \in within : r[k].metrics[key] < r[j].metrics[key]
    <3>1. \A j \in within : r[j].metrics[key] \in floor /\ r[j].metrics[key] \in Nat
      BY <1>5
    <3>. HIDE DEF floor, v
    <3>. QED BY <1>9, <1>12, <1>13, <2>2, <3>1
  <2>. QED BY <1>11, <2>3 DEF key, IsReal
<1>15. CASE sum > Cardinality(others) * Max(floor)
  <2>1. ~(sum <= Cardinality(others) * Max(floor))
    <3>1. sum \in Nat
      BY <1>4, <1>12, SumStep
    <3>2. Cardinality(others) * Max(floor) \in Nat
      <4>1. Cardinality(others) \in Nat
        BY <1>4, FS_CardinalityType
      <4>2. \A a, b \in Nat : a * b \in Nat
        OBVIOUS
      <4>. QED BY <1>13, <4>1, <4>2
    <3>. QED BY <1>15, <3>1, <3>2
  <2>2. PICK k \in others : ~(v[k] <= Max(floor))
    <3>. HIDE DEF v, floor
    <3>. QED BY <1>4, <1>12, <1>13, <2>1, SumBounds
  <2>3. \A j \in within : r[k].metrics[key] > r[j].metrics[key]
    <3>1. \A j \in within : r[j].metrics[key] \in floor /\ r[j].metrics[key] \in Nat
      BY <1>5
    <3>. HIDE DEF floor, v
    <3>. QED BY <1>9, <1>12, <1>13, <2>2, <3>1
  <2>. QED BY <1>11, <2>3 DEF key, IsReal
<1>. QED BY <1>6, <1>14, <1>15

\* Only what is conclusive may be published.
LEMMA NextConclusive ==
    ASSUME DerivesInv, TypeOK, ConclusiveOK, [Next]_vars
    PROVE  ConclusiveOK'
<1>1. CASE UNCHANGED vars
  BY <1>1 DEF vars, evidence, ConclusiveOK
<1>2. CASE (\E s \in Specs : Begin(s)) \/ RunTrial \/ RetainDiff \/ AppendEntry
  <2>1. report' = report
    BY <1>2 DEF Begin, RunTrial, RetainDiff, AppendEntry, evidence
  <2>2. ~(run'.step \in {"spec", "report"})
    <3>1. CASE \E s \in Specs : Begin(s)
      BY <3>1 DEF Begin
    <3>2. CASE RunTrial \/ RetainDiff \/ AppendEntry
      <4>1. run.step \in {"trial", "diff", "entry"} /\ Idle.step = "idle"
        BY <3>2 DEF RunTrial, RetainDiff, AppendEntry, Idle
      <4>2. DOMAIN run = {"step", "spec", "hash", "records", "missing", "publishable", "steady"}
        BY <4>1 DEF DerivesInv, EvidenceInv, RunOK
      <4>3. CASE RunTrial
        BY <4>2, <4>3 DEF RunTrial
      <4>4. CASE RetainDiff
        BY <4>2, <4>4 DEF RetainDiff
      <4>5. CASE AppendEntry
        BY <4>2, <4>5 DEF AppendEntry
      <4>. QED BY <3>2, <4>3, <4>4, <4>5
    <3>. QED BY <1>2, <3>1, <3>2
  <2>. QED BY <2>1, <2>2 DEF ConclusiveOK
<1>3. CASE Judge
  <2>1. run # Idle /\ report' = report
    BY <1>3 DEF Judge, Idle, evidence
  <2>2. CASE ~Readable
    BY <1>3, <2>1, <2>2 DEF Judge, ConclusiveOK
  <2>3. CASE Readable
    <3>1. run' = [run EXCEPT !.step = "spec", !.publishable = Publishable(run.spec, run.records)]
      BY <1>3, <2>3 DEF Judge
    <3>2. /\ run'.spec = run.spec /\ run'.records = run.records
          /\ run'.publishable = Publishable(run.spec, run.records)
      BY <2>1, <3>1 DEF DerivesInv, EvidenceInv, RunOK
    <3>3. run.spec \in Specs /\ IsSequence(run.records)
          /\ \A k \in DOMAIN run.records : IsRecord(run.records[k])
      BY <2>1 DEF DerivesInv, EvidenceInv, RunOK, TypeOK
    <3>4. Publishable(run.spec, run.records) => Conclusive(run.spec, run.records)
      BY <3>3 DEF Publishable, Conclusive
    <3>. QED BY <2>1, <3>2, <3>4 DEF ConclusiveOK
  <2>. QED BY <2>2, <2>3
<1>4. CASE WriteSpec
  <2>1. run # Idle /\ report' = report /\ run.step = "spec" /\ run' = [run EXCEPT !.step = "report"]
    BY <1>4 DEF WriteSpec, Idle
  <2>2. run'.spec = run.spec /\ run'.records = run.records /\ run'.publishable = run.publishable
    BY <2>1 DEF DerivesInv, EvidenceInv, RunOK
  <2>. QED BY <2>1, <2>2 DEF ConclusiveOK
<1>5. CASE WriteReport
  <2>1. /\ run # Idle /\ run.step = "report" /\ run' = Idle
        /\ report'.publishable = run.publishable /\ report'.spec = run.spec
        /\ report'.trials = run.records
        /\ report'.comparisons = Comparisons(run.spec, run.records)
    BY <1>5 DEF WriteReport, Idle
  <2>. QED BY <2>1 DEF ConclusiveOK
<1>6. CASE Die
  BY <1>6 DEF Die, ConclusiveOK
<1>7. CASE Edit
  <2>1. report' = report /\ run' = IF run = Idle THEN run ELSE [run EXCEPT !.steady = FALSE]
    BY <1>7 DEF Edit, evidence
  <2>2. run' = Idle \/ /\ run # Idle /\ run'.step = run.step /\ run'.spec = run.spec
                       /\ run'.records = run.records /\ run'.publishable = run.publishable
    BY <2>1 DEF DerivesInv, EvidenceInv, RunOK
  <2>. QED BY <2>1, <2>2 DEF ConclusiveOK
<1>8. CASE VerifyBegin \/ VerifyLoad \/ VerifyEntry
  <2>1. run' = run /\ report' = report
    BY <1>8 DEF VerifyBegin, VerifyLoad, VerifyEntry, evidence
  <2>. QED BY <2>1 DEF ConclusiveOK
<1>. QED BY <1>1, <1>2, <1>3, <1>4, <1>5, <1>6, <1>7, <1>8 DEF Next

\* A difference that a publishable report calls real (compare_to_noise_floor) is one
\* of its trials: the baseline's own numbers differ, and a trial lies beyond them
\* all, for any numbers of trials and any metrics; nobody's mean, or a floor of a
\* single value, makes one up.
THEOREM DifferencesAreReal == Spec => []RealDifferencesAreThere
<1>1. Init => ConclusiveOK
  BY DEF Init, ConclusiveOK, NoReport
<1>2. ConclusiveOK => RealDifferencesAreThere
  <2>. SUFFICES ASSUME ConclusiveOK, report.publishable, NEW p \in DOMAIN report.comparisons,
                       report.comparisons[p] = "likely_real_difference"
                PROVE  LET Value(k) == report.trials[k].metrics[p[2]]
                           Of(c) == {k \in DOMAIN report.trials :
                                        report.trials[k].trial[1] = c /\ Value(k) # NaN}
                           within == Of(Baseline(report.spec))
                           others == Of(p[1])
                       IN  /\ \E j, k \in within : Value(j) # Value(k)
                           /\ \/ \E k \in others : \A j \in within : Value(k) > Value(j)
                              \/ \E k \in others : \A j \in within : Value(k) < Value(j)
    BY Zenon DEF RealDifferencesAreThere
  <2>1. Conclusive(report.spec, report.trials)
        /\ report.comparisons = Comparisons(report.spec, report.trials)
    BY DEF ConclusiveOK
  <2>. DEFINE Of(c) == {k \in DOMAIN report.trials : report.trials[k].trial[1] = c
                                                    /\ report.trials[k].metrics[p[2]] # NaN}
              within == Of(Baseline(report.spec))
              others == Of(p[1])
  <2>2. IsReal(report.trials, p[2], within, others)
    <3>1. /\ p \in DOMAIN Comparisons(report.spec, report.trials)
          /\ Comparisons(report.spec, report.trials)[p] = "likely_real_difference"
      BY <2>1
    <3>2. /\ within = {k \in DOMAIN report.trials : report.trials[k].trial[1] = Baseline(report.spec)
                                                    /\ report.trials[k].metrics[p[2]] # NaN}
          /\ others = {k \in DOMAIN report.trials : report.trials[k].trial[1] = p[1]
                                                    /\ report.trials[k].metrics[p[2]] # NaN}
      OBVIOUS
    <3>. HIDE DEF within, others
    <3>. QED BY ONLY <2>1, <3>1, <3>2, RealDifference
  <2>. QED BY <2>2, Zenon DEF IsReal
<1>3. Init => DerivesInv /\ TypeOK
  BY InitTypes, InitDerives
<1>4. Spec => [](DerivesInv /\ TypeOK)
  BY <1>3, NextDerives, TypesStep, PTL DEF Spec
<1>. QED BY <1>1, <1>2, <1>4, NextConclusive, PTL DEF Spec
----------------------------------------------------------------------------
(* What a verification passes, the report says.                            *)

\* A whole report of a spec: a record for each trial, and what they compare to.
WholeReport(r) ==
    /\ r.spec \in Specs /\ IsSequence(r.trials) /\ Len(r.trials) = Total(r.spec)
    /\ \A k \in 1 .. Total(r.spec) : r.trials[k].trial = Trial(r.spec, k) /\ IsRecord(r.trials[k])
    /\ r.comparisons = Comparisons(r.spec, r.trials)

\* The lines of a run are about its own trials.
LinesOf(m, r, s) == \A j \in DOMAIN m : m[j].id = r => m[j].trial \in Trials(s)

OwnLinesOK ==
    /\ run # Idle => LinesOf(manifest, runs, run.spec)
    /\ report.run # 0 => WholeReport(report) /\ LinesOf(manifest, report.run, report.spec)

\* Entries are one for each trial of a report, with its metrics.
Matches(entries, r) ==
    /\ \A j \in DOMAIN entries : entries[j].trial \in Trials(r.spec)
    /\ \A k \in DOMAIN r.trials : \E j \in DOMAIN entries :
        /\ {i \in DOMAIN entries : entries[i].trial = r.trials[k].trial} = {j}
        /\ entries[j].metrics = r.trials[k].metrics

\* A verdict is about its entry, and none is "ok" unless the metrics came out again.
IsVerdict(e, x) ==
    /\ x.trial = e.trial
    /\ x.verdict = "ok" => \A m \in DOMAIN e.metrics :
                                /\ m \in DOMAIN x.metrics /\ x.metrics[m] = e.metrics[m]
                                /\ e.metrics[m] # NaN

\* A verification that is under way has a verdict on each entry it has replayed, on
\* all when it is done.  One that began between two runs has all lines of its run,
\* which later runs add none to, hence what the report that it reads is made from.
ReplayOK ==
    check.step \in {"load", "replay", "done"} =>
        /\ DOMAIN check.entries \subseteq Nat /\ DOMAIN check.entries # {}
        /\ check.step = "load" =>
            /\ check.results = <<>>
            /\ check.between =>
                /\ check.target \in 1 .. runs /\ (run # Idle => check.target < runs)
                /\ check.entries =
                    [k \in {j \in DOMAIN manifest : manifest[j].id = check.target} |-> manifest[k]]
        /\ check.step = "replay" => /\ DOMAIN check.results \subseteq DOMAIN check.entries
                                    /\ DOMAIN check.results # DOMAIN check.entries
        /\ check.step = "done" => DOMAIN check.results = DOMAIN check.entries
        /\ check.step \in {"replay", "done"} =>
            /\ \A k \in DOMAIN check.results : IsVerdict(check.entries[k], check.results[k])
            /\ check.between /\ check.target = check.report.run =>
                WholeReport(check.report) /\ Matches(check.entries, check.report)

\* The records q are those of r with other numbers, and what they measure is numbers.
Renumbers(b, r, q) ==
    /\ \A k \in DOMAIN r : /\ b[k] \in DOMAIN q /\ q[b[k]].trial = r[k].trial
                          /\ q[b[k]].metrics = r[k].metrics
                          /\ \A m \in DOMAIN r[k].metrics : r[k].metrics[m] \in Nat
    /\ \A k, l \in DOMAIN r : b[k] = b[l] => k = l
    /\ \A j \in DOMAIN q : \E k \in DOMAIN r : b[k] = j

\* Comparing records gives the same, whatever they are numbered by.
LEMMA CompareSame ==
    ASSUME NEW r, NEW q, IsFiniteSet(DOMAIN r), DOMAIN r \subseteq Nat, DOMAIN q \subseteq Nat,
           NEW b, Renumbers(b, r, q), NEW base, NEW c, NEW key
    PROVE  Compare(q, base, c, key) = Compare(r, base, c, key)
<1>. DEFINE Rep(x, y) == Reporting(x, y, key)
            Within(x) == Floor(x, base, key)
            v(x) == [k \in Rep(x, c) |-> x[k].metrics[key]]
<1>0. /\ \A k \in DOMAIN r : /\ b[k] \in DOMAIN q /\ q[b[k]].trial = r[k].trial
                              /\ q[b[k]].metrics = r[k].metrics
                              /\ \A m \in DOMAIN r[k].metrics : r[k].metrics[m] \in Nat
      /\ \A k, l \in DOMAIN r : b[k] = b[l] => k = l
      /\ \A j \in DOMAIN q : \E k \in DOMAIN r : b[k] = j
  BY DEF Renumbers
<1>1. ASSUME NEW y
      PROVE  /\ Rep(q, y) = {b[k] : k \in Rep(r, y)} /\ Rep(r, y) \in SUBSET DOMAIN r
             /\ IsFiniteSet(Rep(r, y)) /\ Cardinality(Rep(q, y)) = Cardinality(Rep(r, y))
             /\ \A k \in Rep(r, y) : q[b[k]].metrics[key] = r[k].metrics[key]
  <2>1. Rep(r, y) \subseteq DOMAIN r /\ Rep(q, y) \subseteq DOMAIN q
    BY DEF Reporting
  <2>2. \A k \in DOMAIN r : k \in Rep(r, y) <=> b[k] \in Rep(q, y)
    BY <1>0 DEF Reporting
  <2>3. \A k \in Rep(r, y) : q[b[k]].metrics[key] = r[k].metrics[key]
    BY <1>0, <2>1
  <2>. HIDE DEF Rep
  <2>4. Rep(q, y) = {b[k] : k \in Rep(r, y)}
    BY <1>0, <2>1, <2>2
  <2>5. IsFiniteSet(Rep(r, y))
    BY <2>1, FS_Subset
  <2>6. [k \in Rep(r, y) |-> b[k]] \in Bijection(Rep(r, y), Rep(q, y))
    BY <1>0, <2>1, <2>4 DEF Bijection, Injection, Surjection, IsInjective
  <2>7. Cardinality(Rep(q, y)) = Cardinality(Rep(r, y))
    BY <2>5, <2>6, FS_Bijection DEF ExistsBijection
  <2>. QED BY <2>1, <2>3, <2>4, <2>5, <2>7
<1>2. Within(q) = Within(r)
  <2>1. ASSUME NEW x PROVE Within(x) = {x[k].metrics[key] : k \in Rep(x, base)} \ {NaN}
    BY DEF Floor
  <2>2. {q[k].metrics[key] : k \in Rep(q, base)} = {r[k].metrics[key] : k \in Rep(r, base)}
    <3>. HIDE DEF Rep
    <3>. QED BY <1>1
  <2>. HIDE DEF Rep, Within
  <2>. QED BY <2>1, <2>2
<1>3. Rep(q, c) = {} <=> Rep(r, c) = {}
  <2>. HIDE DEF Rep
  <2>. QED BY <1>1
<1>4. SumOver(v(q), Rep(q, c)) = SumOver(v(r), Rep(r, c))
  <2>1. \A k \in Rep(r, c) : r[k].metrics[key] \in Nat
    BY <1>0 DEF Reporting
  <2>. HIDE DEF Rep
  <2>2. /\ IsFiniteSet(Rep(r, c)) /\ Rep(q, c) = {b[k] : k \in Rep(r, c)}
        /\ \A k, l \in Rep(r, c) : b[k] = b[l] => k = l
        /\ \A k \in Rep(r, c) : v(q)[b[k]] = r[k].metrics[key] /\ v(r)[k] = r[k].metrics[key]
    BY <1>0, <1>1
  <2>3. /\ \A k \in Rep(r, c) : v(q)[b[k]] \in Nat
        /\ \A k \in Rep(r, c) : v(r)[k] = v(q)[b[k]]
    BY <2>1, <2>2
  <2>. HIDE DEF v
  <2>. QED BY ONLY <2>2, <2>3, SumReindex
<1>5. ASSUME NEW x, DOMAIN x \subseteq Nat,
             \A k \in DOMAIN x : \A m \in DOMAIN x[k].metrics : x[k].metrics[m] # NaN
      PROVE  Compare(x, base, c, key) =
                IF Cardinality(Rep(x, base)) < 2 \/ Rep(x, c) = {} THEN "insufficient_data"
                ELSE IF \/ SumOver(v(x), Rep(x, c)) < Cardinality(Rep(x, c)) * Min(Within(x))
                        \/ SumOver(v(x), Rep(x, c)) > Cardinality(Rep(x, c)) * Max(Within(x))
                     THEN "likely_real_difference" ELSE "indistinguishable_from_noise"
  <2>1. ASSUME ~(Cardinality(Rep(x, base)) < 2 \/ Rep(x, c) = {})
        PROVE  ~(NoFloor(x, base, key) \/ \E k \in Rep(x, c) : v(x)[k] = NaN)
    <3>1. Rep(x, base) # {}
      <4>. HIDE DEF Rep
      <4>1. Cardinality({}) = 0
        BY FS_EmptySet
      <4>. QED BY <2>1, <4>1
    <3>2. Rep(x, base) \subseteq Nat
      BY <1>5 DEF Reporting
    <3>3. Min(Rep(x, base)) \in Rep(x, base)
      <4>. HIDE DEF Rep
      <4>. QED BY <3>1, <3>2, MinFacts
    <3>4. \A y : \A k \in Rep(x, y) : x[k].metrics[key] # NaN
      BY <1>5 DEF Reporting
    <3>5. ~NoFloor(x, base, key)
      BY <3>3, <3>4 DEF NoFloor
    <3>6. \A k \in Rep(x, c) : v(x)[k] # NaN
      BY <3>4
    <3>. QED BY <3>5, <3>6
  <2>2. Compare(x, base, c, key) =
            IF Cardinality(Rep(x, base)) < 2 \/ Rep(x, c) = {} THEN "insufficient_data"
            ELSE IF NoFloor(x, base, key) \/ \E k \in Rep(x, c) : v(x)[k] = NaN
                 THEN "indistinguishable_from_noise"
            ELSE IF \/ SumOver(v(x), Rep(x, c)) < Cardinality(Rep(x, c)) * Min(Within(x))
                    \/ SumOver(v(x), Rep(x, c)) > Cardinality(Rep(x, c)) * Max(Within(x))
                 THEN "likely_real_difference" ELSE "indistinguishable_from_noise"
    BY DEF Compare, SumOver
  <2>. HIDE DEF Rep, v, Within
  <2>. QED BY <2>1, <2>2
<1>6. Cardinality(Rep(q, c)) = Cardinality(Rep(r, c)) /\ Cardinality(Rep(q, base)) = Cardinality(Rep(r, base))
  BY <1>1
<1>7. /\ \A k \in DOMAIN r : \A m \in DOMAIN r[k].metrics : r[k].metrics[m] # NaN
      /\ \A k \in DOMAIN q : \A m \in DOMAIN q[k].metrics : q[k].metrics[m] # NaN
  <2>1. \A k \in DOMAIN r : \A m \in DOMAIN r[k].metrics : r[k].metrics[m] # NaN
    BY <1>0, SpecsAssumption
  <2>. QED BY <1>0, <2>1
<1>. HIDE DEF Rep, v, Within
<1>. QED BY <1>2, <1>3, <1>4, <1>5, <1>6, <1>7

\* Of a trial's line that passed, what came out is what was published.
LEMMA RederivedSame ==
    ASSUME NEW j \in DOMAIN check.results, check.results[j].verdict = "ok",
           IsVerdict(check.entries[j], check.results[j]), check.entries[j].metrics \in MetricSets
    PROVE  Rederived(j).trial = check.entries[j].trial /\ Rederived(j).metrics = check.entries[j].metrics
<1>. DEFINE e == check.entries[j].metrics
            x == check.results[j].metrics
<1>1. check.results[j].trial = check.entries[j].trial
      /\ \A m \in DOMAIN e : m \in DOMAIN x /\ x[m] = e[m]
  BY DEF IsVerdict
<1>2. e = [m \in DOMAIN e |-> e[m]]
  BY DEF MetricSets
<1>3. Rederived(j).trial = check.results[j].trial
      /\ Rederived(j).metrics = [m \in DOMAIN e \cap DOMAIN x |-> x[m]]
  BY DEF Rederived
<1>. HIDE DEF e, x
<1>4. [m \in DOMAIN e \cap DOMAIN x |-> x[m]] = [m \in DOMAIN e |-> e[m]]
  BY <1>1
<1>. QED BY <1>1, <1>2, <1>3, <1>4 DEF e

\* A verification that passes backs the report it has read.
LEMMA PassedBacks == ReplayOK => PassedBacksReport
<1>. DEFINE r == check.report
            t == check.report.trials
            q == [k \in DOMAIN check.results |-> Rederived(k)]
            entries == check.entries
            Line(k) == CHOOSE j \in DOMAIN entries :
                        /\ {i \in DOMAIN entries : entries[i].trial = t[k].trial} = {j}
                        /\ entries[j].metrics = t[k].metrics
            b == [k \in DOMAIN t |-> Line(k)]
<1>. SUFFICES ASSUME ReplayOK, OnReport, Passed
              PROVE  /\ {q[k].trial : k \in DOMAIN q} = Trials(r.spec)
                     /\ Comparisons(r.spec, q) = r.comparisons
  BY DEF PassedBacksReport
<1>1. /\ DOMAIN check.results = DOMAIN entries
      /\ \A k \in DOMAIN entries : /\ IsVerdict(check.entries[k], check.results[k])
                                   /\ check.results[k].verdict = "ok"
      /\ WholeReport(r) /\ Matches(entries, r)
  BY DEF ReplayOK, OnReport, Passed
<1>2. /\ r.spec \in Specs /\ DOMAIN t = 1 .. Total(r.spec) /\ Total(r.spec) \in Nat
      /\ \A k \in DOMAIN t : t[k].trial = Trial(r.spec, k) /\ t[k].metrics \in MetricSets
      /\ r.comparisons = Comparisons(r.spec, t)
  <2>1. r.spec \in Specs /\ IsSequence(t) /\ Len(t) = Total(r.spec)
    BY <1>1 DEF WholeReport
  <2>2. DOMAIN t = 1 .. Total(r.spec) /\ Total(r.spec) \in Nat
    BY <2>1, SequenceFacts
  <2>. QED BY <1>1, <2>1, <2>2 DEF WholeReport, IsRecord
<1>3. ASSUME NEW k \in DOMAIN t
      PROVE  /\ b[k] \in DOMAIN entries
             /\ {i \in DOMAIN entries : entries[i].trial = t[k].trial} = {b[k]}
             /\ entries[b[k]].trial = t[k].trial /\ entries[b[k]].metrics = t[k].metrics
  <2>1. \E j \in DOMAIN entries :
            /\ {i \in DOMAIN entries : entries[i].trial = t[k].trial} = {j}
            /\ entries[j].metrics = t[k].metrics
    BY <1>1 DEF Matches
  <2>2. b[k] = Line(k)
    OBVIOUS
  <2>3. /\ Line(k) \in DOMAIN entries
        /\ {i \in DOMAIN entries : entries[i].trial = t[k].trial} = {Line(k)}
        /\ entries[Line(k)].metrics = t[k].metrics
    BY <2>1
  <2>. HIDE DEF Line, b
  <2>. QED BY <2>2, <2>3
<1>4. \A k, l \in DOMAIN t : b[k] = b[l] => k = l
  <2>. HIDE DEF b, t, r, entries
  <2>1. ASSUME NEW k \in DOMAIN t, NEW l \in DOMAIN t, b[k] = b[l] PROVE k = l
    <3>1. t[k].trial = t[l].trial
      BY <1>3, <2>1
    <3>2. Trial(r.spec, k) = Trial(r.spec, l)
      BY <1>2, <3>1
    <3>. QED BY <1>2, <3>2, TrialInjective
  <2>. QED BY <2>1
<1>5. \A j \in DOMAIN entries : \E k \in DOMAIN t : b[k] = j
  <2>. HIDE DEF b
  <2>. SUFFICES ASSUME NEW j \in DOMAIN entries PROVE \E k \in DOMAIN t : b[k] = j
    OBVIOUS
  <2>1. entries[j].trial \in Trials(r.spec)
    BY <1>1 DEF Matches
  <2>2. PICK k \in 1 .. Total(r.spec) : entries[j].trial = Trial(r.spec, k)
    BY <1>2, <2>1, TrialsCount
  <2>3. k \in DOMAIN t /\ entries[j].trial = t[k].trial
    BY <1>2, <2>2
  <2>4. j \in {i \in DOMAIN entries : entries[i].trial = t[k].trial}
    BY <2>3
  <2>5. j = b[k]
    BY <1>3, <2>3, <2>4
  <2>. QED BY <2>3, <2>5
<1>6. ASSUME NEW k \in DOMAIN t
      PROVE  /\ b[k] \in DOMAIN q /\ q[b[k]].trial = t[k].trial /\ q[b[k]].metrics = t[k].metrics
             /\ \A m \in DOMAIN t[k].metrics : t[k].metrics[m] \in Nat
  <2>. HIDE DEF b
  <2>1. b[k] \in DOMAIN check.results /\ entries[b[k]].metrics \in MetricSets
    BY <1>1, <1>2, <1>3
  <2>2. Rederived(b[k]).trial = entries[b[k]].trial /\ Rederived(b[k]).metrics = entries[b[k]].metrics
    BY <1>1, <2>1, RederivedSame
  <2>3. q[b[k]] = Rederived(b[k]) /\ b[k] \in DOMAIN q
    BY <2>1
  <2>. HIDE DEF q
  <2>4. ASSUME NEW m \in DOMAIN t[k].metrics PROVE t[k].metrics[m] \in Nat
    <3>1. t[k].metrics[m] \in Nat \cup {NaN}
      BY <1>2, MetricsAreNumbers
    <3>2. IsVerdict(entries[b[k]], check.results[b[k]]) /\ check.results[b[k]].verdict = "ok"
      BY <1>1, <1>3
    <3>3. entries[b[k]].metrics[m] # NaN
      BY <1>3, <3>2 DEF IsVerdict
    <3>. QED BY <1>3, <3>1, <3>3
  <2>. QED BY <1>3, <2>2, <2>3, <2>4
<1>7. DOMAIN q = DOMAIN entries
  BY <1>1
<1>. HIDE DEF q, b
<1>8. {q[k].trial : k \in DOMAIN q} = Trials(r.spec)
  <2>. HIDE DEF r, t, entries
  <2>1. {q[k].trial : k \in DOMAIN q} = {t[k].trial : k \in DOMAIN t}
    BY <1>5, <1>6, <1>7
  <2>2. {t[k].trial : k \in DOMAIN t} = {Trial(r.spec, k) : k \in 1 .. Total(r.spec)}
    BY <1>2
  <2>. QED BY <1>2, <2>1, <2>2, TrialsCount
<1>9. ASSUME NEW base, NEW c, NEW key
      PROVE  Compare(q, base, c, key) = Compare(t, base, c, key)
  <2>1. IsFiniteSet(DOMAIN t)
    <3>1. DOMAIN t = 1 .. Total(r.spec) /\ Total(r.spec) \in Nat
      BY <1>2
    <3>2. IsFiniteSet(1 .. Total(r.spec))
      BY <3>1, FS_Interval
    <3>. QED BY <3>1, <3>2
  <2>5. DOMAIN t \subseteq Nat /\ DOMAIN q \subseteq Nat
    <3>1. DOMAIN entries \subseteq Nat
      BY DEF ReplayOK, OnReport
    <3>. QED BY <1>2, <1>7, <3>1
  <2>. HIDE DEF r, t, entries
  <2>2. \A j \in DOMAIN q : \E k \in DOMAIN t : b[k] = j
    BY <1>5, <1>7
  <2>3. \A k \in DOMAIN t : /\ b[k] \in DOMAIN q /\ q[b[k]].trial = t[k].trial
                            /\ q[b[k]].metrics = t[k].metrics
                            /\ \A m \in DOMAIN t[k].metrics : t[k].metrics[m] \in Nat
    BY <1>6
  <2>4. Renumbers(b, t, q)
    BY <1>4, <2>2, <2>3 DEF Renumbers
  <2>. QED BY <2>1, <2>4, <2>5, CompareSame
<1>10. Comparisons(r.spec, q) = Comparisons(r.spec, t)
  <2>. HIDE DEF r, t
  <2>. QED BY <1>9 DEF Comparisons
<1>. QED BY <1>2, <1>8, <1>10

----------------------------------------------------------------------------
\* What a step may do to the manifest: lines of runs stay as they are, and a new one
\* is the entry of the run under way.
OldLines == \A j \in DOMAIN manifest :
    manifest[j].id # 0 => j \in DOMAIN manifest' /\ manifest'[j] = manifest[j]
NewLines == \A j \in DOMAIN manifest' : manifest'[j].id # 0 =>
    \/ j \in DOMAIN manifest /\ manifest'[j] = manifest[j]
    \/ run # Idle /\ AppendEntry /\ manifest'[j] = Entry

LEMMA LinesStay == EvidenceInv /\ [Next]_vars => OldLines /\ NewLines
<1>. SUFFICES ASSUME EvidenceInv, [Next]_vars PROVE OldLines /\ NewLines
  OBVIOUS
<1>0. /\ Len(manifest) \in Nat /\ DOMAIN manifest = 1 .. Len(manifest)
      /\ manifest # <<>> => Len(manifest) \in DOMAIN manifest
      /\ \A e : /\ IsSequence(Append(manifest, e)) /\ Len(Append(manifest, e)) = Len(manifest) + 1
                /\ Append(manifest, e)[Len(manifest) + 1] = e
                /\ \A i \in 1 .. Len(manifest) : Append(manifest, e)[i] = manifest[i]
  BY SequenceFacts DEF EvidenceInv, ManifestOK
<1>1. \A e : DOMAIN Append(manifest, e) = 1 .. Len(manifest) + 1
  BY <1>0, SequenceFacts
<1>2. CASE manifest' = manifest
  BY <1>2 DEF OldLines, NewLines
<1>3. CASE Die /\ manifest' = Append(manifest, Torn)
  <2>1. Torn.id = 0
    BY DEF Torn
  <2>. QED BY <1>0, <1>1, <1>3, <2>1 DEF OldLines, NewLines
<1>4. CASE AppendEntry
  <2>0. run # Idle
    BY <1>4 DEF AppendEntry, Idle
  <2>1. CASE manifest # <<>> /\ manifest[Len(manifest)].torn
    <3>1. manifest' = [manifest EXCEPT ![Len(manifest)] = Garbled]
      BY <1>4, <2>1 DEF AppendEntry
    <3>2. manifest[Len(manifest)].id = 0 /\ Garbled.id = 0
      BY <1>0, <2>1 DEF EvidenceInv, ManifestOK, Garbled
    <3>. QED BY <1>0, <2>1, <3>1, <3>2 DEF OldLines, NewLines
  <2>2. CASE ~(manifest # <<>> /\ manifest[Len(manifest)].torn)
    <3>1. manifest' = Append(manifest, Entry)
      BY <1>4, <2>2 DEF AppendEntry
    <3>. QED BY <1>0, <1>1, <1>4, <2>0, <3>1 DEF OldLines, NewLines
  <2>. QED BY <2>1, <2>2
<1>5. CASE UNCHANGED vars
  BY <1>2, <1>5 DEF vars, evidence
<1>6. CASE (\E s \in Specs : Begin(s)) \/ RunTrial \/ RetainDiff \/ Judge \/ WriteSpec \/ WriteReport
           \/ Edit \/ VerifyBegin \/ VerifyLoad \/ VerifyEntry
  <2>1. manifest' = manifest
    BY <1>6 DEF Begin, RunTrial, RetainDiff, Judge, WriteSpec, WriteReport, Edit, VerifyBegin,
                VerifyLoad, VerifyEntry, evidence
  <2>. QED BY <1>2, <2>1
<1>7. CASE Die
  BY <1>2, <1>3, <1>7 DEF Die
<1>. QED BY <1>4, <1>5, <1>6, <1>7 DEF Next

\* The entry of the run under way is about one of its trials.
LEMMA EntryIsOwn ==
    ASSUME EvidenceInv, AppendEntry
    PROVE  Entry.id = runs /\ Entry.trial \in Trials(run.spec)
<1>1. run # Idle /\ run.step = "entry"
  BY DEF AppendEntry, Idle
<1>2. /\ run.spec \in Specs /\ Len(run.records) \in 1 .. Total(run.spec)
      /\ Latest.trial = Trial(run.spec, Len(run.records))
  <2>1. Len(run.records) \in 0 .. Total(run.spec) /\ Len(run.records) > 0 /\ run.spec \in Specs
    BY <1>1 DEF EvidenceInv, RunOK
  <2>2. Len(run.records) \in 1 .. Len(run.records) /\ Len(run.records) \in 1 .. Total(run.spec)
    BY <2>1, SpecFacts
  <2>. QED BY <1>1, <2>1, <2>2 DEF EvidenceInv, RunOK, Latest
<1>. QED BY <1>2, TrialsCount DEF Entry

\* Runs keep to their own lines.
LEMMA NextOwnLines ==
    ASSUME EvidenceInv, TypeOK, OwnLinesOK, [Next]_vars
    PROVE  OwnLinesOK'
<1>0. OldLines /\ NewLines
  BY LinesStay
<1>1. runs \in Nat /\ report.run \in 0 .. runs /\ (run # Idle => report.run < runs)
  BY DEF EvidenceInv, ManifestOK, ReportOK
<1>2. ASSUME report.run # 0 PROVE LinesOf(manifest', report.run, report.spec)
  <2>1. ASSUME AppendEntry, run # Idle PROVE Entry.id # report.run
    BY <1>1, <2>1, EntryIsOwn
  <2>. QED BY <1>0, <1>2, <2>1 DEF NewLines, LinesOf, OwnLinesOK
<1>3. CASE WriteReport
  <2>1. /\ run # Idle /\ run.step = "report" /\ run' = Idle /\ manifest' = manifest
        /\ report'.run = runs /\ report'.spec = run.spec /\ report'.trials = run.records
        /\ report'.comparisons = Comparisons(run.spec, run.records)
    BY <1>3 DEF WriteReport, Idle
  <2>2. /\ run.spec \in Specs /\ IsSequence(run.records) /\ Len(run.records) = Total(run.spec)
        /\ \A k \in 1 .. Total(run.spec) : run.records[k].trial = Trial(run.spec, k)
    BY <2>1 DEF EvidenceInv, RunOK
  <2>3. \A k \in 1 .. Total(run.spec) : IsRecord(run.records[k])
    <3>1. DOMAIN run.records = 1 .. Total(run.spec)
      BY <2>2, SequenceFacts
    <3>. QED BY <2>1, <3>1 DEF TypeOK
  <2>4. LinesOf(manifest, runs, run.spec)
    BY <2>1 DEF OwnLinesOK
  <2>. QED BY <2>1, <2>2, <2>3, <2>4 DEF OwnLinesOK, WholeReport
<1>4. ASSUME report' = report, run' # Idle => LinesOf(manifest', runs', run'.spec)
      PROVE  OwnLinesOK'
  BY <1>2, <1>4 DEF OwnLinesOK
<1>5. CASE \E s \in Specs : Begin(s)
  <2>1. runs' = runs + 1 /\ manifest' = manifest /\ report' = report
    BY <1>5 DEF Begin, evidence
  <2>2. \A j \in DOMAIN manifest' : manifest'[j].id # runs'
    BY <1>1, <2>1 DEF EvidenceInv, ManifestOK
  <2>. QED BY <1>4, <2>1, <2>2 DEF LinesOf
<1>6. CASE UNCHANGED vars \/ RunTrial \/ RetainDiff \/ AppendEntry \/ Judge \/ WriteSpec \/ Die \/ Edit
           \/ VerifyBegin \/ VerifyLoad \/ VerifyEntry
  <2>1. report' = report /\ runs' = runs /\ (run = Idle => run' = Idle)
    <3>1. CASE UNCHANGED vars \/ VerifyBegin \/ VerifyLoad \/ VerifyEntry
      BY <3>1 DEF vars, VerifyBegin, VerifyLoad, VerifyEntry, evidence
    <3>2. CASE RunTrial \/ RetainDiff \/ AppendEntry
      <4>1. report' = report /\ runs' = runs
        BY <3>2 DEF RunTrial, RetainDiff, AppendEntry, evidence
      <4>2. run.step \in {"trial", "diff", "entry"}
        BY <3>2 DEF RunTrial, RetainDiff, AppendEntry
      <4>. QED BY <4>1, <4>2 DEF Idle
    <3>3. CASE Judge \/ WriteSpec \/ Die
      BY <3>3 DEF Judge, WriteSpec, Die, evidence, Idle
    <3>4. CASE Edit
      BY <3>4 DEF Edit, evidence
    <3>. QED BY <1>6, <3>1, <3>2, <3>3, <3>4
  <2>2. run' # Idle => run'.spec = run.spec
    <3>. SUFFICES ASSUME run' # Idle PROVE run'.spec = run.spec
      OBVIOUS
    <3>1. DOMAIN run = {"step", "spec", "hash", "records", "missing", "publishable", "steady"}
      BY <2>1 DEF EvidenceInv, RunOK
    <3>2. CASE UNCHANGED vars \/ VerifyBegin \/ VerifyLoad \/ VerifyEntry \/ Die
      BY <3>2 DEF vars, VerifyBegin, VerifyLoad, VerifyEntry, Die
    <3>3. CASE RunTrial
      BY <3>1, <3>3 DEF RunTrial
    <3>4. CASE RetainDiff \/ AppendEntry \/ Judge \/ WriteSpec \/ Edit
      BY <3>1, <3>4 DEF RetainDiff, AppendEntry, Judge, WriteSpec, Edit
    <3>. QED BY <1>6, <3>2, <3>3, <3>4
  <2>3. ASSUME run # Idle PROVE LinesOf(manifest', runs, run.spec)
    <3>1. LinesOf(manifest, runs, run.spec) /\ runs # 0
      BY <1>1, <2>3 DEF OwnLinesOK
    <3>2. ASSUME AppendEntry PROVE Entry.trial \in Trials(run.spec)
      BY <3>2, EntryIsOwn
    <3>. QED BY <1>0, <3>1, <3>2 DEF NewLines, LinesOf
  <2>. QED BY <1>4, <2>1, <2>2, <2>3
<1>. QED BY <1>3, <1>5, <1>6 DEF Next

\* Nothing is verified at first, and no report is there.
LEMMA InitReplay == Init => OwnLinesOK /\ ReplayOK
BY DEF Init, Idle, NoReport, OwnLinesOK, ReplayOK

\* Whatever goes on beside a verification leaves it the lines of its run.
LEMMA DisturbedReplay ==
    ASSUME DerivesInv, ReplayOK, OldLines, NewLines, Disturbs,
           runs' \in {runs, runs + 1}, run' # Idle => run # Idle \/ runs' = runs + 1
    PROVE  ReplayOK'
<1>1. CASE check.step \notin {"load", "replay"}
  BY <1>1 DEF Disturbs, Idle, ReplayOK
<1>2. CASE check.step \in {"load", "replay"}
  <2>1. check' = [check EXCEPT !.calm = FALSE] /\ DOMAIN check = Fields
    BY <1>2 DEF Disturbs, DerivesInv, CheckOK
  <2>2. /\ check'.step = check.step /\ check'.target = check.target /\ check'.between = check.between
        /\ check'.entries = check.entries /\ check'.report = check.report
        /\ check'.results = check.results
    BY <2>1 DEF Fields
  <2>3. ASSUME check.step = "load", check.between
        PROVE  /\ check.target \in 1 .. runs' /\ (run' # Idle => check.target < runs')
               /\ check.entries =
                    [k \in {j \in DOMAIN manifest' : manifest'[j].id = check.target} |-> manifest'[k]]
    <3>1. /\ check.target \in 1 .. runs /\ (run # Idle => check.target < runs)
          /\ check.entries = [k \in {j \in DOMAIN manifest : manifest[j].id = check.target} |-> manifest[k]]
      BY <2>3 DEF ReplayOK
    <3>2. runs \in Nat
      BY DEF DerivesInv, EvidenceInv, ManifestOK
    <3>3. check.target \in 1 .. runs' /\ (run' # Idle => check.target < runs')
      BY <3>1, <3>2
    <3>4. ASSUME run # Idle, AppendEntry PROVE Entry.id # check.target
      BY <3>1, <3>2, <3>4, EntryIsOwn DEF DerivesInv
    <3>5. {j \in DOMAIN manifest' : manifest'[j].id = check.target}
            = {j \in DOMAIN manifest : manifest[j].id = check.target}
      BY <3>1, <3>2, <3>4 DEF OldLines, NewLines
    <3>6. \A j \in DOMAIN manifest : manifest[j].id = check.target => manifest'[j] = manifest[j]
      BY <3>1, <3>2 DEF OldLines
    <3>. QED BY <3>1, <3>3, <3>5, <3>6
  <2>. QED BY <1>2, <2>2, <2>3 DEF ReplayOK, IsVerdict
<1>. QED BY <1>1, <1>2

\* verify_evidence takes all lines of the last run.
LEMMA VerifyBeginReplay ==
    ASSUME DerivesInv, VerifyBegin
    PROVE  ReplayOK'
<1>1. /\ manifest # <<>> /\ UNCHANGED <<run, manifest, runs>>
  BY DEF VerifyBegin, evidence
<1>2. CASE ~Readable
  BY <1>2 DEF VerifyBegin, ReplayOK
<1>3. CASE Readable
  <2>. DEFINE target == manifest[Len(manifest)].id
              lines == [k \in {j \in DOMAIN manifest : manifest[j].id = target} |-> manifest[k]]
  <2>1. /\ check'.step = "load" /\ check'.target = target /\ check'.between = (run = Idle)
        /\ check'.entries = lines /\ check'.results = <<>>
    BY <1>3 DEF VerifyBegin
  <2>2. Len(manifest) \in DOMAIN manifest /\ DOMAIN manifest \subseteq Nat
    BY <1>1, SequenceFacts DEF DerivesInv, EvidenceInv, ManifestOK
  <2>3. Len(manifest) \in DOMAIN lines /\ DOMAIN lines \subseteq Nat
    BY <2>2
  <2>4. target \in 1 .. runs
    <3>1. target \in 0 .. runs /\ runs \in Nat
      BY <2>2 DEF DerivesInv, EvidenceInv, ManifestOK
    <3>2. target # 0
      BY <1>3, <2>2 DEF Readable, DerivesInv, ShapeOK
    <3>. QED BY <3>1, <3>2
  <2>5. check'.entries = [k \in {j \in DOMAIN manifest' : manifest'[j].id = check'.target} |-> manifest'[k]]
    BY <1>1, <2>1
  <2>. HIDE DEF lines, target
  <2>. QED BY <1>1, <2>1, <2>3, <2>4, <2>5 DEF ReplayOK
<1>. QED BY <1>2, <1>3

\* The lines a verification has taken match the report that they are of.
LEMMA VerifyLoadReplay ==
    ASSUME DerivesInv, OwnLinesOK, ReplayOK, VerifyLoad
    PROVE  ReplayOK'
<1>1. /\ check.step = "load" /\ DOMAIN check = Fields /\ UNCHANGED <<run, manifest, runs, report>>
  BY DEF VerifyLoad, evidence, DerivesInv, CheckOK
<1>2. /\ check'.step = (IF spec = None THEN "done" ELSE "replay")
      /\ check'.target = check.target /\ check'.between = check.between
      /\ check'.entries = check.entries /\ check'.report = report
      /\ check'.results = IF spec = None
                          THEN [k \in DOMAIN check.entries |-> Unspecified(check.entries[k])] ELSE <<>>
  <2>1. check.results = <<>>
    BY <1>1 DEF ReplayOK
  <2>2. CASE spec = None
    BY <1>1, <2>2 DEF VerifyLoad, Fields
  <2>3. CASE spec # None
    BY <1>1, <2>1, <2>3 DEF VerifyLoad, Fields
  <2>. QED BY <2>2, <2>3
<1>3. DOMAIN check.entries \subseteq Nat /\ DOMAIN check.entries # {}
  BY <1>1 DEF ReplayOK
<1>4. \A k \in DOMAIN check'.results : IsVerdict(check.entries[k], check'.results[k])
  <2>1. CASE spec = None
    <3>1. check'.results = [k \in DOMAIN check.entries |-> Unspecified(check.entries[k])]
      BY <1>2, <2>1
    <3>2. \A e : IsVerdict(e, Unspecified(e))
      BY DEF IsVerdict, Unspecified
    <3>. QED BY <3>1, <3>2
  <2>2. CASE spec # None
    BY <1>2, <2>2
  <2>. QED BY <2>1, <2>2
<1>5. ASSUME check.between, check.target = report.run
      PROVE  WholeReport(report) /\ Matches(check.entries, report)
  <2>1. /\ check.target \in 1 .. runs
        /\ check.entries = [k \in {j \in DOMAIN manifest : manifest[j].id = check.target} |-> manifest[k]]
    BY <1>1, <1>5 DEF ReplayOK
  <2>2. report.run # 0
    BY <1>5, <2>1 DEF DerivesInv, EvidenceInv, ManifestOK
  <2>3. WholeReport(report) /\ LinesOf(manifest, report.run, report.spec)
    BY <2>2 DEF OwnLinesOK
  <2>4. \A j \in DOMAIN check.entries : check.entries[j].trial \in Trials(report.spec)
    BY <1>5, <2>1, <2>3 DEF LinesOf
  <2>5. ASSUME NEW k \in DOMAIN report.trials
        PROVE  \E j \in DOMAIN check.entries :
                /\ {i \in DOMAIN check.entries : check.entries[i].trial = report.trials[k].trial} = {j}
                /\ check.entries[j].metrics = report.trials[k].metrics
    <3>1. PICK j \in DOMAIN manifest :
            /\ LinesIn(manifest, report.run, report.trials[k].trial) = {j}
            /\ manifest[j].metrics = report.trials[k].metrics
      BY <2>2, <2>5 DEF DerivesInv, EvidenceInv, ReportOK, BackedIn
    <3>2. manifest[j].id = report.run
      BY <3>1 DEF LinesIn
    <3>3. {i \in DOMAIN check.entries : check.entries[i].trial = report.trials[k].trial}
            = LinesIn(manifest, report.run, report.trials[k].trial)
      BY <1>5, <2>1 DEF LinesIn
    <3>. QED BY <1>5, <2>1, <3>1, <3>2, <3>3
  <2>. QED BY <2>3, <2>4, <2>5 DEF Matches
<1>6. CASE spec = None
  BY <1>2, <1>3, <1>4, <1>5, <1>6 DEF ReplayOK
<1>7. CASE spec # None
  BY <1>2, <1>3, <1>4, <1>5, <1>7 DEF ReplayOK
<1>. QED BY <1>6, <1>7

\* Each entry gets its own verdict, and "ok" only if its metrics came out again.
LEMMA VerifyEntryReplay ==
    ASSUME DerivesInv, ReplayOK, VerifyEntry
    PROVE  ReplayOK'
<1>. DEFINE todo == DOMAIN check.entries \ DOMAIN check.results
            k == Min(todo)
            last == todo = {k}
<1>1. check.step = "replay" /\ DOMAIN check = Fields
  BY DEF VerifyEntry, DerivesInv, CheckOK
<1>2. PICK x \in Replayed(check.entries[k]) :
        check' = [check EXCEPT !.results = [j \in DOMAIN @ \cup {k} |-> IF j = k THEN x ELSE @[j]],
                             !.step = IF last THEN "done" ELSE "replay"]
  BY DEF VerifyEntry
<1>3. /\ DOMAIN check.entries \subseteq Nat /\ DOMAIN check.entries # {}
      /\ DOMAIN check.results \subseteq DOMAIN check.entries
      /\ DOMAIN check.results # DOMAIN check.entries
      /\ \A j \in DOMAIN check.results : IsVerdict(check.entries[j], check.results[j])
  BY <1>1 DEF ReplayOK
<1>4. IsVerdict(check.entries[k], x)
  <2>1. ASSUME NEW e, NEW v, v # "ok" PROVE IsVerdict(e, Result(e, v, <<>>))
    BY <2>1 DEF IsVerdict, Result
  <2>2. ASSUME NEW e, NEW out, Agrees(e, out) PROVE IsVerdict(e, Result(e, "ok", Metrics(out)))
    BY <2>2 DEF IsVerdict, Result, Agrees
  <2>3. ASSUME NEW e, NEW y \in Replayed(e) PROVE IsVerdict(e, y)
    <3>1. CASE y = Result(e, "drift", <<>>)
      BY <2>1, <3>1
    <3>2. CASE y = Result(e, "does not apply", <<>>)
      BY <2>1, <3>2
    <3>3. CASE \E tree : y \in Rescored(e, tree)
      <4>1. PICK out : y = IF Agrees(e, out) THEN Result(e, "ok", Metrics(out))
                                            ELSE Result(e, "mismatch", <<>>)
        BY <3>3 DEF Rescored
      <4>. QED BY <2>1, <2>2, <4>1
    <3>4. CASE check.base # e.fixture
      BY <2>3, <3>1, <3>4 DEF Replayed
    <3>5. CASE check.base = e.fixture
      <4>1. \/ y \in UNION {Rescored(e, tree) : tree \in Applied(diffs[e.trial], fixture)}
            \/ y \in IF Refused(diffs[e.trial], fixture)
                     THEN {Result(e, "does not apply", <<>>)} ELSE {}
        BY <2>3, <3>5 DEF Replayed
      <4>. QED BY <3>2, <3>3, <4>1
    <3>. QED BY <3>4, <3>5
  <2>. QED BY <1>2, <2>3
<1>5. k \in todo
  <2>1. todo \in SUBSET Nat /\ todo # {}
    BY <1>3
  <2>. HIDE DEF todo
  <2>. QED BY <2>1, MinFacts
<1>6. /\ check'.step = (IF last THEN "done" ELSE "replay")
      /\ check'.target = check.target /\ check'.entries = check.entries
      /\ check'.between = check.between /\ check'.report = check.report
      /\ check'.results =
            [j \in DOMAIN check.results \cup {k} |-> IF j = k THEN x ELSE check.results[j]]
  BY <1>1, <1>2 DEF Fields
<1>. HIDE DEF k
<1>7. /\ DOMAIN check'.results \subseteq DOMAIN check.entries
      /\ last => DOMAIN check'.results = DOMAIN check.entries
      /\ ~last => DOMAIN check'.results # DOMAIN check.entries
  BY <1>3, <1>5, <1>6
<1>8. \A j \in DOMAIN check'.results : IsVerdict(check.entries[j], check'.results[j])
  <2>. HIDE DEF todo
  <2>. QED BY <1>3, <1>4, <1>6
<1>9. check.between /\ check.target = check.report.run =>
        WholeReport(check.report) /\ Matches(check.entries, check.report)
  BY <1>1 DEF ReplayOK
<1>. HIDE DEF last
<1>. QED BY <1>3, <1>6, <1>7, <1>8, <1>9 DEF ReplayOK

\* The invariant is inductive.
LEMMA NextReplay ==
    ASSUME DerivesInv, TypeOK, OwnLinesOK, ReplayOK, [Next]_vars
    PROVE  OwnLinesOK' /\ ReplayOK'
<1>1. EvidenceInv /\ OldLines /\ NewLines
  BY LinesStay DEF DerivesInv
<1>2. OwnLinesOK'
  BY <1>1, NextOwnLines
<1>. SUFFICES ReplayOK'
  BY <1>2
<1>3. CASE UNCHANGED vars
  BY <1>3 DEF vars, evidence, ReplayOK, IsVerdict
<1>4. CASE VerifyBegin
  BY <1>4, VerifyBeginReplay
<1>5. CASE VerifyLoad
  BY <1>5, VerifyLoadReplay
<1>6. CASE VerifyEntry
  BY <1>6, VerifyEntryReplay
<1>7. ASSUME Disturbs, runs' \in {runs, runs + 1}, run' # Idle => run # Idle \/ runs' = runs + 1
      PROVE  ReplayOK'
  BY <1>1, <1>7, DisturbedReplay
<1>8. CASE \E s \in Specs : Begin(s)
  BY <1>7, <1>8 DEF Begin
<1>9. CASE RunTrial \/ RetainDiff \/ AppendEntry \/ Judge \/ WriteSpec \/ WriteReport \/ Die
  <2>1. Disturbs /\ runs' = runs
    BY <1>9 DEF RunTrial, RetainDiff, AppendEntry, Judge, WriteSpec, WriteReport, Die
  <2>2. run # Idle
    <3>1. run # Idle \/ run.step \in {"trial", "diff", "entry", "judge", "spec", "report"}
      BY <1>9 DEF RunTrial, RetainDiff, AppendEntry, Judge, WriteSpec, WriteReport, Die
    <3>. QED BY <3>1 DEF Idle
  <2>. QED BY <1>7, <2>1, <2>2
<1>10. CASE Edit
  <2>1. Disturbs /\ runs' = runs /\ (run = Idle => run' = run)
    BY <1>10 DEF Edit, evidence
  <2>. QED BY <1>7, <2>1
<1>. QED BY <1>2, <1>3, <1>4, <1>5, <1>6, <1>8, <1>9, <1>10 DEF Next

\* A verification that passes (verify_evidence) backs the whole report it is about,
\* published or not: each trial was derived again, and comparing the published
\* metrics as they came out draws the report's conclusions; for any specs, agents
\* and scorers, whatever runs and edits there were meanwhile.
THEOREM PassesBackReports == Spec => []PassedBacksReport
<1>1. Init => DerivesInv /\ TypeOK /\ OwnLinesOK /\ ReplayOK
  BY InitTypes, InitDerives, InitReplay
<1>2. Spec => [](DerivesInv /\ TypeOK /\ OwnLinesOK /\ ReplayOK)
  BY <1>1, NextDerives, TypesStep, NextReplay, PTL DEF Spec
<1>3. ReplayOK => PassedBacksReport
  BY PassedBacks
<1>. QED BY <1>2, <1>3, PTL
=============================================================================
