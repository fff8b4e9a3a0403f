------------------------- MODULE AtomicWrite_proofs -------------------------
(***************************************************************************)
(* atomic_write_text implements a register, for any number of writers,     *)
(* texts and temporary names.                                              *)
(***************************************************************************)
EXTENDS AtomicWrite, TLAPS

Inv == TypeOK /\ CallsAreApart

\* No call has begun.
LEMMA InitInv == Init => Inv
BY ValuesAssumption, NamesAssumption
   DEF Init, Inv, TypeOK, CallsAreApart, Names, Content, NoFile, NoCall

\* Every step of a call, an exception or a kill keeps the invariant.
LEMMA NextInv == Inv /\ [Next]_vars => Inv'
<1>. SUFFICES ASSUME Inv, [Next]_vars PROVE Inv'
  OBVIOUS
<1>. USE DEF Inv, TypeOK, CallsAreApart, Names, Content
<1>1. ASSUME NEW p \in Procs, NEW v \in Values, NEW n \in Temps, Make(p, v, n) PROVE Inv'
  <2>1. TypeOK'
    BY <1>1 DEF Make
  <2>2. \A q \in Procs : call[q].step # "none" => call[q].name # n
    BY <1>1 DEF Make
  <2>3. CallsAreApart'
    BY <1>1, <2>2, NamesAssumption DEF Make
  <2>. QED BY <2>1, <2>3
<1>2. ASSUME NEW p \in Procs, Fill(p) PROVE Inv'
  <2>1. TypeOK'
    BY <1>2 DEF Fill
  <2>2. CallsAreApart'
    BY <1>2, NamesAssumption DEF Fill
  <2>. QED BY <2>1, <2>2
<1>3. ASSUME NEW p \in Procs, Replace(p) PROVE Inv'
  <2>1. TypeOK'
    BY <1>3 DEF Replace, NoFile, NoCall
  <2>2. CallsAreApart'
    BY <1>3, NamesAssumption DEF Replace, NoFile, NoCall
  <2>. QED BY <2>1, <2>2
<1>4. ASSUME NEW p \in Procs, Fail(p) PROVE Inv'
  <2>1. TypeOK'
    BY <1>4 DEF Fail, NoFile, NoCall
  <2>2. CallsAreApart'
    BY <1>4, NamesAssumption DEF Fail, NoFile, NoCall
  <2>. QED BY <2>1, <2>2
<1>5. ASSUME NEW p \in Procs, Killed(p) PROVE Inv'
  BY <1>5 DEF Killed, NoCall
<1>6. ASSUME Observe PROVE Inv'
  BY <1>6 DEF Observe, ValueOf
<1>7. CASE UNCHANGED vars
  BY <1>7 DEF vars
<1>. QED BY <1>1, <1>2, <1>3, <1>4, <1>5, <1>6, <1>7 DEF Next

\* No two calls share a temporary file, and the target is never half-written.
THEOREM CallsStayApart == Spec => []CallsAreApart
<1>1. Inv => CallsAreApart
  BY DEF Inv
<1>. QED BY <1>1, InitInv, NextInv, PTL DEF Spec

\* The rename is the register's write, a reader's open is its read, and every
\* other step, a failure or a kill included, leaves the register alone.
THEOREM RegisterRefinement == Spec => ImplementsRegister
<1>1. Init => Register!Init
  BY DEF Init, Register!Init, ValueOf, Names, NoFile
<1>2. Inv /\ [Next]_vars => [Register!Next]_<<ValueOf(files[Target]), seen>>
  <2>. SUFFICES ASSUME Inv, [Next]_vars
                PROVE  \/ Register!Next
                       \/ UNCHANGED <<ValueOf(files[Target]), seen>>
    OBVIOUS
  <2>. USE DEF Inv, TypeOK, CallsAreApart, Names, Content, ValueOf
  <2>1. ASSUME NEW p \in Procs, NEW v \in Values, NEW n \in Temps, Make(p, v, n)
        PROVE  UNCHANGED <<ValueOf(files[Target]), seen>>
    BY <2>1, NamesAssumption DEF Make
  <2>2. ASSUME NEW p \in Procs, Fill(p)
        PROVE  UNCHANGED <<ValueOf(files[Target]), seen>>
    BY <2>2, NamesAssumption DEF Fill
  <2>3. ASSUME NEW p \in Procs, Replace(p)
        PROVE  Register!Next
    <3>1. /\ call[p].name # Target
          /\ files[call[p].name].exists /\ files[call[p].name].whole
          /\ files[call[p].name].text \in Values
      BY <2>3, NamesAssumption DEF Replace
    <3>2. files'[Target] = files[call[p].name] /\ UNCHANGED seen
      BY <2>3, <3>1 DEF Replace
    <3>3. Register!Write(files[call[p].name].text)
      BY <3>1, <3>2 DEF Register!Write
    <3>. QED BY <3>1, <3>3 DEF Register!Next
  <2>4. ASSUME NEW p \in Procs, Fail(p)
        PROVE  UNCHANGED <<ValueOf(files[Target]), seen>>
    BY <2>4, NamesAssumption DEF Fail
  <2>5. ASSUME NEW p \in Procs, Killed(p)
        PROVE  UNCHANGED <<ValueOf(files[Target]), seen>>
    BY <2>5 DEF Killed
  <2>6. ASSUME Observe
        PROVE  Register!Next
    BY <2>6 DEF Observe, Register!Next, Register!Observe
  <2>7. CASE UNCHANGED vars
    BY <2>7 DEF vars
  <2>. QED BY <2>1, <2>2, <2>3, <2>4, <2>5, <2>6, <2>7 DEF Next
<1>3. Spec => []Inv
  BY InitInv, NextInv, PTL DEF Spec
<1>. QED BY <1>1, <1>2, <1>3, PTL DEF Spec, ImplementsRegister, Register!Spec
=============================================================================
