--------------------------- MODULE RegistryProofs ---------------------------
(***************************************************************************)
(* The registry of deployment records: what is on disk, for any employees, *)
(* modes, missions and edits and any number of activations, stopped        *)
(* anywhere.                                                               *)
(***************************************************************************)
EXTENDS Factory, TLAPS

Steps == {"planned", "evident", "open", "written", "renamed", "unlinked"}

Mission == [here : BOOLEAN, paused : BOOLEAN, approved : BOOLEAN, timed : BOOLEAN,
            retired : BOOLEAN, aligned : BOOLEAN, log : Seq(R!States \X R!States)]

Generation == [records : UNION { [scope -> R!Record] : scope \in SUBSET Employees },
               open : Employees \cup {None}, lost : BOOLEAN]

Activation == [employee : Employees, record : R!Record, step : Steps]

RegistryTypeOK ==
  /\ seed \in [Employees -> R!Entry]
  /\ mission \in [Employees -> Mission]
  /\ file \in [Employees -> R!Record \cup {None, Torn}]
  /\ tmp \in [Employees -> R!Record \cup {None, Torn}]
  /\ generating \in Generation \cup {None}
  /\ activating \in [Activators -> Activation \cup {None}]

\* A record of e in an operating state that activate alone brings there.
Vouched(e, v) ==
  /\ Mode[e] \in {"commissioning", "draft"}
  /\ v \in R!Record /\ v.canonical /\ v.state \in R!Operating
  => v.participant /\ [employee |-> e, record |-> v] \in evidence

\* What generate is about to write operates in no mode that needs evidence.
GenerationVouched ==
  generating # None =>
    /\ generating.open # None => generating.open \in DOMAIN generating.records
    /\ \A e \in DOMAIN generating.records : Vouched(e, generating.records[e])

\* What activate is about to write is in the evidence it wrote first.
ActivationVouched(p) ==
  activating[p] # None =>
    /\ activating[p].record.participant
    /\ activating[p].step # "planned" =>
         [employee |-> activating[p].employee, record |-> activating[p].record] \in evidence

RegistryKept ==
  /\ RegistryTypeOK
  /\ \A e \in Employees : Vouched(e, file[e]) /\ Vouched(e, tmp[e])
  /\ GenerationVouched
  /\ \A p \in Activators : ActivationVouched(p)

-----------------------------------------------------------------------------
LEMMA RegistryAssumption == R!Assumption
BY FactoryAssumption

LEMMA RegistryStarts == ASSUME R!Init PROVE RegistryKept
<1>1. (CHOOSE d \in Digests : TRUE) \in Digests
  BY RegistryAssumption DEF R!Assumption
<1>2. << >> \in Seq(R!States \X R!States)
  OBVIOUS
<1>3. RegistryTypeOK
  BY <1>1, <1>2 DEF R!Init, RegistryTypeOK, R!Entry, Mission
<1>4. \A e \in Employees : Vouched(e, file[e]) /\ Vouched(e, tmp[e])
  BY RegistryAssumption DEF R!Assumption, R!Init, Vouched
<1> QED BY <1>3, <1>4 DEF RegistryKept, R!Init, GenerationVouched, ActivationVouched

\* Evidence is never taken back, so what is vouched for stays so.
LEMMA VouchedStill ==
  ASSUME NEW e, NEW v, Vouched(e, v), evidence \subseteq evidence'
  PROVE  Vouched(e, v)'
BY DEF Vouched

LEMMA TornVouched == \A e : Vouched(e, Torn) /\ Vouched(e, None)
BY RegistryAssumption DEF R!Assumption, Vouched

\* The state a mission's log starts from.
LEMMA BaseStateType ==
  ASSUME NEW m \in Mission, R!LogOK(m)
  PROVE  R!BaseState(m) \in R!States
<1>1. R!Observed(m) \in R!States
  BY DEF R!Observed, R!States, Mission
<1>2. CASE m.log # << >>
  <2>1. m.log \in Seq(R!States \X R!States) /\ 1 \in 1..Len(m.log)
    BY <1>2 DEF Mission
  <2>2. m.log[1] \in R!States \X R!States
    BY <2>1
  <2> QED BY <1>2, <2>2 DEF R!BaseState
<1> QED BY <1>1, <1>2 DEF R!BaseState

LEMMA BuiltType ==
  ASSUME RegistryTypeOK, NEW e \in Employees, NEW at_ \in Times, R!Buildable(e)
  PROVE  R!Built(e, at_) \in R!Record /\ Vouched(e, R!Built(e, at_))
<1>1. Mode[e] \in {"live", "draft", "interactive", "commissioning"}
  BY RegistryAssumption DEF R!Assumption
<1>2. R!ExpectedState(e) \in R!States
  <2>1. CASE Mode[e] = "live"
    <3>1. R!LogOK(mission[e]) /\ mission[e] \in Mission
      BY <2>1 DEF R!Buildable, RegistryTypeOK
    <3>2. R!ExpectedState(e) = R!BaseState(mission[e])
      BY <2>1 DEF R!ExpectedState
    <3> QED BY <3>1, <3>2, BaseStateType
  <2>2. CASE Mode[e] # "live"
    BY <1>1, <2>2 DEF R!ExpectedState, R!States
  <2> QED BY <2>1, <2>2
<1>3. R!Built(e, at_) \in R!Record
  BY <1>2 DEF R!Built, R!Record, RegistryTypeOK, R!Entry
<1>4. Mode[e] \in {"commissioning", "draft"} => R!ExpectedState(e) \notin R!Operating
  BY DEF R!ExpectedState, R!Operating
<1> QED BY <1>3, <1>4 DEF Vouched, R!Built

-----------------------------------------------------------------------------
(***************************************************************************)
(* One lemma per action.                                                   *)
(***************************************************************************)

LEMMA StartGenerateKeeps ==
  ASSUME RegistryKept, NEW scope \in SUBSET Employees, NEW at_ \in Times,
         R!StartGenerate(scope, at_)
  PROVE  RegistryKept'
<1>1. /\ \A e \in scope : R!Buildable(e)
      /\ generating' = [records |-> [e \in scope |-> R!Built(e, at_)],
                        open |-> None, lost |-> FALSE]
      /\ UNCHANGED << seed, source, homes, mission, file, tmp, evidence, activating, edits >>
  BY DEF R!StartGenerate
<1>2. \A e \in scope : R!Built(e, at_) \in R!Record /\ Vouched(e, R!Built(e, at_))
  BY <1>1, BuiltType DEF RegistryKept
<1>3. generating' \in Generation
  BY <1>1, <1>2 DEF Generation
<1>4. RegistryTypeOK'
  BY <1>1, <1>3 DEF RegistryKept, RegistryTypeOK
<1>5. GenerationVouched'
  BY <1>1, <1>2 DEF GenerationVouched, Vouched
<1> QED BY <1>1, <1>4, <1>5 DEF RegistryKept, Vouched, ActivationVouched

LEMMA OpenRecordKeeps ==
  ASSUME RegistryKept, NEW e \in Employees, R!OpenRecord(e)
  PROVE  RegistryKept'
<1>1. /\ generating # None /\ e \in DOMAIN generating.records
      /\ file' = [file EXCEPT ![e] = Torn]
      /\ generating' = [generating EXCEPT !.open = e]
      /\ UNCHANGED << seed, source, homes, mission, tmp, evidence, activating, edits >>
  BY DEF R!OpenRecord
<1>2. generating \in Generation
  BY <1>1 DEF RegistryKept, RegistryTypeOK
<1>3. generating' \in Generation /\ generating'.records = generating.records
      /\ generating'.open = e
  BY <1>1, <1>2 DEF Generation
<1>4. RegistryTypeOK'
  BY <1>1, <1>3 DEF RegistryKept, RegistryTypeOK
<1>5. \A o \in Employees : Vouched(o, file[o])' /\ Vouched(o, tmp[o])'
  BY <1>1, TornVouched DEF RegistryKept, RegistryTypeOK, Vouched
<1>6. GenerationVouched'
  BY <1>1, <1>3 DEF RegistryKept, GenerationVouched, Vouched
<1> QED BY <1>1, <1>4, <1>5, <1>6 DEF RegistryKept, ActivationVouched

LEMMA WriteRecordKeeps ==
  ASSUME RegistryKept, R!WriteRecord
  PROVE  RegistryKept'
<1> DEFINE e == generating.open
           rest == DOMAIN generating.records \ {e}
<1>1. /\ generating # None /\ e # None
      /\ IF generating.lost THEN UNCHANGED file
         ELSE \E r \in R!Overwritten(file[e], generating.records[e]) :
                file' = [file EXCEPT ![e] = r]
      /\ generating' =
           IF rest = {} THEN None
           ELSE [records |-> [o \in rest |-> generating.records[o]], open |-> None,
                 lost |-> FALSE]
      /\ UNCHANGED << seed, source, homes, mission, tmp, evidence, activating, edits >>
  BY DEF R!WriteRecord
<1>2. generating \in Generation
  BY <1>1 DEF RegistryKept, RegistryTypeOK
<1>3. PICK scope \in SUBSET Employees : generating.records \in [scope -> R!Record]
  BY <1>2 DEF Generation
<1>4. e \in scope /\ e \in Employees /\ DOMAIN generating.records = scope
      /\ \A o \in scope : Vouched(o, generating.records[o])
  BY <1>1, <1>3 DEF RegistryKept, GenerationVouched
<1>5. \A r \in R!Overwritten(file[e], generating.records[e]) :
        r \in R!Record \cup {None, Torn} /\ Vouched(e, r)
  BY <1>3, <1>4, TornVouched DEF R!Overwritten
<1>6. file' \in [Employees -> R!Record \cup {None, Torn}]
      /\ \A o \in Employees : Vouched(o, file'[o])
  <2>1. CASE generating.lost
    BY <1>1, <2>1 DEF RegistryKept, RegistryTypeOK
  <2>2. CASE ~generating.lost
    <3>1. PICK r \in R!Overwritten(file[e], generating.records[e]) :
            file' = [file EXCEPT ![e] = r]
      BY <1>1, <2>2
    <3>2. r \in R!Record \cup {None, Torn} /\ Vouched(e, r)
      BY <1>5
    <3> HIDE DEF e
    <3> QED BY <1>4, <3>1, <3>2 DEF RegistryKept, RegistryTypeOK
  <2> QED BY <2>1, <2>2
<1>7. generating' \in Generation \cup {None} /\ GenerationVouched'
  <2>1. CASE rest = {}
    BY <1>1, <2>1 DEF GenerationVouched
  <2>2. CASE rest # {}
    <3>1. PICK left : left = [o \in rest |-> generating.records[o]]
      OBVIOUS
    <3>2. PICK some : some = rest
      OBVIOUS
    <3>3. left \in [some -> R!Record] /\ some \in SUBSET Employees
      BY <1>3, <1>4, <3>1, <3>2
    <3>4. generating' = [records |-> left, open |-> None, lost |-> FALSE]
      BY <1>1, <2>2, <3>1
    <3>5. \A o \in some : Vouched(o, left[o])
      BY <1>4, <3>1, <3>2
    <3> HIDE DEF rest
    <3>6. generating' \in Generation
      BY <3>3, <3>4 DEF Generation
    <3>7. DOMAIN left = some
      BY <3>3
    <3>8. \A o \in some : Vouched(o, left[o])'
      BY <1>1, <3>5 DEF Vouched
    <3>9. (\A o \in DOMAIN generating.records : Vouched(o, generating.records[o]))'
      BY <3>4, <3>7, <3>8 DEF Vouched
    <3> QED BY <3>4, <3>6, <3>9 DEF GenerationVouched
  <2> QED BY <2>1, <2>2
<1>8. RegistryTypeOK'
  BY <1>1, <1>6, <1>7 DEF RegistryKept, RegistryTypeOK
<1>9. \A o \in Employees : Vouched(o, file[o])' /\ Vouched(o, tmp[o])'
  BY <1>1, <1>6 DEF RegistryKept, Vouched
<1> QED BY <1>1, <1>7, <1>8, <1>9 DEF RegistryKept, ActivationVouched

LEMMA PlanActivationKeeps ==
  ASSUME RegistryKept, NEW p \in Activators, NEW e \in Employees, NEW to \in R!States,
         NEW at_ \in Times, R!PlanActivation(p, e, to, at_)
  PROVE  RegistryKept'
<1> DEFINE r == [file[e] EXCEPT !.state = to, !.at = at_]
<1>1. /\ file[e] \in R!Record /\ file[e].participant
      /\ activating' = [activating EXCEPT ![p] =
           [employee |-> e, record |-> r, step |-> "planned"]]
      /\ UNCHANGED << seed, source, homes, mission, file, tmp, evidence, generating, edits >>
  BY DEF R!PlanActivation, R!Readable
<1>2. r \in R!Record /\ r.participant
  BY <1>1 DEF R!Record
<1> HIDE DEF r
<1>3. RegistryTypeOK'
  BY <1>1, <1>2 DEF RegistryKept, RegistryTypeOK, Activation, Steps
<1>4. \A q \in Activators : ActivationVouched(q)'
  BY <1>1, <1>2 DEF RegistryKept, RegistryTypeOK, ActivationVouched
<1> QED BY <1>1, <1>3, <1>4 DEF RegistryKept, GenerationVouched, Vouched

\* A step of an activation changes its step and nothing else of it.
LEMMA StepsBy ==
  ASSUME RegistryKept, NEW p \in Activators, NEW from, NEW to \in Steps, R!Steps(p, from, to)
  PROVE  /\ activating[p] \in Activation /\ activating[p].step = from
         /\ activating[p] # None
         /\ activating' \in [Activators -> Activation \cup {None}]
         /\ activating'[p].employee = activating[p].employee
         /\ activating'[p].record = activating[p].record
         /\ activating'[p].step = to
         /\ \A q \in Activators : q # p => activating'[q] = activating[q]
<1>1. /\ activating[p] # None /\ activating[p].step = from
      /\ activating' = [activating EXCEPT ![p].step = to]
  BY DEF R!Steps
<1>2. activating[p] \in Activation
  BY <1>1 DEF RegistryKept, RegistryTypeOK
<1> DEFINE a == [activating[p] EXCEPT !.step = to]
<1>3. a \in Activation /\ a.employee = activating[p].employee
      /\ a.record = activating[p].record /\ a.step = to
  BY <1>2 DEF Activation
<1>4. activating' = [activating EXCEPT ![p] = a]
  BY <1>1
<1> HIDE DEF a
<1> QED BY <1>1, <1>2, <1>3, <1>4 DEF RegistryKept, RegistryTypeOK

LEMMA WriteEvidenceKeeps ==
  ASSUME RegistryKept, NEW p \in Activators, R!WriteEvidence(p)
  PROVE  RegistryKept'
<1>1. /\ R!Steps(p, "planned", "evident")
      /\ evidence' = evidence \cup
           {[employee |-> activating[p].employee, record |-> activating[p].record]}
      /\ UNCHANGED << seed, source, homes, mission, file, tmp, generating, edits >>
  BY DEF R!WriteEvidence
<1>2. "evident" \in Steps
  BY DEF Steps
<1>3. evidence \subseteq evidence'
  BY <1>1
<1>4. \A q \in Activators : ActivationVouched(q)'
  <2> SUFFICES ASSUME NEW q \in Activators PROVE ActivationVouched(q)'
    OBVIOUS
  <2>1. CASE q = p
    BY <1>1, <1>2, <2>1, StepsBy DEF ActivationVouched, RegistryKept
  <2>2. CASE q # p
    BY <1>1, <1>2, <1>3, <2>2, StepsBy DEF ActivationVouched, RegistryKept
  <2> QED BY <2>1, <2>2
<1>5. RegistryTypeOK'
  BY <1>1, <1>2, StepsBy DEF RegistryKept, RegistryTypeOK
<1>6. GenerationVouched' /\ \A e \in Employees : Vouched(e, file[e])' /\ Vouched(e, tmp[e])'
  BY <1>1, <1>3 DEF RegistryKept, GenerationVouched, Vouched
<1> QED BY <1>4, <1>5, <1>6 DEF RegistryKept

LEMMA OpenTemporaryKeeps ==
  ASSUME RegistryKept, NEW p \in Activators, R!OpenTemporary(p)
  PROVE  RegistryKept'
<1>1. /\ R!Steps(p, "evident", "open")
      /\ tmp' = [tmp EXCEPT ![activating[p].employee] = Torn]
      /\ UNCHANGED << seed, source, homes, mission, file, evidence, generating, edits >>
  BY DEF R!OpenTemporary, R!Proven
<1>2. "open" \in Steps
  BY DEF Steps
<1>3. activating[p].employee \in Employees
  BY <1>1, <1>2, StepsBy DEF Activation
<1>4. \A q \in Activators : ActivationVouched(q)'
  <2> SUFFICES ASSUME NEW q \in Activators PROVE ActivationVouched(q)'
    OBVIOUS
  <2>1. CASE q = p
    BY <1>1, <1>2, <2>1, StepsBy DEF ActivationVouched, RegistryKept
  <2>2. CASE q # p
    BY <1>1, <1>2, <2>2, StepsBy DEF ActivationVouched, RegistryKept
  <2> QED BY <2>1, <2>2
<1>5. RegistryTypeOK'
  BY <1>1, <1>2, <1>3, StepsBy DEF RegistryKept, RegistryTypeOK
<1>6. \A e \in Employees : Vouched(e, file[e])' /\ Vouched(e, tmp[e])'
  BY <1>1, <1>3, TornVouched DEF RegistryKept, RegistryTypeOK, Vouched
<1> QED BY <1>1, <1>4, <1>5, <1>6 DEF RegistryKept, GenerationVouched, Vouched

\* Whatever is left of a record that activate wrote is vouched for.
LEMMA WrittenVouched ==
  ASSUME RegistryKept, NEW p \in Activators, activating[p] # None,
         activating[p].step # "planned",
         NEW old, NEW r \in R!Overwritten(old, activating[p].record)
  PROVE  r \in R!Record \cup {None, Torn} /\ Vouched(activating[p].employee, r)
<1>1. activating[p].record \in R!Record
  BY DEF RegistryKept, RegistryTypeOK, Activation
<1>2. Vouched(activating[p].employee, activating[p].record)
  BY DEF RegistryKept, ActivationVouched, Vouched
<1> QED BY <1>1, <1>2, TornVouched DEF R!Overwritten

LEMMA WriteTemporaryKeeps ==
  ASSUME RegistryKept, NEW p \in Activators, R!WriteTemporary(p)
  PROVE  RegistryKept'
<1>1. PICK from \in {"open", "renamed", "unlinked"} : R!Steps(p, from, "written")
  BY DEF R!WriteTemporary
<1>2. "written" \in Steps
  BY DEF Steps
<1> DEFINE e == activating[p].employee
<1>3. /\ e \in Employees /\ activating[p] # None /\ activating[p].step # "planned"
      /\ activating' \in [Activators -> Activation \cup {None}]
      /\ \A q \in Activators : q # p => activating'[q] = activating[q]
      /\ activating'[p].employee = e /\ activating'[p].record = activating[p].record
  BY <1>1, <1>2, StepsBy DEF Activation
<1>4. UNCHANGED << seed, source, homes, mission, evidence, generating, edits >>
  BY DEF R!WriteTemporary
<1>5. /\ file' = file \/ \E r \in R!Overwritten(file[e], activating[p].record) :
                           file' = [file EXCEPT ![e] = r]
      /\ tmp' = tmp \/ \E r \in R!Overwritten(tmp[e], activating[p].record) :
                         tmp' = [tmp EXCEPT ![e] = r]
  BY DEF R!WriteTemporary
<1> HIDE DEF e
<1>6. file' \in [Employees -> R!Record \cup {None, Torn}]
      /\ \A o \in Employees : Vouched(o, file'[o])
  <2>1. CASE file' = file
    BY <2>1 DEF RegistryKept, RegistryTypeOK
  <2>2. CASE file' # file
    <3>1. PICK r \in R!Overwritten(file[e], activating[p].record) : file' = [file EXCEPT ![e] = r]
      BY <1>5, <2>2
    <3>2. r \in R!Record \cup {None, Torn} /\ Vouched(e, r)
      BY <1>3, WrittenVouched DEF e
    <3> QED BY <1>3, <3>1, <3>2 DEF RegistryKept, RegistryTypeOK
  <2> QED BY <2>1, <2>2
<1>7. tmp' \in [Employees -> R!Record \cup {None, Torn}]
      /\ \A o \in Employees : Vouched(o, tmp'[o])
  <2>1. CASE tmp' = tmp
    BY <2>1 DEF RegistryKept, RegistryTypeOK
  <2>2. CASE tmp' # tmp
    <3>1. PICK r \in R!Overwritten(tmp[e], activating[p].record) : tmp' = [tmp EXCEPT ![e] = r]
      BY <1>5, <2>2
    <3>2. r \in R!Record \cup {None, Torn} /\ Vouched(e, r)
      BY <1>3, WrittenVouched DEF e
    <3> QED BY <1>3, <3>1, <3>2 DEF RegistryKept, RegistryTypeOK
  <2> QED BY <2>1, <2>2
<1>8. \A q \in Activators : ActivationVouched(q)'
  <2> SUFFICES ASSUME NEW q \in Activators PROVE ActivationVouched(q)'
    OBVIOUS
  <2>1. CASE q = p
    BY <1>3, <1>4, <2>1 DEF ActivationVouched, RegistryKept, e
  <2>2. CASE q # p
    BY <1>3, <1>4, <2>2 DEF ActivationVouched, RegistryKept
  <2> QED BY <2>1, <2>2
<1>9. RegistryTypeOK'
  BY <1>3, <1>4, <1>6, <1>7 DEF RegistryKept, RegistryTypeOK
<1>10. \A o \in Employees : Vouched(o, file[o])' /\ Vouched(o, tmp[o])'
  BY <1>4, <1>6, <1>7 DEF Vouched
<1> QED BY <1>4, <1>8, <1>9, <1>10 DEF RegistryKept, GenerationVouched, Vouched

\* The files of other activations move under them, their records do not change.
LEMMA MovedKeeps ==
  ASSUME RegistryKept, NEW q \in Activators, NEW e
  PROVE  /\ R!Moved(q, e) \in Activation \cup {None}
         /\ R!Moved(q, e) # None /\ activating[q] # None =>
              /\ R!Moved(q, e).employee = activating[q].employee
              /\ R!Moved(q, e).record = activating[q].record
              /\ R!Moved(q, e).step # "planned" => activating[q].step # "planned"
         /\ activating[q] = None => R!Moved(q, e) = None
<1>1. CASE activating[q] = None \/ activating[q].employee # e
  BY <1>1 DEF R!Moved, RegistryKept, RegistryTypeOK
<1>2. CASE ~(activating[q] = None \/ activating[q].employee # e)
  <2> DEFINE to == CASE activating[q].step = "open" -> "renamed"
                     [] activating[q].step = "renamed" -> "unlinked"
                     [] OTHER -> activating[q].step
  <2>1. activating[q] \in Activation
    BY <1>2 DEF RegistryKept, RegistryTypeOK
  <2>2. to \in Steps /\ (to # "planned" => activating[q].step # "planned")
    BY <2>1 DEF Steps, Activation
  <2>3. R!Moved(q, e) = [activating[q] EXCEPT !.step = to]
    BY <1>2 DEF R!Moved
  <2> HIDE DEF to
  <2> QED BY <1>2, <2>1, <2>2, <2>3 DEF Activation
<1> QED BY <1>1, <1>2

LEMMA ReplaceRecordKeeps ==
  ASSUME RegistryKept, NEW p \in Activators, R!ReplaceRecord(p)
  PROVE  RegistryKept'
<1> DEFINE e == activating[p].employee
<1>1. activating[p] # None /\ activating[p] \in Activation /\ e \in Employees
  BY DEF R!ReplaceRecord, RegistryKept, RegistryTypeOK, Activation
<1>2. UNCHANGED << seed, source, homes, mission, evidence, edits >>
  BY DEF R!ReplaceRecord
<1>3. /\ \/ UNCHANGED << file, tmp >>
         \/ file' = [file EXCEPT ![e] = tmp[e]] /\ tmp' = [tmp EXCEPT ![e] = None]
      /\ \/ activating' = [activating EXCEPT ![p] = None]
         \/ activating' = [q \in Activators |-> IF q = p THEN None ELSE R!Moved(q, e)]
      /\ \/ UNCHANGED generating
         \/ generating # None /\ generating' = [generating EXCEPT !.lost = TRUE]
  BY DEF R!ReplaceRecord
<1> HIDE DEF e
<1>4. /\ file' \in [Employees -> R!Record \cup {None, Torn}]
      /\ tmp' \in [Employees -> R!Record \cup {None, Torn}]
      /\ \A o \in Employees : Vouched(o, file'[o]) /\ Vouched(o, tmp'[o])
  BY <1>1, <1>3, TornVouched DEF RegistryKept, RegistryTypeOK
<1>5. activating' \in [Activators -> Activation \cup {None}]
      /\ \A q \in Activators : ActivationVouched(q)'
  <2>1. CASE activating' = [activating EXCEPT ![p] = None]
    BY <1>2, <2>1 DEF RegistryKept, RegistryTypeOK, ActivationVouched
  <2>2. CASE activating' = [q \in Activators |-> IF q = p THEN None ELSE R!Moved(q, e)]
    <3>1. activating' \in [Activators -> Activation \cup {None}]
      BY <2>2, MovedKeeps
    <3>2. \A q \in Activators : ActivationVouched(q)'
      BY <1>2, <2>2, MovedKeeps DEF RegistryKept, ActivationVouched
    <3> QED BY <3>1, <3>2
  <2> QED BY <1>3, <2>1, <2>2
<1>6. generating' \in Generation \cup {None} /\ GenerationVouched'
  <2>1. CASE UNCHANGED generating
    BY <1>2, <2>1 DEF RegistryKept, RegistryTypeOK, GenerationVouched, Vouched
  <2>2. CASE generating # None /\ generating' = [generating EXCEPT !.lost = TRUE]
    <3>1. generating' \in Generation /\ generating'.records = generating.records
          /\ generating'.open = generating.open
      BY <2>2 DEF RegistryKept, RegistryTypeOK, Generation
    <3> QED BY <1>2, <2>2, <3>1 DEF RegistryKept, GenerationVouched, Vouched
  <2> QED BY <1>3, <2>1, <2>2
<1>7. RegistryTypeOK'
  BY <1>2, <1>4, <1>5, <1>6 DEF RegistryKept, RegistryTypeOK
<1>8. \A o \in Employees : Vouched(o, file[o])' /\ Vouched(o, tmp[o])'
  BY <1>2, <1>4 DEF Vouched
<1> QED BY <1>5, <1>6, <1>7, <1>8 DEF RegistryKept

LEMMA EditKeeps ==
  ASSUME RegistryKept, NEW e \in Employees,
         R!EditSeed(e) \/ R!EditSpecification(e) \/ R!MoveWorkspace(e)
           \/ R!EditMission(e) \/ R!EditRecord(e)
  PROVE  RegistryKept'
<1>1. UNCHANGED << tmp, evidence, generating, activating >>
  BY DEF R!EditSeed, R!EditSpecification, R!MoveWorkspace, R!EditMission, R!EditRecord, R!Edit
<1>2. seed' \in [Employees -> R!Entry]
  BY DEF R!EditSeed, R!EditSpecification, R!MoveWorkspace, R!EditMission, R!EditRecord,
         RegistryKept, RegistryTypeOK
<1>3. mission' \in [Employees -> Mission]
  <2>1. CASE UNCHANGED mission
    BY <2>1 DEF RegistryKept, RegistryTypeOK
  <2>2. CASE R!EditMission(e)
    <3>1. mission \in [Employees -> Mission]
      BY DEF RegistryKept, RegistryTypeOK
    <3>2. CASE \E f \in {"here", "paused", "approved", "timed", "retired", "aligned"} :
                 mission' = [mission EXCEPT ![e][f] = ~mission[e][f]]
      <4>1. PICK f \in {"here", "paused", "approved", "timed", "retired", "aligned"} :
              mission' = [mission EXCEPT ![e][f] = ~mission[e][f]]
        BY <3>2
      <4> DEFINE m == [mission[e] EXCEPT ![f] = ~mission[e][f]]
      <4>2. mission' = [mission EXCEPT ![e] = m]
        BY <4>1
      <4>3. mission[e] \in Mission
        BY <3>1
      <4>4. m \in Mission
        BY <4>3 DEF Mission
      <4> HIDE DEF m
      <4> QED BY <3>1, <4>2, <4>4
    <3>3. CASE \E log \in Logs : mission' = [mission EXCEPT ![e].log = log]
      BY <3>1, <3>3, RegistryAssumption DEF R!Assumption, Mission
    <3> QED BY <2>2, <3>2, <3>3 DEF R!EditMission
  <2> QED BY <2>1, <2>2 DEF R!EditSeed, R!EditSpecification, R!MoveWorkspace, R!EditRecord
<1>4. file' \in [Employees -> R!Record \cup {None, Torn}]
      /\ \A o \in Employees : Vouched(o, file'[o])
  <2>1. CASE UNCHANGED file
    BY <2>1 DEF RegistryKept, RegistryTypeOK
  <2>2. CASE R!EditRecord(e)
    <3>1. PICK s \in R!States :
            file' = [file EXCEPT ![e] = [file[e] EXCEPT !.state = s, !.canonical = FALSE]]
      BY <2>2 DEF R!EditRecord
    <3> DEFINE r == [file[e] EXCEPT !.state = s, !.canonical = FALSE]
    <3>2. file[e] \in R!Record
      BY <2>2 DEF R!EditRecord, R!Readable
    <3>3. r \in R!Record /\ r.canonical = FALSE
      BY <3>2 DEF R!Record
    <3>4. Vouched(e, r)
      BY <3>3 DEF Vouched
    <3> HIDE DEF r
    <3> QED BY <3>1, <3>3, <3>4 DEF RegistryKept, RegistryTypeOK, r
  <2> QED BY <2>1, <2>2 DEF R!EditSeed, R!EditSpecification, R!MoveWorkspace, R!EditMission
<1>5. RegistryTypeOK'
  BY <1>1, <1>2, <1>3, <1>4 DEF RegistryKept, RegistryTypeOK
<1>6. \A o \in Employees : Vouched(o, file[o])' /\ Vouched(o, tmp[o])'
  BY <1>1, <1>4 DEF RegistryKept, Vouched
<1> QED BY <1>1, <1>5, <1>6 DEF RegistryKept, GenerationVouched, ActivationVouched, Vouched

LEMMA StopKeeps ==
  ASSUME RegistryKept, R!GenerateStops \/ \E p \in Activators : R!ActivationStops(p)
  PROVE  RegistryKept'
<1>1. CASE R!GenerateStops
  BY <1>1 DEF R!GenerateStops, RegistryKept, RegistryTypeOK, GenerationVouched,
              ActivationVouched, Vouched
<1>2. CASE \E p \in Activators : R!ActivationStops(p)
  BY <1>2 DEF R!ActivationStops, RegistryKept, RegistryTypeOK, GenerationVouched,
              ActivationVouched, Vouched
<1> QED BY <1>1, <1>2

LEMMA RegistryStep == ASSUME RegistryKept, [R!Next]_R!vars PROVE RegistryKept'
<1>1. CASE R!Generate
  BY <1>1, StartGenerateKeeps, OpenRecordKeeps, WriteRecordKeeps, StopKeeps DEF R!Generate
<1>2. CASE \E p \in Activators : R!Activate(p)
  BY <1>2, PlanActivationKeeps, WriteEvidenceKeeps, OpenTemporaryKeeps, WriteTemporaryKeeps,
     ReplaceRecordKeeps, StopKeeps DEF R!Activate
<1>3. CASE R!External
  BY <1>3, EditKeeps DEF R!External
<1>4. CASE UNCHANGED R!vars
  BY <1>4 DEF R!vars, RegistryKept, RegistryTypeOK, GenerationVouched,
              ActivationVouched, Vouched
<1> QED BY <1>1, <1>2, <1>3, <1>4 DEF R!Next

RegistryInv == part = "registry" => RegistryKept

LEMMA OnlyKeepRegistry ==
  ASSUME part = "registry", [FactoryNext]_everything
  PROVE  [R!Next]_R!vars
BY DEF FactoryNext, everything, registry, R!vars, Time, Authorize, AssignWork, PassArtifacts,
       KeepRegistry, SelectRoutes, KeepEvidence, CaptureUsage, Dispatch, Judge

LEMMA PartOfRegistry == [FactoryNext]_everything => part' = part
BY DEF FactoryNext, everything, Time, Authorize, AssignWork, PassArtifacts, KeepRegistry,
       SelectRoutes, KeepEvidence, CaptureUsage, Dispatch, Judge

THEOREM RegistryHolds == FactorySpec => []RegistryInv
<1>1. FactoryInit => RegistryInv
  BY RegistryStarts DEF FactoryInit, RegistryInv
<1>2. RegistryInv /\ [FactoryNext]_everything => RegistryInv'
  BY PartOfRegistry, OnlyKeepRegistry, RegistryStep DEF RegistryInv
<1> QED BY <1>1, <1>2, PTL DEF FactorySpec

\* A record at work has its evidence and a Board identity (activate).
THEOREM ActivationProven == FactorySpec => []ActivationHasEvidence
<1>1. RegistryInv => ActivationHasEvidence
  BY DEF RegistryInv, RegistryKept, Vouched, ActivationHasEvidence, R!ActivationHasEvidence,
         R!Readable
<1> QED BY <1>1, RegistryHolds, PTL

-----------------------------------------------------------------------------
(***************************************************************************)
(* What a report without findings says.                                    *)
(***************************************************************************)

\* A legal log leads from its base to the state observed.
LEMMA LogLeads ==
  ASSUME NEW m \in Mission, R!LogOK(m)
  PROVE  LET path == << R!BaseState(m) >> \o [i \in 1..Len(m.log) |-> m.log[i][2]]
         IN  /\ path[Len(path)] = R!Observed(m)
             /\ \A i \in 2..Len(path) : R!LegalTransition(path[i - 1], path[i])
<1> DEFINE log == m.log
           tail == [i \in 1..Len(log) |-> log[i][2]]
           base == R!BaseState(m)
           path == << base >> \o tail
<1>1. log \in Seq(R!States \X R!States) /\ Len(log) \in Nat
  BY DEF Mission
<1>2. \A i \in 1..Len(log) : log[i] \in R!States \X R!States
  BY <1>1
<1>3. tail \in Seq(R!States) /\ Len(tail) = Len(log)
      /\ \A i \in 1..Len(log) : tail[i] = log[i][2]
  BY <1>1, <1>2
<1>4. base \in R!States
  BY BaseStateType
<1> HIDE DEF tail, base
<1>5. Len(path) = Len(log) + 1 /\ path[1] = base
      /\ \A i \in 2..Len(log) + 1 : path[i] = tail[i - 1]
  BY <1>1, <1>3, <1>4
<1> HIDE DEF path
<1>6. CASE log = << >>
  <2>1. Len(log) = 0 /\ base = R!Observed(m)
    BY <1>6 DEF R!BaseState, base
  <2>2. Len(path) = 1 /\ path[1] = R!Observed(m)
    BY <1>5, <2>1
  <2> QED BY <2>2 DEF path, tail, base
<1>7. CASE log # << >>
  <2>1. Len(log) \in Nat \ {0} /\ base = log[1][1]
    BY <1>1, <1>7 DEF R!BaseState, base
  <2>2. path[Len(path)] = log[Len(log)][2]
    BY <1>3, <1>5, <2>1
  <2>3. /\ \A i \in 1..Len(log) : R!LegalTransition(log[i][1], log[i][2])
        /\ \A i \in 2..Len(log) : log[i][1] = log[i - 1][2]
        /\ log[Len(log)][2] = R!Observed(m)
    BY <1>7 DEF R!LogOK
  <2>4. ASSUME NEW i \in 2..Len(path) PROVE R!LegalTransition(path[i - 1], path[i])
    <3>1. i - 1 \in 1..Len(log) /\ path[i] = log[i - 1][2]
      <4>1. i \in 2..Len(log) + 1
        BY <1>5
      <4>2. i - 1 \in 1..Len(log)
        BY <2>1, <4>1
      <4>3. path[i] = tail[i - 1]
        BY <1>5, <4>1
      <4>4. tail[i - 1] = log[i - 1][2]
        BY <1>3, <4>2
      <4> QED BY <4>2, <4>3, <4>4
    <3>2. path[i - 1] = log[i - 1][1]
      <4>1. CASE i = 2
        BY <1>5, <2>1, <4>1
      <4>2. CASE i # 2
        <5>1. i - 1 \in 2..Len(log) /\ i - 2 \in 1..Len(log)
          BY <1>1, <3>1, <4>2
        <5>2. path[i - 1] = tail[i - 2] /\ tail[i - 2] = log[i - 2][2]
          BY <1>3, <1>5, <5>1
        <5> QED BY <2>3, <5>1, <5>2
      <4> QED BY <4>1, <4>2
    <3> QED BY <2>3, <3>1, <3>2
  <2> QED BY <2>2, <2>3, <2>4 DEF path, tail, base
<1> QED BY <1>6, <1>7

\* A finding that is not made has no cause.
LEMMA NoFinding ==
  ASSUME NEW condition \in BOOLEAN, NEW code, R!When(condition, code) = {}
  PROVE  ~condition
BY DEF R!When

LEMMA CleanFindings ==
  ASSUME RegistryKept, NEW e \in Employees, R!Findings(e) = {}
  PROVE  /\ R!Readable(e)
         /\ R!Buildable(e) /\ file[e].state = R!ExpectedState(e)
         /\ file[e].spec = source[e] /\ source[e] = seed[e].spec /\ e \in homes
         /\ Mode[e] = "live" => mission[e].here /\ R!Compliance(e) # "noncompliant"
<1>1. R!RecordFindings(e) = {}
  BY DEF R!Findings
<1>2. file[e] # None /\ file[e] # Torn
  <2>1. R!When(file[e] = None, "RECORD_MISSING") = {}
        /\ R!When(file[e] = Torn, "invalid-deployment-record") = {}
    BY <1>1 DEF R!RecordFindings
  <2> QED BY <2>1 DEF R!When
<1>3. R!Readable(e)
  BY <1>2 DEF R!Readable, RegistryKept, RegistryTypeOK
<1>4. R!BindingFindings(e) = {}
      /\ (Mode[e] = "live" => mission[e].here /\ R!Compliance(e) # "noncompliant")
  <2>1. CASE Mode[e] = "live"
    <3>1. R!LiveFindings(e) = {}
          /\ R!When(R!Compliance(e) = "noncompliant", "BOARD_PARTICIPATION_NONCOMPLIANT") = {}
      BY <1>3, <2>1 DEF R!Findings
    <3>2. mission[e].here /\ R!BindingFindings(e) = {}
      BY <3>1 DEF R!LiveFindings
    <3> QED BY <3>1, <3>2 DEF R!When
  <2>2. CASE Mode[e] # "live"
    BY <1>3, <2>2 DEF R!Findings
  <2> QED BY <2>1, <2>2
<1>5. /\ R!When(~R!Buildable(e), "RECORD_RECONCILIATION_ERROR") = {}
      /\ R!When(R!LifecycleDrift(e), "LIFECYCLE_DRIFT") = {}
  BY <1>4 DEF R!BindingFindings
<1>6. R!Buildable(e) /\ ~R!LifecycleDrift(e)
  BY <1>5 DEF R!When
<1>7. file[e].spec = seed[e].spec
  <2>1. R!When(/\ R!Buildable(e)
               /\ \/ file[e].spec # seed[e].spec
                  \/ file[e].participant # seed[e].participant
                  \/ Mode[e] # "live" /\ file[e].state # R!ExpectedState(e),
               "RECORD_BINDING_DRIFT") = {}
    BY <1>4 DEF R!BindingFindings
  <2> QED BY <1>6, <2>1 DEF R!When
<1>8. file[e].state = R!ExpectedState(e)
  BY <1>6 DEF R!LifecycleDrift
<1>9. source[e] = seed[e].spec /\ e \in homes
  BY <1>6 DEF R!Buildable
<1> QED BY <1>3, <1>4, <1>6, <1>7, <1>8, <1>9

\* A reconciliation without findings tells the truth (reconcile).
THEOREM CleanReportBelieved == FactorySpec => []CleanReportIsTrue
<1>1. RegistryInv => CleanReportIsTrue
  <2> SUFFICES ASSUME RegistryKept PROVE R!CleanReportIsTrue
    BY DEF RegistryInv, CleanReportIsTrue
  <2> SUFFICES
        ASSUME NEW e \in Employees, R!Findings(e) = {}
        PROVE  /\ file[e].spec = source[e] /\ source[e] = seed[e].spec
               /\ e \in homes
               /\ LET log == IF Mode[e] = "live" THEN mission[e].log ELSE << >>
                      path == << file[e].state >> \o [i \in 1..Len(log) |-> log[i][2]]
                  IN  /\ path[Len(path)] = R!Reported(e)
                      /\ \A i \in 2..Len(path) : R!LegalTransition(path[i - 1], path[i])
               /\ Mode[e] = "live" /\ R!Reported(e) \in R!Operating => file[e].participant
    BY DEF R!CleanReportIsTrue
  <2>1. /\ R!Readable(e)
        /\ R!Buildable(e) /\ file[e].state = R!ExpectedState(e)
        /\ file[e].spec = source[e] /\ source[e] = seed[e].spec /\ e \in homes
        /\ Mode[e] = "live" => mission[e].here /\ R!Compliance(e) # "noncompliant"
    BY CleanFindings
  <2>2. CASE Mode[e] = "live"
    <3>1. mission[e] \in Mission /\ R!LogOK(mission[e])
      BY <2>1, <2>2 DEF RegistryKept, RegistryTypeOK, R!Buildable
    <3>2. file[e].state = R!BaseState(mission[e]) /\ R!Reported(e) = R!Observed(mission[e])
      BY <2>1, <2>2 DEF R!ExpectedState, R!Reported
    <3>3. R!Reported(e) \in R!Operating => file[e].participant
      <4>1. R!Reported(e) \in R!Operating => R!JudgedState(e) \in R!Operating
        BY <2>1, <2>2, <3>2 DEF R!JudgedState
      <4> QED BY <2>1, <2>2, <4>1 DEF R!Compliance
    <3> QED BY <2>1, <2>2, <3>1, <3>2, <3>3, LogLeads
  <2>3. CASE Mode[e] # "live"
    <3> DEFINE path == << file[e].state >> \o [i \in 1..Len(<< >>) |-> << >>[i][2]]
    <3>1. file[e].state = R!Reported(e)
      BY <2>1, <2>3 DEF R!Reported
    <3>2. [i \in 1..Len(<< >>) |-> << >>[i][2]] = << >>
      OBVIOUS
    <3>3. path = << file[e].state >> /\ Len(path) = 1 /\ path[1] = file[e].state
      BY <3>2
    <3>4. path[Len(path)] = R!Reported(e)
          /\ \A i \in 2..Len(path) : R!LegalTransition(path[i - 1], path[i])
      <4> HIDE DEF path
      <4> QED BY <3>1, <3>3
    <3> QED BY <2>1, <2>3, <3>4
  <2> QED BY <2>2, <2>3
<1> QED BY <1>1, RegistryHolds, PTL
=============================================================================
