----------------------- MODULE VendorDecision_proofs -----------------------
(***************************************************************************)
(* Proofs about VendorDecision, for every set of users, files, scores and   *)
(* document types and every bound.                                          *)
(***************************************************************************)
EXTENDS VendorDecision, TLAPS, SequenceTheorems, FiniteSetTheorems

-----------------------------------------------------------------------------
(* Rows *)

LEMMA AppendFacts ==
    ASSUME NEW S, NEW s \in Seq(S), NEW x \in S
    PROVE  /\ Append(s, x) \in Seq(S)
           /\ Len(Append(s, x)) = Len(s) + 1
           /\ DOMAIN Append(s, x) = DOMAIN s \cup {Len(s) + 1}
           /\ \A i \in DOMAIN s : Append(s, x)[i] = s[i]
           /\ Append(s, x)[Len(s) + 1] = x
<1>1. Len(s) \in Nat /\ DOMAIN s = 1..Len(s)
  OBVIOUS
<1>2. Append(s, x) \in Seq(S) /\ Len(Append(s, x)) = Len(s) + 1
  OBVIOUS
<1>3. DOMAIN Append(s, x) = 1..(Len(s) + 1)
  BY <1>2
<1> QED
  BY <1>1, <1>2, <1>3

LEMMA ConcatFacts ==
    ASSUME NEW S, NEW s \in Seq(S), NEW t \in Seq(S)
    PROVE  /\ s \o t \in Seq(S)
           /\ DOMAIN s \subseteq DOMAIN (s \o t)
           /\ \A i \in DOMAIN s : (s \o t)[i] = s[i]
           /\ \A i \in DOMAIN (s \o t) :
                i \in DOMAIN s \/ \E j \in DOMAIN t : (s \o t)[i] = t[j]
           /\ \A j \in DOMAIN t : \E i \in DOMAIN (s \o t) :
                i \notin DOMAIN s /\ (s \o t)[i] = t[j]
<1>1. /\ Len(s) \in Nat /\ DOMAIN s = 1..Len(s)
      /\ Len(t) \in Nat /\ DOMAIN t = 1..Len(t)
  OBVIOUS
<1>2. /\ s \o t \in Seq(S) /\ Len(s \o t) = Len(s) + Len(t)
      /\ \A i \in 1..(Len(s) + Len(t)) :
           (s \o t)[i] = IF i <= Len(s) THEN s[i] ELSE t[i - Len(s)]
  BY ConcatProperties
<1>3. DOMAIN (s \o t) = 1..(Len(s) + Len(t))
  BY <1>2, LenProperties
<1>4. ASSUME NEW i \in DOMAIN (s \o t), i \notin DOMAIN s
      PROVE  \E j \in DOMAIN t : (s \o t)[i] = t[j]
  <2>1. i - Len(s) \in DOMAIN t /\ (s \o t)[i] = t[i - Len(s)]
    BY <1>1, <1>2, <1>3, <1>4
  <2> QED
    BY <2>1
<1>5. ASSUME NEW j \in DOMAIN t
      PROVE  \E i \in DOMAIN (s \o t) : i \notin DOMAIN s /\ (s \o t)[i] = t[j]
  <2>1. /\ j + Len(s) \in DOMAIN (s \o t) /\ j + Len(s) \notin DOMAIN s
        /\ (s \o t)[j + Len(s)] = t[(j + Len(s)) - Len(s)]
    BY <1>1, <1>2, <1>3
  <2>2. (j + Len(s)) - Len(s) = j
    BY <1>1
  <2> QED
    BY <2>1, <2>2
<1> QED
  BY <1>1, <1>2, <1>3, <1>4, <1>5

LEMMA NewFindingType ==
    ASSUME NEW e \in Nat, NEW i \in Nat, NEW severity \in Severities, NEW target \in Targets
    PROVE  /\ new_finding(e, i, severity, target) \in FindingRows
           /\ new_finding(e, i, severity, target).evidence = e
           /\ new_finding(e, i, severity, target).index = i
BY DEF new_finding, FindingRows, Statuses

\* An update writes the columns that differ, and only those.
LEMMA MergedFacts ==
    ASSUME NEW row \in FindingRows, NEW read \in FindingRows, NEW new \in FindingRows
    PROVE  /\ merged(row, read, new) \in FindingRows
           /\ new.evidence = read.evidence => merged(row, read, new).evidence = row.evidence
           /\ new.index = read.index => merged(row, read, new).index = row.index
           /\ merged(row, read, new).status =
                IF new.status # read.status THEN new.status ELSE row.status
           /\ merged(row, read, new).target =
                IF new.target # read.target THEN new.target ELSE row.target
BY DEF merged, FindingRows

\* Repeats dropped or not, a row with these values is in the log, and nothing else
\* is new there.
LEMMA AuditFacts ==
    ASSUME audit \subseteq AuditRows, clock \in Nat,
           NEW u \in Users, NEW action \in Events, NEW object \in Nat,
           NEW details \in Seq(Words),
           record_audit_event(u, action, object, details)
    PROVE  /\ audit' \subseteq AuditRows
           /\ audit \subseteq audit'
           /\ \E row \in audit' :
                /\ row.actor = u /\ row.action = action /\ row.object = object
                /\ row.details = details /\ row.at >= clock - Window
           /\ \A row \in audit' :
                row \in audit \/ (row.action = action /\ row.object = object)
<1> DEFINE event == [actor |-> u, action |-> action, object |-> object,
                     details |-> details, at |-> clock]
<1>1. event \in AuditRows
  BY DEF AuditRows
<1>2. /\ event.actor = u /\ event.action = action /\ event.object = object
      /\ event.details = details /\ event.at = clock
  OBVIOUS
<1>3. audit' = audit \cup (IF \E row \in audit : is_repeat(row, event) THEN {} ELSE {event})
  BY DEF record_audit_event
<1> HIDE DEF event
<1>4. Window \in Nat
  BY BoundsAssumption
<1>5. CASE \E row \in audit : is_repeat(row, event)
  <2>1. PICK row \in audit : is_repeat(row, event)
    BY <1>5
  <2>2. row \in AuditRows /\ [row EXCEPT !.at = event.at] = event /\ row.at >= event.at - Window
    BY <2>1 DEF is_repeat
  <2>3. /\ row.actor = event.actor /\ row.action = event.action
        /\ row.object = event.object /\ row.details = event.details
    BY <2>2 DEF AuditRows
  <2>4. audit' = audit
    BY <1>3, <1>5
  <2>5. row.at >= clock - Window /\ row \in audit'
    BY <1>2, <2>1, <2>2, <2>4
  <2>6. row \in audit' /\ row.actor = u /\ row.action = action /\ row.object = object
        /\ row.details = details /\ row.at >= clock - Window
    BY <1>2, <2>3, <2>5
  <2> QED
    BY <2>4, <2>6
<1>6. CASE ~ \E row \in audit : is_repeat(row, event)
  <2>1. audit' = audit \cup {event}
    BY <1>3, <1>6
  <2>2. event.at >= clock - Window
    BY <1>2, <1>4
  <2>3. event \in audit' /\ audit \subseteq audit' /\ audit' \subseteq AuditRows
    BY <1>1, <2>1
  <2>4. \A row \in audit' : row \in audit \/ row = event
    BY <2>1
  <2>5. \A row \in audit' : row \in audit \/ (row.action = action /\ row.object = object)
    BY <1>2, <2>4
  <2>6. event \in audit' /\ event.actor = u /\ event.action = action
        /\ event.object = object /\ event.details = details /\ event.at >= clock - Window
    BY <1>2, <2>2, <2>3
  <2> QED
    BY <2>3, <2>5, <2>6
<1> QED
  BY <1>5, <1>6

-----------------------------------------------------------------------------
(* Reasons *)

EvidenceReasons     == {"evidence_incomplete"} \X Requirements
FindingReasons      == {"high_risk_finding"} \X Nat
ReassessmentReasons == {"open_reassessment"} \X Nat
RiskReasons         == {"critical_residual_risk"} \X Nat

LEMMA ReasonTypes ==
    /\ \A required \in SUBSET Requirements : \A held :
         evidence_reasons(required, held) \subseteq EvidenceReasons
    /\ \A list \in Seq(FindingRows) : finding_reasons(list) \subseteq FindingReasons
    /\ \A statuses \in Seq(ReassessmentStatuses) :
         reassessment_reasons(statuses) \subseteq ReassessmentReasons
    /\ \A s : blocking(risk_reasons(s)) \subseteq RiskReasons
    /\ \A s : risk_reasons(s) \subseteq Reasons
    /\ EvidenceReasons \cup FindingReasons \cup ReassessmentReasons \subseteq Reasons
<1>1. \A required \in SUBSET Requirements : \A held :
        evidence_reasons(required, held) \subseteq EvidenceReasons
  BY DEF evidence_reasons, missing, EvidenceReasons
<1>2. \A list \in Seq(FindingRows) : finding_reasons(list) \subseteq FindingReasons
  BY DEF finding_reasons, FindingReasons
<1>3. \A statuses \in Seq(ReassessmentStatuses) :
        reassessment_reasons(statuses) \subseteq ReassessmentReasons
  BY DEF reassessment_reasons, ReassessmentReasons
<1>4. \A s : risk_reasons(s) \subseteq
               {<<"critical_residual_risk", 0>>, <<"high_residual_risk", 0>>}
  BY DEF risk_reasons
<1>5. <<"critical_residual_risk", 0>> \in RiskReasons
      /\ <<"high_residual_risk", 0>>[1] = "high_residual_risk"
  BY DEF RiskReasons
<1>6. \A s : blocking(risk_reasons(s)) \subseteq RiskReasons
  BY <1>4, <1>5 DEF blocking
<1>7. <<"critical_residual_risk", 0>> \in Reasons /\ <<"high_residual_risk", 0>> \in Reasons
  BY DEF Reasons
<1>8. EvidenceReasons \cup FindingReasons \cup ReassessmentReasons \subseteq Reasons
  BY DEF EvidenceReasons, FindingReasons, ReassessmentReasons, Reasons
<1> QED
  BY <1>1, <1>2, <1>3, <1>4, <1>6, <1>7, <1>8

\* Only a high residual risk is a reason that does not block.
LEMMA BlockingKinds ==
    /\ \A S : blocking(S) \subseteq S
    /\ \A S, T : blocking(S \cup T) = blocking(S) \cup blocking(T)
    /\ \A S : S \subseteq EvidenceReasons => blocking(S) = S
    /\ \A S : S \subseteq FindingReasons => blocking(S) = S
    /\ \A S : S \subseteq ReassessmentReasons => blocking(S) = S
<1>1. \A r \in EvidenceReasons \cup FindingReasons \cup ReassessmentReasons :
        r[1] # "high_residual_risk"
  BY DEF EvidenceReasons, FindingReasons, ReassessmentReasons
<1> QED
  BY <1>1 DEF blocking

\* Each kind of reason comes from one query.
LEMMA KindsDiffer ==
    /\ EvidenceReasons \cap FindingReasons = {}
    /\ EvidenceReasons \cap ReassessmentReasons = {}
    /\ EvidenceReasons \cap RiskReasons = {}
    /\ FindingReasons \cap ReassessmentReasons = {}
    /\ FindingReasons \cap RiskReasons = {}
    /\ ReassessmentReasons \cap RiskReasons = {}
BY DEF EvidenceReasons, FindingReasons, ReassessmentReasons, RiskReasons

LEMMA RequiredType == \A engaged : required_evidence(engaged) \subseteq Requirements
BY DEF required_evidence

-----------------------------------------------------------------------------
(* Runs *)

LEMMA RunFields ==
    ASSUME NEW r \in Runs
    PROVE  /\ (r.stage = "Idle") <=> (r = Idle)
           /\ r.stage = "Register" => r.evidence \in Nat
           /\ r.stage = "Findings" => r.read \in Seq(FindingRows)
           /\ r.stage \in {"Profile", "Evidence", "Gate findings", "Gate assessments", "Gate"}
                => r.residual \in Scores
           /\ r.stage = "Evidence" => r.required \in SUBSET Requirements
           /\ r.stage \in {"Gate findings", "Gate assessments", "Gate"}
                => r.reasons \in SUBSET Reasons
<1>1. \/ r = Idle
      \/ r \in [stage : {"Intake"}]
      \/ r \in [stage : {"Register"}, evidence : Nat]
      \/ r \in [stage : {"Findings"}, read : Seq(FindingRows)]
      \/ r \in [stage : {"Profile"}, residual : Scores]
      \/ r \in [stage : {"Evidence"}, residual : Scores, required : SUBSET Requirements]
      \/ r \in [stage : {"Gate findings", "Gate assessments", "Gate"},
                residual : Scores, reasons : SUBSET Reasons]
  BY DEF Runs
<1>2. CASE r = Idle
  BY <1>2 DEF Idle
<1>3. CASE r \in [stage : {"Intake"}]
  <2>1. r.stage = "Intake"
    BY <1>3
  <2> QED
    BY <2>1 DEF Idle
<1>4. CASE r \in [stage : {"Register"}, evidence : Nat]
  <2>1. r.stage = "Register" /\ r.evidence \in Nat
    BY <1>4
  <2> QED
    BY <2>1 DEF Idle
<1>5. CASE r \in [stage : {"Findings"}, read : Seq(FindingRows)]
  <2>1. r.stage = "Findings" /\ r.read \in Seq(FindingRows)
    BY <1>5
  <2> QED
    BY <2>1 DEF Idle
<1>6. CASE r \in [stage : {"Profile"}, residual : Scores]
  <2>1. r.stage = "Profile" /\ r.residual \in Scores
    BY <1>6
  <2> QED
    BY <2>1 DEF Idle
<1>7. CASE r \in [stage : {"Evidence"}, residual : Scores, required : SUBSET Requirements]
  <2>1. r.stage = "Evidence" /\ r.residual \in Scores /\ r.required \in SUBSET Requirements
    BY <1>7
  <2> QED
    BY <2>1 DEF Idle
<1>8. CASE r \in [stage : {"Gate findings", "Gate assessments", "Gate"},
                 residual : Scores, reasons : SUBSET Reasons]
  <2>1. /\ r.stage \in {"Gate findings", "Gate assessments", "Gate"}
        /\ r.residual \in Scores /\ r.reasons \in SUBSET Reasons
    BY <1>8
  <2>2. Idle.stage = "Idle"
    BY DEF Idle
  <2>3. r.stage # "Idle" /\ r.stage \notin {"Register", "Findings", "Profile", "Evidence"}
    BY <2>1
  <2> QED
    BY <2>1, <2>2, <2>3
<1> QED
  BY <1>1, <1>2, <1>3, <1>4, <1>5, <1>6, <1>7, <1>8

LEMMA RunTypes ==
    /\ Idle \in Runs /\ Idle.stage = "Idle"
    /\ [stage |-> "Intake"] \in Runs
    /\ \A e \in Nat : [stage |-> "Register", evidence |-> e] \in Runs
    /\ \A rs \in Seq(FindingRows) : [stage |-> "Findings", read |-> rs] \in Runs
    /\ \A s \in Scores : [stage |-> "Profile", residual |-> s] \in Runs
    /\ \A s \in Scores, q \in SUBSET Requirements :
         [stage |-> "Evidence", residual |-> s, required |-> q] \in Runs
    /\ \A g \in {"Gate findings", "Gate assessments", "Gate"}, s \in Scores,
          R \in SUBSET Reasons :
         [stage |-> g, residual |-> s, reasons |-> R] \in Runs
BY DEF Runs, Idle

-----------------------------------------------------------------------------
(* Types *)

\* What a run has read is of a vendor that is there, and the evidence it registers
\* is stored.
RunsInv ==
    \A u \in Users :
      /\ run[u].stage \in {"Intake", "Profile"} => vendor # None
      /\ run[u].stage = "Register" => run[u].evidence \in DOMAIN evidence

LogIsFinite == IsFiniteSet(audit)

\* Everything but the blockers a run is watched for.
Typed ==
    /\ vendor \in VendorRows \cup {None}
    /\ assessments \in Seq(ReassessmentStatuses)
    /\ evidence \in Seq(EvidenceRows)
    /\ findings \in Seq(FindingRows)
    /\ approvals \in Seq(ApprovalRows)
    /\ audit \subseteq AuditRows
    /\ clock \in Nat
    /\ run \in [Users -> Runs]
    /\ form \in [Users -> [file : Files \cup {None}, analysis : Files \cup {None}]]
    /\ shown \in [Users -> [reasons : SUBSET Reasons, acknowledgement : BOOLEAN]]

LEMMA NothingShownType ==
    /\ NothingShown \in [reasons : SUBSET Reasons, acknowledgement : BOOLEAN]
    /\ ~NothingShown.acknowledgement
BY DEF NothingShown

LEMMA KeptAnalysis ==
    \A stored, file \in Files \cup {None} : kept_analysis(stored, file) \in {file, None}
BY DEF kept_analysis, file_hash

\* What is extracted from a document becomes its findings, one by one.
LEMMA FindingsFrom ==
    ASSUME Typed, NEW e \in DOMAIN evidence
    PROVE  /\ e \in Nat /\ evidence[e] \in EvidenceRows
           /\ exceptions_of(e) \in Seq(Severities)
           /\ findings_from(e) \in Seq(FindingRows)
           /\ DOMAIN findings_from(e) = DOMAIN exceptions_of(e)
           /\ \A i \in DOMAIN findings_from(e) :
                findings_from(e)[i].evidence = e /\ findings_from(e)[i].index = i
<1>1. e \in Nat /\ evidence[e] \in EvidenceRows
  BY DEF Typed
<1>2. exceptions_of(e) \in Seq(Severities)
  <2>1. evidence[e].analysis \in Files \cup {None}
    BY <1>1 DEF EvidenceRows
  <2> QED
    BY <2>1, EvidenceAssumption, EmptySeq DEF exceptions_of
<1> DEFINE s == exceptions_of(e)
<1>3. DOMAIN s = 1..Len(s) /\ Len(s) \in Nat /\ \A i \in DOMAIN s : s[i] \in Severities
  BY <1>2
<1> HIDE DEF s
<1>4. ASSUME NEW i \in DOMAIN s
      PROVE  /\ new_finding(e, i, s[i], "") \in FindingRows
             /\ new_finding(e, i, s[i], "").evidence = e
             /\ new_finding(e, i, s[i], "").index = i
  <2> DEFINE target == ""
  <2>1. target \in Targets
    BY ChoicesAssumption
  <2>2. i \in Nat /\ s[i] \in Severities
    BY <1>3
  <2> HIDE DEF target
  <2>3. /\ new_finding(e, i, s[i], target) \in FindingRows
        /\ new_finding(e, i, s[i], target).evidence = e
        /\ new_finding(e, i, s[i], target).index = i
    BY <1>1, <2>1, <2>2, NewFindingType
  <2> QED
    BY <2>3 DEF target
<1>5. findings_from(e) = [i \in DOMAIN s |-> new_finding(e, i, s[i], "")]
  BY DEF findings_from, s
<1>6. findings_from(e) \in [1..Len(s) -> FindingRows]
  BY <1>3, <1>4, <1>5
<1>7. findings_from(e) \in Seq(FindingRows)
  BY <1>3, <1>6, SeqDef
<1> QED
  BY <1>1, <1>2, <1>4, <1>5, <1>7 DEF s

LEMMA FindingIndex == ASSUME Typed, NEW f \in DOMAIN findings PROVE f \in Nat
BY DEF Typed

\* A finding update or an escalation, as the column-wise write it is.
LEMMA FindingWritten ==
    ASSUME Typed, NEW u \in Users, NEW f \in DOMAIN findings,
           run[u].stage = "Findings", f \in DOMAIN run[u].read,
           NEW new \in FindingRows,
           new.evidence = run[u].read[f].evidence, new.index = run[u].read[f].index,
           write_finding(u, f, new)
    PROVE  /\ findings' \in Seq(FindingRows) /\ DOMAIN findings' = DOMAIN findings
           /\ \A g \in DOMAIN findings :
                /\ findings'[g].evidence = findings[g].evidence
                /\ findings'[g].index = findings[g].index
                /\ g # f => findings'[g] = findings[g]
           /\ findings'[f].status = IF new.status # run[u].read[f].status
                                    THEN new.status ELSE findings[f].status
           /\ findings'[f].target = IF new.target # run[u].read[f].target
                                    THEN new.target ELSE findings[f].target
<1> DEFINE read == run[u].read[f]
           row  == merged(findings[f], read, new)
<1>1. findings[f] \in FindingRows /\ read \in FindingRows
  <2>1. run[u].read \in Seq(FindingRows)
    BY RunFields DEF Typed
  <2> QED
    BY <2>1, ElementOfSeq, LenProperties DEF Typed
<1>2. /\ row \in FindingRows
      /\ row.evidence = findings[f].evidence /\ row.index = findings[f].index
      /\ row.status = IF new.status # read.status THEN new.status ELSE findings[f].status
      /\ row.target = IF new.target # read.target THEN new.target ELSE findings[f].target
  BY <1>1, MergedFacts
<1>3. findings' = [findings EXCEPT ![f] = row]
  BY DEF write_finding
<1> HIDE DEF row, read
<1>4. f \in 1..Len(findings) /\ findings \in Seq(FindingRows)
  BY DEF Typed
<1>5. /\ findings' \in Seq(FindingRows) /\ DOMAIN findings' = DOMAIN findings
      /\ \A g \in DOMAIN findings : findings'[g] = IF g = f THEN row ELSE findings[g]
  BY <1>2, <1>3, <1>4
<1> QED
  BY <1>2, <1>5 DEF read

LEMMA EscalatedType ==
    ASSUME NEW read \in FindingRows, NEW u \in Users, clock \in Nat,
           NEW x \in Escalations \cup {"Not Escalated"}, NEW t \in Targets
    PROVE  /\ escalated(read, u, x, t) \in FindingRows
           /\ escalated(read, u, x, t).evidence = read.evidence
           /\ escalated(read, u, x, t).index = read.index
           /\ escalated(read, u, x, t).status = read.status
           /\ escalated(read, u, x, t).target = t
<1>1. x \in EscalationStatuses \cup {"Not Escalated"}
  BY ChoicesAssumption
<1>2. CASE x = "Not Escalated"
  BY <1>1, <1>2 DEF escalated, FindingRows
<1>3. CASE x # "Not Escalated"
  BY <1>1, <1>3 DEF escalated, FindingRows
<1> QED
  BY <1>2, <1>3

\* Details of an audit event.
LEMMA DetailTypes ==
    /\ <<>> \in Seq(Words)
    /\ \A s \in Words : <<s>> \in Seq(Words)
    /\ \A s, t \in Words : <<s, t>> \in Seq(Words)
    /\ \A s, t, x \in Words : <<s, t, x>> \in Seq(Words)
<1> DEFINE W == Words
<1> HIDE DEF W
<1>1. <<>> \in Seq(W) /\ \A s \in W : <<s>> \in Seq(W)
  OBVIOUS
<1>2. \A s, t \in W : <<s, t>> \in Seq(W)
  OBVIOUS
<1>3. \A s, t, x \in W : <<s, t, x>> \in Seq(W)
  OBVIOUS
<1> QED
  BY <1>1, <1>2, <1>3 DEF W


\* A step of one run, with what it writes.
LEMMA RunStep ==
    ASSUME Typed, RunsInv, NEW u \in Users, NEW next \in Runs, go(u, next),
           vendor # None => vendor' # None,
           DOMAIN evidence \subseteq DOMAIN evidence',
           next.stage \in {"Intake", "Profile"} => vendor' # None,
           next.stage = "Register" => next.evidence \in DOMAIN evidence'
    PROVE  run' \in [Users -> Runs] /\ RunsInv'
<1>1. run' = [run EXCEPT ![u] = next]
  BY DEF go
<1>2. run' \in [Users -> Runs] /\ \A v \in Users : run'[v] = IF v = u THEN next ELSE run[v]
  BY <1>1 DEF Typed
<1> QED
  BY <1>2 DEF RunsInv

\* A change of the rows between the steps of the runs.
LEMMA RowStep ==
    ASSUME Typed, RunsInv, run' = run,
           vendor # None => vendor' # None,
           DOMAIN evidence \subseteq DOMAIN evidence'
    PROVE  run' \in [Users -> Runs] /\ RunsInv'
BY DEF Typed, RunsInv

LEMMA IntakeTypes ==
    ASSUME Typed, RunsInv, NEW u \in Users, Intake(u)
    PROVE  Typed' /\ RunsInv'
<1>1. ASSUME NEW residual \in Scores, create_vendor(u, residual) PROVE Typed' /\ RunsInv'
  <2>1. vendor' \in VendorRows /\ vendor' # None
    <3>1. [residual |-> residual, engaged |-> FALSE] \in VendorRows
      BY DEF VendorRows
    <3>2. vendor' = [residual |-> residual, engaged |-> FALSE]
      BY <1>1 DEF create_vendor
    <3> QED
      BY <3>1, <3>2, NoneAssumption
  <2> DEFINE next == [stage |-> "Intake"]
  <2>2. next \in Runs /\ next.stage = "Intake" /\ go(u, next)
    BY <1>1, RunTypes DEF create_vendor
  <2> HIDE DEF next
  <2>3. evidence' = evidence
    BY <1>1 DEF create_vendor
  <2>4. run' \in [Users -> Runs] /\ RunsInv'
    BY <2>1, <2>2, <2>3, RunStep
  <2> QED
    BY <1>1, <2>1, <2>4, NothingShownType DEF create_vendor, may_open, Typed
<1>2. CASE create_engagement(u)
  <2>1. vendor \in VendorRows
    BY <1>2 DEF create_engagement, RunsInv, Typed
  <2>2. vendor' \in VendorRows /\ vendor' # None
    <3>1. [vendor EXCEPT !.engaged = TRUE] \in VendorRows
      BY <2>1 DEF VendorRows
    <3>2. vendor' = [vendor EXCEPT !.engaged = TRUE]
      BY <1>2 DEF create_engagement
    <3> QED
      BY <3>1, <3>2, NoneAssumption
  <2>3. Idle \in Runs /\ Idle.stage = "Idle" /\ go(u, Idle) /\ evidence' = evidence
    BY <1>2, RunTypes DEF create_engagement
  <2>4. run' \in [Users -> Runs] /\ RunsInv'
    BY <2>2, <2>3, RunStep
  <2>5. audit' \subseteq AuditRows
    <3>1. record_audit_event(u, "vendor.create", 1, <<>>)
      BY <1>2 DEF create_engagement
    <3>2. "vendor.create" \in Events /\ 1 \in Nat
      BY DEF Events
    <3> QED
      BY <3>1, <3>2, DetailTypes, AuditFacts DEF Typed
  <2> QED
    BY <1>2, <2>2, <2>4, <2>5 DEF create_engagement, Typed
<1> QED
  BY <1>1, <1>2 DEF Intake

LEMMA EvidencePageTypes ==
    ASSUME Typed, RunsInv, NEW u \in Users, EvidencePage(u)
    PROVE  Typed' /\ RunsInv'
<1> DEFINE Forms == [file : Files \cup {None}, analysis : Files \cup {None}]
<1>1. form[u] \in Forms /\ form[u].file \in Files \cup {None}
        /\ form[u].analysis \in Files \cup {None}
  BY DEF Typed
<1>2. ASSUME NEW f \in Files \cup {None}, choose_file(u, f) PROVE Typed' /\ RunsInv'
  <2>1. kept_analysis(form[u].analysis, f) \in Files \cup {None}
    BY <1>1, KeptAnalysis
  <2>2. form' \in [Users -> Forms]
    BY <1>2, <2>1 DEF choose_file, Typed
  <2>3. UNCHANGED <<rows, clock, run>>
    BY <1>2 DEF choose_file
  <2>4. run' \in [Users -> Runs] /\ RunsInv'
    BY <2>3, RowStep DEF rows
  <2> QED
    BY <1>2, <2>2, <2>3, <2>4, NothingShownType DEF choose_file, may_open, rows, Typed
<1>3. ASSUME NEW succeeds \in BOOLEAN, analyze(u, succeeds) PROVE Typed' /\ RunsInv'
  <2>1. form' \in [Users -> Forms]
    <3> DEFINE kept == IF succeeds THEN form[u].file ELSE None
    <3>1. kept \in Files \cup {None} /\ form' = [form EXCEPT ![u].analysis = kept]
      BY <1>1, <1>3 DEF analyze
    <3> HIDE DEF kept
    <3>2. [form[u] EXCEPT !.analysis = kept] \in Forms
      BY <1>1, <3>1
    <3> QED
      BY <3>1, <3>2 DEF Typed
  <2>2. UNCHANGED <<rows, clock, run>>
    BY <1>3 DEF analyze
  <2>3. run' \in [Users -> Runs] /\ RunsInv'
    BY <2>2, RowStep DEF rows
  <2> QED
    BY <1>3, <2>1, <2>2, <2>3, NothingShownType DEF analyze, may_open, rows, Typed
<1>4. ASSUME NEW type \in Requirements, NEW confirmed \in BOOLEAN,
             save_evidence(u, type, confirmed)
      PROVE  Typed' /\ RunsInv'
  <2> DEFINE row  == [type |-> type, file |-> form[u].file,
                      analysis |-> kept_analysis(form[u].analysis, form[u].file),
                      expired |-> FALSE]
             next == [stage |-> "Register", evidence |-> Len(evidence) + 1]
  <2>1. row \in EvidenceRows
    BY <1>1, KeptAnalysis DEF EvidenceRows
  <2>2. evidence' = Append(evidence, row) /\ go(u, next)
    BY <1>4 DEF save_evidence
  <2> HIDE DEF row
  <2>3. /\ evidence' \in Seq(EvidenceRows)
        /\ DOMAIN evidence' = DOMAIN evidence \cup {Len(evidence) + 1}
    BY <2>1, <2>2, AppendFacts DEF Typed
  <2>4. Len(evidence) + 1 \in Nat
    BY DEF Typed
  <2>5. next \in Runs /\ next.stage = "Register" /\ next.evidence = Len(evidence) + 1
    BY <2>4, RunTypes
  <2> HIDE DEF next
  <2>6. UNCHANGED <<vendor, assessments, findings, approvals, audit, clock, form>>
    BY <1>4 DEF save_evidence
  <2>7. run' \in [Users -> Runs] /\ RunsInv'
    BY <2>2, <2>3, <2>5, <2>6, RunStep
  <2>8. shown' = [shown EXCEPT ![u] = NothingShown]
    BY <1>4 DEF save_evidence, may_open
  <2> QED
    BY <2>3, <2>6, <2>7, <2>8, NothingShownType DEF Typed
<1>5. CASE register_findings(u)
  <2>1. run[u].stage = "Register" /\ run[u].evidence \in DOMAIN evidence
        /\ run[u].evidence \in Nat
    BY <1>5, FindingsFrom DEF register_findings, RunsInv
  <2>2. findings' = findings \o findings_from(run[u].evidence)
        /\ record_audit_event(u, "evidence.register", run[u].evidence, <<>>)
        /\ form' = [form EXCEPT ![u].analysis = None]
        /\ go(u, Idle)
        /\ UNCHANGED <<vendor, assessments, evidence, approvals, clock, shown>>
    BY <1>5 DEF register_findings
  <2>3. findings_from(run[u].evidence) \in Seq(FindingRows)
    BY <2>1, FindingsFrom
  <2>4. findings' \in Seq(FindingRows)
    BY <2>2, <2>3, ConcatFacts DEF Typed
  <2>5. audit' \subseteq AuditRows
    <3>1. "evidence.register" \in Events
      BY DEF Events
    <3> QED
      BY <2>1, <2>2, <3>1, DetailTypes, AuditFacts DEF Typed
  <2>6. form' \in [Users -> Forms]
    <3>1. [form[u] EXCEPT !.analysis = None] \in Forms
      BY <1>1
    <3> QED
      BY <2>2, <3>1 DEF Typed
  <2>7. run' \in [Users -> Runs] /\ RunsInv'
    BY <2>2, RunTypes, RunStep
  <2> QED
    BY <2>2, <2>4, <2>5, <2>6, <2>7 DEF Typed
<1> QED
  BY <1>2, <1>3, <1>4, <1>5 DEF EvidencePage


LEMMA FindingsPageTypes ==
    ASSUME Typed, RunsInv, NEW u \in Users, FindingsPage(u)
    PROVE  Typed' /\ RunsInv'
<1>1. ASSUME NEW severity \in NewSeverities, NEW target \in Targets,
             create_finding(u, severity, target)
      PROVE  Typed' /\ RunsInv'
  <2> DEFINE row == new_finding(0, 0, severity, target)
  <2>1. row \in FindingRows
    BY NewFindingType, ChoicesAssumption
  <2>2. findings' = Append(findings, row)
        /\ record_audit_event(u, "finding.create", Len(findings) + 1, <<severity, target>>)
        /\ UNCHANGED <<vendor, assessments, evidence, approvals, clock, run, form>>
        /\ shown' = [shown EXCEPT ![u] = NothingShown]
    BY <1>1 DEF create_finding, may_open
  <2> HIDE DEF row
  <2>3. findings' \in Seq(FindingRows)
    BY <2>1, <2>2, AppendFacts DEF Typed
  <2>4. audit' \subseteq AuditRows
    <3>1. "finding.create" \in Events /\ Len(findings) + 1 \in Nat
      BY DEF Events, Typed
    <3>2. severity \in Words /\ target \in Words
      BY ChoicesAssumption DEF Words
    <3>3. <<severity, target>> \in Seq(Words)
      BY <3>2, DetailTypes
    <3> QED
      BY <2>2, <3>1, <3>3, AuditFacts DEF Typed
  <2>5. run' \in [Users -> Runs] /\ RunsInv'
    BY <2>2, RowStep
  <2> QED
    BY <2>2, <2>3, <2>4, <2>5, NothingShownType DEF Typed
<1>2. CASE start_findings(u)
  <2> DEFINE next == [stage |-> "Findings", read |-> findings]
  <2>1. next \in Runs /\ next.stage = "Findings"
    BY RunTypes DEF Typed
  <2>2. go(u, next) /\ UNCHANGED <<rows, clock, form>>
        /\ shown' = [shown EXCEPT ![u] = NothingShown]
    BY <1>2 DEF start_findings, may_open
  <2> HIDE DEF next
  <2>3. run' \in [Users -> Runs] /\ RunsInv'
    BY <2>1, <2>2, RunStep DEF rows
  <2> QED
    BY <2>2, <2>3, NothingShownType DEF Typed, rows
<1>3. ASSUME NEW f \in DOMAIN findings, NEW status \in FindingStatuses, NEW target \in Targets,
             update_finding(u, f, status, target)
      PROVE  Typed' /\ RunsInv'
  <2> DEFINE read == run[u].read[f]
             new  == [read EXCEPT !.status = status, !.target = target]
  <2>1. read \in FindingRows
    BY <1>3, RunFields, ElementOfSeq, LenProperties DEF update_finding, Typed
  <2>2. new \in FindingRows /\ new.evidence = read.evidence /\ new.index = read.index
    BY <2>1, ChoicesAssumption DEF FindingRows
  <2>3. /\ run[u].stage = "Findings" /\ f \in DOMAIN run[u].read
        /\ write_finding(u, f, new)
        /\ record_audit_event(u, "finding.update", f, <<status, target>>)
        /\ go(u, Idle)
        /\ UNCHANGED <<vendor, assessments, evidence, approvals, clock, form, shown>>
    BY <1>3 DEF update_finding
  <2> HIDE DEF new
  <2>4. findings' \in Seq(FindingRows)
    BY <2>2, <2>3, FindingWritten
  <2>5. audit' \subseteq AuditRows
    <3>1. "finding.update" \in Events /\ f \in Nat
      BY DEF Events, Typed
    <3>2. status \in Words /\ target \in Words
      BY ChoicesAssumption DEF Words
    <3>3. <<status, target>> \in Seq(Words)
      BY <3>2, DetailTypes
    <3> QED
      BY <2>3, <3>1, <3>3, AuditFacts DEF Typed
  <2>6. run' \in [Users -> Runs] /\ RunsInv'
    BY <2>3, RunTypes, RunStep
  <2> QED
    BY <2>3, <2>4, <2>5, <2>6 DEF Typed
<1>4. ASSUME NEW f \in DOMAIN findings, NEW x \in Escalations \cup {"Not Escalated"},
             NEW target \in Targets, save_escalation(u, f, x, target)
      PROVE  Typed' /\ RunsInv'
  <2> DEFINE read == run[u].read[f]
             new  == escalated(read, u, x, target)
  <2>1. read \in FindingRows
    BY <1>4, RunFields, ElementOfSeq, LenProperties DEF save_escalation, Typed
  <2>2. new \in FindingRows /\ new.evidence = read.evidence /\ new.index = read.index
    <3>1. clock \in Nat
      BY DEF Typed
    <3> HIDE DEF read
    <3> QED
      BY <2>1, <3>1, EscalatedType
  <2>3. /\ run[u].stage = "Findings" /\ f \in DOMAIN run[u].read
        /\ write_finding(u, f, new)
        /\ record_audit_event(u, "finding.escalation_update", f,
                              <<read.escalation, x, target>>)
        /\ go(u, Idle)
        /\ UNCHANGED <<vendor, assessments, evidence, approvals, clock, form, shown>>
    BY <1>4 DEF save_escalation
  <2> HIDE DEF new
  <2>4. findings' \in Seq(FindingRows)
    BY <2>2, <2>3, FindingWritten
  <2>5. audit' \subseteq AuditRows
    <3>1. "finding.escalation_update" \in Events
      BY DEF Events
    <3>5. f \in Nat
      BY FindingIndex
    <3>2. read.escalation \in Words /\ x \in Words /\ target \in Words
      BY <2>1, ChoicesAssumption DEF Words, FindingRows
    <3> DEFINE details == <<read.escalation, x, target>>
    <3>3. details \in Seq(Words)
      BY <3>2, DetailTypes
    <3>4. record_audit_event(u, "finding.escalation_update", f, details)
      BY <2>3
    <3> HIDE DEF details
    <3> QED
      BY <3>1, <3>3, <3>4, <3>5, AuditFacts DEF Typed
  <2>6. run' \in [Users -> Runs] /\ RunsInv'
    BY <2>3, RunTypes, RunStep
  <2> QED
    BY <2>3, <2>4, <2>5, <2>6 DEF Typed
<1> QED
  BY <1>1, <1>2, <1>3, <1>4 DEF FindingsPage

LEMMA OverridesType ==
    ASSUME NEW reasons, NEW decision
    PROVE  overrides(reasons, decision) \in BOOLEAN /\ outcome(reasons) \in Outcomes
BY DEF overrides, outcome, Outcomes

LEMMA VendorPageTypes ==
    ASSUME Typed, RunsInv, NEW u \in Users, VendorPage(u)
    PROVE  Typed' /\ RunsInv'
<1> DEFINE Gates == {"Gate findings", "Gate assessments", "Gate"}
<1>1. run[u] \in Runs
  BY DEF Typed
<1>2. ASSUME NEW next \in Runs, go(u, next), UNCHANGED <<rows, clock, form, shown>>,
             next.stage # "Intake", next.stage # "Register",
             next.stage = "Profile" => vendor # None
      PROVE  Typed' /\ RunsInv'
  <2>1. run' \in [Users -> Runs] /\ RunsInv'
    BY <1>2, RunStep DEF rows
  <2> QED
    BY <1>2, <2>1 DEF Typed, rows
<1>3. CASE start_vendor_page(u)
  <2> DEFINE next == [stage |-> "Profile", residual |-> vendor.residual]
  <2>1. vendor.residual \in Scores
    BY <1>3 DEF start_vendor_page, Typed, VendorRows
  <2>2. next \in Runs /\ next.stage = "Profile"
    BY <2>1, RunTypes
  <2>3. go(u, next) /\ vendor # None /\ UNCHANGED <<rows, clock, form, shown>>
    BY <1>3 DEF start_vendor_page
  <2> HIDE DEF next
  <2> QED
    BY <1>2, <2>2, <2>3
<1>4. CASE read_profile(u)
  <2> DEFINE next == [stage |-> "Evidence", residual |-> run[u].residual,
                      required |-> required_evidence(vendor.engaged)]
  <2>1. run[u].residual \in Scores
    BY <1>1, <1>4, RunFields DEF read_profile
  <2>2. next \in Runs /\ next.stage = "Evidence"
    BY <2>1, RequiredType, RunTypes
  <2>3. go(u, next) /\ UNCHANGED <<rows, clock, form, shown>>
    BY <1>4 DEF read_profile
  <2> HIDE DEF next
  <2> QED
    BY <1>2, <2>2, <2>3
<1>5. ASSUME NEW stage \in Gates, NEW reasons \in SUBSET Reasons, found(u, stage, reasons),
             run[u].residual \in Scores, UNCHANGED <<rows, clock, form, shown>>
      PROVE  Typed' /\ RunsInv'
  <2> DEFINE next == [stage |-> stage, residual |-> run[u].residual, reasons |-> reasons]
  <2>1. next \in Runs /\ next.stage = stage
    BY <1>5, RunTypes
  <2>2. go(u, next)
    BY <1>5 DEF found
  <2> HIDE DEF next
  <2> QED
    BY <1>2, <1>5, <2>1, <2>2
<1>6. CASE read_evidence(u)
  <2>1. run[u].residual \in Scores /\ run[u].required \in SUBSET Requirements
    BY <1>1, <1>6, RunFields DEF read_evidence
  <2>2. evidence_reasons(run[u].required, evidence) \in SUBSET Reasons
    BY <2>1, ReasonTypes
  <2> QED
    BY <1>5, <1>6, <2>1, <2>2 DEF read_evidence
<1>7. CASE read_findings(u)
  <2>1. run[u].residual \in Scores /\ run[u].reasons \in SUBSET Reasons
    BY <1>1, <1>7, RunFields DEF read_findings
  <2>2. run[u].reasons \cup finding_reasons(findings) \in SUBSET Reasons
    BY <2>1, ReasonTypes DEF Typed
  <2> QED
    BY <1>5, <1>7, <2>1, <2>2 DEF read_findings
<1>8. CASE evaluate_vendor_decision(u)
  <2>1. run[u].residual \in Scores /\ run[u].reasons \in SUBSET Reasons
    BY <1>1, <1>8, RunFields DEF evaluate_vendor_decision
  <2>2. run[u].reasons \cup reassessment_reasons(assessments) \cup risk_reasons(run[u].residual)
          \in SUBSET Reasons
    BY <2>1, ReasonTypes DEF Typed
  <2> QED
    BY <1>5, <1>8, <2>1, <2>2 DEF evaluate_vendor_decision
<1>9. ASSUME NEW acknowledgement \in BOOLEAN, display(u, acknowledgement), run[u].stage = "Gate"
      PROVE  shown' \in [Users -> [reasons : SUBSET Reasons, acknowledgement : BOOLEAN]]
  <2>1. run[u].reasons \in SUBSET Reasons
    BY <1>1, <1>9, RunFields
  <2> QED
    BY <1>9, <2>1 DEF display, Typed
<1>10. ASSUME NEW decision \in Decisions, display_page(u, decision)
       PROVE  Typed' /\ RunsInv'
  <2>1. /\ run[u].stage = "Gate" /\ go(u, Idle) /\ UNCHANGED <<rows, clock, form>>
        /\ display(u, overrides(run[u].reasons, decision))
    BY <1>10 DEF display_page
  <2>2. shown' \in [Users -> [reasons : SUBSET Reasons, acknowledgement : BOOLEAN]]
    BY <1>9, <2>1, OverridesType
  <2>3. run' \in [Users -> Runs] /\ RunsInv'
    BY <2>1, RunTypes, RunStep DEF rows
  <2> QED
    BY <2>1, <2>2, <2>3 DEF Typed, rows
<1>11. ASSUME NEW decision \in Decisions, record_approval(u, decision)
       PROVE  Typed' /\ RunsInv'
  <2> DEFINE override == overrides(run[u].reasons, decision)
             row == [approver |-> u, decision |-> decision,
                     recommendation |-> outcome(run[u].reasons),
                     reasons |-> run[u].reasons, override |-> override]
  <2>1. /\ run[u].stage = "Gate" /\ go(u, Idle) /\ display(u, override)
        /\ approvals' = Append(approvals, row)
        /\ record_audit_event(u, "approval_decision.create", Len(approvals) + 1,
                              <<decision, outcome(run[u].reasons)>>)
        /\ UNCHANGED <<vendor, assessments, evidence, findings, clock, form>>
    BY <1>11 DEF record_approval
  <2>2. run[u].reasons \in SUBSET Reasons
    BY <1>1, <2>1, RunFields
  <2>3. override \in BOOLEAN /\ outcome(run[u].reasons) \in Outcomes
    BY OverridesType
  <2>4. decision \in HumanDecisions
    BY ChoicesAssumption
  <2> HIDE DEF override
  <2>5. row \in ApprovalRows
    BY <2>2, <2>3, <2>4 DEF ApprovalRows
  <2> HIDE DEF row
  <2>6. approvals' \in Seq(ApprovalRows)
    BY <2>1, <2>5, AppendFacts DEF Typed
  <2>7. audit' \subseteq AuditRows
    <3>1. "approval_decision.create" \in Events /\ Len(approvals) + 1 \in Nat
      BY DEF Events, Typed
    <3> DEFINE recommendation == outcome(run[u].reasons)
    <3>2. decision \in Words /\ recommendation \in Words
      BY <2>3, <2>4 DEF Words
    <3> HIDE DEF recommendation
    <3>3. <<decision, recommendation>> \in Seq(Words)
      BY <3>2, DetailTypes
    <3> QED
      BY <2>1, <3>1, <3>3, AuditFacts DEF Typed, recommendation
  <2>8. shown' \in [Users -> [reasons : SUBSET Reasons, acknowledgement : BOOLEAN]]
    BY <1>9, <2>1, <2>3
  <2>9. run' \in [Users -> Runs] /\ RunsInv'
    BY <2>1, RunTypes, RunStep
  <2> QED
    BY <2>1, <2>6, <2>7, <2>8, <2>9 DEF Typed
<1> QED
  BY <1>3, <1>4, <1>6, <1>7, <1>8, <1>10, <1>11 DEF VendorPage


LEMMA ElsewhereTypes ==
    ASSUME Typed, RunsInv, LogIsFinite, NEW u \in Users, Elsewhere(u)
    PROVE  Typed' /\ RunsInv'
<1>1. CASE end_run(u)
  <2>1. go(u, Idle) /\ UNCHANGED <<rows, clock, form, shown>>
    BY <1>1 DEF end_run
  <2>2. run' \in [Users -> Runs] /\ RunsInv'
    BY <2>1, RunTypes, RunStep DEF rows
  <2> QED
    BY <2>1, <2>2 DEF Typed, rows
<1>2. CASE launch_reassessment(u)
  <2>1. /\ assessments' = Append(assessments, "In Progress")
        /\ record_audit_event(u, "assessment.create", Len(assessments) + 1, <<>>)
        /\ shown' = [shown EXCEPT ![u] = NothingShown]
        /\ UNCHANGED <<vendor, evidence, findings, approvals, clock, run, form>>
    BY <1>2 DEF launch_reassessment, may_open
  <2> DEFINE status == "In Progress"
  <2>2. status \in ReassessmentStatuses /\ assessments' = Append(assessments, status)
    BY <2>1 DEF ReassessmentStatuses
  <2> HIDE DEF status
  <2>3. assessments' \in Seq(ReassessmentStatuses)
    BY <2>2, AppendFacts DEF Typed
  <2>4. audit' \subseteq AuditRows
    <3>1. "assessment.create" \in Events
      BY DEF Events
    <3>2. Len(assessments) + 1 \in Nat
      BY DEF Typed
    <3> QED
      BY <2>1, <3>1, <3>2, DetailTypes, AuditFacts DEF Typed
  <2>5. run' \in [Users -> Runs] /\ RunsInv'
    BY <2>1, RowStep
  <2> QED
    BY <2>1, <2>3, <2>4, <2>5, NothingShownType DEF Typed
<1>3. ASSUME NEW a \in DOMAIN assessments, NEW status \in AssessmentStatuses,
             update_reassessment(u, a, status)
      PROVE  Typed' /\ RunsInv'
  <2>1. /\ assessments' = [assessments EXCEPT ![a] = status]
        /\ record_audit_event(u, "assessment.update", a, <<status>>)
        /\ shown' = [shown EXCEPT ![u] = NothingShown]
        /\ UNCHANGED <<vendor, evidence, findings, approvals, clock, run, form>>
    BY <1>3 DEF update_reassessment, may_open
  <2>2. assessments' \in Seq(ReassessmentStatuses)
    <3>1. status \in ReassessmentStatuses
      BY ChoicesAssumption
    <3>2. assessments \in Seq(ReassessmentStatuses) /\ a \in 1..Len(assessments)
      BY DEF Typed
    <3> QED
      BY <2>1, <3>1, <3>2, ExceptSeq
  <2>3. audit' \subseteq AuditRows
    <3>1. "assessment.update" \in Events
      BY DEF Events
    <3>2. a \in Nat
      BY DEF Typed
    <3>3. <<status>> \in Seq(Words)
      BY ChoicesAssumption, DetailTypes DEF Words
    <3> QED
      BY <2>1, <3>1, <3>2, <3>3, AuditFacts DEF Typed
  <2>4. run' \in [Users -> Runs] /\ RunsInv'
    BY <2>1, RowStep
  <2> QED
    BY <2>1, <2>2, <2>3, <2>4, NothingShownType DEF Typed
<1>4. ASSUME NEW residual \in Scores, record_event(u, residual) PROVE Typed' /\ RunsInv'
  <2> DEFINE event == Cardinality({row \in audit : row.action = "monitoring.create"}) + 1
  <2>1. /\ vendor # None /\ vendor' = [vendor EXCEPT !.residual = residual]
        /\ record_audit_event(u, "monitoring.create", event, <<>>)
        /\ shown' = [shown EXCEPT ![u] = NothingShown]
        /\ UNCHANGED <<assessments, evidence, findings, approvals, clock, run, form>>
    BY <1>4 DEF record_event, may_open
  <2>2. vendor' \in VendorRows
    <3>1. [vendor EXCEPT !.residual = residual] \in VendorRows
      BY <2>1 DEF Typed, VendorRows
    <3> QED
      BY <2>1, <3>1
  <2>3. audit' \subseteq AuditRows
    <3>1. "monitoring.create" \in Events
      BY DEF Events
    <3>2. event \in Nat
      <4>1. IsFiniteSet({row \in audit : row.action = "monitoring.create"})
        BY FS_Subset DEF LogIsFinite
      <4> QED
        BY <4>1, FS_CardinalityType
    <3> HIDE DEF event
    <3> QED
      BY <2>1, <3>1, <3>2, DetailTypes, AuditFacts DEF Typed
  <2>4. run' \in [Users -> Runs] /\ RunsInv'
    BY <2>1, <2>2, NoneAssumption, RowStep
  <2> QED
    BY <2>1, <2>2, <2>3, <2>4, NothingShownType DEF Typed
<1> QED
  BY <1>1, <1>2, <1>3, <1>4 DEF Elsewhere

\* What else a recording leaves in the log.
LEMMA NewRow ==
    ASSUME NEW u, NEW action, NEW object, NEW details,
           record_audit_event(u, action, object, details)
    PROVE  /\ audit \subseteq audit'
           /\ \A row \in audit' :
                row \in audit \/ (row.action = action /\ row.object = object)
           /\ \E event : audit' \in {audit, audit \cup {event}}
<1> DEFINE event == [actor |-> u, action |-> action, object |-> object,
                     details |-> details, at |-> clock]
<1>1. audit' = audit \cup (IF \E row \in audit : is_repeat(row, event) THEN {} ELSE {event})
  BY DEF record_audit_event
<1>2. event.action = action /\ event.object = object
  OBVIOUS
<1> HIDE DEF event
<1>3. audit' \in {audit, audit \cup {event}}
  BY <1>1
<1> QED
  BY <1>2, <1>3

\* A step adds at most one entry to the log.
LEMMA LogStep == ASSUME Step PROVE \E event : audit' \in {audit, audit \cup {event}}
<1>1. ASSUME NEW u, NEW action, NEW object, NEW details,
             record_audit_event(u, action, object, details)
      PROVE  \E event : audit' \in {audit, audit \cup {event}}
  BY <1>1, NewRow
<1>2. CASE audit' = audit
  BY <1>2
<1>3. ASSUME NEW u \in Users, Intake(u) \/ EvidencePage(u) PROVE \E event : audit' \in {audit, audit \cup {event}}
  BY <1>1, <1>2, <1>3 DEF Intake, EvidencePage, create_vendor, create_engagement, choose_file,
     analyze, save_evidence, register_findings, rows
<1>4. ASSUME NEW u \in Users, FindingsPage(u) PROVE \E event : audit' \in {audit, audit \cup {event}}
  BY <1>1, <1>2, <1>4 DEF FindingsPage, create_finding, start_findings, update_finding,
     save_escalation, rows
<1>5. ASSUME NEW u \in Users, VendorPage(u) PROVE \E event : audit' \in {audit, audit \cup {event}}
  BY <1>1, <1>2, <1>5 DEF VendorPage, start_vendor_page, read_profile, read_evidence,
     read_findings, evaluate_vendor_decision, display_page, record_approval, rows
<1>6. ASSUME NEW u \in Users, Elsewhere(u) PROVE \E event : audit' \in {audit, audit \cup {event}}
  BY <1>1, <1>2, <1>6 DEF Elsewhere, end_run, launch_reassessment, update_reassessment,
     record_event, rows
<1>7. (\E e \in DOMAIN evidence : expire(e)) \/ tick => audit' = audit
  BY DEF expire, tick, rows
<1> QED
  BY <1>2, <1>3, <1>4, <1>5, <1>6, <1>7 DEF Step

\* The type of the watched blockers, with the rest of the step.
LEMMA StepTypes ==
    ASSUME TypeOK, RunsInv, LogIsFinite, [Next]_vars
    PROVE  TypeOK' /\ RunsInv' /\ LogIsFinite'
<1>1. Typed
  BY DEF TypeOK, Typed
<1>2. CASE UNCHANGED vars
  BY <1>2 DEF vars, rows, TypeOK, RunsInv, LogIsFinite
<1>3. CASE Next
  <2>1. Typed' /\ RunsInv'
    <3>1. ASSUME NEW u \in Users,
                 Intake(u) \/ EvidencePage(u) \/ FindingsPage(u) \/ VendorPage(u) \/ Elsewhere(u)
          PROVE  Typed' /\ RunsInv'
      BY <1>1, <3>1, IntakeTypes, EvidencePageTypes, FindingsPageTypes, VendorPageTypes,
         ElsewhereTypes
    <3>2. ASSUME NEW e \in DOMAIN evidence, expire(e) PROVE Typed' /\ RunsInv'
      <4> DEFINE row == [evidence[e] EXCEPT !.expired = TRUE]
      <4>1. e \in 1..Len(evidence) /\ evidence \in Seq(EvidenceRows)
        BY <1>1 DEF Typed
      <4>2. row \in EvidenceRows
        <5>1. evidence[e] \in EvidenceRows
          BY <4>1, ElementOfSeq
        <5> QED
          BY <5>1 DEF EvidenceRows
      <4>3. evidence' = [evidence EXCEPT ![e] = row]
            /\ UNCHANGED <<vendor, assessments, findings, approvals, audit, clock, run, form, shown>>
        BY <3>2 DEF expire
      <4> HIDE DEF row
      <4>4. evidence' \in Seq(EvidenceRows) /\ DOMAIN evidence' = DOMAIN evidence
        BY <4>1, <4>2, <4>3
      <4>5. run' \in [Users -> Runs] /\ RunsInv'
        BY <1>1, <4>3, <4>4, RowStep
      <4> QED
        BY <1>1, <4>3, <4>4, <4>5 DEF Typed
    <3>3. CASE tick
      BY <1>1, <3>3 DEF tick, rows, Typed, RunsInv
    <3> QED
      BY <1>3, <3>1, <3>2, <3>3 DEF Next, Step
  <2>2. LogIsFinite'
    BY <1>3, LogStep, FS_AddElement DEF Next, LogIsFinite
  <2>3. standing' \in [Users -> SUBSET Reasons]
    <3>1. blockers' \subseteq Reasons
      <4>1. CASE vendor' = None
        BY <4>1 DEF blockers
      <4>2. CASE vendor' # None
        <5> DEFINE A == evidence_reasons(required_evidence(vendor'.engaged), evidence')
                   B == finding_reasons(findings')
                   C == reassessment_reasons(assessments')
                   D == risk_reasons(vendor'.residual)
        <5>1. A \subseteq Reasons
          BY RequiredType, ReasonTypes
        <5>2. B \subseteq Reasons /\ C \subseteq Reasons /\ D \subseteq Reasons
          BY <2>1, ReasonTypes DEF Typed
        <5>3. blockers' = blocking(A \cup B \cup C \cup D)
          BY <4>2 DEF blockers
        <5> HIDE DEF A, B, C, D
        <5> QED
          BY <5>1, <5>2, <5>3, BlockingKinds
      <4> QED
        BY <4>1, <4>2
    <3>2. \A u \in Users : standing[u] \subseteq Reasons
      BY DEF TypeOK
    <3> DEFINE watched(u) == IF run'[u] = Idle THEN {}
                             ELSE IF run[u] = Idle THEN blockers'
                             ELSE standing[u] \cap blockers'
    <3>3. \A u \in Users : watched(u) \in SUBSET Reasons
      BY <3>1, <3>2
    <3>4. standing' = [u \in Users |-> watched(u)]
      BY <1>3 DEF Next, watch
    <3> HIDE DEF watched
    <3> QED
      BY <3>3, <3>4
  <2> QED
    BY <2>1, <2>2, <2>3 DEF Typed, TypeOK
<1> QED
  BY <1>2, <1>3

LEMMA InitTypes == Init => TypeOK /\ RunsInv /\ LogIsFinite
<1> SUFFICES ASSUME Init PROVE TypeOK /\ RunsInv /\ LogIsFinite
  OBVIOUS
<1>1. run \in [Users -> Runs] /\ \A u \in Users : run[u].stage = "Idle"
  BY RunTypes DEF Init
<1>2. shown \in [Users -> [reasons : SUBSET Reasons, acknowledgement : BOOLEAN]]
  BY NothingShownType DEF Init
<1>3. form \in [Users -> [file : Files \cup {None}, analysis : Files \cup {None}]]
  BY DEF Init
<1>4. LogIsFinite
  BY FS_EmptySet DEF Init, LogIsFinite
<1> QED
  BY <1>1, <1>2, <1>3, <1>4 DEF Init, TypeOK, RunsInv

\* Every row, run and form keeps its shape, whatever interleaves.
THEOREM TypeCorrect == Spec => []TypeOK
<1>1. TypeOK /\ RunsInv /\ LogIsFinite /\ [Next]_vars
        => (TypeOK /\ RunsInv /\ LogIsFinite)'
  BY StepTypes
<1> QED
  BY <1>1, InitTypes, PTL DEF Spec

-----------------------------------------------------------------------------
(* Registration *)

Linked(e)     == {findings[f].index : f \in {g \in DOMAIN findings : findings[g].evidence = e}}
Registered(e) == \E row \in audit : row.action = "evidence.register" /\ row.object = e

\* A finding that came from a document and a registration in the log are of an
\* evidence row that is there; the rest is what is to be shown.
RegistrationInv ==
    /\ (\E row \in audit : row.action = "vendor.create") => vendor # None /\ vendor.engaged
    /\ \A e \in DOMAIN evidence :
         Linked(e) = IF Registered(e) THEN DOMAIN exceptions_of(e) ELSE {}
    /\ \A f \in DOMAIN findings :
         findings[f].evidence = 0 \/ findings[f].evidence \in DOMAIN evidence
    /\ \A row \in audit : row.action = "evidence.register" => row.object \in DOMAIN evidence
    /\ AnalysisOfThisFile

\* Evidence rows are only added and expired.
EvidenceKept ==
    /\ DOMAIN evidence \subseteq DOMAIN evidence'
    /\ \A e \in DOMAIN evidence : /\ evidence'[e].file = evidence[e].file
                                  /\ evidence'[e].analysis = evidence[e].analysis
    /\ \A e \in DOMAIN evidence' \ DOMAIN evidence :
         e # 0 /\ evidence'[e].analysis \in {evidence'[e].file, None}

\* No finding comes from a document or changes the one it came from.
OriginsKept ==
    /\ \A e : e # 0 => Linked(e)' = Linked(e)
    /\ \A f \in DOMAIN findings' :
         \/ findings'[f].evidence = 0
         \/ \E g \in DOMAIN findings : findings'[f].evidence = findings[g].evidence

\* A step that registers nothing.
LEMMA UnregisteredStep ==
    ASSUME Typed, RegistrationInv, EvidenceKept, OriginsKept,
           \A row \in audit' : row.action = "evidence.register" => row \in audit,
           audit \subseteq audit',
           (\E row \in audit' : row.action = "vendor.create") => vendor' # None /\ vendor'.engaged
    PROVE  RegistrationInv'
<1>1. \A e : Registered(e)' <=> Registered(e)
  BY DEF Registered
<1>2. \A e \in DOMAIN evidence : exceptions_of(e)' = exceptions_of(e)
  BY DEF exceptions_of, EvidenceKept
<1>3. \A e \in DOMAIN evidence : e # 0
  BY DEF Typed
<1>4. ASSUME NEW e \in DOMAIN evidence'
      PROVE  Linked(e)' = IF Registered(e)' THEN DOMAIN (exceptions_of(e)') ELSE {}
  <2>1. CASE e \in DOMAIN evidence
    BY <1>1, <1>2, <1>3, <2>1 DEF RegistrationInv, OriginsKept
  <2>2. CASE e \notin DOMAIN evidence
    <3>1. e # 0
      BY <2>2 DEF EvidenceKept
    <3>2. Linked(e)' = Linked(e) /\ Linked(e) = {}
      BY <2>2, <3>1 DEF OriginsKept, RegistrationInv, Linked
    <3>3. ~Registered(e)'
      BY <1>1, <2>2 DEF RegistrationInv, Registered
    <3> QED
      BY <3>2, <3>3
  <2> QED
    BY <2>1, <2>2
<1>5. \A f \in DOMAIN findings' :
        findings'[f].evidence = 0 \/ findings'[f].evidence \in DOMAIN evidence'
  BY DEF RegistrationInv, OriginsKept, EvidenceKept
<1>6. \A row \in audit' : row.action = "evidence.register" => row.object \in DOMAIN evidence'
  BY DEF RegistrationInv, EvidenceKept
<1>7. AnalysisOfThisFile'
  BY DEF RegistrationInv, EvidenceKept, AnalysisOfThisFile
<1> QED
  BY <1>4, <1>5, <1>6, <1>7 DEF RegistrationInv

LEMMA SameEvidence == ASSUME evidence' = evidence PROVE EvidenceKept
BY DEF EvidenceKept

LEMMA SameOrigins == ASSUME findings' = findings PROVE OriginsKept
BY DEF OriginsKept, Linked

LEMMA AddedOrigins ==
    ASSUME Typed, NEW severity \in Severities, NEW target \in Targets,
           findings' = Append(findings, new_finding(0, 0, severity, target))
    PROVE  OriginsKept
<1> DEFINE row == new_finding(0, 0, severity, target)
<1>1. row \in FindingRows /\ row.evidence = 0
  BY NewFindingType
<1>2. findings' = Append(findings, row)
  OBVIOUS
<1> HIDE DEF row
<1>3. /\ DOMAIN findings' = DOMAIN findings \cup {Len(findings) + 1}
      /\ \A f \in DOMAIN findings : findings'[f] = findings[f]
      /\ findings'[Len(findings) + 1] = row
  BY <1>1, <1>2, AppendFacts DEF Typed
<1>4. ASSUME NEW e, e # 0 PROVE Linked(e)' = Linked(e)
  <2>1. \A f \in DOMAIN findings' : findings'[f].evidence = e => f \in DOMAIN findings
    BY <1>1, <1>3, <1>4
  <2> QED
    BY <1>3, <2>1 DEF Linked
<1> QED
  BY <1>1, <1>3, <1>4 DEF OriginsKept

LEMMA WrittenOrigins ==
    ASSUME DOMAIN findings' = DOMAIN findings,
           \A g \in DOMAIN findings : /\ findings'[g].evidence = findings[g].evidence
                                      /\ findings'[g].index = findings[g].index
    PROVE  OriginsKept
BY DEF OriginsKept, Linked

\* All the exceptions of a document become findings with its registration.
LEMMA RegisterStep ==
    ASSUME Typed, RunsInv, RegistrationInv, NEW u \in Users, register_findings(u)
    PROVE  RegistrationInv'
<1>1. PICK e \in DOMAIN evidence : e = run[u].evidence /\ e \in Nat
  BY FindingsFrom DEF register_findings, RunsInv
<1> DEFINE from == findings_from(e)
<1>2. /\ findings' = findings \o from
      /\ record_audit_event(u, "evidence.register", e, <<>>)
      /\ UNCHANGED <<vendor, evidence>>
  BY <1>1 DEF register_findings
<1>3. /\ from \in Seq(FindingRows) /\ DOMAIN from = DOMAIN exceptions_of(e)
      /\ \A i \in DOMAIN from : from[i].evidence = e /\ from[i].index = i
  BY <1>1, FindingsFrom
<1>4. /\ audit \subseteq audit' /\ Registered(e)'
      /\ \A row \in audit' :
           row \in audit \/ (row.action = "evidence.register" /\ row.object = e)
  <2> DEFINE action == "evidence.register"
             details == <<>>
  <2>1. action \in Events /\ details \in Seq(Words) /\ record_audit_event(u, action, e, details)
    BY <1>2, DetailTypes DEF Events
  <2>2. audit \subseteq AuditRows /\ clock \in Nat
    BY DEF Typed
  <2> HIDE DEF action, details
  <2>3. /\ audit \subseteq audit'
        /\ \E row \in audit' : row.action = action /\ row.object = e
        /\ \A row \in audit' : row \in audit \/ (row.action = action /\ row.object = e)
    BY <1>1, <2>1, <2>2, AuditFacts
  <2> QED
    BY <2>3 DEF Registered, action
<1> HIDE DEF from
<1>5. /\ DOMAIN findings \subseteq DOMAIN findings'
      /\ \A f \in DOMAIN findings : findings'[f] = findings[f]
      /\ \A f \in DOMAIN findings' :
           f \in DOMAIN findings \/ \E i \in DOMAIN from : findings'[f] = from[i]
      /\ \A i \in DOMAIN from : \E f \in DOMAIN findings' : findings'[f] = from[i]
  <2>1. findings \in Seq(FindingRows) /\ from \in Seq(FindingRows)
    BY <1>3 DEF Typed
  <2>2. /\ DOMAIN findings \subseteq DOMAIN (findings \o from)
        /\ \A f \in DOMAIN findings : (findings \o from)[f] = findings[f]
        /\ \A f \in DOMAIN (findings \o from) :
             f \in DOMAIN findings \/ \E i \in DOMAIN from : (findings \o from)[f] = from[i]
        /\ \A i \in DOMAIN from : \E f \in DOMAIN (findings \o from) :
             (findings \o from)[f] = from[i]
    BY <2>1, ConcatFacts
  <2> QED
    BY <1>2, <2>2
<1>6. Linked(e)' = DOMAIN exceptions_of(e)
  <2>1. Linked(e) \subseteq DOMAIN exceptions_of(e)
    BY <1>1 DEF RegistrationInv
  <2>2. \A f \in DOMAIN findings' :
          findings'[f].evidence = e => findings'[f].index \in DOMAIN exceptions_of(e)
    BY <1>3, <1>5, <2>1 DEF Linked
  <2>3. \A i \in DOMAIN exceptions_of(e) : \E f \in DOMAIN findings' :
          findings'[f].evidence = e /\ findings'[f].index = i
    BY <1>3, <1>5
  <2>4. \A i \in DOMAIN exceptions_of(e) : i \in Linked(e)'
    BY <2>3 DEF Linked
  <2>5. \A i \in Linked(e)' : i \in DOMAIN exceptions_of(e)
    BY <2>2 DEF Linked
  <2> QED
    BY <2>4, <2>5
<1>7. ASSUME NEW d \in DOMAIN evidence
      PROVE  Linked(d)' = IF Registered(d)' THEN DOMAIN (exceptions_of(d)') ELSE {}
  <2>1. exceptions_of(d)' = exceptions_of(d)
    BY <1>2 DEF exceptions_of
  <2>2. CASE d = e
    BY <1>4, <1>6, <2>1, <2>2
  <2>3. CASE d # e
    <3>1. Registered(d)' <=> Registered(d)
      BY <1>4, <2>3 DEF Registered
    <3>2. Linked(d)' = Linked(d)
      <4>1. \A f \in DOMAIN findings' : findings'[f].evidence = d => f \in DOMAIN findings
        BY <1>3, <1>5, <2>3
      <4> QED
        BY <1>5, <4>1 DEF Linked
    <3> QED
      BY <2>1, <3>1, <3>2 DEF RegistrationInv
  <2> QED
    BY <2>2, <2>3
<1>8. \A f \in DOMAIN findings' :
        findings'[f].evidence = 0 \/ findings'[f].evidence \in DOMAIN evidence'
  BY <1>1, <1>2, <1>3, <1>5 DEF RegistrationInv
<1>9. \A row \in audit' : row.action = "evidence.register" => row.object \in DOMAIN evidence'
  BY <1>1, <1>2, <1>4 DEF RegistrationInv
<1>10. (\E row \in audit' : row.action = "vendor.create") => vendor' # None /\ vendor'.engaged
  BY <1>2, <1>4 DEF RegistrationInv
<1>11. AnalysisOfThisFile'
  BY <1>2 DEF RegistrationInv, AnalysisOfThisFile
<1> QED
  BY <1>2, <1>7, <1>8, <1>9, <1>10, <1>11 DEF RegistrationInv

\* A step of the log that records neither a vendor nor an evidence row.
LEMMA OtherRow ==
    ASSUME RegistrationInv, NEW u, NEW action, NEW object, NEW details,
           record_audit_event(u, action, object, details),
           action # "evidence.register", action # "vendor.create",
           vendor # None => vendor' # None /\ vendor'.engaged = vendor.engaged
    PROVE  /\ \A row \in audit' : row.action = "evidence.register" => row \in audit
           /\ audit \subseteq audit'
           /\ (\E row \in audit' : row.action = "vendor.create") =>
                vendor' # None /\ vendor'.engaged
BY NewRow DEF RegistrationInv

LEMMA SameLog ==
    ASSUME RegistrationInv, audit' = audit, vendor' = vendor
    PROVE  /\ \A row \in audit' : row.action = "evidence.register" => row \in audit
           /\ audit \subseteq audit'
           /\ (\E row \in audit' : row.action = "vendor.create") =>
                vendor' # None /\ vendor'.engaged
BY DEF RegistrationInv

LEMMA RegistrationStep ==
    ASSUME TypeOK, RunsInv, RegistrationInv, [Next]_vars
    PROVE  RegistrationInv'
<1>1. Typed
  BY DEF TypeOK, Typed
<1>2. ASSUME UNCHANGED rows PROVE RegistrationInv'
  BY <1>1, <1>2, SameEvidence, SameOrigins, SameLog, UnregisteredStep DEF rows
<1>3. ASSUME NEW u \in Users, NEW residual \in Scores, create_vendor(u, residual)
      PROVE  RegistrationInv'
  <2>1. vendor = None /\ UNCHANGED <<evidence, findings, audit>>
    BY <1>3 DEF create_vendor
  <2>2. \A row \in audit' : row.action # "vendor.create"
    BY <2>1 DEF RegistrationInv
  <2> QED
    BY <1>1, <2>1, <2>2, SameEvidence, SameOrigins, UnregisteredStep
<1>4. ASSUME NEW u \in Users, create_engagement(u) PROVE RegistrationInv'
  <2>1. /\ vendor' = [vendor EXCEPT !.engaged = TRUE]
        /\ record_audit_event(u, "vendor.create", 1, <<>>)
        /\ UNCHANGED <<evidence, findings>>
    BY <1>4 DEF create_engagement
  <2>2. vendor' # None /\ vendor'.engaged
    <3>1. vendor \in VendorRows
      BY <1>1, <1>4 DEF create_engagement, RunsInv, Typed
    <3>2. [vendor EXCEPT !.engaged = TRUE] \in VendorRows
           /\ [vendor EXCEPT !.engaged = TRUE].engaged = TRUE
      BY <3>1 DEF VendorRows
    <3> QED
      BY <2>1, <3>2, NoneAssumption
  <2>3. audit \subseteq audit' /\ \A row \in audit' : row.action = "evidence.register" => row \in audit
    BY <2>1, NewRow
  <2> QED
    BY <1>1, <2>1, <2>2, <2>3, SameEvidence, SameOrigins, UnregisteredStep
<1>5. ASSUME NEW u \in Users, NEW type \in Requirements, NEW confirmed \in BOOLEAN,
             save_evidence(u, type, confirmed)
      PROVE  RegistrationInv'
  <2> DEFINE row == [type |-> type, file |-> form[u].file,
                     analysis |-> kept_analysis(form[u].analysis, form[u].file),
                     expired |-> FALSE]
  <2>1. row \in EvidenceRows /\ row.analysis \in {row.file, None}
    <3>1. form[u].file \in Files \cup {None} /\ form[u].analysis \in Files \cup {None}
      BY <1>1 DEF Typed
    <3> QED
      BY <3>1, KeptAnalysis DEF EvidenceRows
  <2>2. evidence' = Append(evidence, row) /\ UNCHANGED <<vendor, findings, audit>>
    BY <1>5 DEF save_evidence
  <2> HIDE DEF row
  <2>3. EvidenceKept
    <3>1. /\ DOMAIN evidence' = DOMAIN evidence \cup {Len(evidence) + 1}
          /\ \A e \in DOMAIN evidence : evidence'[e] = evidence[e]
          /\ evidence'[Len(evidence) + 1] = row
      BY <1>1, <2>1, <2>2, AppendFacts DEF Typed
    <3>2. Len(evidence) + 1 # 0
      BY <1>1 DEF Typed
    <3> QED
      BY <2>1, <3>1, <3>2 DEF EvidenceKept
  <2> QED
    BY <1>1, <2>2, <2>3, SameOrigins, SameLog, UnregisteredStep
<1>6. ASSUME NEW u \in Users, NEW severity \in NewSeverities, NEW target \in Targets,
             create_finding(u, severity, target)
      PROVE  RegistrationInv'
  <2>1. /\ findings' = Append(findings, new_finding(0, 0, severity, target))
        /\ record_audit_event(u, "finding.create", Len(findings) + 1, <<severity, target>>)
        /\ UNCHANGED <<vendor, evidence>>
    BY <1>6 DEF create_finding
  <2>2. severity \in Severities
    BY ChoicesAssumption
  <2>3. OriginsKept
    BY <1>1, <2>1, <2>2, AddedOrigins
  <2> QED
    BY <1>1, <2>1, <2>3, SameEvidence, OtherRow, UnregisteredStep
<1>7. ASSUME NEW u \in Users, NEW f \in DOMAIN findings, NEW status \in FindingStatuses,
             NEW target \in Targets, update_finding(u, f, status, target)
      PROVE  RegistrationInv'
  <2> DEFINE read == run[u].read[f]
             new  == [read EXCEPT !.status = status, !.target = target]
  <2>1. read \in FindingRows
    BY <1>1, <1>7, RunFields, ElementOfSeq, LenProperties DEF update_finding, Typed
  <2>2. new \in FindingRows /\ new.evidence = read.evidence /\ new.index = read.index
    BY <2>1, ChoicesAssumption DEF FindingRows
  <2>3. /\ run[u].stage = "Findings" /\ f \in DOMAIN run[u].read
        /\ write_finding(u, f, new)
        /\ record_audit_event(u, "finding.update", f, <<status, target>>)
        /\ UNCHANGED <<vendor, evidence>>
    BY <1>7 DEF update_finding
  <2> HIDE DEF new
  <2>4. OriginsKept
    BY <1>1, <2>2, <2>3, FindingWritten, WrittenOrigins
  <2> QED
    BY <1>1, <2>3, <2>4, SameEvidence, OtherRow, UnregisteredStep
<1>8. ASSUME NEW u \in Users, NEW f \in DOMAIN findings,
             NEW x \in Escalations \cup {"Not Escalated"}, NEW target \in Targets,
             save_escalation(u, f, x, target)
      PROVE  RegistrationInv'
  <2> DEFINE read == run[u].read[f]
             new  == escalated(read, u, x, target)
             details == <<read.escalation, x, target>>
  <2>1. read \in FindingRows
    BY <1>1, <1>8, RunFields, ElementOfSeq, LenProperties DEF save_escalation, Typed
  <2>2. new \in FindingRows /\ new.evidence = read.evidence /\ new.index = read.index
    <3>1. clock \in Nat
      BY <1>1 DEF Typed
    <3> HIDE DEF read
    <3> QED
      BY <2>1, <3>1, EscalatedType
  <2>3. /\ run[u].stage = "Findings" /\ f \in DOMAIN run[u].read
        /\ write_finding(u, f, new)
        /\ record_audit_event(u, "finding.escalation_update", f, details)
        /\ UNCHANGED <<vendor, evidence>>
    BY <1>8 DEF save_escalation
  <2> HIDE DEF new, details
  <2>4. OriginsKept
    BY <1>1, <2>2, <2>3, FindingWritten, WrittenOrigins
  <2> QED
    BY <1>1, <2>3, <2>4, SameEvidence, OtherRow, UnregisteredStep
<1>9. ASSUME NEW u \in Users, NEW decision \in Decisions, record_approval(u, decision)
      PROVE  RegistrationInv'
  <2>1. /\ record_audit_event(u, "approval_decision.create", Len(approvals) + 1,
                              <<decision, outcome(run[u].reasons)>>)
        /\ UNCHANGED <<vendor, evidence, findings>>
    BY <1>9 DEF record_approval
  <2> QED
    BY <1>1, <2>1, SameEvidence, SameOrigins, OtherRow, UnregisteredStep
<1>10. ASSUME NEW u \in Users,
              \/ launch_reassessment(u)
              \/ \E a \in DOMAIN assessments, s \in AssessmentStatuses :
                   update_reassessment(u, a, s)
       PROVE  RegistrationInv'
  <2>1. /\ \E action \in {"assessment.create", "assessment.update"} :
             \E object, details : record_audit_event(u, action, object, details)
        /\ UNCHANGED <<vendor, evidence, findings>>
    BY <1>10 DEF launch_reassessment, update_reassessment
  <2> QED
    BY <1>1, <2>1, SameEvidence, SameOrigins, OtherRow, UnregisteredStep
<1>11. ASSUME NEW u \in Users, NEW residual \in Scores, record_event(u, residual)
       PROVE  RegistrationInv'
  <2>1. /\ vendor # None /\ vendor' = [vendor EXCEPT !.residual = residual]
        /\ \E event : record_audit_event(u, "monitoring.create", event, <<>>)
        /\ UNCHANGED <<evidence, findings>>
    BY <1>11 DEF record_event
  <2>2. vendor' # None /\ vendor'.engaged = vendor.engaged
    <3>1. [vendor EXCEPT !.residual = residual] \in VendorRows
          /\ [vendor EXCEPT !.residual = residual].engaged = vendor.engaged
      BY <1>1, <2>1 DEF Typed, VendorRows
    <3> QED
      BY <2>1, <3>1, NoneAssumption
  <2> QED
    BY <1>1, <2>1, <2>2, SameEvidence, SameOrigins, OtherRow, UnregisteredStep
<1>12. ASSUME NEW e \in DOMAIN evidence, expire(e) PROVE RegistrationInv'
  <2>1. evidence' = [evidence EXCEPT ![e].expired = TRUE] /\ UNCHANGED <<vendor, findings, audit>>
    BY <1>12 DEF expire
  <2>2. evidence[e] \in EvidenceRows /\ \A d \in DOMAIN evidence : evidence[d] \in EvidenceRows
    BY <1>1 DEF Typed
  <2>3. /\ [evidence[e] EXCEPT !.expired = TRUE].file = evidence[e].file
        /\ [evidence[e] EXCEPT !.expired = TRUE].analysis = evidence[e].analysis
    BY <2>2 DEF EvidenceRows
  <2>4. /\ DOMAIN evidence' = DOMAIN evidence
        /\ \A d \in DOMAIN evidence :
             evidence'[d] = IF d = e THEN [evidence[e] EXCEPT !.expired = TRUE] ELSE evidence[d]
    BY <2>1
  <2>5. EvidenceKept
    BY <2>3, <2>4 DEF EvidenceKept
  <2> QED
    BY <1>1, <2>1, <2>5, SameOrigins, SameLog, UnregisteredStep
<1>13. ASSUME NEW u \in Users, register_findings(u) PROVE RegistrationInv'
  BY <1>1, <1>13, RegisterStep
<1>14. ASSUME NEW u \in Users, VendorPage(u)
       PROVE  UNCHANGED rows \/ \E d \in Decisions : record_approval(u, d)
  BY <1>14 DEF VendorPage, start_vendor_page, read_profile, read_evidence, read_findings,
     evaluate_vendor_decision, display_page
<1>15. ASSUME NEW u \in Users,
              \/ \E f \in Files \cup {None} : choose_file(u, f)
              \/ \E b \in BOOLEAN : analyze(u, b)
              \/ start_findings(u) \/ end_run(u)
       PROVE  UNCHANGED rows
  BY <1>15 DEF choose_file, analyze, start_findings, end_run
<1>16. tick \/ UNCHANGED vars => UNCHANGED rows
  BY DEF tick, vars
<1> QED
  BY <1>2, <1>3, <1>4, <1>5, <1>6, <1>7, <1>8, <1>9, <1>10, <1>11, <1>12, <1>13, <1>14,
     <1>15, <1>16
  DEF Next, Step, Intake, EvidencePage, FindingsPage, Elsewhere

LEMMA InitRegistration == Init => RegistrationInv
BY DEF Init, RegistrationInv, AnalysisOfThisFile

\* A vendor in the log has its engagement, and the exceptions of an evidence row
\* are findings all together, and exactly when its registration is in the log.
THEOREM WholeRegistration == Spec => []RegistrationIsWhole
<1>1. TypeOK /\ RunsInv /\ LogIsFinite /\ RegistrationInv /\ [Next]_vars
        => (TypeOK /\ RunsInv /\ LogIsFinite /\ RegistrationInv)'
  BY StepTypes, RegistrationStep
<1>2. RegistrationInv => RegistrationIsWhole
  BY DEF RegistrationInv, RegistrationIsWhole, Linked, Registered
<1> QED
  BY <1>1, <1>2, InitTypes, InitRegistration, PTL DEF Spec

\* An evidence row never carries what was extracted from another document.
THEOREM OwnAnalysis == Spec => []AnalysisOfThisFile
<1>1. TypeOK /\ RunsInv /\ LogIsFinite /\ RegistrationInv /\ [Next]_vars
        => (TypeOK /\ RunsInv /\ LogIsFinite /\ RegistrationInv)'
  BY StepTypes, RegistrationStep
<1>2. RegistrationInv => AnalysisOfThisFile
  BY DEF RegistrationInv
<1> QED
  BY <1>1, <1>2, InitTypes, InitRegistration, PTL DEF Spec

-----------------------------------------------------------------------------
(* The gate *)

\* A box that is displayed stands next to something in the way.
ShownInv ==
    \A u \in Users : shown[u].acknowledgement => blocking(shown[u].reasons) # {}

\* What has been in the way since a run of the vendor page began is in what the
\* run has read, kind by kind as its queries return.
GateInv ==
    \A u \in Users :
      /\ standing[u] \subseteq blockers
      /\ run[u].stage \in {"Profile", "Evidence", "Gate findings", "Gate assessments"} =>
           standing[u] \cap RiskReasons \subseteq risk_reasons(run[u].residual)
      /\ run[u].stage = "Evidence" =>
           standing[u] \cap EvidenceReasons \subseteq {"evidence_incomplete"} \X run[u].required
      /\ run[u].stage \in {"Gate findings", "Gate assessments"} =>
           standing[u] \cap EvidenceReasons \subseteq run[u].reasons
      /\ run[u].stage = "Gate assessments" =>
           standing[u] \cap FindingReasons \subseteq run[u].reasons
      /\ run[u].stage = "Gate" => standing[u] \subseteq run[u].reasons

\* The blockers of each kind are what the query of that kind returns.
LEMMA BlockerKinds ==
    ASSUME Typed
    PROVE  /\ blockers \subseteq EvidenceReasons \cup FindingReasons
                                  \cup ReassessmentReasons \cup RiskReasons
           /\ blockers \cap EvidenceReasons \subseteq
                evidence_reasons(required_evidence(vendor.engaged), evidence)
           /\ blockers \cap FindingReasons \subseteq finding_reasons(findings)
           /\ blockers \cap ReassessmentReasons \subseteq reassessment_reasons(assessments)
           /\ blockers \cap RiskReasons \subseteq risk_reasons(vendor.residual)
<1>1. CASE vendor = None
  BY <1>1 DEF blockers
<1>2. CASE vendor # None
  <2> DEFINE A == evidence_reasons(required_evidence(vendor.engaged), evidence)
             B == finding_reasons(findings)
             C == reassessment_reasons(assessments)
             D == risk_reasons(vendor.residual)
  <2>1. A \subseteq EvidenceReasons
    BY RequiredType, ReasonTypes
  <2>2. B \subseteq FindingReasons /\ C \subseteq ReassessmentReasons
    BY ReasonTypes DEF Typed
  <2>3. blocking(D) \subseteq RiskReasons /\ blocking(D) \subseteq D
    BY ReasonTypes, BlockingKinds
  <2>4. blockers = blocking(A \cup B \cup C \cup D)
    BY <1>2 DEF blockers
  <2> HIDE DEF A, B, C, D
  <2>5. blockers = A \cup B \cup C \cup blocking(D)
    <3>1. blocking(A) = A /\ blocking(B) = B /\ blocking(C) = C
      BY <2>1, <2>2, BlockingKinds
    <3>2. blocking(A \cup B \cup C \cup D) = blocking(A \cup B \cup C) \cup blocking(D)
          /\ blocking(A \cup B \cup C) = blocking(A \cup B) \cup blocking(C)
          /\ blocking(A \cup B) = blocking(A) \cup blocking(B)
      BY BlockingKinds
    <3> QED
      BY <2>4, <3>1, <3>2
  <2>6. blockers \cap EvidenceReasons \subseteq A /\ blockers \cap FindingReasons \subseteq B
    BY <2>1, <2>2, <2>3, <2>5, KindsDiffer
  <2>7. blockers \cap ReassessmentReasons \subseteq C /\ blockers \cap RiskReasons \subseteq D
    BY <2>1, <2>2, <2>3, <2>5, KindsDiffer
  <2> QED
    BY <2>1, <2>2, <2>3, <2>5, <2>6, <2>7 DEF A, B, C, D
<1> QED
  BY <1>1, <1>2

\* What is watched only shrinks during a run.
LEMMA WatchStep ==
    ASSUME Next, NEW u \in Users
    PROVE  /\ standing'[u] \subseteq blockers'
           /\ run'[u] = Idle => standing'[u] = {}
           /\ run[u] # Idle => standing'[u] \subseteq standing[u]
<1> DEFINE watched(v) == IF run'[v] = Idle THEN {}
                         ELSE IF run[v] = Idle THEN blockers'
                         ELSE standing[v] \cap blockers'
<1>1. standing' = [v \in Users |-> watched(v)]
  BY DEF Next, watch
<1>2. standing'[u] = watched(u)
  BY <1>1
<1>3. CASE run'[u] = Idle
  BY <1>2, <1>3
<1>4. CASE run'[u] # Idle /\ run[u] = Idle
  BY <1>2, <1>4
<1>5. CASE run'[u] # Idle /\ run[u] # Idle
  BY <1>2, <1>5
<1> QED
  BY <1>3, <1>4, <1>5

\* A run changes by its own steps only.
LEMMA RunChanges ==
    ASSUME Typed, Step, NEW u \in Users
    PROVE  \/ run'[u] = run[u]
           \/ run'[u].stage \in {"Idle", "Intake", "Register", "Findings"}
           \/ start_vendor_page(u) \/ read_profile(u) \/ read_evidence(u)
           \/ read_findings(u) \/ evaluate_vendor_decision(u)
<1>1. \A v \in Users : \A next : go(v, next) =>
        run'[u] = IF u = v THEN next ELSE run[u]
  BY DEF go, Typed
<1>2. Idle.stage = "Idle"
  BY DEF Idle
<1>9. ASSUME NEW v \in Users, NEW next, go(v, next),
             next.stage \in {"Idle", "Intake", "Register", "Findings"}
      PROVE  run'[u] = run[u] \/ run'[u].stage \in {"Idle", "Intake", "Register", "Findings"}
  BY <1>1, <1>9
<1>3. ASSUME NEW v \in Users, Intake(v) \/ EvidencePage(v)
      PROVE  run'[u] = run[u] \/ run'[u].stage \in {"Idle", "Intake", "Register", "Findings"}
  <2>1. CASE \E residual \in Scores : create_vendor(v, residual)
    <3>1. go(v, [stage |-> "Intake"])
      BY <2>1 DEF create_vendor
    <3> QED
      BY <1>9, <3>1
  <2>2. CASE create_engagement(v) \/ register_findings(v)
    <3>1. go(v, Idle)
      BY <2>2 DEF create_engagement, register_findings
    <3> QED
      BY <1>2, <1>9, <3>1
  <2>3. CASE \/ \E f \in Files \cup {None} : choose_file(v, f)
             \/ \E b \in BOOLEAN : analyze(v, b)
    BY <2>3 DEF choose_file, analyze
  <2>4. CASE \E q \in Requirements, b \in BOOLEAN : save_evidence(v, q, b)
    <3> DEFINE next == [stage |-> "Register", evidence |-> Len(evidence) + 1]
    <3>1. go(v, next) /\ next.stage = "Register"
      BY <2>4 DEF save_evidence
    <3> HIDE DEF next
    <3> QED
      BY <1>9, <3>1
  <2> QED
    BY <1>3, <2>1, <2>2, <2>3, <2>4 DEF Intake, EvidencePage
<1>4. ASSUME NEW v \in Users, FindingsPage(v)
      PROVE  run'[u] = run[u] \/ run'[u].stage \in {"Idle", "Intake", "Register", "Findings"}
  <2>1. CASE \E s \in NewSeverities, t \in Targets : create_finding(v, s, t)
    BY <2>1 DEF create_finding
  <2>2. CASE start_findings(v)
    <3> DEFINE next == [stage |-> "Findings", read |-> findings]
    <3>1. go(v, next) /\ next.stage = "Findings"
      BY <2>2 DEF start_findings
    <3> HIDE DEF next
    <3> QED
      BY <1>9, <3>1
  <2>3. CASE \E f \in DOMAIN findings, t \in Targets :
               \/ \E s \in FindingStatuses : update_finding(v, f, s, t)
               \/ \E x \in Escalations \cup {"Not Escalated"} : save_escalation(v, f, x, t)
    <3>1. go(v, Idle)
      BY <2>3 DEF update_finding, save_escalation
    <3> QED
      BY <1>2, <1>9, <3>1
  <2> QED
    BY <1>4, <2>1, <2>2, <2>3 DEF FindingsPage
<1>5. ASSUME NEW v \in Users, Elsewhere(v)
      PROVE  run'[u] = run[u] \/ run'[u].stage \in {"Idle", "Intake", "Register", "Findings"}
  BY <1>1, <1>2, <1>5 DEF Elsewhere, end_run, launch_reassessment, update_reassessment,
     record_event
<1>6. ASSUME NEW v \in Users, VendorPage(v), v # u PROVE run'[u] = run[u]
  BY <1>1, <1>6 DEF VendorPage, start_vendor_page, read_profile, read_evidence, read_findings,
     evaluate_vendor_decision, display_page, record_approval, found
<1>7. ASSUME NEW d \in Decisions, display_page(u, d) \/ record_approval(u, d)
      PROVE  run'[u].stage = "Idle"
  BY <1>1, <1>2, <1>7 DEF display_page, record_approval
<1>8. (\E e \in DOMAIN evidence : expire(e)) \/ tick => run' = run
  BY DEF expire, tick
<1> QED
  BY <1>3, <1>4, <1>5, <1>6, <1>7, <1>8 DEF Step, VendorPage

LEMMA GateStep ==
    ASSUME TypeOK, GateInv, [Next]_vars
    PROVE  GateInv'
<1>1. Typed
  BY DEF TypeOK, Typed
<1>2. CASE UNCHANGED vars
  BY <1>2 DEF vars, rows, GateInv, blockers
<1>3. ASSUME Next, NEW u \in Users
      PROVE  /\ standing'[u] \subseteq blockers'
             /\ run'[u].stage \in {"Profile", "Evidence", "Gate findings", "Gate assessments"} =>
                  standing'[u] \cap RiskReasons \subseteq risk_reasons(run'[u].residual)
             /\ run'[u].stage = "Evidence" =>
                  standing'[u] \cap EvidenceReasons
                    \subseteq {"evidence_incomplete"} \X run'[u].required
             /\ run'[u].stage \in {"Gate findings", "Gate assessments"} =>
                  standing'[u] \cap EvidenceReasons \subseteq run'[u].reasons
             /\ run'[u].stage = "Gate assessments" =>
                  standing'[u] \cap FindingReasons \subseteq run'[u].reasons
             /\ run'[u].stage = "Gate" => standing'[u] \subseteq run'[u].reasons
  <2>1. standing'[u] \subseteq blockers' /\ (run[u] # Idle => standing'[u] \subseteq standing[u])
    BY <1>3, WatchStep
  <2>2. Idle.stage = "Idle"
    BY DEF Idle
  <2>3. \A next : go(u, next) => run'[u] = next
    BY <1>1 DEF go, Typed
  <2>4. CASE run'[u] = run[u]
    <3>1. CASE run[u] = Idle
      BY <2>1, <2>2, <2>4, <3>1
    <3>2. CASE run[u] # Idle
      BY <2>1, <2>4, <3>2 DEF GateInv
    <3> QED
      BY <3>1, <3>2
  <2>5. CASE run'[u].stage \in {"Idle", "Intake", "Register", "Findings"}
    BY <2>1, <2>5
  <2>6. CASE start_vendor_page(u)
    <3> DEFINE next == [stage |-> "Profile", residual |-> vendor.residual]
    <3>1. go(u, next) /\ UNCHANGED rows
      BY <2>6 DEF start_vendor_page
    <3>2. next.stage = "Profile" /\ next.residual = vendor.residual
      OBVIOUS
    <3> HIDE DEF next
    <3>3. run'[u].stage = "Profile" /\ run'[u].residual = vendor.residual
      BY <2>3, <3>1, <3>2
    <3>4. blockers' = blockers
      BY <3>1 DEF rows, blockers
    <3>5. blockers \cap RiskReasons \subseteq risk_reasons(vendor.residual)
      BY <1>1, BlockerKinds
    <3> QED
      BY <2>1, <3>3, <3>4, <3>5
  <2>7. ASSUME run[u].stage \in {"Profile", "Evidence", "Gate findings", "Gate assessments"}
        PROVE  /\ standing'[u] \subseteq standing[u]
               /\ standing'[u] \subseteq blockers
               /\ standing'[u] \cap RiskReasons \subseteq risk_reasons(run[u].residual)
    BY <2>1, <2>2, <2>7 DEF GateInv
  <2>8. CASE read_profile(u)
    <3> DEFINE next == [stage |-> "Evidence", residual |-> run[u].residual,
                        required |-> required_evidence(vendor.engaged)]
               required == required_evidence(vendor.engaged)
    <3>1. go(u, next) /\ run[u].stage = "Profile"
      BY <2>8 DEF read_profile
    <3>2. next.stage = "Evidence" /\ next.residual = run[u].residual /\ next.required = required
      OBVIOUS
    <3> HIDE DEF next, required
    <3>3. /\ run'[u].stage = "Evidence" /\ run'[u].residual = run[u].residual
          /\ run'[u].required = required
      BY <2>3, <3>1, <3>2
    <3>4. blockers \cap EvidenceReasons \subseteq {"evidence_incomplete"} \X required
      <4>1. evidence_reasons(required, evidence) \subseteq {"evidence_incomplete"} \X required
        BY DEF evidence_reasons, missing
      <4> QED
        BY <1>1, <4>1, BlockerKinds DEF required
    <3>5. /\ standing'[u] \subseteq blockers
          /\ standing'[u] \cap RiskReasons \subseteq risk_reasons(run[u].residual)
      BY <2>7, <3>1
    <3>6. standing'[u] \cap EvidenceReasons \subseteq {"evidence_incomplete"} \X run'[u].required
      BY <3>3, <3>4, <3>5
    <3>7. standing'[u] \cap RiskReasons \subseteq risk_reasons(run'[u].residual)
      BY <3>3, <3>5
    <3> QED
      BY <2>1, <3>3, <3>6, <3>7
  <2>9. ASSUME NEW stage, NEW reasons, found(u, stage, reasons)
        PROVE  /\ run'[u].stage = stage /\ run'[u].residual = run[u].residual
               /\ run'[u].reasons = reasons
    <3> DEFINE next == [stage |-> stage, residual |-> run[u].residual, reasons |-> reasons]
    <3>1. next.stage = stage /\ next.residual = run[u].residual /\ next.reasons = reasons
      OBVIOUS
    <3>2. go(u, next)
      BY <2>9 DEF found
    <3> HIDE DEF next
    <3> QED
      BY <2>3, <3>1, <3>2
  <2>10. CASE read_evidence(u)
    <3> DEFINE reasons == evidence_reasons(run[u].required, evidence)
    <3>1. run[u].stage = "Evidence" /\ found(u, "Gate findings", reasons)
      BY <2>10 DEF read_evidence
    <3>2. standing[u] \cap EvidenceReasons \subseteq {"evidence_incomplete"} \X run[u].required
      BY <3>1 DEF GateInv
    <3>3. standing[u] \cap EvidenceReasons
            \subseteq evidence_reasons(required_evidence(vendor.engaged), evidence)
      BY <1>1, BlockerKinds DEF GateInv
    <3>4. standing[u] \cap EvidenceReasons \subseteq reasons
      BY <3>2, <3>3 DEF evidence_reasons, missing
    <3> HIDE DEF reasons
    <3>5. /\ run'[u].stage = "Gate findings" /\ run'[u].residual = run[u].residual
          /\ run'[u].reasons = reasons
      BY <2>9, <3>1
    <3>6. /\ standing'[u] \subseteq standing[u]
          /\ standing'[u] \cap RiskReasons \subseteq risk_reasons(run[u].residual)
      BY <2>7, <3>1
    <3>7. standing'[u] \cap EvidenceReasons \subseteq run'[u].reasons
      BY <3>4, <3>5, <3>6
    <3>8. standing'[u] \cap RiskReasons \subseteq risk_reasons(run'[u].residual)
      BY <3>5, <3>6
    <3> QED
      BY <2>1, <3>5, <3>7, <3>8
  <2>11. CASE read_findings(u)
    <3> DEFINE reasons == run[u].reasons \cup finding_reasons(findings)
    <3>1. run[u].stage = "Gate findings" /\ found(u, "Gate assessments", reasons)
      BY <2>11 DEF read_findings
    <3>2. standing[u] \cap EvidenceReasons \subseteq reasons
      BY <3>1 DEF GateInv
    <3>3. standing[u] \cap FindingReasons \subseteq reasons
      BY <1>1, BlockerKinds DEF GateInv
    <3> HIDE DEF reasons
    <3>5. /\ run'[u].stage = "Gate assessments" /\ run'[u].residual = run[u].residual
          /\ run'[u].reasons = reasons
      BY <2>9, <3>1
    <3>6. /\ standing'[u] \subseteq standing[u]
          /\ standing'[u] \cap RiskReasons \subseteq risk_reasons(run[u].residual)
      BY <2>7, <3>1
    <3>7. /\ standing'[u] \cap EvidenceReasons \subseteq run'[u].reasons
          /\ standing'[u] \cap FindingReasons \subseteq run'[u].reasons
      BY <3>2, <3>3, <3>5, <3>6
    <3>8. standing'[u] \cap RiskReasons \subseteq risk_reasons(run'[u].residual)
      BY <3>5, <3>6
    <3> QED
      BY <2>1, <3>5, <3>7, <3>8
  <2>12. CASE evaluate_vendor_decision(u)
    <3> DEFINE reasons == run[u].reasons \cup reassessment_reasons(assessments)
                                         \cup risk_reasons(run[u].residual)
    <3>1. run[u].stage = "Gate assessments" /\ found(u, "Gate", reasons)
      BY <2>12 DEF evaluate_vendor_decision
    <3>2. /\ standing[u] \cap EvidenceReasons \subseteq run[u].reasons
          /\ standing[u] \cap FindingReasons \subseteq run[u].reasons
          /\ standing[u] \cap RiskReasons \subseteq risk_reasons(run[u].residual)
      BY <3>1 DEF GateInv
    <3>3. /\ standing[u] \cap ReassessmentReasons \subseteq reassessment_reasons(assessments)
          /\ standing[u] \subseteq EvidenceReasons \cup FindingReasons
                                     \cup ReassessmentReasons \cup RiskReasons
      BY <1>1, BlockerKinds DEF GateInv
    <3>4. standing[u] \subseteq reasons
      BY <3>2, <3>3
    <3> HIDE DEF reasons
    <3>5. run'[u].stage = "Gate" /\ run'[u].reasons = reasons
      BY <2>9, <3>1
    <3>6. standing'[u] \subseteq run'[u].reasons
      BY <2>7, <3>1, <3>4, <3>5
    <3> QED
      BY <2>1, <3>5, <3>6
  <2> QED
    BY <1>1, <1>3, <2>4, <2>5, <2>6, <2>8, <2>10, <2>11, <2>12, RunChanges DEF Next
<1>4. CASE Next
  BY <1>3, <1>4 DEF GateInv
<1> QED
  BY <1>2, <1>4

LEMMA GateInit == Init => GateInv
BY DEF Init, GateInv, Idle

\* An approval is stored with the reasons its run has read, and against them only
\* when the box was ticked.
LEMMA ApprovalStep ==
    ASSUME Typed, Step, NEW a \in DOMAIN approvals' \ DOMAIN approvals
    PROVE  \E u \in Users, decision \in Decisions :
             /\ run[u].stage = "Gate"
             /\ approvals'[a].approver = u
             /\ approvals'[a].reasons = run[u].reasons
             /\ approvals'[a].override => ticked(u)
<1>1. approvals' # approvals
  OBVIOUS
<1>2. PICK u \in Users, decision \in Decisions : record_approval(u, decision)
  <2>1. ASSUME NEW u \in Users, Intake(u) \/ EvidencePage(u) \/ FindingsPage(u) \/ Elsewhere(u)
        PROVE  approvals' = approvals
    BY <2>1 DEF Intake, create_vendor, create_engagement, EvidencePage, choose_file, analyze,
       save_evidence, register_findings, FindingsPage, create_finding, start_findings,
       update_finding, save_escalation, Elsewhere, end_run, launch_reassessment,
       update_reassessment, record_event, rows
  <2>2. ASSUME NEW u \in Users, VendorPage(u)
        PROVE  \/ approvals' = approvals
               \/ \E decision \in Decisions : record_approval(u, decision)
    BY <2>2 DEF VendorPage, start_vendor_page, read_profile, read_evidence, read_findings,
       evaluate_vendor_decision, display_page, rows
  <2>3. (\E e \in DOMAIN evidence : expire(e)) \/ tick => approvals' = approvals
    BY DEF expire, tick, rows
  <2> QED
    BY <1>1, <2>1, <2>2, <2>3 DEF Step
<1> DEFINE override == overrides(run[u].reasons, decision)
           row == [approver |-> u, decision |-> decision,
                   recommendation |-> outcome(run[u].reasons),
                   reasons |-> run[u].reasons, override |-> override]
<1>3. /\ run[u].stage = "Gate" /\ approvals' = Append(approvals, row)
      /\ override => ticked(u)
  BY <1>2 DEF record_approval
<1>4. row \in ApprovalRows
  <2>1. run[u].reasons \in SUBSET Reasons
    BY <1>3, RunFields DEF Typed
  <2>2. override \in BOOLEAN /\ outcome(run[u].reasons) \in Outcomes
    BY OverridesType
  <2>3. decision \in HumanDecisions
    BY ChoicesAssumption
  <2> HIDE DEF override
  <2> QED
    BY <2>1, <2>2, <2>3 DEF ApprovalRows
<1>5. row.approver = u /\ row.reasons = run[u].reasons /\ row.override = override
  OBVIOUS
<1> HIDE DEF row, override
<1>6. approvals'[a] = row
  <2>1. a = Len(approvals) + 1
    BY <1>3, <1>4, AppendFacts DEF Typed
  <2> QED
    BY <1>3, <1>4, <2>1, AppendFacts DEF Typed
<1> QED
  BY <1>3, <1>5, <1>6

\* What is displayed is what a run has read, its box with something in the way.
LEMMA ShownStep ==
    ASSUME TypeOK, ShownInv, [Next]_vars
    PROVE  ShownInv'
<1>1. Typed
  BY DEF TypeOK, Typed
<1>2. ASSUME shown' = shown PROVE ShownInv'
  BY <1>2 DEF ShownInv
<1>3. ASSUME NEW u \in Users, shown' = [shown EXCEPT ![u] = NothingShown] PROVE ShownInv'
  BY <1>1, <1>3, NothingShownType DEF ShownInv, Typed
<1>4. ASSUME NEW u \in Users, NEW decision \in Decisions,
             display(u, overrides(run[u].reasons, decision))
      PROVE  ShownInv'
  <2> DEFINE override == overrides(run[u].reasons, decision)
             page == [reasons |-> run[u].reasons, acknowledgement |-> override]
  <2>1. shown' = [shown EXCEPT ![u] = page]
    BY <1>4 DEF display
  <2>2. page.reasons = run[u].reasons /\ page.acknowledgement = override
    OBVIOUS
  <2>3. override => blocking(run[u].reasons) # {}
    <3>1. override => outcome(run[u].reasons) = "Further Review Required"
      BY DEF overrides
    <3> QED
      BY <3>1 DEF outcome
  <2> HIDE DEF override, page
  <2>4. page.acknowledgement => blocking(page.reasons) # {}
    BY <2>2, <2>3
  <2> QED
    BY <1>1, <2>1, <2>4 DEF ShownInv, Typed
<1>5. ASSUME NEW u \in Users, Intake(u) \/ EvidencePage(u) PROVE ShownInv'
  BY <1>2, <1>3, <1>5 DEF Intake, create_vendor, create_engagement, EvidencePage, choose_file,
     analyze, save_evidence, register_findings, may_open
<1>6. ASSUME NEW u \in Users, FindingsPage(u) PROVE ShownInv'
  BY <1>2, <1>3, <1>6 DEF FindingsPage, create_finding, start_findings, update_finding,
     save_escalation, may_open
<1>7. ASSUME NEW u \in Users, VendorPage(u) PROVE ShownInv'
  BY <1>2, <1>4, <1>7 DEF VendorPage, start_vendor_page, read_profile, read_evidence,
     read_findings, evaluate_vendor_decision, display_page, record_approval
<1>8. ASSUME NEW u \in Users, Elsewhere(u) PROVE ShownInv'
  BY <1>2, <1>3, <1>8 DEF Elsewhere, end_run, launch_reassessment, update_reassessment,
     record_event, may_open
<1>9. (\E e \in DOMAIN evidence : expire(e)) \/ tick \/ UNCHANGED vars => shown' = shown
  BY DEF expire, tick, vars
<1> QED
  BY <1>2, <1>5, <1>6, <1>7, <1>8, <1>9 DEF Next, Step

LEMMA ShownInit == Init => ShownInv
BY NothingShownType DEF Init, ShownInv

VendorInv == TypeOK /\ RunsInv /\ LogIsFinite /\ RegistrationInv /\ GateInv /\ ShownInv

\* VendorInv: what registration has committed is whole, and a run of the gate has
\* read what has been in the way since it began.
THEOREM InductiveInvariant == Spec => []VendorInv
<1>1. Init => VendorInv
  BY InitTypes, InitRegistration, GateInit, ShownInit DEF VendorInv
<1>2. VendorInv /\ [Next]_vars => VendorInv'
  BY StepTypes, RegistrationStep, GateStep, ShownStep DEF VendorInv
<1> QED
  BY <1>1, <1>2, PTL DEF Spec

\* "The recommendation is based on current evidence, findings, reassessment status
\* and residual risk": what was in the way all along is in the stored reasons.
THEOREM GateIsCurrent == Spec => GateSeesStandingBlockers
<1>1. VendorInv /\ [Next]_vars
        => [\A a \in DOMAIN approvals' \ DOMAIN approvals :
              standing[approvals'[a].approver] \subseteq approvals'[a].reasons]_vars
  <2> SUFFICES ASSUME VendorInv, Next, NEW a \in DOMAIN approvals' \ DOMAIN approvals
               PROVE  standing[approvals'[a].approver] \subseteq approvals'[a].reasons
    OBVIOUS
  <2>1. Typed /\ Step
    BY DEF VendorInv, TypeOK, Typed, Next
  <2>2. PICK u \in Users, decision \in Decisions :
          /\ run[u].stage = "Gate"
          /\ approvals'[a].approver = u
          /\ approvals'[a].reasons = run[u].reasons
    BY <2>1, ApprovalStep
  <2>3. standing[u] \subseteq run[u].reasons
    BY <2>2 DEF VendorInv, GateInv
  <2> QED
    BY <2>2, <2>3
<1> QED
  BY <1>1, InductiveInvariant, PTL DEF Spec, GateSeesStandingBlockers

\* Whoever approves against the gate was last shown a page with some reason in the
\* way of an approval, for any users and interleaving; the reasons the run then finds
\* and overrides may be others (app.py, render_vendors).
THEOREM OverrideAfterPage == Spec => OverrideWasShown
<1>1. VendorInv /\ [Next]_vars
        => [\A a \in DOMAIN approvals' \ DOMAIN approvals :
              approvals'[a].override
                => blocking(shown[approvals'[a].approver].reasons) # {}]_vars
  <2> SUFFICES ASSUME VendorInv, Next, NEW a \in DOMAIN approvals' \ DOMAIN approvals,
                      approvals'[a].override
               PROVE  blocking(shown[approvals'[a].approver].reasons) # {}
    OBVIOUS
  <2>1. Typed /\ Step
    BY DEF VendorInv, TypeOK, Typed, Next
  <2>2. PICK u \in Users, decision \in Decisions :
          approvals'[a].approver = u /\ ticked(u)
    BY <2>1, ApprovalStep
  <2>3. blocking(shown[u].reasons) # {}
    BY <2>2 DEF VendorInv, ShownInv, ticked
  <2> QED
    BY <2>2, <2>3
<1> QED
  BY <1>1, InductiveInvariant, PTL DEF Spec, OverrideWasShown

-----------------------------------------------------------------------------
(* Findings and the log *)

\* The status or the target of finding f changes with an entry in the log.
Audited(f) ==
    \/ findings'[f].status = findings[f].status /\ findings'[f].target = findings[f].target
    \/ \E row \in audit' :
         /\ run[row.actor].stage = "Findings" /\ run'[row.actor] = Idle
         /\ row.object = f
         /\ row.at >= clock - Window
         /\ \/ /\ row.action = "finding.update"
               /\ findings'[f].status \in {findings[f].status, row.details[1]}
               /\ findings'[f].target \in {findings[f].target, row.details[2]}
            \/ /\ row.action = "finding.escalation_update"
               /\ findings'[f].status = findings[f].status
               /\ findings'[f].target = row.details[3]

LEMMA LoggedRow ==
    ASSUME Typed, NEW u \in Users, NEW action \in Events, NEW object \in Nat,
           NEW details \in Seq(Words), record_audit_event(u, action, object, details)
    PROVE  \E row \in audit' :
             /\ row.actor = u /\ row.action = action /\ row.object = object
             /\ row.details = details /\ row.at >= clock - Window
BY AuditFacts DEF Typed

LEMMA UpdateAudited ==
    ASSUME Typed, NEW u \in Users, NEW g \in DOMAIN findings, NEW status \in FindingStatuses,
           NEW target \in Targets, update_finding(u, g, status, target),
           NEW f \in DOMAIN findings
    PROVE  Audited(f)
<1> DEFINE read == run[u].read[g]
           new  == [read EXCEPT !.status = status, !.target = target]
<1>1. read \in FindingRows
  BY RunFields, ElementOfSeq, LenProperties DEF update_finding, Typed
<1>2. /\ new \in FindingRows /\ new.evidence = read.evidence /\ new.index = read.index
      /\ new.status = status /\ new.target = target
  BY <1>1, ChoicesAssumption DEF FindingRows
<1>3. /\ run[u].stage = "Findings" /\ g \in DOMAIN run[u].read
      /\ write_finding(u, g, new) /\ go(u, Idle)
      /\ record_audit_event(u, "finding.update", g, <<status, target>>)
  BY DEF update_finding
<1> HIDE DEF new
<1>4. /\ f # g => findings'[f] = findings[f]
      /\ findings'[g].status \in {findings[g].status, status}
      /\ findings'[g].target \in {findings[g].target, target}
  BY <1>2, <1>3, FindingWritten
<1>5. run'[u] = Idle
  BY <1>3 DEF go, Typed
<1> DEFINE details == <<status, target>>
           action  == "finding.update"
<1>6. details[1] = status /\ details[2] = target
  <2> HIDE DEF read
  <2> QED
    OBVIOUS
<1>7. PICK row \in audit' : /\ row.actor = u /\ row.action = action
                            /\ row.object = g /\ row.details = details
                            /\ row.at >= clock - Window
  <2>1. action \in Events /\ g \in Nat
    BY FindingIndex DEF Events
  <2>2. details \in Seq(Words)
    <3>1. status \in Words /\ target \in Words
      BY ChoicesAssumption DEF Words
    <3> QED
      BY <3>1, DetailTypes
  <2>3. record_audit_event(u, action, g, details)
    BY <1>3
  <2> HIDE DEF action, details
  <2> QED
    BY <2>1, <2>2, <2>3, LoggedRow
<1>8. row.action = "finding.update" /\ row.details[1] = status /\ row.details[2] = target
  <2> HIDE DEF details
  <2> QED
    BY <1>6, <1>7
<1> QED
  BY <1>3, <1>4, <1>5, <1>7, <1>8 DEF Audited

EscalationKinds == Escalations \cup {"Not Escalated"}

LEMMA EscalationAudited ==
    ASSUME Typed, NEW u \in Users, NEW g \in DOMAIN findings,
           NEW kind \in EscalationKinds,
           NEW target \in Targets, save_escalation(u, g, kind, target),
           NEW f \in DOMAIN findings
    PROVE  Audited(f)
<1> DEFINE read == run[u].read[g]
           new  == escalated(read, u, kind, target)
<1>1. read \in FindingRows
  BY RunFields, ElementOfSeq, LenProperties DEF save_escalation, Typed
<1>2. /\ new \in FindingRows /\ new.evidence = read.evidence /\ new.index = read.index
      /\ new.status = read.status /\ new.target = target
  <2>1. clock \in Nat
    BY DEF Typed
  <2> HIDE DEF read
  <2> QED
    BY <1>1, <2>1, EscalatedType DEF EscalationKinds
<1>3. /\ run[u].stage = "Findings" /\ g \in DOMAIN run[u].read
      /\ write_finding(u, g, new) /\ go(u, Idle)
      /\ record_audit_event(u, "finding.escalation_update", g, <<read.escalation, kind, target>>)
  BY DEF save_escalation
<1> HIDE DEF new
<1>4. /\ f # g => findings'[f] = findings[f]
      /\ findings'[g].status = findings[g].status
      /\ findings'[g].target \in {findings[g].target, target}
  BY <1>2, <1>3, FindingWritten
<1>5. run'[u] = Idle
  BY <1>3 DEF go, Typed
<1> DEFINE details == <<read.escalation, kind, target>>
           action  == "finding.escalation_update"
<1>6. details[3] = target
  <2> HIDE DEF read
  <2> QED
    OBVIOUS
<1>7. PICK row \in audit' : /\ row.actor = u /\ row.action = action
                            /\ row.object = g /\ row.details = details
                            /\ row.at >= clock - Window
  <2>1. action \in Events /\ g \in Nat
    BY FindingIndex DEF Events
  <2>2. details \in Seq(Words)
    <3>1. read.escalation \in Words /\ kind \in Words /\ target \in Words
      BY <1>1, ChoicesAssumption DEF EscalationKinds, Words, FindingRows
    <3> QED
      BY <3>1, DetailTypes
  <2>3. record_audit_event(u, action, g, details)
    BY <1>3
  <2> HIDE DEF action, details
  <2> QED
    BY <2>1, <2>2, <2>3, LoggedRow
<1>8. row.action = "finding.escalation_update" /\ row.details[3] = target
  <2> HIDE DEF details
  <2> QED
    BY <1>6, <1>7
<1> QED
  BY <1>3, <1>4, <1>5, <1>7, <1>8 DEF Audited

\* No other page changes a finding that is there.
LEMMA FindingStep ==
    ASSUME Typed, RunsInv, Step, NEW f \in DOMAIN findings
    PROVE  Audited(f)
<1>1. ASSUME findings'[f] = findings[f] PROVE Audited(f)
  BY <1>1 DEF Audited
<1>2. ASSUME NEW u \in Users, register_findings(u) PROVE findings'[f] = findings[f]
  <2>1. run[u].evidence \in DOMAIN evidence
    BY <1>2 DEF register_findings, RunsInv
  <2>2. PICK e \in DOMAIN evidence : e = run[u].evidence
    BY <2>1
  <2>3. findings' = findings \o findings_from(e)
    BY <1>2, <2>2 DEF register_findings
  <2>4. findings_from(e) \in Seq(FindingRows)
    BY FindingsFrom
  <2> QED
    BY <2>3, <2>4, ConcatFacts DEF Typed
<1>3. ASSUME NEW u \in Users, NEW severity \in NewSeverities, NEW target \in Targets,
             create_finding(u, severity, target)
      PROVE  findings'[f] = findings[f]
  <2>1. new_finding(0, 0, severity, target) \in FindingRows
    BY NewFindingType, ChoicesAssumption
  <2> QED
    BY <1>3, <2>1, AppendFacts DEF create_finding, Typed
<1>4. ASSUME NEW u \in Users, Intake(u) \/ VendorPage(u) \/ Elsewhere(u)
      PROVE  findings' = findings
  BY <1>4 DEF Intake, create_vendor, create_engagement, VendorPage, start_vendor_page,
     read_profile, read_evidence, read_findings, evaluate_vendor_decision, display_page,
     record_approval, Elsewhere, end_run, launch_reassessment, update_reassessment,
     record_event, rows
<1>5. ASSUME NEW u \in Users,
             \/ \E file \in Files \cup {None} : choose_file(u, file)
             \/ \E b \in BOOLEAN : analyze(u, b)
             \/ \E q \in Requirements, b \in BOOLEAN : save_evidence(u, q, b)
             \/ start_findings(u)
      PROVE  findings' = findings
  BY <1>5 DEF choose_file, analyze, save_evidence, start_findings, rows
<1>6. (\E e \in DOMAIN evidence : expire(e)) \/ tick => findings' = findings
  BY DEF expire, tick, rows
<1> QED
  BY <1>1, <1>2, <1>3, <1>4, <1>5, <1>6, UpdateAudited, EscalationAudited
  DEF Step, EvidencePage, FindingsPage, EscalationKinds

\* What is written over a finding is in the log under who wrote it.
THEOREM FindingsAudited == Spec => ChangesAreAudited
<1>1. VendorInv /\ [Next]_vars => [\A f \in DOMAIN findings : Audited(f)]_vars
  BY FindingStep DEF VendorInv, TypeOK, Typed, Next
<1> QED
  BY <1>1, InductiveInvariant, PTL DEF Spec, ChangesAreAudited, Audited

=============================================================================
