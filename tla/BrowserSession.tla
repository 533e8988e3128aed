--------------------------- MODULE BrowserSession ---------------------------
(***************************************************************************)
(* One analyst's browser session over the three pages that keep their work  *)
(* in it and nowhere else: the control assurance review of the Evidence     *)
(* Center, New Assessment and the guided demo.  The navigation shows one of  *)
(* them at a time; what the others hold stays, but for the values of their   *)
(* widgets.                                                                *)
(***************************************************************************)
EXTENDS ReviewSessions, UploadAssessment, GuidedDemo

vars == <<reviewVars, uploadVars, demoVars>>

Init == ReviewInit /\ UploadInit /\ DemoInit

Next ==
    \/ ReviewNext /\ UNCHANGED <<uploadVars, demoVars>>
    \/ UploadNext /\ UNCHANGED <<reviewVars, demoVars>>
    \/ DemoNext /\ UNCHANGED <<reviewVars, uploadVars>>

Spec == Init /\ [][Next]_vars

\* Evaluate is cut between its write of the model and that of the uploads.
Interrupted == session'.model \notin {session'.uploads, None} /\ evaluate
UninterruptedSpec == Init /\ [][Next /\ ~ Interrupted]_vars

-----------------------------------------------------------------------------
UploadEntries == Entries({upload_row_fingerprint(m, r) : m \in Declared, r \in Requirements})
DemoModels == {build_demo(d) : d \in
    [scenario : Scenarios, received : BOOLEAN, risk_profile : Profiles]}
DemoEntries == Entries(
    {<<p, RowOf[s][b][r]>> : p \in Profiles, s \in Scenarios, b \in BOOLEAN, r \in Requirements})
Drawings ==
    [stage : Stage \cup {"Start", "Held back", "Failed"}, offers : SUBSET Files,
     finished : BOOLEAN, whole : BOOLEAN]
IsCompletion(c, models, entries) ==
    c # None => c.model \in models /\ c.actions \in Seq(entries)

\* What the session keeps, and what the pages last drew.
TypeOK ==
    /\ version \in Versions
    /\ DOMAIN saved = Keys
    /\ \A k \in Keys : saved[k] # Nil =>
          /\ saved[k].prefix[1] \in Cases /\ IsPackage(saved[k].prefix[2])
          /\ saved[k].review \in Reviews
    /\ shown.case \in Cases /\ IsPackage(shown.bundle) /\ shown.outcome \in Outcomes
    /\ stay \in Reviews
    /\ DOMAIN session = DOMAIN Untouched
    /\ session.stage \in Stage /\ session.pending_stage \in Stage \cup {None}
    /\ session.model \in Declared \cup {None}
    /\ {session.uploads, session.metadata_edits} \subseteq Declared
    /\ session.pending_files \subseteq Files
    /\ session.actions # None => session.actions \in Seq(UploadEntries)
    /\ IsCompletion(session.completion, Declared, UploadEntries)
    /\ drawn \in Drawings
    /\ demo.scenario \in Scenarios /\ demo.risk_profile \in Profiles
    /\ demo.step \in Step /\ demo.received \in BOOLEAN
    /\ demo.actions \in Seq(DemoEntries)
    /\ IsCompletion(demo.completion, DemoModels, DemoEntries)
    /\ sight.model \in DemoModels /\ sight.actions \in Seq(DemoEntries)

\* A page that shows the evaluation, the gaps or the report shows those of what is
\* attached and declared now: no file and no declaration is refused, and the model
\* it shows is built of the others, as declared.  Whatever differs since Evaluate
\* holds these pages back, unless Evaluate itself is stopped between its write of
\* the model and that of the uploads (upload_assessment_ui.py).
NothingPendingBehindReport ==
    drawn.whole /\ drawn.stage \in {"Evaluate", "Review gaps", "Report"} =>
        /\ ~ session.file_error /\ ~ errors(session)
        /\ session.model = proposed(session)

\* A page that says the assessment review is completed offers a package of the
\* evidence, context and annotations as they stand: whatever changed after Finish
\* was pressed has reopened the review (upload_assessment_ui.py,
\* guided_assessment_demo_ui.py).
FinishedIsCurrent ==
    /\ drawn.whole /\ drawn.finished =>
          session.completion = complete_review(proposed(session), session.actions)
    /\ sight.whole /\ sight.completion # None =>
          sight.completion = complete_review(build_demo(demo), demo.actions)
=============================================================================
