-------------------------- MODULE UploadAssessment --------------------------
(***************************************************************************)
(* The New Assessment page: one analyst attaches files, declares what they  *)
(* are, evaluates, annotates and finishes, all in one browser session.      *)
(*                                                                         *)
(* A gesture is a widget's callback followed by a run of the page, which    *)
(* draws a stage and, if a button of that stage was clicked, does what the  *)
(* button says.  The next gesture cuts a run short: before it has drawn     *)
(* anything, or between two writes of a button's handler; callbacks are     *)
(* taken whole.  A model is what it is built from: the evaluated files with *)
(* what the analyst declares of each (routing, kind, date, scope).          *)
(***************************************************************************)
EXTENDS AssessmentLedger, FiniteSets

CONSTANTS Files,        \* [name, content] of the files at hand
          Readable,     \* those that can be parsed
          Declarations, \* what may be declared of a file
          Refused,      \* those of them that no file is read with
          RoutedTo,     \* the requirements each declaration routes the file to
          Evaluated,    \* the requirements with an automatic comparison
          Suggested,    \* per file, the declaration offered first
          Stated,       \* per file and declaration, what it becomes once corrected by
                        \* what the source states, or None where that is ambiguous
          MAX_FILES

ASSUME UploadsAssumption ==
    /\ Readable \subseteq Files
    /\ RoutedTo \in [Declarations -> SUBSET Requirements]
    /\ Evaluated \subseteq Requirements
    /\ Suggested \in [Files -> Declarations]
    /\ Refused \subseteq Declarations
    /\ Stated \in [Files -> [Declarations -> Declarations \cup {None}]]
    /\ {MAX_FILES, MaxActions} \subseteq Nat

STAGES == <<"About vendor", "Upload evidence", "Evaluate", "Review gaps", "Report">>
Stage == {STAGES[i] : i \in DOMAIN STAGES}

VARIABLES
    session,   \* the session's keys under customer_assessment:
    drawn      \* what the last run drew: the stage, the files on offer, whether as
               \* finished, and whether it came to its end

uploadVars == <<session, drawn>>

Declared == UNION {[F -> Declarations] : F \in SUBSET Files}
NoFiles == [f \in {} |-> None]

\* The keys that creating an assessment writes are absent before.
Untouched ==
    [intake |-> FALSE, model |-> None, actions |-> None, stage |-> "About vendor",
     pending_stage |-> None, uploads |-> NoFiles, pending_files |-> {}, file_error |-> FALSE,
     metadata_edits |-> NoFiles, uploads_dirty |-> FALSE,
     metadata_confirmation_pending |-> FALSE, completion |-> None]

routed(model, r) == {<<f, model[f]>> : f \in {g \in DOMAIN model : r \in RoutedTo[model[g]]}}
\* The row's sources, the automatic comparisons and the screened texts.
upload_row_fingerprint(model, r) ==
    <<routed(model, r), [e \in Evaluated |-> routed(model, e)], DOMAIN model>>

-----------------------------------------------------------------------------
(* The draft *)

attached(s) == DOMAIN s.uploads \cup s.pending_files
declaration(s, f) ==
    IF f \in DOMAIN s.metadata_edits THEN s.metadata_edits[f]
    ELSE IF f \in DOMAIN s.uploads THEN s.uploads[f] ELSE Suggested[f]
listed(s) == attached(s) \cap Readable
proposed(s) ==
    [f \in {g \in listed(s) : declaration(s, g) \notin Refused} |-> declaration(s, f)]
errors(s) == \E f \in attached(s) : f \notin Readable \/ declaration(s, f) \in Refused
over_limit(s) == Cardinality(attached(s)) > MAX_FILES
names_clash(model) == \E f, g \in DOMAIN model : f # g /\ f.name = g.name

-----------------------------------------------------------------------------
(* Callbacks *)

_invalidate_uploads(s) == [s EXCEPT !.uploads_dirty = TRUE, !.completion = None]

edited(s, f, d) ==
    [s EXCEPT !.metadata_edits =
        [g \in DOMAIN @ \cup {f} |-> IF g = f THEN d ELSE s.metadata_edits[g]]]
\* Mutant: the page finds the change out when it next draws the draft.
_capture_edit_only(s, f, d) == edited(s, f, d)
_capture_metadata(s, f, d) == _invalidate_uploads(edited(s, f, d))
_use_source_metadata(s, f) ==
    _invalidate_uploads([edited(s, f, Stated[f][declaration(s, f)])
                            EXCEPT !.metadata_confirmation_pending = TRUE])

_capture_files(s, F) ==
    LET dirty == _invalidate_uploads(s)
    IN IF F = {} THEN [dirty EXCEPT !.pending_files = {}, !.file_error = FALSE]
       ELSE IF Cardinality(s.pending_files \cup F) > MAX_FILES
            THEN [dirty EXCEPT !.file_error = TRUE]
       ELSE [dirty EXCEPT !.pending_files = @ \cup F, !.file_error = FALSE]

_discard_pending(s) ==
    _invalidate_uploads([s EXCEPT !.pending_files = {}, !.file_error = FALSE])
_go(s, stage) == [s EXCEPT !.stage = stage]

-----------------------------------------------------------------------------
(* A run, up to the buttons of the stage it draws *)

\* Mutant: the stage is set whether or not one is pending.
staged_unchecked(s) == [s EXCEPT !.stage = s.pending_stage, !.pending_stage = None]
staged(s) ==
    [s EXCEPT !.stage = IF s.pending_stage = None THEN @ ELSE s.pending_stage,
              !.pending_stage = None]
held_back(s) == s.uploads_dirty /\ s.stage \in {"Evaluate", "Review gaps", "Report"}
\* The page asks for a key that is not there.
fails(s) ==
    /\ ~ held_back(s)
    /\ \/ s.stage \in {"Evaluate", "Review gaps", "Report"} /\ s.model = None
       \/ s.stage \in {"Review gaps", "Report"} /\ s.actions = None

compared(s) ==
    LET dirty == errors(s) \/ proposed(s) # s.uploads \/ s.metadata_confirmation_pending
    IN [s EXCEPT !.uploads_dirty = dirty, !.completion = IF dirty THEN None ELSE @]
_uploads(s) ==
    IF s.file_error THEN s
    ELSE IF over_limit(s) THEN _invalidate_uploads(s) ELSE compared(s)
_report(s) ==
    IF s.completion # None /\ ~ completion_is_current(s.model, s.actions, s.completion)
    THEN [s EXCEPT !.completion = None] ELSE s

rendered(s0) ==
    LET s == staged(s0)
    IN IF ~ s0.intake THEN s0
       ELSE IF held_back(s) \/ fails(s) THEN s
       ELSE IF s.stage = "Upload evidence" THEN _uploads(s)
       ELSE IF s.stage = "Report" THEN _report(s) ELSE s

\* Before there is an intake the page has the form to start with, and no stages.
screen(s) ==
    IF ~ s.intake THEN "Start" ELSE IF held_back(s) THEN "Held back"
    ELSE IF fails(s) THEN "Failed" ELSE s.stage
offer(s) == IF s.file_error \/ over_limit(s) THEN {} ELSE listed(s)
on_screen(s) ==
    [stage |-> screen(s),
     offers |-> IF screen(s) = "Upload evidence" THEN offer(s) ELSE {},
     finished |-> screen(s) = "Report" /\ s.completion # None,
     whole |-> TRUE]

run(s) ==
    /\ session' = rendered(s)
    /\ drawn' = on_screen(rendered(s))
cut(s) ==
    /\ session' = s
    /\ drawn' = [drawn EXCEPT !.whole = FALSE]
gesture(s) == run(s) \/ cut(s)

\* The widgets of a stage, of the last run that drew it.
On(stage) == drawn.stage = stage
\* A button is honoured by a run that draws it.
pressed(stage) == On(stage) /\ screen(rendered(session)) = stage

\* A handler writes one key after another; the next gesture may come between.
handler(writes) ==
    \E n \in 1..Len(writes) :
        \/ n = Len(writes) /\ run(writes[n])
        \/ cut(writes[n])

-----------------------------------------------------------------------------
\* Clears what there is, whole, and then writes.
create_assessment ==
    LET w1 == [Untouched EXCEPT !.intake = TRUE]
        w2 == [w1 EXCEPT !.model = NoFiles]
        w3 == [w2 EXCEPT !.actions = <<>>]
        w4 == [w3 EXCEPT !.stage = "Upload evidence"]
    IN /\ pressed("Start")
       /\ handler(<<Untouched, w1, w2, w3, w4>>)

select_files(F) ==
    /\ On("Upload evidence")
    /\ gesture(_capture_files(session, F))
discard ==
    /\ On("Upload evidence")
    /\ gesture(_discard_pending(session))
declare(f, d) ==
    /\ f \in drawn.offers /\ d # declaration(session, f)
    /\ gesture(_capture_metadata(session, f, d))
use_source_metadata(f) ==
    /\ f \in drawn.offers /\ Stated[f][declaration(session, f)] # None
    /\ gesture(_use_source_metadata(session, f))

go(stage) ==
    /\ ~ On("Start") /\ session.intake
    /\ gesture(_go(session, stage))

\* Evaluate attached evidence.  It writes nothing if the model cannot be built, or
\* if there is none to compare it with.
evaluate ==
    LET s == rendered(session)
        model == proposed(s)
        w1 == [s  EXCEPT !.model = model]
        w2 == [w1 EXCEPT !.uploads = model]
        w3 == [w2 EXCEPT !.pending_files = {}]
        w4 == [w3 EXCEPT !.completion = IF model = s.model THEN @ ELSE None]
        w5 == [w4 EXCEPT !.metadata_confirmation_pending = FALSE]
        w6 == [w5 EXCEPT !.uploads_dirty = FALSE]
        w7 == [w6 EXCEPT !.pending_stage = "Evaluate"]
    IN /\ pressed("Upload evidence")
       /\ ~ s.file_error /\ ~ over_limit(s) /\ ~ errors(s)
       /\ IF names_clash(model) \/ s.model = None \/ s.actions = None THEN run(s)
          ELSE handler(<<w1, w2, w3, w4, w5, w6, w7>>)

record_draft_review(r, a, why) ==
    LET s == rendered(session)
        entry == Entry(upload_row_fingerprint(s.model, r), r, a, why)
        w1 == [s EXCEPT !.actions = Append(@, entry)]
        w2 == [w1 EXCEPT !.completion = None]
    IN /\ pressed("Review gaps")
       /\ records(s.actions, entry)
       /\ handler(<<w1, w2>>)

finish ==
    LET s == rendered(session)
    IN /\ pressed("Report") /\ s.completion = None
       /\ handler(<<[s EXCEPT !.completion = complete_review(s.model, s.actions)]>>)

reopen ==
    LET s == rendered(session)
        w1 == [s EXCEPT !.completion = None]
        w2 == [w1 EXCEPT !.pending_stage = "Review gaps"]
    IN /\ pressed("Report") /\ s.completion # None
       /\ handler(<<w1, w2>>)

_reset == session.intake /\ gesture(Untouched)

\* The page is left: the values of its widgets may be forgotten, the stage's too.
leave_page == \E stage \in {session.stage, "About vendor"} : run([session EXCEPT !.stage = stage])

-----------------------------------------------------------------------------
UploadInit == session = Untouched /\ drawn = on_screen(Untouched)

UploadNext ==
    \/ create_assessment
    \/ \E F \in SUBSET Files : select_files(F)
    \/ discard
    \/ \E f \in Files : use_source_metadata(f) \/ \E d \in Declarations : declare(f, d)
    \/ \E stage \in Stage : go(stage)
    \/ evaluate
    \/ \E r \in Requirements, a \in Actions, why \in Rationales : record_draft_review(r, a, why)
    \/ finish \/ reopen \/ _reset \/ leave_page
=============================================================================
