----------------------------- MODULE GuidedDemo -----------------------------
(***************************************************************************)
(* The guided assessment demo: a walkthrough of a scenario under a risk     *)
(* profile, with or without the evidence the vendor is pretended to have    *)
(* sent, kept in the browser session.  The model is rebuilt from these by   *)
(* every run.  A gesture is a callback and then a run, which the next       *)
(* gesture may cut short before it draws anything.                          *)
(***************************************************************************)
EXTENDS AssessmentLedger

CONSTANTS SCENARIOS, RISK_PROFILES,  \* as the select boxes list them
          RowOf                      \* per scenario, received?, requirement: the row's sources

ASSUME DemoAssumption ==
    /\ {SCENARIOS, RISK_PROFILES} \subseteq Seq(STRING)
    /\ Len(SCENARIOS) > 0 /\ Len(RISK_PROFILES) > 0

STEPS == <<"Start", "Evidence", "Assess", "Questions", "Analyst Review", "Results">>
Step == {STEPS[i] : i \in DOMAIN STEPS}
Scenarios == {SCENARIOS[i] : i \in DOMAIN SCENARIOS}
Profiles == {RISK_PROFILES[i] : i \in DOMAIN RISK_PROFILES}

VARIABLES
    demo,     \* the session's keys under guided_demo:
    sight     \* the step, model, actions and completion the last run drew

demoVars == <<demo, sight>>

Started ==
    [scenario |-> Head(SCENARIOS), risk_profile |-> Head(RISK_PROFILES), step |-> "Start",
     received |-> FALSE, actions |-> <<>>, completion |-> None]

build_demo(d) == [scenario |-> d.scenario, received |-> d.received, risk |-> d.risk_profile]
demo_row_fingerprint(d, r) == <<d.risk_profile, RowOf[d.scenario][d.received][r]>>

-----------------------------------------------------------------------------
(* Callbacks *)

_change_scenario(d, scenario) ==
    [Started EXCEPT !.scenario = scenario, !.risk_profile = d.risk_profile]
_receive(d) == [d EXCEPT !.received = TRUE]
\* The button carries the model and the actions of the run that drew it.
_finish(d) ==
    [d EXCEPT !.completion = IF @ = None THEN complete_review(sight.model, sight.actions) ELSE @]
_reopen(d) == [d EXCEPT !.completion = None, !.step = "Analyst Review"]

-----------------------------------------------------------------------------
is_current(d) ==
    d.completion # None => completion_is_current(build_demo(d), d.actions, d.completion)
reopened(d) == IF is_current(d) THEN d ELSE [d EXCEPT !.completion = None]

shows(d) ==
    [step |-> d.step, model |-> build_demo(d), actions |-> d.actions,
     completion |-> d.completion, whole |-> TRUE]

run_demo(d) == demo' = reopened(d) /\ sight' = shows(reopened(d))
cut_demo(d) == demo' = d /\ sight' = [sight EXCEPT !.whole = FALSE]
clicked(d) == run_demo(d) \/ cut_demo(d)

change_scenario(s) == s # demo.scenario /\ clicked(_change_scenario(demo, s))
change_risk(p) == p # demo.risk_profile /\ clicked([demo EXCEPT !.risk_profile = p])
reset_demo == clicked(Started)
walk(step) == clicked([demo EXCEPT !.step = step])
\* Replay the vendor's contribution, on either of two steps.
receive ==
    /\ sight.step \in {"Evidence", "Questions"} /\ ~ sight.model.received
    /\ clicked(_receive(demo))

record_simulated_review(r, a, why) ==
    LET d == reopened(demo)
        entry == Entry(demo_row_fingerprint(d, r), r, a, why)
        w1 == [d EXCEPT !.actions = Append(@, entry)]
    IN /\ sight.step = "Analyst Review" /\ d.step = "Analyst Review"
       /\ records(d.actions, entry)
       /\ run_demo([w1 EXCEPT !.completion = None]) \/ cut_demo(w1)

finish_demo == sight.step = "Results" /\ sight.completion = None /\ clicked(_finish(demo))
reopen_demo == sight.step = "Results" /\ sight.completion # None /\ clicked(_reopen(demo))

\* The page is left and opened again: the values of its widgets may be forgotten.
leave_demo ==
    \/ run_demo(demo)
    \/ run_demo([Started EXCEPT !.received = demo.received, !.actions = demo.actions,
                                !.completion = demo.completion])

-----------------------------------------------------------------------------
DemoInit == demo = Started /\ sight = shows(Started)

DemoNext ==
    \/ \E s \in Scenarios : change_scenario(s)
    \/ \E p \in Profiles : change_risk(p)
    \/ reset_demo \/ receive \/ leave_demo \/ finish_demo \/ reopen_demo
    \/ \E step \in Step : walk(step)
    \/ \E r \in Requirements, a \in Actions, why \in Rationales : record_simulated_review(r, a, why)
=============================================================================
