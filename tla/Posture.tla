------------------------------ MODULE Posture ------------------------------
(***************************************************************************)
(* The security posture that events --summary computes from the events of  *)
(* a window (security_events/summary_formatter.py).  A summary is a value: *)
(* Posture, Compliance and Suggestions are what its lines say.             *)
(***************************************************************************)
EXTENDS Middleware, SequencesExt

\* The events of a group are given by their places in log, and it is listed
\* the newest first (_group_by_category).
Of(category) == {i \in DOMAIN log : log[i].category = category}

Latest(events) == log[Max(events)]

Ran(events) == {i \in events : log[i].result = "succeeded"}

\* The line that each section begins with.
Tally(events) ==
    [performed |-> Cardinality(events), succeeded |-> Cardinality(Ran(events)),
     failed |-> Cardinality(events) - Cardinality(Ran(events))]

\* A field of the data, which may be missing.
Get(e, key, default) == IF key \in DOMAIN e.data THEN e.data[key] ELSE default

Counts(events, key) ==
    LET valued(v) == {i \in Ran(events) : Get(log[i], key, "unknown") = v}
    IN  [v \in {Get(log[i], key, "unknown") : i \in Ran(events)} |-> Cardinality(valued(v))]
-----------------------------------------------------------------------------
(* Hardening.                                                              *)

\* _get_mode: from the data, or else from the arguments.
InMode(mode) == {i \in Of("hardening") : Get(log[i], "mode", log[i].request) = mode}

\* What all reinforcing runs of the window have fixed.
Fixed == MapThenSumSet(LAMBDA i : Get(log[i], "fixed", 0), Ran(InMode("reinforce")))

\* The latest scan; without one, or without statistics, no line is shown.
Compliance ==
    LET scans == Ran(InMode("scan"))
    IN  IF scans = {} \/ Get(Latest(scans), "total", 0) = 0 THEN Nothing
        ELSE [passed |-> Latest(scans).data.passed + Fixed, total |-> Latest(scans).data.total]

HardeningSection ==
    [scans |-> Tally(InMode("scan")), reinforcements |-> Tally(InMode("reinforce")),
     compliance |-> Compliance]
-----------------------------------------------------------------------------
(* Skill ledger.                                                           *)

Subcommand(name) == {i \in Of("skill_ledger") : Get(log[i], "command", "") = name}

\* Checks that were carried out and whose request names a skill.
Checks == {i \in Ran(Subcommand("check")) : log[i].request # Nothing}

\* The newest check of each skill, for the section of the ledger.
LatestPerSkill ==
    [s \in {log[i].request : i \in Checks} |-> Latest({i \in Checks : log[i].request = s})]

\* The status of each skill, for the posture and the suggestions, which go
\* through the events once more.
LatestStatuses ==
    LET newest == {i \in Checks : \A j \in Checks : log[j].request = log[i].request => j <= i}
    IN  {[skill |-> log[i].request, status |-> log[i].data.status] : i \in newest}

LedgerSection ==
    LET answered(status) ==
            {s \in DOMAIN LatestPerSkill : LatestPerSkill[s].data.status = status}
    IN  [checks |-> Tally(Subcommand("check")), tracked |-> Cardinality(DOMAIN LatestPerSkill),
         certified |-> Counts(Subcommand("certify"), "scanStatus"),
         tampered |-> answered("tampered"), denied |-> answered("deny")]
-----------------------------------------------------------------------------
(* Assets, prompts and code.                                               *)

FullVerifies == {i \in Of("asset_verify") : log[i].request = Nothing}

\* The result line of the latest verification, full or not.
AssetSection ==
    LET ran == Ran(Of("asset_verify"))
    IN  [runs |-> Tally(Of("asset_verify")),
         integrity |-> IF ran = {} THEN "not shown"
                       ELSE IF Get(Latest(ran), "failed", 0) = 0 THEN "ALL CLEAR"
                       ELSE "FAILURES DETECTED"]

ScanSection(category) == [scans |-> Tally(Of(category)), verdicts |-> Counts(Of(category), "verdict")]
-----------------------------------------------------------------------------
(* Posture and suggestions.                                                *)

\* What a run reported, or that it failed, calls for attention.
HardeningCalls ==
    LET runs == Of("hardening")
    IN  runs # {} /\ (Latest(runs).result = "failed" \/ Get(Latest(runs), "failures", {}) # {})

VerificationCalls(runs) ==
    runs # {} /\ (Latest(runs).result = "failed" \/ Get(Latest(runs), "failed", 0) > 0)

\* Mutant: the latest verification, of one skill or of all.
VerifyCallsAny == VerificationCalls(Of("asset_verify"))

VerifyCalls == VerificationCalls(FullVerifies)

PromptCalls == \E i \in Ran(Of("prompt_scan")) : Get(log[i], "verdict", "") = "deny"

\* Mutant: only the last check of all counts.
LedgerCallsLast == Checks # {} /\ Latest(Checks).data.status \in {"tampered", "deny"}

LedgerCalls == \E l \in LatestStatuses : l.status \in {"tampered", "deny"}

\* _compute_posture
Posture ==
    IF HardeningCalls \/ VerifyCalls \/ PromptCalls \/ LedgerCalls THEN "attention" ELSE "good"

Suggestions ==
    (IF Of("hardening") # {} /\ Get(Latest(Of("hardening")), "failures", {}) # {}
     THEN {"reinforce"} ELSE {})
    \cup {l.status : l \in {l \in LatestStatuses : l.status \in {"tampered", "drifted", "none"}}}

Footer ==
    [total |-> Len(log), failed |-> Len(log) - Cardinality(Ran(DOMAIN log)), suggested |-> Suggestions]

\* format_summary
Summary ==
    [posture |-> Posture, hardening |-> HardeningSection, assets |-> AssetSection,
     code |-> ScanSection("code_scan"), interventions |-> Cardinality(Of("sandbox")),
     prompts |-> ScanSection("prompt_scan"), ledger |-> LedgerSection, footer |-> Footer]
-----------------------------------------------------------------------------
(* Properties.                                                             *)

\* The newest event that satisfies Test, whatever its result, or Nothing.
Newest(Test(_)) ==
    LET some == {i \in DOMAIN log : Test(log[i])}
    IN  IF some = {} THEN Nothing ELSE log[Max(some)]

\* In terms of what the commands told their users, in order: the posture is
\* good exactly if the latest hardening run did not raise and listed no rule
\* that does not pass, the latest verification of all skills counted none, no
\* prompt was denied, and the latest check of each single skill did not tell
\* tampered or denied.  Verifications and checks of other skills in between
\* do not count, and a skill that drifted, warns or cannot be read does not.
PostureAsTold ==
    LET harden == Newest(LAMBDA e : e.category = "hardening")
        verify == Newest(LAMBDA e : e.category = "asset_verify" /\ e.request = Nothing)
        checked(s) == Newest(LAMBDA e : e.category = "skill_ledger" /\ e.request = s
                                           /\ "status" \in DOMAIN e.data)
    IN  Posture = "good" <=>
          /\ harden = Nothing \/ (harden.data # Nothing /\ harden.data.failures = {})
          /\ verify = Nothing \/ verify.data = Nothing \/ verify.exit = 0
          /\ \A i \in DOMAIN log : log[i].category = "prompt_scan"
                                     => Get(log[i], "verdict", "none") # "deny"
          /\ \A s \in LedgerSkills :
                checked(s) = Nothing \/ checked(s).data.status \notin {"tampered", "deny"}

\* What the sections and suggestions raise an alarm about is what makes the
\* posture call for attention, though the section of the ledger finds the
\* latest checks, and that of the prompts their verdicts, in a way of its own;
\* code that was denied, and a skill that only drifted, raise none.  (Of a
\* verification of all skills only the posture tells: the section shows the
\* latest of any.)
AlarmsAgree ==
    LET s == Summary
        alarms == {"reinforce", "tampered"} \cap s.footer.suggested # {}
                  \/ s.ledger.denied # {}
                  \/ "deny" \in DOMAIN s.prompts.verdicts
                  \/ VerifyCalls
    IN  /\ alarms => s.posture = "attention"
        /\ s.posture = "attention" => alarms \/ s.footer.failed > 0
        /\ s.ledger.tampered # {} <=> "tampered" \in s.footer.suggested

\* A hardening run or a verification of all skills that could not be carried
\* out needs attention (tests/unit-test/security_events/
\* test_summary_formatter.py:225).  It does so only if the backend raised: if
\* it answers that it failed, post_action logs the event as one that succeeded.
FailureShown ==
    LET harden == Newest(LAMBDA e : e.category = "hardening")
        verify == Newest(LAMBDA e : e.category = "asset_verify" /\ e.request = Nothing)
    IN  Posture = "good" => \A e \in {harden, verify} \ {Nothing} : e.exit = 0
=============================================================================
