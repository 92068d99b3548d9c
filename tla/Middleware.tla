----------------------------- MODULE Middleware -----------------------------
(***************************************************************************)
(* What every command of the tool does before it exits: invoke runs a      *)
(* backend and logs one event that holds the backend's data, whether the   *)
(* backend returned or raised (security_middleware, backends/,             *)
(* asset_verify/verifier.py).  The scanners themselves and the ledger have *)
(* modules of their own; here their verdicts are inputs.                   *)
(***************************************************************************)
EXTENDS Naturals, Sequences, FiniteSets

CONSTANTS
    Rules,            \* number of rules of the hardening baseline
    Assets,           \* skills below the directories of config.conf
    LedgerSkills,     \* skills given to skill-ledger check
    MaxEvents         \* bound: events in the window of the summary

VARIABLE log          \* the events, in the order of their timestamps

Nothing == <<>>       \* the empty dict, and None

\* A skill has a name, and config.conf names finitely many directories.
ASSUME MiddlewareAssumption == Nothing \notin LedgerSkills /\ IsFiniteSet(Assets)

MiddlewareInit == log = <<>>
-----------------------------------------------------------------------------
(* invoke and its hooks.                                                   *)

Answer(success, data) ==
    [raised |-> FALSE, exit |-> IF success THEN 0 ELSE 1, data |-> data]
Raised == [raised |-> TRUE, exit |-> 1, data |-> Nothing]

CategoryOf(action) ==
    CASE action = "harden"          -> "hardening"
      [] action = "verify"          -> "asset_verify"
      [] action = "sandbox_prehook" -> "sandbox"
      [] OTHER                      -> action

\* exit is what the user is told; an event does not hold it.
Event(action, request, answer, result) ==
    [category |-> CategoryOf(action), request |-> request, result |-> result,
     data |-> answer.data, exit |-> answer.exit]

PostAction(action, request, answer) == Event(action, request, answer, "succeeded")
OnError(action, request) == Event(action, request, Raised, "failed")

Invoke(action, request, answer) ==
    /\ Len(log) < MaxEvents
    /\ log' = Append(log, IF answer.raised THEN OnError(action, request)
                          ELSE PostAction(action, request, answer))
-----------------------------------------------------------------------------
(* harden: a wrapper of loongshield seharden.                              *)

Modes == {"--scan", "--reinforce", "--dry-run"}

WithDefaultArgs(args) == IF args \cap Modes = {} THEN args \cup {"--scan"} ELSE args

\* _describe_request: downstream help has no mode.
ModeOf(args) ==
    CASE "--dry-run" \in args   -> "dry-run"
      [] "--reinforce" \in args -> "reinforce"
      [] "--scan" \in args      -> "scan"
      [] OTHER                  -> "none"

\* Before the tool has run, failures and statistics are empty.
Unparsed(mode) == [mode |-> mode, failures |-> {}, passed |-> 0, fixed |-> 0, total |-> 0]

\* The rule lines are FAIL (or FAILED), and others, none of which passes: of
\* them FAILED-TO-FIX and MANUAL stand also for SKIP, DRY-RUN and errors, which
\* are parsed the same way.  A reinforcing run prints FAIL for a rule that it
\* goes on to fix.
ParseOutput(mode, out) ==
    LET failures == IF mode = "reinforce" THEN out.lines \ {"FAIL"} ELSE out.lines
        unlisted == out.total # out.passed /\ out.lines = {}
    IN  [mode |-> mode, failures |-> IF unlisted THEN {"UNKNOWN"} ELSE failures,
         passed |-> out.passed, fixed |-> out.fixed, total |-> out.total]

\* What the tool prints when it finds some rules failing, fixes some of them,
\* and leaves some to the user, in verbose mode or not.
Output(mode, failing, fixed, manual) ==
    {[lines |-> lines, passed |-> Rules - failing - manual, fixed |-> fixed, total |-> Rules] :
        lines \in {{}, (IF failing > 0 THEN {"FAIL"} ELSE {})
                      \cup (IF mode = "reinforce" /\ failing > fixed THEN {"FAILED-TO-FIX"} ELSE {})
                      \cup (IF manual > 0 THEN {"MANUAL"} ELSE {})}}

\* HardeningBackend.execute.  Arguments that are refused raise, and so does
\* output that is not text; a tool that is missing, or cannot be executed, is
\* an answer.
Harden ==
    \E args \in {{}, {"--scan"}, {"--reinforce"}, {"--reinforce", "--dry-run"}, {"--help"}} :
        LET mode == ModeOf(IF args = {"--help"} THEN args ELSE WithDefaultArgs(args))
        IN  \/ Invoke("harden", mode, Raised)
            \/ Invoke("harden", mode, Answer(FALSE, Unparsed(mode)))
            \/ mode = "none" /\ Invoke("harden", mode, Answer(TRUE, Unparsed(mode)))
            \/ /\ mode # "none"
               /\ \E failing \in 0 .. Rules :
                     \E fixed \in 0 .. IF mode = "reinforce" THEN failing ELSE 0,
                        manual \in 0 .. Rules - failing :
                        \E out \in Output(mode, failing, fixed, manual) :
                           Invoke("harden", mode, Answer(failing = fixed, ParseOutput(mode, out)))
-----------------------------------------------------------------------------
(* verify: signatures and hashes of the shipped skills.                    *)

AssetStates == {"sound", "no manifest", "no signature", "other signer", "changed"}

\* load_trusted_keys: key objects, or files for the gpg command if pgpy is
\* missing or parses none of them.
TrustedKeys == {"missing", "objects", "files"}

VerifySignature(state, keys, gpg) ==
    state # "other signer" /\ (keys = "files" => gpg)

VerifySkill(state, keys, gpg) ==
    /\ state \notin {"no manifest", "no signature"}
    /\ VerifySignature(state, keys, gpg)
    /\ state # "changed"

\* run_verification and the backend: what a single skill raises, and what
\* makes the whole run impossible, becomes an answer without data.
Verify ==
    \E asset \in [Assets -> AssetStates], keys \in TrustedKeys, gpg, configured \in BOOLEAN :
        LET failed(those) == {s \in those : ~VerifySkill(asset[s], keys, gpg)}
            counted(those) == [passed |-> Cardinality(those \ failed(those)),
                               failed |-> Cardinality(failed(those))]
            run(skill, those) ==
                IF \/ keys = "missing"
                   \/ skill = Nothing /\ ~configured
                   \/ skill # Nothing /\ failed(those) # {}
                THEN Answer(FALSE, Nothing)
                ELSE Answer(failed(those) = {}, counted(those))
        IN  \/ Invoke("verify", Nothing, run(Nothing, Assets))
            \/ \E s \in Assets : Invoke("verify", s, run(s, {s}))
-----------------------------------------------------------------------------
(* The other backends.                                                     *)

PromptScan ==
    \/ \E verdict \in {"pass", "warn", "deny"} :
          Invoke("prompt_scan", Nothing, Answer(TRUE, [verdict |-> verdict]))
    \/ Invoke("prompt_scan", Nothing, Answer(FALSE, Nothing))    \* no text
    \/ Invoke("prompt_scan", Nothing, Raised)                    \* ModelLoadError

CodeScan ==
    \/ \E verdict \in {"pass", "warn", "deny", "error"} :
          Invoke("code_scan", Nothing, Answer(verdict # "error", [verdict |-> verdict]))
    \/ Invoke("code_scan", Nothing, Answer(FALSE, Nothing))      \* unknown language

\* SandboxBackend.execute only records.
LogSandbox ==
    Invoke("sandbox_prehook", Nothing, Answer(TRUE, [decision |-> "sandbox"]))

LedgerCheck(s, status) ==
    Invoke("skill_ledger", s, Answer(status \notin {"tampered", "deny", "error"},
                                     [command |-> "check", status |-> status]))

\* The results of --all are below a key of their own, and the request names
\* no skill.
LedgerCheckAll(critical) ==
    Invoke("skill_ledger", Nothing,
           Answer(~critical, [command |-> "check", results |-> critical]))

LedgerCertify(s, status) ==
    Invoke("skill_ledger", s, Answer(TRUE, [command |-> "certify", scanStatus |-> status]))

Ledger ==
    \/ \E s \in LedgerSkills :
          \/ \E status \in {"pass", "none", "drifted", "warn", "deny", "tampered", "error"} :
                LedgerCheck(s, status)
          \/ LedgerCertify(s, "pass")
          \/ Invoke("skill_ledger", s, Answer(FALSE, Nothing))
    \/ \E critical \in BOOLEAN : LedgerCheckAll(critical)
    \/ Invoke("skill_ledger", Nothing, Answer(FALSE, Nothing))   \* no skills

\* The window of the summary moves on.
Age == log # <<>> /\ log' = Tail(log)

MiddlewareNext ==
    Harden \/ Verify \/ PromptScan \/ CodeScan \/ LogSandbox \/ Ledger \/ Age

MiddlewareSpec == MiddlewareInit /\ [][MiddlewareNext]_log
=============================================================================
