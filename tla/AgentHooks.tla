----------------------------- MODULE AgentHooks -----------------------------
(***************************************************************************)
(* The hooks of cosh-extension/hooks that ask agent-sec-cli for a verdict: *)
(* prompt_scanner_hook.py, code_scanner_hook.py, skill_ledger_hook.py.     *)
(* cosh runs a hook and waits; the hook runs a command and waits; each has *)
(* a time limit of its own, and the command logs what it finds whether or  *)
(* not anybody still waits for it.                                         *)
(***************************************************************************)
EXTENDS CodeScanner, FiniteSets

CONSTANTS Codes       \* command lines

ASSUME CodesAssumption == Codes \subseteq Code

VARIABLES
    hook,             \* where the hook is, and what it told cosh
    request,          \* what it was given
    cli,              \* the command it runs
    keys,             \* whether the signing keys are there
    event             \* the verdict in the event that the command logged

hooksVars == <<hook, request, cli, keys, event>>

\* The verdict of a prompt and the status of a skill come from PromptScanner
\* and SkillLedger.  raises: the command's backend raises.
Requests ==
    [hook : {"code"}, code : Codes, rulesLoad : BOOLEAN]
    \cup [hook : {"prompt"}, verdict : {"pass", "warn", "deny", "raises"}]
    \cup [hook : {"skill"},
          verdict : {"pass", "none", "drifted", "warn", "deny", "tampered", "error"}]

None    == [hook |-> "none"]
NoEvent == "no event"      \* the status of a skill may be "none"
NoCli   == [at |-> "none", verdict |-> "none", exit |-> 0]

HooksInit ==
    /\ hook = [at |-> "idle", told |-> "nothing", why |-> "none"]
    /\ request = None /\ cli = NoCli /\ keys \in BOOLEAN /\ event = NoEvent
-----------------------------------------------------------------------------
(* What the commands print and exit with.                                  *)

VerdictOf(r) == IF r.hook = "code" THEN Scan(r.code, "bash", r.rulesLoad) ELSE r.verdict

\* An exception of the prompt scanner becomes an error verdict.
Printed(r) == IF VerdictOf(r) = "raises" THEN "error" ELSE VerdictOf(r)

\* Mutant: what was found decides the exit code.
ExitByVerdict(r) == IF Printed(r) = "pass" THEN 0 ELSE 1

\* scan-code fails only for an error, scan-prompt never; check fails for
\* critical states.
Exit(r) ==
    CASE r.hook = "code"   -> IF VerdictOf(r) = "error" THEN 1 ELSE 0
      [] r.hook = "prompt" -> 0
      [] r.hook = "skill"  -> IF VerdictOf(r) \in {"deny", "tampered", "error"} THEN 1 ELSE 0
-----------------------------------------------------------------------------
(* The hooks.                                                              *)

Answers(told, why) == hook' = [at |-> "done", told |-> told, why |-> why]
Waits(at) == hook' = [hook EXCEPT !.at = at]

\* Standard input that cannot be parsed, another tool, or nothing to scan.
\* Only a skill that is missing, or not below the directories for skills, is
\* mentioned.
NothingToDo ==
    /\ hook.at = "idle"
    /\ \E told \in {"nothing", "reason"} : Answers(told, "nothing to do")
    /\ UNCHANGED <<request, cli, keys, event>>

Receive ==
    /\ hook.at = "idle"
    /\ request' \in Requests
    /\ Waits(IF request'.hook = "skill" /\ ~keys THEN "init-keys" ELSE "run")
    /\ UNCHANGED <<cli, keys, event>>

\* _ensure_keys: whatever init-keys does, the hook goes on.
EnsureKeys ==
    /\ hook.at = "init-keys"
    /\ keys' \in BOOLEAN /\ Waits("run")
    /\ UNCHANGED <<request, cli, event>>

\* agent-sec-cli may be missing.
Run ==
    /\ hook.at = "run"
    /\ \/ Answers("nothing", "no command") /\ UNCHANGED cli
       \/ Waits("wait") /\ cli' = [NoCli EXCEPT !.at = "running"]
    /\ UNCHANGED <<request, keys, event>>

\* Every completed command logs one event, then prints.
LogVerdict ==
    /\ cli.at = "running" /\ event = NoEvent
    /\ event' = VerdictOf(request)
    /\ UNCHANGED <<hook, request, cli, keys>>

Exits ==
    /\ cli.at = "running" /\ event # NoEvent
    /\ cli' = [at |-> "exited", verdict |-> Printed(request), exit |-> Exit(request)]
    /\ UNCHANGED <<hook, request, keys, event>>

\* _format_cosh asks for a threat and lets everything else pass.
FormatCosh(verdict) == IF verdict \in {"warn", "deny"} THEN "ask" ELSE "nothing"

\* main, of the hooks that scan: an exit code hides what was printed.
ReadScan ==
    /\ hook.at = "wait" /\ cli.at = "exited" /\ request.hook \in {"prompt", "code"}
    /\ IF cli.exit # 0 THEN Answers("nothing", "exit code")
       ELSE Answers(FormatCosh(cli.verdict), "answer")
    /\ UNCHANGED <<request, cli, keys, event>>

\* main, of the hook for skills, which does not look at the exit code, and
\* never stops anything.
ReadCheck ==
    /\ hook.at = "wait" /\ cli.at = "exited" /\ request.hook = "skill"
    /\ Answers(IF cli.verdict = "pass" THEN "nothing" ELSE "reason", "answer")
    /\ UNCHANGED <<request, cli, keys, event>>

\* main, of all three: what the command printed cannot be parsed, or it died
\* and printed nothing.
ReadNothing ==
    /\ hook.at = "wait" /\ cli.at \in {"running", "exited"}
    /\ Answers("nothing", "no output") /\ cli' = NoCli
    /\ UNCHANGED <<request, keys, event>>

\* The hook's own limit: 10 s, or 5 s for check.  The command is killed.
TimeOut ==
    /\ hook.at = "wait" /\ cli.at = "running"
    /\ Answers("nothing", "timeout") /\ cli' = NoCli
    /\ UNCHANGED <<request, keys, event>>

\* cosh's limit: 5 s for code and skills (10 s for prompts), which is less
\* than what the hooks allow.  The command goes on.
KillHook ==
    /\ hook.at \in {"init-keys", "run", "wait"}
    /\ Answers("nothing", "killed")
    /\ UNCHANGED <<request, cli, keys, event>>

\* The next call; what is left of this one is not followed further.
NextCall ==
    /\ hook.at = "done"
    /\ hook' = [at |-> "idle", told |-> "nothing", why |-> "none"]
    /\ request' = None /\ cli' = NoCli /\ event' = NoEvent
    /\ UNCHANGED keys

HooksNext ==
    \/ NothingToDo \/ Receive \/ EnsureKeys \/ Run \/ LogVerdict \/ Exits
    \/ ReadScan \/ ReadCheck \/ ReadNothing \/ TimeOut \/ KillHook \/ NextCall

HooksSpec == HooksInit /\ [][HooksNext]_hooksVars
-----------------------------------------------------------------------------
(* Properties.                                                             *)

\* Code that a rule is about: the pattern of a rule, or the main pattern and a
\* later target on one logical line.
Dangerous(text, language) ==
    LET logical == IF language = "python" THEN Normalize(text) ELSE text
    IN  \/ \E i \in 1 .. Len(text) : text[i] = "deny"
        \/ \E i, j \in 1 .. Len(text) :
              i < j /\ logical[i] = "main" /\ logical[j] = "target" /\ SameSegment(logical, i, j)

\* What the scanner looks past: a main pattern with a target before it too.
LooksPast(text, language) ==
    LET logical == IF language = "python" THEN Normalize(text) ELSE text
    IN  \E i, j \in 1 .. Len(text) :
            i < j /\ logical[i] = "target" /\ logical[j] = "main" /\ SameSegment(logical, i, j)

\* The user hears of a threat or of a skill that is not approved, and then
\* the log says the same; or the hook had no answer to read, was stopped, or
\* had an exit code that hides the answer, and then the log still has it.
\* The user is not asked about what no rule is about.  (Of a command with inline code,
\* the scanner never sees the rest.)
ToldOrFailed ==
    hook.at = "done" /\ request # None =>
        /\ hook.why = "answer" => event = VerdictOf(request)
        /\ hook.told = "nothing" /\ hook.why \in {"answer", "exit code"} =>
              CASE request.hook = "code" ->
                      LET scanned == InlineCode(request.code, "bash")
                      IN  \/ ~request.rulesLoad
                          \/ ~Dangerous(scanned.text, scanned.language)
                          \/ LooksPast(scanned.text, scanned.language)
                [] request.hook = "prompt" -> event \in {"pass", "raises"}
                [] request.hook = "skill"  -> event = "pass"
        /\ hook.told = "ask" => event \in {"warn", "deny"}
        /\ hook.told = "ask" /\ request.hook = "code" =>
              LET scanned == InlineCode(request.code, "bash")
              IN  Dangerous(scanned.text, scanned.language)
=============================================================================
