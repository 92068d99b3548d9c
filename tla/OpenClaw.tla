------------------------------ MODULE OpenClaw ------------------------------
(***************************************************************************)
(* The OpenClaw plug-in (openclaw-plugin/src): handlers that run           *)
(* agent-sec-cli for the shell commands, the prompts and the reads of a    *)
(* SKILL.md of an agent.  Handlers share one thread and interleave where   *)
(* they wait.  Reads of skills also share ensureKeysPromise, which starts  *)
(* skill-ledger init-keys when the signing keys are missing.               *)
(***************************************************************************)
EXTENDS Naturals, FiniteSets

CONSTANTS
    Calls,            \* handlers under way at a time
    MaxLosses         \* bound: removals of the keys

ASSUME PluginAssumption == MaxLosses \in Nat

VARIABLES
    handler,          \* of each call
    promise,          \* ensureKeysPromise: "null", "pending" or "kept"
    inits,            \* init-keys commands that the plug-in has running
    keyFiles,         \* whether both key files are there
    block,            \* promptScanBlock
    losses            \* history: how often the keys have been removed

pluginVars == <<handler, promise, inits, keyFiles, block, losses>>

\* What check and the scans answer; "failed" is a command that is missing or
\* times out, or an answer that cannot be parsed.
CheckStatuses == {"pass", "none", "drifted", "warn", "deny", "tampered", "error"}
Verdicts == {"pass", "warn", "deny", "error"}

\* tried: an attempt to make the keys has ended while this call waited for it.
NoCall == [at |-> "idle", kind |-> "none", tried |-> FALSE, answer |-> "none", told |-> "nothing"]

\* register starts ensureKeys and does not wait for it.
PluginInit ==
    /\ handler = [c \in Calls |-> NoCall]
    /\ keyFiles \in BOOLEAN /\ block \in BOOLEAN
    /\ promise = IF keyFiles THEN "kept" ELSE "pending"
    /\ inits = IF keyFiles THEN 0 ELSE 1
    /\ losses = 0

PluginTypeOK ==
    /\ handler \in [Calls ->
          [at : {"idle", "keys", "ready", "waits", "done"}, kind : {"none", "code", "prompt", "skill"},
           tried : BOOLEAN, answer : {"none", "failed"} \cup CheckStatuses,
           told : {"nothing", "approval", "refusal", "log", "alarm", "command error"}]]
    /\ promise \in {"null", "pending", "kept"} /\ inits \in 0 .. 1
    /\ keyFiles \in BOOLEAN /\ block \in BOOLEAN /\ losses \in 0 .. MaxLosses
-----------------------------------------------------------------------------
(* ensureKeys.                                                             *)

\* A shell command or a prompt; other events, and empty ones, are let pass.
BeginScan(c) ==
    /\ handler[c] = NoCall
    /\ \E kind \in {"code", "prompt"} :
          handler' = [handler EXCEPT ![c].at = "waits", ![c].kind = kind]
    /\ UNCHANGED <<promise, inits, keyFiles, block, losses>>

\* Mutant: the promise is not stored until it has been kept.
AwaitKeysEach(c) ==
    /\ handler[c] = NoCall
    /\ IF promise = "kept" \/ keyFiles
       THEN /\ handler' = [handler EXCEPT ![c].at = "ready", ![c].kind = "skill"]
            /\ promise' = "kept" /\ UNCHANGED inits
       ELSE /\ handler' = [handler EXCEPT ![c].at = "keys", ![c].kind = "skill"]
            /\ promise' = "pending" /\ inits' = inits + 1
    /\ UNCHANGED <<keyFiles, block, losses>>

\* A read of a SKILL.md.
AwaitKeys(c) ==
    /\ handler[c] = NoCall
    /\ LET made == promise = "null"
       IN  /\ promise' = IF made THEN (IF keyFiles THEN "kept" ELSE "pending") ELSE promise
           /\ inits' = IF made /\ ~keyFiles THEN inits + 1 ELSE inits
           /\ handler' = [handler EXCEPT ![c].kind = "skill",
                             ![c].at = IF promise' = "pending" THEN "keys" ELSE "ready"]
    /\ UNCHANGED <<keyFiles, block, losses>>

Released == [c \in Calls |->
    IF handler[c].at = "keys" THEN [handler[c] EXCEPT !.at = "ready", !.tried = TRUE] ELSE handler[c]]

\* init-keys ends, with success, an error or a time-out; those who wait for
\* the promise go on, and after a failure without keys the next call tries
\* again.  (Keys that it made may be gone already.)
InitReturns ==
    /\ inits > 0 /\ inits' = inits - 1
    /\ promise' \in IF keyFiles THEN {"kept"}
                    ELSE {"null"} \cup IF losses > 0 THEN {"kept"} ELSE {}
    /\ handler' = Released
    /\ UNCHANGED <<keyFiles, block, losses>>

\* init-keys writes the keys, or another command does.
MakeKeys ==
    /\ ~keyFiles /\ keyFiles' = TRUE
    /\ UNCHANGED <<handler, promise, inits, block, losses>>

LoseKeys ==
    /\ keyFiles /\ losses < MaxLosses
    /\ keyFiles' = FALSE /\ losses' = losses + 1
    /\ UNCHANGED <<handler, promise, inits, block>>
-----------------------------------------------------------------------------
(* The commands and their answers.                                         *)

RunCheck(c) ==
    /\ handler[c].at = "ready"
    /\ handler' = [handler EXCEPT ![c].at = "waits"]
    /\ UNCHANGED <<promise, inits, keyFiles, block, losses>>

\* The exit codes of scan-code, scan-prompt and check.
Fails(kind, answer) ==
    CASE answer = "failed" -> TRUE
      [] kind = "code"   /\ answer # "failed" -> answer = "error"
      [] kind = "prompt" /\ answer # "failed" -> FALSE
      [] kind = "skill"  /\ answer # "failed" -> answer \in {"deny", "tampered", "error"}

\* What the handlers return, or else log.
Says(kind, answer) ==
    CASE Fails(kind, answer) -> IF kind = "skill" THEN "command error" ELSE "nothing"
      [] kind = "code" /\ ~Fails(kind, answer) ->
            IF answer \in {"warn", "deny"} THEN "approval" ELSE "nothing"
      [] kind = "prompt" /\ ~Fails(kind, answer) ->
            IF answer = "deny" /\ block THEN "refusal"
            ELSE IF answer \in {"warn", "deny"} THEN "log" ELSE "nothing"
      [] kind = "skill" /\ ~Fails(kind, answer) -> IF answer = "pass" THEN "nothing" ELSE "alarm"

Return(c) ==
    /\ handler[c].at = "waits"
    /\ \E answer \in {"failed"} \cup (IF handler[c].kind = "skill" THEN CheckStatuses ELSE Verdicts) :
          handler' = [handler EXCEPT ![c].at = "done", ![c].answer = answer,
                                     ![c].told = Says(handler[c].kind, answer)]
    /\ UNCHANGED <<promise, inits, keyFiles, block, losses>>

Forget(c) ==
    /\ handler[c].at = "done"
    /\ handler' = [handler EXCEPT ![c] = NoCall]
    /\ UNCHANGED <<promise, inits, keyFiles, block, losses>>

PluginNext ==
    \/ \E c \in Calls : BeginScan(c) \/ AwaitKeys(c) \/ RunCheck(c) \/ Return(c) \/ Forget(c)
    \/ InitReturns \/ MakeKeys \/ LoseKeys

PluginSpec == PluginInit /\ [][PluginNext]_pluginVars
-----------------------------------------------------------------------------
(* Properties.                                                             *)

\* However calls interleave, init-keys runs once for all that wait for it,
\* and a check runs without keys only if an attempt to make them has failed
\* during its call, or if they have been removed since the plug-in saw them.
KeysTried ==
    /\ inits <= 1
    /\ \A c \in Calls : handler[c].at = "ready" /\ handler[c].kind = "skill" =>
          keyFiles \/ handler[c].tried \/ losses > 0

\* A skill whose check answers deny or tampered is reported with the message
\* that the plug-in has for that status (capabilities/skill-ledger.ts:38-39).
DenialWarned ==
    \A c \in Calls : handler[c].kind = "skill" /\ handler[c].answer \in {"deny", "tampered"}
        => handler[c].told = "alarm"
=============================================================================
