---------------------------- MODULE SandboxGuard ----------------------------
(***************************************************************************)
(* The two hooks around a shell command of the agent: sandbox-guard.py     *)
(* lets it run, blocks it, or has it run in linux-sandbox; when it fails   *)
(* there, sandbox-failure-handler.py takes the sandbox's command line      *)
(* apart and offers to run the original command outside.                   *)
(*                                                                         *)
(* A text is a sequence of characters of which only quotes and backslashes *)
(* matter; the patterns that it matches are given with it.                 *)
(***************************************************************************)
EXTENDS Naturals, FiniteSets, SequencesExt

CONSTANTS MaxText, MaxOptions     \* bounds: of a text and options in all, of options

ASSUME GuardAssumption == MaxText \in Nat /\ MaxOptions \in Nat

VARIABLES
    shell,            \* of the agent
    root,             \* whether the hook runs as root
    handled,          \* allow, block or sandbox
    runs,             \* the command line that runs instead, if any
    failed,           \* it ran in the sandbox, and failed
    offered,          \* what the failure handler offers to run
    logged            \* decisions given to agent-sec-cli log-sandbox

guardVars == <<shell, root, handled, runs, failed, offered, logged>>

Q == "'"
B == "\\"
Chars   == {"x", Q, B}
SudoOptions == {"flag", "argument", "--", "interactive"}
Marks   == {"block", "danger", "network"}

\* A text may follow sudo and its options.
ShellCommands ==
    {c \in [sudo : BOOLEAN, options : BoundedSeq(SudoOptions, MaxOptions),
            text : BoundedSeq(Chars, MaxText) \ {<<>>}, marks : SUBSET Marks] :
        (c.options # <<>> => c.sudo) /\ Len(c.options) + Len(c.text) <= MaxText}

NoCommand == [sudo |-> FALSE, options |-> <<>>, text |-> <<>>, marks |-> {}]

GuardInit ==
    /\ shell = NoCommand /\ root \in BOOLEAN /\ handled = "none" /\ runs = <<>>
    /\ failed = FALSE /\ offered = NoCommand /\ logged = {}
-----------------------------------------------------------------------------
(* sudo.                                                                   *)

\* What _SUDO_PREFIX_RE matches after sudo: options without an argument, then
\* options with one, then --.
InOrder(options) ==
    \E i \in 0 .. Len(options) : \E j \in i .. Len(options) :
        /\ \A k \in 1 .. i : options[k] = "flag"
        /\ \A k \in i + 1 .. j : options[k] = "argument"
        /\ j = Len(options) \/ (j + 1 = Len(options) /\ Last(options) = "--")

Rest(options) ==
    LET matched == {k \in 0 .. Len(options) : InOrder(SubSeq(options, 1, k))}
    IN  SubSeq(options, Max(matched) + 1, Len(options))

\* An interactive sudo is not handled as one.
HadSudo(c) == c.sudo /\ (Rest(c.options) = <<>> \/ Head(Rest(c.options)) # "interactive")

\* Mutant: options are left in the command.
StripSudoOnly(c) == IF HadSudo(c) THEN [c EXCEPT !.sudo = FALSE] ELSE c

\* An option out of order stays, at the front of the command.
StripSudo(c) ==
    IF HadSudo(c) THEN [c EXCEPT !.sudo = FALSE, !.options = Rest(c.options)] ELSE c
-----------------------------------------------------------------------------
(* The command line of the sandbox, from the text of bash -c '...' on.     *)

Escaped == <<Q, B, Q, Q>>

Escape(text) == FlattenSeq([i \in 1 .. Len(text) |-> IF text[i] = Q THEN Escaped ELSE <<text[i]>>])

IsEscaped(s, i) == i + 3 <= Len(s) /\ SubSeq(s, i, i + 3) = Escaped

Unescape(s) ==
    LET from[i \in 1 .. Len(s) + 1] ==
            IF i > Len(s) THEN <<>>
            ELSE IF IsEscaped(s, i) THEN <<Q>> \o from[i + 4]
            ELSE <<s[i]>> \o from[i + 1]
    IN  from[1]

\* _SANDBOX_CMD_RE: a backslash and what follows it, an escaped quote, or
\* another character, as often as possible, and then a quote: the last of the
\* Closings.  0 is nowhere.
After(s, i) ==
    CASE i = 0 \/ i > Len(s)                   -> 0
      [] i \in 1 .. Len(s) /\ s[i] = B         -> IF i < Len(s) THEN i + 2 ELSE 0
      [] i \in 1 .. Len(s) /\ s[i] = Q         -> IF IsEscaped(s, i) THEN i + 4 ELSE 0
      [] OTHER                                 -> i + 1

Closings(s) ==
    LET at[k \in 0 .. Len(s)] == IF k = 0 THEN 1 ELSE After(s, at[k - 1])
    IN  {i \in {at[k] : k \in 0 .. Len(s)} : i \in 1 .. Len(s) /\ s[i] = Q}

Captured(s) == SubSeq(s, 1, Max(Closings(s)) - 1)

\* build_sandbox_command: COSH_RC holds the whole command if sudo was
\* stripped.
Build(c) == [restore |-> IF HadSudo(c) THEN c ELSE NoCommand, policy |-> "restricted",
             inner |-> StripSudo(c), body |-> Append(Escape(StripSudo(c).text), Q)]

\* Mutant: COSH_RC is not looked for.
ExtractNoRestore(line) ==
    IF Closings(line.body) = {} THEN NoCommand
    ELSE [line.inner EXCEPT !.text = Unescape(Captured(line.body))]

\* extract_original_command.  An interactive sudo and its options stand in
\* front of the text, as characters that do not matter.
Extract(line) ==
    CASE line.restore # NoCommand                                  -> line.restore
      [] line.restore = NoCommand /\ Closings(line.body) = {}      -> NoCommand
      [] OTHER -> [line.inner EXCEPT !.text = Unescape(Captured(line.body))]
-----------------------------------------------------------------------------
(* The hooks.                                                              *)

\* _log_sandbox_event starts a command of its own and does not wait for it.
LogSandboxEvent(decision) == logged' \in {logged, logged \cup {decision}}

\* detect_patterns sees the command without sudo, and finds in it what it
\* finds in its text.
Ask ==
    /\ handled = "none"
    /\ shell' \in ShellCommands
    /\ LET marks == shell'.marks
           sandboxed == marks \cap {"danger", "network"} # {}
       IN  \/ /\ "block" \in marks
              /\ handled' = "block" /\ runs' = <<>>
              /\ LogSandboxEvent("block")
           \/ /\ "block" \notin marks /\ sandboxed
              /\ handled' = "sandbox"
              /\ runs' = <<[Build(shell') EXCEPT
                              !.policy = IF marks = {"network"} THEN "enabled" ELSE "restricted"]>>
              /\ LogSandboxEvent("sandbox")
           \/ /\ marks = {}
              /\ handled' = "allow"
              /\ runs' = <<IF root THEN StripSudo(shell') ELSE shell'>>
              /\ UNCHANGED logged
    /\ UNCHANGED <<root, failed, offered>>

Fail ==
    /\ handled = "sandbox" /\ ~failed
    /\ failed' = TRUE
    /\ UNCHANGED <<shell, root, handled, runs, offered, logged>>

\* No request is made for an empty command.
HandleFailure ==
    /\ failed /\ offered = NoCommand
    /\ offered' = LET found == Extract(runs[1])
                  IN  IF found.text = <<>> /\ ~found.sudo THEN NoCommand ELSE found
    /\ UNCHANGED <<shell, root, handled, runs, failed, logged>>

NextCommand ==
    /\ handled # "none" /\ (handled = "sandbox" => failed)
    /\ shell' = NoCommand /\ handled' = "none" /\ runs' = <<>>
    /\ failed' = FALSE /\ offered' = NoCommand /\ logged' = {}
    /\ UNCHANGED root

GuardNext == Ask \/ Fail \/ HandleFailure \/ NextCommand

GuardSpec == GuardInit /\ [][GuardNext]_guardVars
-----------------------------------------------------------------------------
(* Properties.                                                             *)

\* An odd run of backslashes before a quote or at the end, which the failure
\* handler takes for an escape though there is none in single quotes.
Misread(text) ==
    \E i \in 1 .. Len(text) : \E j \in i .. Len(text) :
        /\ \A k \in i .. j : text[k] = B
        /\ (j - i) % 2 = 0
        /\ i = 1 \/ text[i - 1] # B
        /\ j = Len(text) \/ text[j + 1] = Q

\* The hooks keep the user's command: what runs is the command, with or
\* without sudo and its options, and what the failure handler offers to run
\* outside the sandbox is the whole command, with sudo.  Two cases are
\* excepted: options of sudo that are not in the order of the pattern are
\* left in front of the command; and a text that is misread is offered
\* truncated, garbled, or not at all, if there is no COSH_RC to take the
\* command from, that is, if it has no sudo or an interactive one.
CommandKept ==
    /\ runs # <<>> /\ (HadSudo(shell) => InOrder(shell.options)) =>
          LET inner == IF handled = "sandbox" THEN runs[1].inner ELSE runs[1]
          IN  inner \in {shell, [shell EXCEPT !.sudo = FALSE, !.options = <<>>]}
    /\ offered # NoCommand /\ (HadSudo(shell) \/ ~Misread(shell.text)) => offered = shell
=============================================================================
