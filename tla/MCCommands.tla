----------------------------- MODULE MCCommands -----------------------------
(* Small instances of the parts that other commands of the tool, and the   *)
(* hooks, are made of: a behaviour is one of any of them.                  *)
EXTENDS LedgerConfig, LedgerReport, IndexReader, Posture, PromptScanner, AgentHooks, SandboxGuard,
        OpenClaw, TLC

CONSTANTS s1, s2, hidden, d1, d2, c1, c2, r1, r2, vetter, parser, a, b, a1, t1, t2, p1, p2,
          call1, call2

VARIABLE part     \* the part that takes the steps

InDirectories  == s1 :> d1 @@ s2 :> d1 @@ hidden :> d2
DefaultEntries == vetter :> "default" @@ parser :> "default"
UserEntries    == {vetter :> "user"}
Categories     == 1 :> a @@ 2 :> b @@ 3 :> a

Commands12 == Permutations({c1, c2}) \cup Permutations({s1, s2})

Unfiltered == [category |-> NoFilter, since |-> NoFilter, until |-> NoFilter]

Harmless == [blank |-> FALSE, plain |-> FALSE, encoded |-> FALSE, invisible |-> FALSE,
             model |-> "benign"]
SomeTexts ==
    {[Harmless EXCEPT !.blank = TRUE], [Harmless EXCEPT !.encoded = TRUE],
     [Harmless EXCEPT !.plain = TRUE, !.model = "above"], [Harmless EXCEPT !.model = "above"],
     [Harmless EXCEPT !.invisible = TRUE, !.model = "below"]}

SomeCodes ==
    [interpreter : {"none"}, outer : BoundedSeq(Pieces, 3) \ {<<>>}, inner : {<<>>}]
    \cup [interpreter : {"shell"}, outer : {<<>>, <<"deny">>},
          inner : BoundedSeq({"deny", "main", "target"}, 2)]
    \cup [interpreter : {"python"}, outer : {<<>>},
          inner : BoundedSeq({"main", "target", "open", "close", "newline"}, 4)]

Init ==
    /\ part \in {"config", "report", "reader", "posture", "scanner", "hooks", "guard", "plugin"}
    /\ ConfigInit /\ (part = "config" \/ present = {})
    /\ ReportInit
    /\ ReaderInit /\ (part = "reader" \/ asked = Unfiltered)
    /\ MiddlewareInit
    /\ ScannerInit
    /\ HooksInit /\ (part = "hooks" \/ ~keys)
    /\ GuardInit /\ (part = "guard" \/ ~root)
    /\ PluginInit /\ (part = "plugin" \/ (keyFiles /\ block))

Step(one, Action, others) == part = one /\ Action /\ UNCHANGED <<part, others>>

Next ==
    \/ Step("config", ConfigNext,
            <<reportVars, readerVars, log, scannerVars, hooksVars, guardVars, pluginVars>>)
    \/ Step("report", ReportNext,
            <<configVars, readerVars, log, scannerVars, hooksVars, guardVars, pluginVars>>)
    \/ Step("reader", ReaderNext,
            <<configVars, reportVars, log, scannerVars, hooksVars, guardVars, pluginVars>>)
    \/ Step("posture", MiddlewareNext,
            <<configVars, reportVars, readerVars, scannerVars, hooksVars, guardVars, pluginVars>>)
    \/ Step("scanner", ScannerNext,
            <<configVars, reportVars, readerVars, log, hooksVars, guardVars, pluginVars>>)
    \/ Step("hooks", HooksNext,
            <<configVars, reportVars, readerVars, log, scannerVars, guardVars, pluginVars>>)
    \/ Step("guard", GuardNext,
            <<configVars, reportVars, readerVars, log, scannerVars, hooksVars, pluginVars>>)
    \/ Step("plugin", PluginNext,
            <<configVars, reportVars, readerVars, log, scannerVars, hooksVars, guardVars>>)

Spec ==
    Init /\ [][Next]_<<part, configVars, reportVars, readerVars, log, scannerVars, hooksVars,
                       guardVars, pluginVars>>
=============================================================================
