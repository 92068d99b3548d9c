---------------------------- MODULE CodeScanner ----------------------------
(***************************************************************************)
(* The code scanner (code_scanner/) as a function from code to a verdict.  *)
(* A text is a sequence of what the scanner tells apart: what a rule looks *)
(* for by itself; the main pattern and a target of a rule that needs both  *)
(* in one segment; parentheses; and what separates segments.               *)
(***************************************************************************)
EXTENDS Naturals, Sequences

Pieces == {"deny", "main", "target", "open", "close", "newline", "separator"}

\* outer is all of a command line; inner is the code in its first
\* <interpreter> -c '...', if there is one.
Code == [interpreter : {"none", "shell", "python"}, outer : Seq(Pieces), inner : Seq(Pieces)]
-----------------------------------------------------------------------------
\* extract_inline_code: the inline code is scanned in place of the command.
InlineCode(code, language) ==
    CASE language = "bash" /\ code.interpreter = "shell"  -> [text |-> code.inner, language |-> "bash"]
      [] language = "bash" /\ code.interpreter = "python" -> [text |-> code.inner, language |-> "python"]
      [] OTHER                                            -> [text |-> code.outer, language |-> language]

\* How deep in parentheses each position is.
Depth(text) ==
    LET depth[i \in 0 .. Len(text)] ==
            CASE i = 0                          -> 0
              [] i > 0 /\ text[i] = "open"      -> depth[i - 1] + 1
              [] i > 0 /\ text[i] = "close"     -> IF depth[i - 1] = 0 THEN 0 ELSE depth[i - 1] - 1
              [] OTHER                          -> depth[i - 1]
    IN  depth

\* _normalize_python_parens
Normalize(text) ==
    [i \in 1 .. Len(text) |->
        IF text[i] = "newline" /\ Depth(text)[i] > 0 THEN "blank" ELSE text[i]]

SameSegment(text, i, j) == \A k \in i .. j : text[k] \notin {"newline", "separator"}

\* _match_with_targets: the first main pattern of a segment must come before
\* its first target.
Matches(text) ==
    \E i, j \in 1 .. Len(text) :
        /\ i < j /\ text[i] = "main" /\ text[j] = "target" /\ SameSegment(text, i, j)
        /\ \A k \in 1 .. i : text[k] = "target" => ~SameSegment(text, k, i)

\* run_regex_rules: the severities found.
Findings(text, language) ==
    LET segmented == IF language = "python" THEN Normalize(text) ELSE text
    IN  (IF Matches(segmented) THEN {"warn"} ELSE {})
        \cup {text[i] : i \in {i \in 1 .. Len(text) : text[i] = "deny"}}

ComputeVerdict(findings) ==
    CASE findings = {}                              -> "pass"
      [] "deny" \in findings                        -> "deny"
      [] findings # {} /\ "deny" \notin findings    -> "warn"

\* scan.  rulesLoad: whether the rule files can be read.
Scan(code, language, rulesLoad) ==
    LET scanned == InlineCode(code, language)
        blank == code.interpreter = "none" /\ code.outer = <<>>
    IN  IF blank \/ ~rulesLoad THEN "error"
        ELSE ComputeVerdict(Findings(scanned.text, scanned.language))
=============================================================================
