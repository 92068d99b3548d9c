---------------------------- MODULE LedgerReport ----------------------------
(***************************************************************************)
(* What the commands of the skill ledger tell about the discovered skills: *)
(* how the findings of a scanner become a status (certify), and how the    *)
(* statuses become exit codes (check, certify, status) and one word of     *)
(* health (status).  Modelled from skill_ledger/cli.py, scanner/,          *)
(* core/status.py and security_middleware/backends/skill_ledger.py.  How a *)
(* check computes a status is in SkillLedger.                              *)
(***************************************************************************)
EXTENDS Naturals, FiniteSets

CONSTANTS
    Found,            \* the skills that resolve_skill_dirs finds
    NotGiven,         \* in place of a skill on the command line
    MaxFindings       \* bound: findings in one file

VARIABLES
    verdict,          \* what check answers for each skill, or "error"
    given,            \* history: the findings last certified, while the
                      \* files of the skill are the ones scanned
    answer            \* of the last command

reportVars == <<verdict, given, answer>>

Statuses == {"pass", "none", "drifted", "warn", "deny", "tampered", "error"}
Critical == {"deny", "tampered", "error"}

\* A finding of a raw file: whether it names its rule, and its level (of one
\* without a rule, the level that would matter most).
Raw == [rule : {TRUE}, level : {"deny", "warn", "pass", "unknown", "missing"}]
       \cup [rule : {FALSE}, level : {"deny"}]
Files == {f \in SUBSET Raw : Cardinality(f) <= MaxFindings}

\* What the command line of check and certify can ask for.
Options == [all : BOOLEAN, dir : Found \cup {NotGiven}, findings : BOOLEAN]
-----------------------------------------------------------------------------
\* Mutant: a level that is not known is dropped.
ParseKnown(raw) == {r.level : r \in {f \in raw : f.rule /\ f.level \in {"deny", "warn", "pass"}}}

\* The parser skips what has no rule or no level, and warns for a level that
\* it does not know.  Parsers other than findings-array do not exist yet.
Level(f) == IF f.level = "unknown" THEN "warn" ELSE f.level
Parse(raw) == {Level(f) : f \in {r \in raw : r.rule /\ r.level # "missing"}}

\* _determine_scan_status, and aggregate_scan_status of the one scan.
ScanStatus(levels) ==
    IF "deny" \in levels THEN "deny" ELSE IF "warn" \in levels THEN "warn" ELSE "pass"

\* The breakdown of ledger_status, and _derive_health.
Health ==
    LET some(statuses) == \E s \in Found : verdict[s] \in statuses
    IN  CASE Found = {}                              -> "empty"
          [] some(Critical)                          -> "critical"
          [] some({"drifted", "warn"}) /\ ~some(Critical) -> "attention"
          [] Found # {} /\ \A s \in Found : verdict[s] = "none" -> "unscanned"
          [] OTHER                                   -> "healthy"

\* Exit codes.  check raises for a skill that it cannot read.
CheckExit(s) == IF verdict[s] \in {"tampered", "deny", "error"} THEN 1 ELSE 0

\* Mutant: a skill that cannot be read does not count.
CheckAllExitNoError ==
    IF Found = {} \/ \E s \in Found : verdict[s] \in {"tampered", "deny"} THEN 1 ELSE 0

CheckAllExit ==
    IF Found = {} \/ \E s \in Found : verdict[s] \in {"tampered", "deny", "error"} THEN 1 ELSE 0

Told(command, exit) == answer' = [command |-> command, exit |-> exit, health |-> Health]
-----------------------------------------------------------------------------
(* The commands.                                                           *)

ReportInit ==
    /\ verdict = [s \in Found |-> "none"] /\ given = [s \in Found |-> {}]
    /\ answer = [command |-> "none", exit |-> 0, health |-> Health]

\* The command line is refused, or names no skill.
Refused(o) == (o.all <=> o.dir # NotGiven) \/ (o.all /\ (o.findings \/ Found = {}))

Refuse == (\E o \in Options : Refused(o)) /\ Told("refused", 1) /\ UNCHANGED <<verdict, given>>

Check ==
    /\ \E o \in Options : ~Refused(o) /\
          IF o.all THEN Told("check", CheckAllExit) ELSE Told("check", CheckExit(o.dir))
    /\ UNCHANGED <<verdict, given>>

\* certify raises for a skill that cannot be read, for one that was tampered
\* with so that its latest manifest cannot be parsed, and for one that gets a
\* new version while there is no key to sign it.
Raising(those) ==
    LET always(key) == {s \in those : verdict[s] \in {"error"} \cup IF key THEN {} ELSE {"drifted"}}
        perhaps(key) == {s \in those : verdict[s] \in {"tampered"} \cup IF key THEN {} ELSE {"none"}}
    IN  UNION {{always(key) \cup some : some \in SUBSET perhaps(key)} : key \in BOOLEAN}

\* With a findings file, which may not load; and the key to sign with may be
\* missing.
Certify ==
    \E o \in Options :
        /\ ~Refused(o) /\ o.findings
        /\ \/ Told("certify", 1) /\ UNCHANGED <<verdict, given>>
           \/ /\ {} \in Raising({o.dir})
              /\ \E raw \in Files :
                    /\ verdict' = [verdict EXCEPT ![o.dir] = ScanStatus(Parse(raw))]
                    /\ given' = [given EXCEPT ![o.dir] = raw]
              /\ Told("certify", 0)

\* Without one no scanner can be invoked: the skills whose files have changed
\* get a version that is not scanned, the others stay as they are.
AutoInvoke ==
    \E o \in Options :
        /\ ~Refused(o) /\ ~o.findings
        /\ LET those == IF o.all THEN Found ELSE {o.dir}
           IN  \E raising \in Raising(those) :
                  /\ verdict' = [s \in Found |->
                        IF s \in those \ raising /\ verdict[s] = "drifted" THEN "none" ELSE verdict[s]]
                  /\ Told("certify", IF raising = {} THEN 0 ELSE 1)
        /\ UNCHANGED given

Status == Told("status", 0) /\ UNCHANGED <<verdict, given>>

\* A skill is edited, its metadata is forged, or it cannot be read.
Disturb ==
    \E s \in Found :
        /\ verdict' \in {[verdict EXCEPT ![s] = to] : to \in {"drifted", "tampered", "error"}}
        /\ given' = [given EXCEPT ![s] = {}]
        /\ UNCHANGED answer

ReportNext == Refuse \/ Check \/ Certify \/ AutoInvoke \/ Status \/ Disturb

ReportSpec == ReportInit /\ [][ReportNext]_reportVars
-----------------------------------------------------------------------------
(* Properties.                                                             *)

\* The two summaries of the ledger, which are computed apart, agree: check
\* --all exits with 1 exactly when status says critical (or finds no skill),
\* and with 0 only if check of every single skill does.  Nothing is said of
\* healthy: core/status.py:86 has it that all skills pass, and the code and
\* Health give that answer also if some pass and the others were never scanned.
SummariesAgree ==
    /\ CheckAllExit = 1 <=> Health \in {"critical", "empty"}
    /\ CheckAllExit = 0 => \A s \in Found : CheckExit(s) = 0

\* A finding that names its rule and a level counts whatever else is in the
\* file: a denial makes the checks of its skill fail, and a level the parser
\* does not know is not taken for a pass, until the files change.
FindingsCount ==
    \A s \in Found : \A f \in given[s] :
        f.rule /\ f.level # "missing" =>
            /\ f.level = "deny" => CheckExit(s) = 1 /\ CheckAllExit = 1
            /\ f.level = "unknown" => Health \notin {"healthy", "unscanned"}
=============================================================================
