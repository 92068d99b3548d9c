---------------------------- MODULE LedgerConfig ----------------------------
(***************************************************************************)
(* The configuration of the skill ledger (skill_ledger/config.py): which   *)
(* directories hold skills, and the tables of scanners and parsers.        *)
(*                                                                         *)
(* check and certify remember the directory they are given: they read the  *)
(* file, decide, and write it whole, in place and without a lock, beside   *)
(* other commands and the user's editor.  An entry of skillDirs is a skill *)
(* (its own path) or a parent (the glob parent/* ).  Paths are absolute, as *)
(* the hook and --all give them.                                           *)
(***************************************************************************)
EXTENDS Naturals, FiniteSets

CONSTANTS
    Skills, Parents,
    ParentOf,         \* the directory each skill is in
    Hidden,           \* skills whose name begins with a dot
    DefaultDirs,      \* skillDirs of _DEFAULT_CONFIG
    DefaultTable,     \* its scanners and parsers, by name
    UserTables,       \* what the user may write of them
    Commands          \* processes running check or certify

VARIABLES
    present,          \* skills that are there, with their SKILL.md
    file,             \* config.json: Absent, Broken or [dirs, table]
    command,          \* what each process is about to do, and holds
    wanted,           \* history: the table the user wrote last
    told,             \* history: skills remembered since the last edit or
                      \* overlapping write
    excuse            \* history: a command died while writing, or two wrote
                      \* at once

configVars == <<present, file, command, wanted, told, excuse>>

Absent == [dirs |-> {}, table |-> <<>>]
Broken == [dirs |-> {"?"}, table |-> <<>>]

ASSUME ConfigAssumption ==
    /\ ParentOf \in [Skills -> Parents] /\ DefaultDirs \subseteq Parents /\ Hidden \subseteq Skills
    /\ Skills \cap Parents = {} /\ "?" \notin Skills \cup Parents
    /\ \A table \in UserTables \cup {DefaultTable} :
          table = [name \in DOMAIN table |-> table[name]]

Idle == [at |-> "idle", skill |-> "none", new |-> Absent]

ConfigInit ==
    /\ present \in SUBSET Skills
    /\ file = Absent
    /\ command = [c \in Commands |-> Idle]
    /\ wanted = <<>> /\ told = {} /\ excuse = FALSE

\* The entries of two tables, the first before the second.
Overriding(table, defaults) ==
    [name \in DOMAIN table \cup DOMAIN defaults |->
        IF name \in DOMAIN table THEN table[name] ELSE defaults[name]]

Tables == {Absent.table, DefaultTable} \cup UserTables
          \cup {Overriding(u, DefaultTable) : u \in UserTables}

Contents == [dirs : SUBSET (Parents \cup Skills), table : Tables]

ConfigTypeOK ==
    /\ present \subseteq Skills /\ told \subseteq Skills /\ excuse \in BOOLEAN
    /\ file \in Contents \cup {Broken}
    /\ wanted \in {Absent.table} \cup UserTables
    /\ \A c \in Commands :
          /\ command[c].at \in {"idle", "decided", "outdated", "writing", "overlapped"}
          /\ command[c].skill \in Skills \cup {"none"}
          /\ command[c].new \in Contents
-----------------------------------------------------------------------------
(* Reading the configuration.                                              *)

\* Mutant: the defaults override what the user has set.
MergeDefaultsWin(user) ==
    [dirs |-> DefaultDirs \cup user.dirs, table |-> Overriding(DefaultTable, user.table)]

\* _deep_merge_config: directories add up, the user's scanners and parsers
\* override the defaults of the same name.
Merge(user) ==
    [dirs |-> DefaultDirs \cup user.dirs, table |-> Overriding(user.table, DefaultTable)]

\* load_config, of a file that can be read.
Load(contents) == Merge(contents)

\* resolve_skill_dirs
Discovered(config) ==
    {s \in present : s \in config.dirs \/ (ParentOf[s] \in config.dirs /\ s \notin Hidden)}

\* Mutant: any glob is taken to cover every path.
CompactAll(dirs) == IF dirs \cap Parents = {} THEN dirs ELSE dirs \cap Parents

\* _compact_skill_dirs: a glob subsumes every entry below its parent.
Compact(dirs) == dirs \ {s \in Skills : ParentOf[s] \in dirs}

\* The entry that remember_skill_dir adds for a skill.
EntryFor(s) ==
    LET siblings == {x \in present \ Hidden : ParentOf[x] = ParentOf[s]}
    IN  IF Cardinality(siblings) >= 2 THEN ParentOf[s] ELSE s
-----------------------------------------------------------------------------
(* Remembering a skill.                                                    *)

Covered(c, s) ==
    /\ command[c].at = "idle" /\ file # Broken
    /\ s \in Discovered(Load(file))
    /\ told' = told \cup {s}
    /\ UNCHANGED <<present, file, command, wanted, excuse>>

Decide(c, s) ==
    /\ command[c].at = "idle" /\ file # Broken /\ s \in present
    /\ s \notin Discovered(Load(file))
    /\ LET config == Load(file)
           new == [config EXCEPT !.dirs = Compact(config.dirs \cup {EntryFor(s)})]
       IN  command' = [command EXCEPT ![c] =
                          [at |-> "decided", skill |-> s, new |-> new]]
    /\ UNCHANGED <<present, file, wanted, told, excuse>>

\* What has been read, or the file that has been opened, has changed since.
Outdate == [x \in Commands |-> IF command[x].at = "decided"
                               THEN [command[x] EXCEPT !.at = "outdated"] ELSE command[x]]
Overlap == [x \in Commands |-> IF command[x].at = "writing"
                               THEN [command[x] EXCEPT !.at = "overlapped"] ELSE Outdate[x]]

\* write_text opens the file, which truncates it, and then writes.
Truncate(c) ==
    /\ command[c].at \in {"decided", "outdated"}
    /\ file' = Broken
    /\ command' = [Outdate EXCEPT ![c].at = "writing"]
    /\ IF command[c].at = "decided"
       THEN UNCHANGED <<told, wanted>>
       ELSE told' = {} /\ wanted' = Absent.table
    /\ UNCHANGED <<present, excuse>>

\* Mutant: the file is not truncated before it is written.
WriteOver(c) ==
    /\ command[c].at \in {"writing", "overlapped"}
    /\ command' = [Overlap EXCEPT ![c] = Idle]
    /\ file' \in {command[c].new, Broken}
    /\ told' = {command[c].skill}
    /\ UNCHANGED <<present, wanted, excuse>>

\* A text written over a longer one leaves the tail of that.
Write(c) ==
    /\ command[c].at \in {"writing", "overlapped"}
    /\ command' = [Overlap EXCEPT ![c] = Idle]
    /\ IF command[c].at = "writing"
       THEN /\ file' = command[c].new
            /\ told' = told \cup {command[c].skill}
            /\ UNCHANGED <<wanted, excuse>>
       ELSE /\ file' \in {command[c].new, Broken}
            /\ told' = {command[c].skill}
            /\ wanted' = Absent.table /\ excuse' = TRUE
    /\ UNCHANGED present

Kill(c) ==
    /\ command[c].at # "idle"
    /\ command' = [command EXCEPT ![c] = Idle]
    /\ excuse' = (excuse \/ command[c].at \in {"writing", "overlapped"})
    /\ UNCHANGED <<present, file, wanted, told>>
-----------------------------------------------------------------------------
(* The user.                                                               *)

\* Skills come and go.
Install(s) ==
    /\ present' = IF s \in present THEN present \ {s} ELSE present \cup {s}
    /\ UNCHANGED <<file, command, wanted, told, excuse>>

\* The user writes the file anew; this also mends a broken one.
Edit(table) ==
    /\ file' = [dirs |-> {}, table |-> table]
    /\ wanted' = table /\ told' = {} /\ excuse' = FALSE
    /\ command' = Overlap
    /\ UNCHANGED present

ConfigNext ==
    \/ \E c \in Commands :
          (\E s \in Skills : Covered(c, s) \/ Decide(c, s)) \/ Truncate(c) \/ Write(c) \/ Kill(c)
    \/ \E s \in Skills : Install(s)
    \/ \E table \in UserTables : Edit(table)

ConfigSpec == ConfigInit /\ [][ConfigNext]_configVars
-----------------------------------------------------------------------------
(* Properties.                                                             *)

Readable == file # Broken

\* A skill that check or certify has remembered is found by --all for as long
\* as its SKILL.md is there, however the entry was folded into globs since:
\* only an overlapping command can forget it.  A hidden skill is the
\* exception: a glob drops its own entry and does not list it.
RememberedIsFound ==
    Readable => \A s \in told \cap present :
        \/ s \in Discovered(Load(file))
        \/ s \in Hidden /\ ParentOf[s] \in Load(file).dirs

\* Remembering writes the defaults into the file too, but never over what the
\* user set, unless it was set while the command was deciding.
SettingsKept ==
    Readable => \A name \in DOMAIN wanted : Load(file).table[name] = wanted[name]

\* The file cannot be read only while a command writes it, after one died
\* doing so, or after two wrote at once; then check goes on without it, and
\* --all, certify and status fail until the user mends it.
BrokenOnlyByRace ==
    Readable \/ excuse \/ \E c \in Commands : command[c].at \in {"writing", "overlapped"}
=============================================================================
