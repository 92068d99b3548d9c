------------------------ MODULE LedgerConfig_proofs ------------------------
(***************************************************************************)
(* What check and certify remember is found again, what the user has set   *)
(* is kept, and the file is unreadable only by a race: for any skills,     *)
(* directories, tables and number of commands.  Then what the commands     *)
(* tell of the skills they find (LedgerReport).                            *)
(***************************************************************************)
EXTENDS LedgerConfig, LedgerReport, TLAPS

\* The skills that some entry names, by their path or by a glob.
Covers(dirs) == {s \in Skills : s \in dirs \/ ParentOf[s] \in dirs}

\* The same of a file, and the settings it gives, as load_config reads it.
Coverage(contents) == Covers(Load(contents).dirs)

Sets(contents, table) ==
    \A name \in DOMAIN table :
        /\ name \in DOMAIN Load(contents).table
        /\ Load(contents).table[name] = table[name]

FileInv == Readable => told \subseteq Coverage(file) /\ Sets(file, wanted)

Steps == {"idle", "decided", "outdated", "writing", "overlapped"}

\* A command that nothing has overlapped yet will write what the file has and
\* its skill; one that was overlapped, at least its skill.
CommandInv(cmd) ==
    /\ cmd.at # "idle" => cmd.skill \in Skills /\ cmd.skill \in Coverage(cmd.new)
    /\ cmd.at = "decided" =>
          Readable /\ Coverage(file) \subseteq Coverage(cmd.new) /\ Sets(cmd.new, wanted)
    /\ cmd.at = "writing" =>
          ~Readable /\ told \subseteq Coverage(cmd.new) /\ Sets(cmd.new, wanted)

Command == [at : Steps, skill : Skills \cup {"none"}, new : Contents]

ConfigShape ==
    /\ present \subseteq Skills /\ told \subseteq Skills /\ excuse \in BOOLEAN
    /\ file \in Contents \cup {Broken}
    /\ wanted \in {Absent.table} \cup UserTables
    /\ command \in [Commands -> Command]

ConfigInv ==
    /\ ConfigShape /\ BrokenOnlyByRace /\ FileInv
    /\ \A c \in Commands : CommandInv(command[c])
-----------------------------------------------------------------------------
(* Tables and directories.                                                 *)

LEMMA OverridingGives ==
  ASSUME NEW f, NEW g
  PROVE  /\ DOMAIN Overriding(f, g) = DOMAIN f \cup DOMAIN g
         /\ \A x \in DOMAIN f : Overriding(f, g)[x] = f[x]
         /\ \A x \in DOMAIN g \ DOMAIN f : Overriding(f, g)[x] = g[x]
  BY DEF Overriding

\* A table over itself, or one that has all its names, is not changed by it.
LEMMA OverridingAbsorbs ==
  ASSUME NEW f, NEW g, f = [x \in DOMAIN f |-> f[x]], DOMAIN g \subseteq DOMAIN f
  PROVE  Overriding(f, g) = f
<1>1. DOMAIN f \cup DOMAIN g = DOMAIN f
  OBVIOUS
<1>2. Overriding(f, g) = [x \in DOMAIN f |-> IF x \in DOMAIN f THEN f[x] ELSE g[x]]
  BY <1>1 DEF Overriding
<1>3. Overriding(f, g) = [x \in DOMAIN f |-> f[x]]
  BY <1>2
<1> QED
  BY <1>3

LEMMA NoNames == DOMAIN Absent.table = {}
<1>1. Absent.table = <<>>
  BY DEF Absent
<1>2. DOMAIN <<>> = 1 .. 0
  OBVIOUS
<1> QED
  BY <1>1, <1>2

\* What load_config makes of a table, save_config may have written.
LEMMA TablesClosed ==
  ASSUME NEW table \in Tables
  PROVE  Overriding(table, DefaultTable) \in Tables
<1>1. DefaultTable = [x \in DOMAIN DefaultTable |-> DefaultTable[x]]
  BY ConfigAssumption
<1>2. CASE table = Absent.table
  <2>1. DOMAIN table \cup DOMAIN DefaultTable = DOMAIN DefaultTable
    BY <1>2, NoNames
  <2>2. Overriding(table, DefaultTable) =
          [x \in DOMAIN DefaultTable |-> IF x \in DOMAIN table THEN table[x] ELSE DefaultTable[x]]
    BY <2>1 DEF Overriding
  <2>3. Overriding(table, DefaultTable) = [x \in DOMAIN DefaultTable |-> DefaultTable[x]]
    BY <1>2, <2>2, NoNames
  <2> QED
    BY <1>1, <2>3 DEF Tables
<1>3. CASE table = DefaultTable
  BY <1>1, <1>3, OverridingAbsorbs DEF Tables
<1>4. CASE table \in UserTables
  BY <1>4 DEF Tables
<1>5. ASSUME NEW u \in UserTables, table = Overriding(u, DefaultTable)
      PROVE  Overriding(table, DefaultTable) \in Tables
  <2>1. DOMAIN DefaultTable \subseteq DOMAIN table
    BY <1>5, OverridingGives
  <2>2. table = [x \in DOMAIN table |-> table[x]]
    BY <1>5 DEF Overriding
  <2>3. Overriding(table, DefaultTable) = table
    BY <2>1, <2>2, OverridingAbsorbs
  <2> QED
    BY <2>3
<1> QED
  BY <1>2, <1>3, <1>4, <1>5 DEF Tables

\* Compacting drops no skill that an entry names.
LEMMA CompactCovers ==
  ASSUME NEW dirs
  PROVE  Covers(Compact(dirs)) = Covers(dirs) /\ Compact(dirs) \subseteq dirs
<1>1. ASSUME NEW s \in Skills, ParentOf[s] \in dirs PROVE ParentOf[s] \in Compact(dirs)
  BY <1>1, ConfigAssumption DEF Compact
<1>2. ASSUME NEW s \in Skills, s \in dirs, ParentOf[s] \notin dirs PROVE s \in Compact(dirs)
  BY <1>2 DEF Compact
<1> QED
  BY <1>1, <1>2 DEF Covers, Compact

\* The file as it was read, with an entry for the skill.
Remembering(s) ==
    [dirs |-> Compact(Load(file).dirs \cup {EntryFor(s)}), table |-> Load(file).table]

LEMMA DecidedKeeps ==
  ASSUME ConfigShape, FileInv, Readable, NEW s \in Skills
  PROVE  /\ Remembering(s) \in Contents /\ s \in Coverage(Remembering(s))
         /\ Coverage(file) \subseteq Coverage(Remembering(s)) /\ Sets(Remembering(s), wanted)
<1> DEFINE config == Load(file)
           new == Remembering(s)
<1>1. file \in Contents
  BY DEF ConfigShape, Readable
<1>2. /\ config.dirs = DefaultDirs \cup file.dirs
      /\ config.table = Overriding(file.table, DefaultTable)
      /\ config = [dirs |-> config.dirs, table |-> config.table]
  BY DEF Load, Merge
<1>3. config \in Contents
  <2>1. config.table \in Tables
    BY <1>1, <1>2, TablesClosed DEF Contents
  <2>2. config.dirs \subseteq Parents \cup Skills
    BY <1>1, <1>2, ConfigAssumption DEF Contents
  <2> HIDE DEF config
  <2> QED
    BY <1>2, <2>1, <2>2 DEF Contents
<1>4. EntryFor(s) \in {s, ParentOf[s]}
  BY DEF EntryFor
<1>5. EntryFor(s) \in Parents \cup Skills
  BY <1>4, ConfigAssumption
<1> HIDE DEF config
<1> DEFINE dirs == Compact(config.dirs \cup {EntryFor(s)})
<1>6. new = [dirs |-> dirs, table |-> config.table]
  BY DEF config, Remembering
<1> HIDE DEF new
<1>7. dirs \subseteq Parents \cup Skills
  BY <1>3, <1>5, CompactCovers DEF Contents
<1>8. new \in Contents
  <2>1. config.table \in Tables
    BY <1>3 DEF Contents
  <2> HIDE DEF dirs
  <2> QED
    BY <2>1, <1>6, <1>7 DEF Contents
<1>9. Covers(dirs) = Covers(config.dirs \cup {EntryFor(s)})
  BY CompactCovers
<1> HIDE DEF dirs
<1>10. Load(new).dirs = DefaultDirs \cup dirs
       /\ Load(new).table = Overriding(config.table, DefaultTable)
  BY <1>6 DEF Load, Merge
<1>11. Coverage(file) = Covers(config.dirs)
  BY DEF Coverage, config
<1>12. Covers(dirs) \subseteq Coverage(new)
  BY <1>10 DEF Coverage, Covers
<1>13. s \in Coverage(new)
  BY <1>4, <1>9, <1>12 DEF Covers
<1>14. Coverage(file) \subseteq Coverage(new)
  BY <1>9, <1>11, <1>12 DEF Covers
<1>15. Sets(new, wanted)
  <2>1. Sets(file, wanted)
    BY DEF FileInv
  <2>2. \A name \in DOMAIN wanted : name \in DOMAIN config.table
                                    /\ config.table[name] = wanted[name]
    BY <2>1 DEF Sets, config
  <2> DEFINE own == config.table
             read == Load(new).table
  <2> HIDE DEF own, read
  <2>3. read = Overriding(own, DefaultTable)
    BY <1>10 DEF own, read
  <2>4. DOMAIN own \subseteq DOMAIN read /\ \A x \in DOMAIN own : read[x] = own[x]
    BY <2>3, OverridingGives
  <2> QED
    BY <2>2, <2>4 DEF Sets, own, read
<1> QED
  BY <1>8, <1>13, <1>14, <1>15 DEF new
-----------------------------------------------------------------------------
(* The steps.                                                              *)

LEMMA NotBroken == Broken \notin Contents /\ Absent \in Contents /\ Absent # Broken
<1>1. Broken.dirs = {"?"} /\ Absent.dirs = {} /\ Absent = [dirs |-> {}, table |-> Absent.table]
  BY DEF Broken, Absent
<1>2. ~({"?"} \subseteq Parents \cup Skills)
  BY ConfigAssumption
<1>3. Absent.table \in Tables
  BY DEF Tables
<1> QED
  BY <1>1, <1>2, <1>3 DEF Contents

LEMMA IdleCommand == Idle \in Command /\ Idle.at = "idle"
  BY NotBroken DEF Idle, Command, Steps

LEMMA InitConfig == ConfigInit => ConfigInv
<1> SUFFICES ASSUME ConfigInit PROVE ConfigInv
  OBVIOUS
<1>1. wanted = Absent.table /\ DOMAIN wanted = {} /\ told = {} /\ file = Absent
  BY NoNames DEF ConfigInit, Absent
<1>2. command = [c \in Commands |-> Idle]
  BY DEF ConfigInit
<1>3. ConfigShape
  BY <1>1, <1>2, NotBroken, IdleCommand DEF ConfigInit, ConfigShape
<1>4. FileInv /\ BrokenOnlyByRace
  BY <1>1, NotBroken DEF FileInv, Sets, BrokenOnlyByRace, Readable
<1>5. \A c \in Commands : CommandInv(command[c])
  BY <1>2, IdleCommand DEF CommandInv
<1> QED
  BY <1>3, <1>4, <1>5 DEF ConfigInv

\* Overlapped commands keep what they hold, and no more is asked of them.
LEMMA Overlapped ==
  ASSUME ConfigShape, NEW c \in Commands
  PROVE  /\ Outdate \in [Commands -> Command] /\ Overlap \in [Commands -> Command]
         /\ Overlap[c].at \in {"idle", "outdated", "overlapped"}
         /\ Outdate[c].at \in {"idle", "outdated", "writing", "overlapped"}
         /\ Outdate[c].at = "writing" => Outdate[c] = command[c]
         /\ \A cmd \in {Overlap[c], Outdate[c]} :
               /\ cmd.at = "idle" <=> command[c].at = "idle"
               /\ cmd.skill = command[c].skill /\ cmd.new = command[c].new
         /\ Outdate[c].at \in {"writing", "overlapped"} <=> command[c].at \in {"writing", "overlapped"}
         /\ Overlap[c].at = "overlapped" <=> command[c].at \in {"writing", "overlapped"}
<1>1. ASSUME NEW x \in Commands
      PROVE  /\ command[x] \in Command /\ command[x].at \in Steps
             /\ \A at \in Steps :
                   LET cmd == [command[x] EXCEPT !.at = at]
                   IN  /\ cmd \in Command /\ cmd.at = at
                       /\ cmd.skill = command[x].skill /\ cmd.new = command[x].new
  BY DEF ConfigShape, Command
<1>2. \A x \in Commands : Outdate[x] = IF command[x].at = "decided"
                               THEN [command[x] EXCEPT !.at = "outdated"] ELSE command[x]
  BY DEF Outdate
<1>3. \A x \in Commands : Overlap[x] = IF command[x].at = "writing"
                               THEN [command[x] EXCEPT !.at = "overlapped"] ELSE Outdate[x]
  BY DEF Overlap
<1>4. Outdate = [x \in Commands |-> Outdate[x]] /\ Overlap = [x \in Commands |-> Overlap[x]]
  BY DEF Outdate, Overlap
<1>5. \A x \in Commands : Outdate[x] \in Command
  BY <1>1, <1>2 DEF Steps
<1>6. \A x \in Commands : Overlap[x] \in Command
  BY <1>1, <1>3, <1>5 DEF Steps
<1>7. Outdate \in [Commands -> Command] /\ Overlap \in [Commands -> Command]
  BY <1>4, <1>5, <1>6
<1>8. /\ Outdate[c].at = IF command[c].at = "decided" THEN "outdated" ELSE command[c].at
      /\ Outdate[c].skill = command[c].skill /\ Outdate[c].new = command[c].new
      /\ command[c].at # "decided" => Outdate[c] = command[c]
  <2>1. command[c] \in Command
    BY <1>1
  <2>2. CASE command[c].at = "decided"
    <3>1. Outdate[c] = [command[c] EXCEPT !.at = "outdated"]
      BY <2>2, <1>2
    <3> QED
      BY <2>1, <2>2, <3>1 DEF Command
  <2>3. CASE command[c].at # "decided"
    BY <2>3, <1>2
  <2> QED
    BY <2>2, <2>3
<1>9. /\ Overlap[c].at = IF command[c].at = "writing" THEN "overlapped" ELSE Outdate[c].at
      /\ Overlap[c].skill = command[c].skill /\ Overlap[c].new = command[c].new
  <2>1. CASE command[c].at = "writing"
    <3>1. Overlap[c] = [command[c] EXCEPT !.at = "overlapped"] /\ command[c] \in Command
      BY <2>1, <1>1, <1>3
    <3> QED
      BY <2>1, <3>1 DEF Command
  <2>2. CASE command[c].at # "writing"
    BY <2>2, <1>3, <1>8
  <2> QED
    BY <2>1, <2>2
<1>10. command[c].at \in {"idle", "decided", "outdated", "writing", "overlapped"}
  BY <1>1 DEF Steps
<1>11. CASE command[c].at = "decided"
  BY <1>7, <1>8, <1>9, <1>11
<1>12. CASE command[c].at = "writing"
  BY <1>7, <1>8, <1>9, <1>12
<1>13. CASE command[c].at \in {"idle", "outdated", "overlapped"}
  BY <1>7, <1>8, <1>9, <1>13
<1> QED
  BY <1>10, <1>11, <1>12, <1>13

\* An overlapped command promises no more than its own skill.
LEMMA OverlappedHolds ==
  ASSUME ConfigInv, NEW c \in Commands, command'[c] = Overlap[c]
  PROVE  CommandInv(command[c])'
<1>1. /\ Overlap[c].at \in {"idle", "outdated", "overlapped"}
      /\ Overlap[c].at = "idle" <=> command[c].at = "idle"
      /\ Overlap[c].skill = command[c].skill /\ Overlap[c].new = command[c].new
  BY Overlapped DEF ConfigInv
<1>2. command[c].at # "idle" => command[c].skill \in Skills
                                /\ command[c].skill \in Coverage(command[c].new)
  BY DEF ConfigInv, CommandInv
<1> QED
  BY <1>1, <1>2 DEF CommandInv, Coverage, Covers, Load, Merge

LEMMA DecideConfig ==
  ASSUME ConfigInv, NEW c \in Commands, NEW s \in Skills, Decide(c, s)
  PROVE  ConfigInv'
<1> DEFINE cmd == [at |-> "decided", skill |-> s, new |-> Remembering(s)]
<1>1. UNCHANGED <<present, file, wanted, told, excuse>> /\ Readable /\ command[c].at = "idle"
  BY DEF Decide, Readable
<1>2. command' = [command EXCEPT ![c] = cmd]
  <2>1. command' = [command EXCEPT ![c] =
           [at |-> "decided", skill |-> s,
            new |-> [Load(file) EXCEPT !.dirs = Compact(Load(file).dirs \cup {EntryFor(s)})]]]
    BY DEF Decide
  <2>2. ASSUME NEW dirs
        PROVE  [Load(file) EXCEPT !.dirs = dirs] = [dirs |-> dirs, table |-> Load(file).table]
    BY DEF Load, Merge
  <2> QED
    BY <2>1, <2>2 DEF Remembering
<1>3. /\ Remembering(s) \in Contents /\ s \in Coverage(Remembering(s))
      /\ Coverage(file) \subseteq Coverage(Remembering(s)) /\ Sets(Remembering(s), wanted)
  BY <1>1, DecidedKeeps DEF ConfigInv
<1>4. cmd \in Command /\ cmd.at = "decided" /\ cmd.skill = s /\ cmd.new = Remembering(s)
  BY <1>3 DEF Command, Steps
<1> HIDE DEF cmd
<1>5. command'[c] = cmd /\ \A x \in Commands : x # c => command'[x] = command[x]
  BY <1>2 DEF ConfigInv, ConfigShape
<1>6. ConfigShape'
  BY <1>1, <1>2, <1>4 DEF ConfigInv, ConfigShape
<1>7. FileInv' /\ BrokenOnlyByRace'
  BY <1>1 DEF ConfigInv, FileInv, BrokenOnlyByRace, Readable, Sets, Coverage, Covers, Load, Merge
<1>8. ASSUME NEW x \in Commands PROVE CommandInv(command[x])'
  <2>1. CASE x = c
    BY <2>1, <1>1, <1>3, <1>4, <1>5 DEF CommandInv, Readable, Sets, Coverage, Covers, Load, Merge
  <2>2. CASE x # c
    BY <2>2, <1>1, <1>5 DEF ConfigInv, CommandInv, Readable, Sets, Coverage, Covers, Load, Merge
  <2> QED
    BY <2>1, <2>2
<1> QED
  BY <1>6, <1>7, <1>8 DEF ConfigInv

LEMMA CoveredConfig ==
  ASSUME ConfigInv, NEW c \in Commands, NEW s \in Skills, Covered(c, s)
  PROVE  ConfigInv'
<1>1. /\ UNCHANGED <<present, file, command, wanted, excuse>>
      /\ Readable /\ told' = told \cup {s}
  BY DEF Covered, Readable
<1>2. s \in Coverage(file)
  BY DEF Covered, Discovered, Coverage, Covers
<1>3. FileInv'
  BY <1>1, <1>2 DEF ConfigInv, FileInv, Readable, Sets, Coverage, Covers, Load, Merge
<1>4. \A x \in Commands : CommandInv(command[x])'
  BY <1>1 DEF ConfigInv, CommandInv, Readable, Sets, Coverage, Covers, Load, Merge
<1> QED
  BY <1>1, <1>3, <1>4 DEF ConfigInv, ConfigShape, BrokenOnlyByRace, Readable

LEMMA TruncateConfig ==
  ASSUME ConfigInv, NEW c \in Commands, Truncate(c)
  PROVE  ConfigInv'
<1> DEFINE cmd == [Outdate[c] EXCEPT !.at = "writing"]
<1> USE DEF ConfigInv
<1>1. /\ file' = Broken /\ UNCHANGED <<present, excuse>>
      /\ command' = [Outdate EXCEPT ![c] = cmd]
      /\ command[c].at \in {"decided", "outdated"}
  BY DEF Truncate
<1>2. Outdate \in [Commands -> Command] /\ Outdate[c] \in Command
  BY Overlapped
<1>3. cmd \in Command /\ cmd.at = "writing" /\ cmd.skill = command[c].skill
      /\ cmd.new = command[c].new
  <2>1. Outdate[c].skill = command[c].skill /\ Outdate[c].new = command[c].new
    BY Overlapped
  <2> QED
    BY <1>2, <2>1 DEF Command, Steps
<1> HIDE DEF cmd
<1>4. command'[c] = cmd /\ \A x \in Commands : x # c => command'[x] = Outdate[x]
  BY <1>1, <1>2
<1>5. ~Readable'
  BY <1>1 DEF Readable
<1>6. \/ /\ command[c].at = "decided" /\ UNCHANGED <<told, wanted>>
      \/ told' = {} /\ wanted' = Absent.table /\ DOMAIN wanted' = {}
  BY <1>1, NoNames DEF Truncate
<1>7. ConfigShape'
  <2>1. command' \in [Commands -> Command]
    BY <1>1, <1>2, <1>3
  <2> QED
    BY <1>1, <1>6, <2>1 DEF ConfigShape
<1>8. FileInv' /\ BrokenOnlyByRace'
  BY <1>3, <1>4, <1>5 DEF FileInv, BrokenOnlyByRace
<1>9. CommandInv(command[c])'
  <2>1. command[c].skill \in Skills /\ command[c].skill \in Coverage(command[c].new)
    BY <1>1 DEF CommandInv
  <2>2. command[c].at = "decided" =>
          told \subseteq Coverage(command[c].new) /\ Sets(command[c].new, wanted)
    BY DEF CommandInv, FileInv
  <2> QED
    BY <1>3, <1>4, <1>5, <1>6, <2>1, <2>2 DEF CommandInv, Sets, Coverage, Covers, Load, Merge
<1>10. ASSUME NEW x \in Commands, x # c PROVE CommandInv(command[x])'
  <2>1. /\ Outdate[x].at \in {"idle", "outdated", "writing", "overlapped"}
        /\ Outdate[x].at = "idle" <=> command[x].at = "idle"
        /\ Outdate[x].skill = command[x].skill /\ Outdate[x].new = command[x].new
        /\ Outdate[x].at = "writing" => Outdate[x] = command[x]
    BY Overlapped
  <2>2. Outdate[x].at = "writing" => ~Readable /\ told \subseteq Coverage(command[x].new)
                                     /\ Sets(command[x].new, wanted)
    BY <2>1 DEF CommandInv
  <2>3. command'[x] = Outdate[x]
    BY <1>4, <1>10
  <2>4. Outdate[x].at # "idle" => Outdate[x].skill \in Skills
                                  /\ Outdate[x].skill \in Coverage(Outdate[x].new)
    BY <2>1 DEF CommandInv
  <2> QED
    BY <1>5, <1>6, <2>1, <2>2, <2>3, <2>4 DEF CommandInv, Sets, Coverage, Covers, Load, Merge
<1> QED
  BY <1>7, <1>8, <1>9, <1>10

LEMMA WriteConfig ==
  ASSUME ConfigInv, NEW c \in Commands, Write(c)
  PROVE  ConfigInv'
<1> USE DEF ConfigInv
<1> DEFINE new == command[c].new
           s == command[c].skill
<1>1. /\ command' = [Overlap EXCEPT ![c] = Idle] /\ UNCHANGED present
      /\ command[c].at \in {"writing", "overlapped"}
  BY DEF Write
<1>2. Overlap \in [Commands -> Command]
  BY Overlapped
<1>3. command'[c] = Idle /\ \A x \in Commands : x # c => command'[x] = Overlap[x]
  BY <1>1, <1>2
<1>4. new \in Contents /\ s \in Skills /\ s \in Coverage(new)
  BY <1>1 DEF ConfigShape, Command, CommandInv
<1>5. \/ /\ command[c].at = "writing" /\ file' = new /\ told' = told \cup {s}
         /\ UNCHANGED <<wanted, excuse>>
      \/ /\ file' \in {new, Broken} /\ told' = {s} /\ excuse' = TRUE
         /\ wanted' = Absent.table /\ DOMAIN wanted' = {}
  BY <1>1, NoNames DEF Write
<1>6. command[c].at = "writing" => told \subseteq Coverage(new) /\ Sets(new, wanted)
  BY DEF CommandInv
<1> HIDE DEF new, s
<1>7. ConfigShape'
  <2>1. command' \in [Commands -> Command]
    BY <1>1, <1>2, IdleCommand
  <2> QED
    BY <1>1, <1>4, <1>5, <2>1 DEF ConfigShape
<1>8. FileInv'
  BY <1>4, <1>5, <1>6 DEF FileInv, Readable, Sets, Coverage, Covers, Load, Merge
<1>9. BrokenOnlyByRace'
  BY <1>4, <1>5, NotBroken DEF BrokenOnlyByRace, Readable
<1>10. ASSUME NEW x \in Commands PROVE CommandInv(command[x])'
  <2>1. CASE x = c
    BY <2>1, <1>3, IdleCommand DEF CommandInv
  <2>2. CASE x # c
    BY <2>2, <1>3, OverlappedHolds
  <2> QED
    BY <2>1, <2>2
<1> QED
  BY <1>7, <1>8, <1>9, <1>10

LEMMA KillConfig ==
  ASSUME ConfigInv, NEW c \in Commands, Kill(c)
  PROVE  ConfigInv'
<1> USE DEF ConfigInv
<1>1. /\ UNCHANGED <<present, file, wanted, told>>
      /\ command' = [command EXCEPT ![c] = Idle]
      /\ excuse' = (excuse \/ command[c].at \in {"writing", "overlapped"})
  BY DEF Kill
<1>2. command'[c] = Idle /\ \A x \in Commands : x # c => command'[x] = command[x]
  BY <1>1 DEF ConfigShape
<1>3. ConfigShape'
  BY <1>1, IdleCommand DEF ConfigShape
<1>4. FileInv'
  BY <1>1 DEF FileInv, Readable, Sets, Coverage, Covers, Load, Merge
<1>5. BrokenOnlyByRace'
  BY <1>1, <1>2 DEF BrokenOnlyByRace, Readable
<1>6. ASSUME NEW x \in Commands PROVE CommandInv(command[x])'
  <2>1. CASE x = c
    BY <2>1, <1>2, IdleCommand DEF CommandInv
  <2>2. CASE x # c
    BY <2>2, <1>1, <1>2 DEF CommandInv, Readable, Sets, Coverage, Covers, Load, Merge
  <2> QED
    BY <2>1, <2>2
<1> QED
  BY <1>3, <1>4, <1>5, <1>6

LEMMA EditConfig ==
  ASSUME ConfigInv, NEW table \in UserTables, Edit(table)
  PROVE  ConfigInv'
<1> USE DEF ConfigInv
<1>1. /\ file' = [dirs |-> {}, table |-> table] /\ command' = Overlap
      /\ wanted' = table /\ told' = {} /\ excuse' = FALSE /\ UNCHANGED present
  BY DEF Edit
<1>2. file' \in Contents
  <2>1. table \in Tables
    BY DEF Tables
  <2> QED
    BY <1>1, <2>1 DEF Contents
<1>3. Overlap \in [Commands -> Command]
  <2>1. \A x \in Commands : Overlap[x] \in Command
    BY Overlapped
  <2>2. Overlap = [x \in Commands |-> Overlap[x]]
    BY DEF Overlap
  <2> QED
    BY <2>1, <2>2
<1>4. ConfigShape'
  BY <1>1, <1>2, <1>3 DEF ConfigShape
<1>5. Sets([dirs |-> {}, table |-> table], table)
  <2>1. Load([dirs |-> {}, table |-> table]).table = Overriding(table, DefaultTable)
    BY DEF Load, Merge
  <2>2. \A name \in DOMAIN table : /\ name \in DOMAIN Overriding(table, DefaultTable)
                                   /\ Overriding(table, DefaultTable)[name] = table[name]
    BY OverridingGives
  <2> QED
    BY <2>1, <2>2 DEF Sets
<1>6. FileInv'
  BY <1>1, <1>5 DEF FileInv, Sets, Load, Merge
<1>7. BrokenOnlyByRace'
  BY <1>2, NotBroken DEF BrokenOnlyByRace, Readable
<1>8. \A x \in Commands : CommandInv(command[x])'
  BY <1>1, OverlappedHolds
<1> QED
  BY <1>4, <1>6, <1>7, <1>8

LEMMA InstallConfig ==
  ASSUME ConfigInv, NEW s \in Skills, Install(s)
  PROVE  ConfigInv'
<1>1. UNCHANGED <<file, command, wanted, told, excuse>> /\ present' \subseteq Skills
  BY DEF Install, ConfigInv, ConfigShape
<1> QED
  BY <1>1 DEF ConfigInv, ConfigShape, FileInv, BrokenOnlyByRace, CommandInv, Readable, Sets,
              Coverage, Covers, Load, Merge

\* The inductive invariant.
THEOREM ConfigInvariant == ConfigSpec => []ConfigInv
<1>1. ConfigInv /\ [ConfigNext]_configVars => ConfigInv'
  <2> SUFFICES ASSUME ConfigInv, [ConfigNext]_configVars PROVE ConfigInv'
    OBVIOUS
  <2>1. CASE UNCHANGED configVars
    BY <2>1 DEF configVars, ConfigInv, ConfigShape, FileInv, BrokenOnlyByRace, CommandInv, Readable,
                Sets, Coverage, Covers, Load, Merge
  <2>2. ASSUME NEW c \in Commands, NEW s \in Skills, Covered(c, s) \/ Decide(c, s) PROVE ConfigInv'
    BY <2>2, CoveredConfig, DecideConfig
  <2>3. ASSUME NEW c \in Commands, Truncate(c) \/ Write(c) \/ Kill(c) PROVE ConfigInv'
    BY <2>3, TruncateConfig, WriteConfig, KillConfig
  <2>4. ASSUME NEW s \in Skills, Install(s) PROVE ConfigInv'
    BY <2>4, InstallConfig
  <2>5. ASSUME NEW table \in UserTables, Edit(table) PROVE ConfigInv'
    BY <2>5, EditConfig
  <2> QED
    BY <2>1, <2>2, <2>3, <2>4, <2>5 DEF ConfigNext
<1> QED
  BY <1>1, InitConfig, PTL DEF ConfigSpec

\* Every variable keeps its type.
THEOREM ConfigTypes == ConfigSpec => []ConfigTypeOK
<1>1. ConfigInv => ConfigTypeOK
  BY DEF ConfigInv, ConfigShape, Command, Steps, ConfigTypeOK
<1> QED
  BY <1>1, ConfigInvariant, PTL

\* What check or certify has remembered, --all finds, unless it is hidden
\* below a glob or another command overlapped.
THEOREM RememberedAlwaysFound == ConfigSpec => []RememberedIsFound
<1>1. ConfigInv => RememberedIsFound
  <2> SUFFICES ASSUME ConfigInv, Readable, NEW s \in told \cap present
               PROVE  \/ s \in Discovered(Load(file))
                      \/ s \in Hidden /\ ParentOf[s] \in Load(file).dirs
    BY DEF RememberedIsFound
  <2>1. s \in Coverage(file)
    BY DEF ConfigInv, FileInv
  <2> QED
    BY <2>1 DEF Coverage, Covers, Discovered
<1> QED
  BY <1>1, ConfigInvariant, PTL

\* Remembering never writes a default over what the user has set.
THEOREM SettingsAlwaysKept == ConfigSpec => []SettingsKept
<1>1. ConfigInv => SettingsKept
  BY DEF ConfigInv, FileInv, Sets, SettingsKept
<1> QED
  BY <1>1, ConfigInvariant, PTL

\* Only a death in the middle of a write, or two writes at once, leave a file
\* that no command can read.
THEOREM OnlyRacesBreak == ConfigSpec => []BrokenOnlyByRace
<1>1. ConfigInv => BrokenOnlyByRace
  BY DEF ConfigInv
<1> QED
  BY <1>1, ConfigInvariant, PTL
-----------------------------------------------------------------------------
(* What the ledger's commands tell, for any number of skills and findings.  *)

\* What has been certified is what check answers, until the files change.
\* The other conjuncts are the types this takes.
ReportInv ==
    /\ verdict \in [Found -> Statuses]
    /\ given \in [Found -> SUBSET Raw]
    /\ \A s \in Found : given[s] # {} => verdict[s] = ScanStatus(Parse(given[s]))

LEMMA ScanStatusType == \A levels : ScanStatus(levels) \in {"deny", "warn", "pass"}
  BY DEF ScanStatus

LEMMA InitReport == ReportInit => ReportInv
  BY DEF ReportInit, ReportInv, Statuses

LEMMA CertifyKeeps == ReportInv /\ Certify => ReportInv'
<1> SUFFICES ASSUME ReportInv, Certify PROVE ReportInv'
  OBVIOUS
<1>1. CASE UNCHANGED <<verdict, given>>
  BY <1>1 DEF ReportInv
<1>2. CASE ~UNCHANGED <<verdict, given>>
  <2>1. PICK o \in Options, raw \in Files :
            /\ ~Refused(o) /\ o.findings
            /\ verdict' = [verdict EXCEPT ![o.dir] = ScanStatus(Parse(raw))]
            /\ given' = [given EXCEPT ![o.dir] = raw]
    BY <1>2 DEF Certify
  <2>2. o.dir \in Found
    <3>1. o.dir \in Found \cup {NotGiven} /\ o.all \in BOOLEAN
      BY DEF Options
    <3>2. ~(o.all <=> o.dir # NotGiven) /\ ~o.all
      BY <2>1 DEF Refused
    <3> QED
      BY <3>1, <3>2
  <2>3. raw \subseteq Raw
    BY DEF Files
  <2>4. ScanStatus(Parse(raw)) \in Statuses
    BY ScanStatusType DEF Statuses
  <2> QED
    BY <2>1, <2>2, <2>3, <2>4 DEF ReportInv
<1> QED
  BY <1>1, <1>2

LEMMA AutoInvokeKeeps == ReportInv /\ AutoInvoke => ReportInv'
<1> SUFFICES ASSUME ReportInv, AutoInvoke PROVE ReportInv'
  OBVIOUS
<1>1. PICK those, raising :
          verdict' = [s \in Found |-> IF s \in those \ raising /\ verdict[s] = "drifted"
                                      THEN "none" ELSE verdict[s]]
  BY DEF AutoInvoke
<1>2. given' = given
  BY DEF AutoInvoke
<1>3. verdict' \in [Found -> Statuses]
  BY <1>1 DEF ReportInv, Statuses
<1>4. ASSUME NEW s \in Found, given'[s] # {}
      PROVE  verdict'[s] = ScanStatus(Parse(given'[s]))
  BY <1>1, <1>2, <1>4, ScanStatusType DEF ReportInv
<1> QED
  BY <1>2, <1>3, <1>4 DEF ReportInv

LEMMA DisturbKeeps == ReportInv /\ Disturb => ReportInv'
  BY DEF ReportInv, Disturb, Statuses

\* The inductive invariant.
THEOREM ReportInvariant == ReportSpec => []ReportInv
<1>1. ReportInv /\ [ReportNext]_reportVars => ReportInv'
  <2> SUFFICES ASSUME ReportInv, [ReportNext]_reportVars PROVE ReportInv'
    OBVIOUS
  <2>1. CASE Refuse \/ Check \/ Status
    BY <2>1 DEF ReportInv, Refuse, Check, Status
  <2>2. CASE Certify
    BY <2>2, CertifyKeeps
  <2>3. CASE AutoInvoke
    BY <2>3, AutoInvokeKeeps
  <2>4. CASE Disturb
    BY <2>4, DisturbKeeps
  <2>5. CASE UNCHANGED reportVars
    BY <2>5 DEF ReportInv, reportVars
  <2> QED
    BY <2>1, <2>2, <2>3, <2>4, <2>5 DEF ReportNext
<1> QED
  BY <1>1, InitReport, PTL DEF ReportSpec
-----------------------------------------------------------------------------
\* Exit codes and health are computed apart, from the same statuses.
LEMMA HealthByCases ==
  ASSUME verdict \in [Found -> Statuses]
  PROVE  /\ Found = {} => Health = "empty"
         /\ (\E s \in Found : verdict[s] \in Critical) => Health = "critical"
         /\ Found # {} /\ ~(\E s \in Found : verdict[s] \in Critical)
               /\ (\E s \in Found : verdict[s] \in {"drifted", "warn"}) => Health = "attention"
         /\ Found # {} /\ ~(\E s \in Found : verdict[s] \in Critical)
               /\ ~(\E s \in Found : verdict[s] \in {"drifted", "warn"})
            => Health \in {"unscanned", "healthy"}
<1>1. CASE Found = {}
  BY <1>1 DEF Health, Critical
<1>2. CASE \E s \in Found : verdict[s] \in Critical
  BY <1>2 DEF Health, Critical
<1>3. CASE Found # {} /\ ~(\E s \in Found : verdict[s] \in Critical)
  BY <1>3 DEF Health, Critical
<1> QED
  BY <1>1, <1>2, <1>3

\* check --all, check of one skill and status never contradict each other.
THEOREM SummariesAlwaysAgree == ReportSpec => []SummariesAgree
<1>1. ReportInv => SummariesAgree
  <2> SUFFICES ASSUME ReportInv PROVE SummariesAgree
    OBVIOUS
  <2>1. verdict \in [Found -> Statuses]
    BY DEF ReportInv
  <2>2. CheckAllExit = 1 <=> Health \in {"critical", "empty"}
    BY <2>1, HealthByCases DEF CheckAllExit, Critical
  <2>3. CheckAllExit = 0 => \A s \in Found : CheckExit(s) = 0
    BY DEF CheckAllExit, CheckExit
  <2> QED
    BY <2>2, <2>3 DEF SummariesAgree
<1> QED
  BY <1>1, ReportInvariant, PTL

\* A finding that names its rule and a level is never lost on the way from
\* the scanner's file to the exit codes and the word of health.
THEOREM FindingsAlwaysCount == ReportSpec => []FindingsCount
<1>1. ReportInv => FindingsCount
  <2> SUFFICES ASSUME ReportInv, NEW s \in Found, NEW f \in given[s],
                      f.rule, f.level # "missing"
               PROVE  /\ f.level = "deny" => CheckExit(s) = 1 /\ CheckAllExit = 1
                      /\ f.level = "unknown" => Health \notin {"healthy", "unscanned"}
    BY DEF FindingsCount
  <2>1. verdict[s] = ScanStatus(Parse(given[s]))
    BY DEF ReportInv
  <2>2. Level(f) \in Parse(given[s])
    BY DEF Parse
  <2>3. CASE f.level = "deny"
    <3>1. verdict[s] = "deny"
      BY <2>1, <2>2, <2>3 DEF Level, ScanStatus
    <3> QED
      BY <3>1, <2>3 DEF CheckExit, CheckAllExit
  <2>4. CASE f.level = "unknown"
    <3>1. verdict[s] \in {"deny", "warn"}
      BY <2>1, <2>2, <2>4 DEF Level, ScanStatus
    <3>2. Health \in {"critical", "attention"}
      BY <3>1, HealthByCases DEF ReportInv, Critical
    <3> QED
      BY <3>2, <2>4
  <2> QED
    BY <2>3, <2>4
<1> QED
  BY <1>1, ReportInvariant, PTL
=============================================================================
