# TLA+ models of agent-sec-core

These modules model the parts of this repository whose correctness depends on
the order of steps: of several command-line processes on the same files, of a
command that dies half way, of calls that follow each other in an order nobody
wrote a test for. Paths below are relative to `agent-sec-cli/src/agent_sec_cli/`
unless they start with another top directory of the repository.

    tlc -workers 2 -config ledger_serial.cfg MCSkillLedger     # any run of the table
    tlapm SkillLedger_proofs.tla                               # any *_proofs module

## 1. Inventory

| component | state it keeps | operations | hard behaviour | what makes it correct |
|---|---|---|---|---|
| skill ledger core (`skill_ledger/core`, `models`) | per skill directory `.skill-meta/latest.json`, `versions/v*.json`, `versions/v*.snapshot/` | `check`, `certify`, `audit`, and `--all` loops of the first two | no lock; the hook kills a check after 5 s; latest.json may be lost or damaged; certify fails half way | versions are an append-only chain, latest.json is its head, verdicts are not lost, snapshots match, audit accepts what the commands wrote |
| signing keys (`skill_ledger/signing`) | `key.enc`, `key.pub`, `keyring/` | `init-keys [--force]`, sign, verify | rotation is four writes of three files; it may fail and be tried again; first-time hooks race | a signature that was made stays verifiable, the two files hold one pair |
| ledger configuration and status (`skill_ledger/config.py`, `core/status.py`, `scanner`) | `config.json` | load, merge with defaults, remember a directory, compact, health summary | read-modify-write without lock; write in place | a directory once remembered is discovered; nothing is dropped by compacting |
| event log (`security_events/writer.py`) | `security-events.jsonl`, its backups, a lock file | append, rotate, clean up | processes and threads; the lock may fail; rotation may fail | with the lock no event is lost but by clean-up, oldest first |
| event index (`security_events/sqlite_writer.py`, `sqlite_reader.py`) | an SQLite file, one connection for each process | insert, prune at exit, rebuild after corruption, query | two processes rebuild; close beside write; locked database | an event that is in the index goes only by age or damage; a rebuild does not undo another |
| security middleware (`security_middleware`) and posture (`security_events/summary_formatter.py`) | none | invoke: route, execute, one event; `events --summary` | a back end that raises, one that answers with a failure; later events that hide earlier ones | one event for each call; the posture says what the latest commands said |
| agent hooks (`cosh-extension/hooks`, `openclaw-plugin`) | a promise (plugin) | run the command line, translate its answer; put a shell command into the sandbox and offer it again outside | time-outs, exit codes, concurrent tool calls, quoting there and back | the user hears of what was found unless the hook can name why it did not; the command offered is the one the user gave |
| linux-sandbox proxy bridges (`linux-sandbox/src/proxy.rs`) | socket directories, bridge processes, a clean-up worker | plan routes, start bridges, clean up, activate in the network namespace | processes die in any order, pids are reused | a directory outlives its bridges' use and not much longer |
| linux-sandbox policy and launch (`linux-sandbox/src/{cli,policy,bwrap_args,seccomp}.rs`) | none | policy to bubblewrap arguments and seccomp filter | pure | - |
| sandbox classification (`sandbox/`) | none | classify a command, build a policy | pure, order of rules | most severe rule wins |
| prompt scanner (`prompt_scanner/`) | model cache | layers, verdict | model loaded by several threads | verdict is the most severe; the model is loaded once |
| code scanner (`code_scanner/`) | none | regular expressions, verdict | pure | - |
| asset verification (`asset_verify/`) | none | hashes and gpg | I/O | - |
| `agent_frontend/gateway.py`, `tools/sign-skill.sh` | none | a demonstration and a release script | - | - |

How they interact: the hooks run `agent-sec-cli` as a child process for every
tool call and give it a time limit. The command line goes through
`security_middleware.invoke`, which runs one back end and writes one event to
the log and the index. The ledger's back end calls `init-keys`, `check`,
`certify` or `audit`; these share files and nothing else, with each other and
with the commands of other hooks. `check` and `certify` use the signing keys
and add the skill's directory to the configuration, from which `--all` and
`status` find the skills.

## 2. Modules

### SkillLedger: `check`, `certify`, `audit` on one skill directory

| variable | in the code |
|---|---|
| `files` | what `compute_file_hashes` would see of the skill directory, as one value |
| `latest` | `latest.json`: a manifest, no file, or a file that does not parse |
| `versions[n]`, `snapshots[n]` | `versions/v<n>.json`, `versions/v<n>.snapshot/` |
| `pc[p]`, `job[p]` | where process `p` is, and its command with the findings given to it |
| `seen[p]`, `hand[p]`, `fresh[p]` | `current_hashes`, `manifest`, `new_version_created` of `certify` and their counterparts in `check` |
| `clock` | signatures made; `updatedAt` makes each a new value |
| `acked`, `overlapped`, `still` | history, read by properties only |

Each action is one access to these files, so that two processes interleave at
every access and a process can die (`Die`) between any two. `check` is
`CheckUnparsable | CheckLatest, CheckHash`, and without a manifest
`BaselineList, BaselineNumber, WriteVersion, BaselineLatest, SnapshotBegin,
BaselineCopy` (`_auto_create_manifest`). `certify` is `CertifyHash,
CertifyLatest`, for changed files `CertifyNumber, CertifyPrevSig,
SnapshotBegin, CertifyCopy`, then `CollectEnds` (findings that do not load, no
key, nothing to do) or `CollectAndSign, WriteVersion, CertifyPublish`. `audit`
writes nothing; it is the operator `AuditErrors`. `Edit` is somebody changing
the skill, `LoseLatest` somebody removing or damaging `latest.json`.

Abstracted: file contents are model values; a manifest carries the fields the
code decides on; a manifest whose hash or signature no longer verifies is
`intact = FALSE` with its other fields kept, which is what any altered field
amounts to for `check`. It is not for `certify`, which takes version, files and scans
from `latest.json` and signs them without verifying: a `latest.json` that was rolled
back or given other scans is outside the model (section 5). A write of a manifest is one
step, because the code writes a temporary file and renames it. The batch commands are several
commands of one process. `versions/` is not damaged by the surroundings:
without that, a missing or forged version file would be the surroundings' doing
and `audit` is there to report it.

Two specifications. `Spec` is what the code allows: no lock, deaths. `SerialSpec`
is what the docstring of `core/version_chain.py` asks of callers: one command at
a time, and each runs to its end, by success or by a reported error.

### VersionChain: what the version files promise

An append-only sequence of entries. `Extend` adds an entry that names the
signature of its predecessor; `Reseal` replaces the newest entry by a signed one
for the same content. `SkillLedger` implements it (`ImplementsChain`) with the
version files as the sequence.

### KeyStore: key files, `init-keys`, signing, verification

`enc`, `pub` and `ring` are the files, a key pair is one value. `write_bytes`
truncates and then writes, so each write is two actions and `Empty` is the state
in between. `InitKeys, ArchiveRead, ArchiveCheck, ArchiveOpen, ArchiveWrite,
EncOpen, EncWrite, PubOpen, PubWrite` are `_do_init_keys`; `SignBegin,
SignFinger` are `sign`, which reads `key.enc` and then `key.pub`; `VerifyBegin,
VerifyPrimary, VerifyRing` are `verify`, which reads `key.pub` twice. `Die` is a
kill, or an I/O error such as a full disk. `ExclusiveSpec` runs `init-keys` while
no other command runs; `certify` and `check` may run side by side and all may
die. `Spec` has no exclusion. Keys are stored without passphrase; an encrypted
key adds only more ways for `SignBegin` to fail. A key file of a half written
write is empty: 32 bytes are written by one call.

### EventLog: the JSONL log of security events

| variable | in the code |
|---|---|
| `current`, `backups` | what the paths `security-events.jsonl` and `security-events.jsonl.<time>[.<n>]` name |
| `files` | every file ever created, its lines in chunks and its modification time; a file is its number here, because an open descriptor follows it through a rename |
| `mutex[p]`, `flock` | `SecurityEventWriter._lock` of process `p`, the lock on the lock file |
| `now` | the clock, for the names of backups and modification times |
| `pc[t]`, `line[t]`, `hold[t]` | where thread `t` is in `write`, the size of its line, and the name, the backups to unlink or the descriptor it holds |
| `sizes` | the lines begun so far: event `i` is the `i`-th |
| `acked`, `torn`, `stuck` | history, read by properties only |

`Call, TakeMutex, TakeFlock` (or `FlockFails`, after which the call goes on
without the lock), `Check`, and when the log would grow past its limit
`ChooseName, Move, List, Unlink`, then `Open, WriteChunk, Unlock, Release` are
`write` from its first line to its last. `MoveFails`, `CleanupFails`,
`WriteFails` and `NotSerialised` are its except clauses. `Die` is the death of a
whole process with all its threads.

Abstracted: sizes are counted in chunks, and a line is one write or several, so
that it can be torn. A rename that fails leaves the log where it is (the copy that
`shutil.move` falls back to between file systems does not occur between two names
of one directory). An unlink that fails does so for all files of the directory.
The clock does not go back. When all numbers of a backup's name are taken the
code takes the plain name and replaces that backup; `ChooseName` says so, and the
runs do not reach it, since that takes a thousand rotations in one millisecond.

### SegmentLog: what the log promises

An open segment that only grows at its end and sealed segments that never
change. `Seal` takes a new name, `Drop` takes the one last written longest ago
and leaves `Count`. `EventLog` implements it (`ImplementsSegments`) with the files
behind the paths as segments. It is not what two processes do without the lock:
one may then rename the log while the other writes to it, so that the other's line
goes to a backup, or both choose the same name. The code accepts that ("accept
small race", `security_events/writer.py:120`). A `deployment`, chosen with the initial
state, says which process each thread belongs to and whether the lock may fail; the
run has both in which the code promises sealed segments.

### EventIndex, IndexView, IndexReader: the SQLite index and its queries

`EventIndex` is the second half of `log_event`. `db` is the file at the path,
`files` all files ever made (an open connection stays with its file when that is
unlinked), `conn[p]`, `disabled[p]` and `mutex[p]` are `_conn`, `_disabled` and
`_lock` of a process, `closer[p]` is how far its `close()` is, `job[t]` a thread's
event with the state of its retry. `Call, Lock, OpenKept | OpenNew | OpenCorrupt |
OpenGivesUp, Test, Insert | InsertCorrupt | InsertSkips | InsertRaises` are `write`;
`Drop, Unlink, UnlinkLog` (or `UnlinkFails`) are `_handle_corruption`, the main file
and its write-ahead log apart; `Close, Prune, CloseHandle, Reset` are `close`, which
takes no lock and runs beside writes. Left out: an error that is not the database's own
also sets `_conn` to None (`sqlite_writer.py:162-167`). `Damage`, `Expire` and `Die` are the
surroundings. `IndexView` is the promise: events enter, the oldest leave, and only
after a damage anything else may go. `IndexReader` reads an index that keeps this
promise: filters, order, pages, counts; one query is one snapshot. Its `ORDER BY` is
the one list of the rows from the newest on (`NewestFirst`). Every row is taken to be
a well-formed event: one that is not would be dropped from a list and counted all the
same (`sqlite_reader.py:157-162`), against `QueriesAgree`.

### LedgerConfig and LedgerReport: config.json, status and exit codes

`LedgerConfig` has `config.json` as a value (`file`, or `Absent` or `Broken`), and
for each `check` or `certify` what it has decided to write. `Decide` is
`remember_skill_dir` with its merge and compaction, and `Open`, `Write` the
truncation and the writing in place; between any two of them another command, the
user or a death may come. `LedgerReport` has the findings of `certify` to a
status, the exit codes of `check` and `check --all`, and the health of `status`.
`certify` may fail, for findings that do not load, a missing key or a skill that
cannot be read; with `--all` the other skills go on (`Raising`).

### Middleware, Posture: one event for each command, and the summary

`Middleware` has `invoke` with its hooks and what the harden, verify, scan-prompt,
scan-code, log-sandbox, check and certify back ends put in an event, with the exit
code the user saw. `Posture` is the summary over a log of such events, section by
section, and its one-word posture. A hardening run raises if its arguments are refused
or its output is not text, and is logged as failed; if its tool is missing it answers.
Its rule lines may be MANUAL, too; SKIP, DRY-RUN and errors are parsed in the same way.
The section of the ledger finds the latest check of each skill in one way
(`LatestPerSkill`), posture and suggestions in another (`LatestStatuses`), as in the
code. A section picks events by their place in the log
(`Of`, `Latest`, `Ran`), the latest being the one with the largest place.
`MCPosture` has the instance for the run `posture_failure`.

### PromptScanner, CodeScanner, AgentHooks, SandboxGuard

`PromptScanner` has threads that scan with layers, fast fail and a verdict, and
the model they share: `LookUp, Lock, Recheck, DoLoad, GetPair` are `load_model`
with its double-checked lock, `Clear` is `clear_cache`, which takes none, `Enter`
and `Panic` are the inference lock, which belongs to one scanner, and the tokenizer,
which does not. `CodeScanner` is a function: inline code, Python's parentheses,
segments and targets, verdict; a text is a sequence of what it tells apart.
`AgentHooks` runs the three scanning hooks around a command with two time limits,
its own and cosh's, and an event that is logged whether or not anybody waits. Output
that a hook cannot parse, and a command that dies, are answered without a word
(`ReadNothing`).
`SandboxGuard` is the way of a shell command into `linux-sandbox` and back: sudo
stripped, quoted, run, failed, taken apart by a pattern, offered again. Any text may
follow sudo and its options; an interactive sudo is not stripped, and its words stand in
front of the text. `Closings` are the quotes at which the pattern may end.

`MCCommands` puts the parts above that are independent of each other (and
`OpenClaw`) in one state space: the variable `part` says which one a behaviour is of.

### OpenClaw: the plug-in of another agent

Handlers of one thread that interleave where they wait (`handler[c]`), and
`ensureKeysPromise` (`promise`) with the `init-keys` it stands for (`inits`).
`AwaitKeys` is the handler up to `await ensureKeys()`, `InitReturns` the end of
that command, `RunCheck` and `Return` the check and what is made of its exit code
and answer, `BeginScan` and `Return` the other two handlers. Keys are made by
`init-keys` or somebody else, and may be removed (`LoseKeys`, bound `MaxLosses`).

### ProxyBridges: managed proxy mode of linux-sandbox

| variable | in the code |
|---|---|
| `dirs`, `sockets` | which launcher made the directory at each path `linux-sandbox-proxy-<pid>-<attempt>`, and which bridge listens on each socket in it |
| `launch[i]` | a launcher: process id, environment, where it is, its directory, and the directories its clean-up has still to look at |
| `bridge[i][e]` | its bridge for endpoint `e`: forked, armed (it gets a signal when the launcher ends), bound, serving, gone |
| `worker[i]` | its clean-up worker |

`Launch, TestOwner, RemoveStale, CreateDir, ForkBridge, ForkWorker` are
`prepare_host_proxy_route_spec`, after which the launcher is bwrap; `Activate` is
`activate_proxy_routes_in_netns` in its child. `Arm, Bind, TellReady` are
`run_host_bridge`; `SeesAllGone, RemoveOwn` the worker. `Die`, `Fail` and
`KillWorker` may come at any time, and process ids are used again. A directory is
read and removed in one step each, but tested in one and removed in another. What
flows through a bridge is left out, and so are the local bridges, which hold no
state outside one sandbox; `Routes` says where each variable leads.

## 3. Runs

| run | specification and bounds | properties | states | shows |
|---|---|---|---|---|
| `ledger_serial` | `SerialSpec`, 2 contents, 1 scanner, 3 versions, 3 signatures | `LatestIsNewest`, `AuditAcceptsSigned`, `SnapshotsMatch`, `ImplementsChain` | 519 746 | with commands one at a time the ledger is the chain, latest.json its head |
| `ledger_crash` | `Spec`, 1 process, 2 contents, 2 scanners, 2 versions, 2 signatures | `LatestOnRecord`, `NoLostScan`, `VersionKeepsContent` | 940 075 | what a command that dies anywhere leaves to the next one |
| `ledger_overlap` | `Spec`, 2 processes, 2 contents, 1 scanner, 2 versions, 2 signatures | `TypeOK`, `NoGap` | 1 825 520 | what holds without any lock |
| `ledger_trail` | `SerialSpec`, 3 versions | `AuditTrailIntact`: violated | | see findings |
| `keystore` | `ExclusiveSpec`, 2 processes, 4 key pairs | `NoFalseAlarm`, `WholeAfterInit`, `KeyringOnlyGrows` | 29 750 | rotations, failed ones too, lose no key and raise no false alarm |
| `keystore_archive` | `Spec`, 1 process, 3 key pairs | `RotationKeepsSignatures`: violated | | see findings |
| `eventlog` | `FairSpec`, 2 threads, lines of 1 and 2 chunks, limit 3, 1 backup, 3 events, 2 times; two processes and a lock that works, or one process and a lock that may fail | `TypeOK`, `TornLinesBounded`, `LimitKept`, `ImplementsSegments`, `EveryWriteReturns` | 126 010 | the log is sealed segments whatever fails or dies, within one process even without the lock file, and every call returns |
| `eventindex` | `Spec`, 3 threads in 2 processes, 2 events, 3 files, 2 damages | `SecondTryIsEnough`, `ImplementsView`, `OneRebuildEach`, `SoundKeptByWitness`, `RaisesOnlyAtExit` | 1.25 million | rebuilds, retries and close() beside writes lose nothing from an index that was not damaged |
| `commands` | `Spec` of `MCCommands`: 2 commands, 3 skills, 2 directories; 2 skills of 2 findings; 3 events to query; 3 events in the log, 1 rule, 1 shipped skill, 2 of the ledger; 2 threads and scanners, 1 release; shell commands of 4 characters and options of sudo in all; 2 plug-in calls | `RememberedIsFound`, `SettingsKept`, `BrokenOnlyByRace`, `SummariesAgree`, `FindingsCount`, `QueriesAgree`, `PagingMissesNothing`, `PostureAsTold`, `AlarmsAgree`, `LoadedOnce`, `AnsweredOrExcused`, `ToldOrFailed`, `CommandKept`, `KeysTried` | 549 240 | the parts around ledger and log, one after the other |
| `posture_failure` | `MiddlewareSpec`, 2 rules, 3 skills, 3 events | `FailureShown`: violated | | see findings |
| `proxy` | `FairSpec`, 3 launchers, 2 process ids, 2 names for directories | `NoOrphanServes`, `RoutesLead`, `LiveDirKept`, `DirGoes` | 325 775 | clean-up takes no directory of a live launcher but in one race, and leaves none that it could take |
| `plugin_alarm` | `PluginSpec`, 1 call | `DenialWarned`: violated | | see findings |

Why the bounds are enough. Three versions are a first, a middle and a last one,
which is all the chain tells apart; the maximum number (999999 in the code) is
reached at `MaxVersion`. Two contents let files change and change back, a state
in which a snapshot directory of the wrong content is possible. Two scanners
let one certify keep or drop the other's verdict. Four key pairs let a signature
be three rotations old. Symmetry is used for processes, contents, keys, threads of
one process, commands and skills, which the specifications treat alike, and in no
run with a liveness property; `ledger_overlap` leaves the history variables out of
the fingerprint (`WithoutHistory`), as neither its properties nor any guard reads
them. In the event log three events of up to two chunks fill a file of three twice
over, with one backup kept and one cleaned up; the second time value makes backups
collide in their name or differ in their age.

For the index, three files are a damaged one, its replacement, and the replacement
of that by a rebuilder that comes late; two damages are what it takes to lose the
event whose write finds them; two threads of one process queue at its lock while
the third process rebuilds beside them. Two commands are enough for one to
overtake the other at any access of `config.json`, and three skills for one that is
hidden and two in one directory, which is when entries are folded. Three events
let a later one hide an earlier one and a third bring it back. One rule of the
baseline passes, fails, is fixed or is left to the user, which is all the posture
tells apart. Two threads are
a loader and one that waits or comes late; with two scanners they share a model and
no inference lock. Four characters hold a quote with a backslash on
either side; with `sudo -i` before it a text of three is still one that is misread.
Three launchers are needed for the case `LiveDirKept` excepts: one dies, the second
tests its directory, the third takes its id and its directory's name. One of the
three has four variables (two for one endpoint, one for another, one remote), the
others one bridge each: that keeps the run small and every pair of shapes in it.

Deadlock is not checked where a bound ends the behaviours: events in `eventlog`,
launches in `proxy`. Everything else can always go on. `EveryWriteReturns` is what
excludes waiting for ever in the log.

The type invariants of `KeyStore`, `EventIndex`, `LedgerConfig`, `ProxyBridges` and
`OpenClaw` are no properties of a run because they are proved; those of `SkillLedger`
and `EventLog` are both.

Liveness. `EveryWriteReturns` assumes the `Fairness` of `EventLog`. A thread that
needs nothing from another goes on (weak fairness of `Run`), which the operating
system's scheduler provides. A thread that waits for a lock which is free again and
again gets it (strong fairness of `TakeMutex` and `TakeFlock`): the kernel queues
those who wait for `flock`, and the pending acquisitions of a `threading.Lock` are
semaphore waits in the kernel. `DirGoes` assumes that bridges and workers go on
(weak fairness), again the scheduler; a worker polls with `kill(pid, 0)`, and the
model takes it that an ended bridge's id is not held for ever by another process.
Launchers need no fairness: the property starts when one has ended. Deaths and
errors are not fair; they may happen or not. For the ledger and the keys progress
would say nothing, since nothing there waits.

### Findings

* `ledger_trail`. `check` makes an unsigned baseline when `latest.json` is gone.
  `core/checker.py:70-72` says the chain linkage fields are preserved so the
  audit trail stays intact; `audit` reports the baseline as unsigned and, after
  the next version, as missing.
* `keystore_archive`. An archive write that fails leaves an empty file under the
  key's name, the next `init-keys --force` takes it for archived
  (`signing/key_manager.py:109`) and overwrites the only copy of the public key.
* `posture_failure`. Back ends answer with a failure instead of raising, and
  `post_action` (`security_middleware/lifecycle.py:59`) logs every answer as
  succeeded, so a hardening run whose tool is missing leaves the posture good;
  the tests of the summary expect a failed run to need attention.
* `plugin_alarm`. `check` exits with 1 for `deny` and `tampered`; the plug-in takes
  every such exit for a failed command (`openclaw-plugin/src/capabilities/skill-ledger.ts:153`)
  and never gives the two warnings it has for them, which the design promises
  (`docs/design/SKILL_LEDGER_CN.md:565-566`).

### Smaller divergences met on the way

These have no run of their own; the models have the code's behaviour.

* A command killed between the two writes of `save_manifest` leaves `latest.json`
  one behind; `docs/design/SKILL_LEDGER_CN.md:142` says it always names the newest
  version. A later certify repairs that (`LatestOnRecord`, `NoGap`).
* `status` answers healthy when some skills pass and the others were never scanned
  (`core/status.py:98-101`); `core/status.py:86` and the user guide
  (`docs/guide/SKILL_LEDGER_USER_GUIDE_CN.md:106`) say that all pass. `SummariesAgree`
  therefore says nothing of healthy, and `FindingsCount` only that a level which no
  parser knows does not give it.
* `Compliance` adds the fixes of all reinforcing runs of the window, also of those
  older than the latest scan (`summary_formatter.py:198`), and can exceed its total.
* `check --all` names no skill in its request, so its results reach no posture.
* `events --count` ignores `--trace-id`, and `--count-by` every filter but the times.
* `preprocessor.py:23-27` strips the invisible characters that two of the rules
  look for; only other rules can still see such a text.
* The code scanner looks at inline code in place of the rest of the command
  (`code_scanner/scanner.py:85-90`), and a target before the main pattern hides one
  after it (`regex_engine.py:54-56`): `LooksPast`.
* Options of sudo after one with an argument stay in front of the command:
  `sudo -u root -n cmd` runs `-n cmd`. The failure handler reads a backslash in
  single quotes as an escape: `Misread`. Both are exceptions of `CommandKept`, the second
  for a command without sudo or with an interactive one, as neither has a COSH_RC.
* A launcher with a process id used before can lose its directory to a clean-up
  that found the earlier owner dead (`Reused`, exception of `LiveDirKept`).
* cosh gives the hooks for code and for skills 5 s (`cosh-extension.json:13, 25`), and
  these give their commands 10 s, and 3 s and then 5 s: cosh may end a hook before
  the hook's own limit does (`KillHook`), and such a hook reports nothing.

## 4. Proofs

Everything is proved for all values of the constants. The ledger's proofs assume
`LedgerAssumption`: `MaxVersion` is positive, and the markers for absent,
unparsable and partial files are no manifest or content. Those of the keys assume
`KeyAssumption`: an absent and an empty file are two things and neither is a key.
The others assume the shape of their constants only (`ConfigAssumption`,
`ScannerAssumption`, `IndexAssumption`, `LogAssumption`, `ProxyAssumption`,
`CodesAssumption`, `PluginAssumption`, `ReaderAssumption`, `MiddlewareAssumption`,
`GuardAssumption`): finitely many threads, endpoints, shipped assets and events, events
numbered by their time, sizes and bounds that are numbers, lines of at least one chunk.

`SkillLedger_proofs`
* `LedgerInvariant`, with `TypeCorrect` and `NumbersWithoutGap`: any number of
  processes that overlap and die. `NoGap` is not inductive, since a process may
  hold a number it took long ago. `Ready(p)` adds that the number in hand is at
  most one past a listed version before it is written (`NumberedSteps`) and
  listed after (`WrittenSteps`); versions are never removed, so nothing another
  process does disturbs that.
* `AloneInvariant`, with `LatestIsOnRecord` and `VersionsKeepContent`: behaviours
  without overlap, deaths included. `OneBusy` says at most one process is inside
  a command; `Stamped` orders signatures by the clock; `OnRecord` and `Held`
  relate the manifest in hand to the files at every step.
* `NoScanIsLost`: also without overlap, deaths included. `ScanInv` follows an
  acknowledged verdict: its version is listed (`AckedListed`), latest.json carries it
  if it is for that version (`LatestCarries`), and so does the manifest that a
  command merges its findings into, from reading to writing (`Carries(p)`).
* `SerialInvariant`, with `LatestAlwaysNewest`: commands one at a time. `Newest`
  says latest.json is the last version when nobody is between the two writes;
  `Linked(p)` says the manifest in hand names the signature of the version it
  will follow, or is the last version itself.
* `LedgerImplementsChain`: `SerialSpec` implements `VersionChain`. The only step
  that is not a stutter is `WriteVersion`, which extends the sequence or seals
  its last entry again (`WriteIsChainStep`); the others keep the entries
  (`OtherStepsKeepEntries`).
* `FilesInvariant`, with `AuditAlwaysAccepts` and `SnapshotsAlwaysMatch`. `AuditInv`
  says every version is intact and names the signature of the one before it if that
  is signed. `SnapshotInv` holds as long as nobody edits the skill during a command
  (`still`): every snapshot has its version's content but the one whose baseline
  `check` is making, and the command works on the content it has hashed (`Hashed`).

`KeyStore_proofs`, all under `ExclusiveSpec`
* `KeyInvariant`, with `TypeCorrect`, `WholeAfterInitHolds` and `ArchivedKeysStay`:
  also after an `init-keys` that has failed. `Alone` says a process inside
  `init-keys` is the only one inside a command; `InHand(p)` relates what it holds to
  the files: while it archives, it holds the current public key, whose file in the
  keyring was absent when it looked.
* `NeverFalseAlarm`: as long as nothing has failed. `Kept` says that every
  signature's key is in `key.pub` or whole in the keyring. It survives the
  overwriting of `key.pub` because `Sound(p)` says the archived copy is whole by then,
  which needs `RingWhole` (a file of that name is no half-written one, or the check
  "already archived" would be wrong) and `OnePair` (the two files hold one pair
  between commands, so a signature's key and fingerprint agree).

`EventIndex_proofs`, for any number of processes, threads, files and damages
* `IndexInvariant`, with `IndexTypes`. `ProcessInv(p)` says a process neither finds
  at the path nor has open a file it has rebuilt for: unlinked names do not come
  back, and `Drop` comes before `Unlink`. `Met(t)` ties a thread's retry state to the
  damaged file it has met. From these follow `AlwaysOneRebuildEach`,
  `SoundAlwaysKeptByWitness` and `RaisesAlwaysAtExit` for every step, and
  `SecondTryAlwaysEnough`: both tries find a damaged file only if two were (`Twice`).
* `LockAlwaysGivenBack`: `HeldInv` is the converse of what `ThreadInv` says of the lock, so
  that it is held by a thread of its process that is inside a write, however the others
  ended.
* `IndexImplementsView`: the refinement, one lemma for each kind of step that
  changes what a query sees.

`LedgerConfig_proofs`
* `ConfigInvariant`, with `ConfigTypes`, `RememberedAlwaysFound`, `SettingsAlwaysKept`
  and `OnlyRacesBreak`: `CommandInv` says that what a command nothing has overlapped
  will write covers what the file covers, and its own skill. `Coverage` is what makes
  compaction harmless: an entry may go only if a glob covers it.

  (`LedgerReport` is proved about in the same module.)
* `ReportInvariant`, with `SummariesAlwaysAgree` and `FindingsAlwaysCount`, for any
  set of skills and any number of findings.

`EventLog_proofs`, for any number of threads, processes, files and sizes of lines
* `LogTypes`. `TypeInv` adds to the types what a thread has in hand at each step, and
  that lines begun and threads that may still begin one are together within the bound.
* The others need that one thread is inside at a time. `Exclusive` says when the code
  promises that: the lock works, or all threads are of one process; it constrains
  the `deployment` only, which no step changes. `LockInv` derives the exclusion.
* `LimitAlwaysKept`, as long as no rename has failed: `Fitting(t)` carries the outcome of
  `_needs_rotation` from the check to the last chunk of the line.
* `TornLinesAlwaysBounded`: `LayoutInv` says that a chunk follows the earlier ones of its
  line (`InOrder`), is nowhere else (`Once`), that acknowledged lines are complete
  (`AckedWhole`), that a line being written is at the end of its file (`AtEnd`), and that
  `torn` counts the lines given up. What a reader cannot decode, an acknowledged line
  behind a torn one, is mapped one to one to the torn line in front of it.
* `LogImplementsSegments`: the refinement, with one lemma for each step that is not a
  stutter. It has one more hypothesis, `NamesLeft`: a name for a backup is free
  whenever one is chosen. It is needed, since with all names taken the code uses the
  plain name and replaces that backup; in the run it always holds.
* `NobodyWaitsInVain`, whether the lock works or not: `HeldInv`, the converse of
  `LockInv`, says that a lock is held only by a call that is past taking it and has not
  released it. The flock is taken last, so its holder waits for nothing.

`ProxyBridges_proofs`, for any number of launchers, process ids, names and endpoints
* `BridgesInvariant`, with `BridgesTypes` and `OrphansNeverServe`. `Made` says that a
  directory, and every one a clean-up has still to look at, was made by a launcher of
  the id in its name; `Order` that the id of one that runs is not given again;
  `InTurn` that bridges start one after the other, so that a launcher that has gone on
  has them all and a worker that removes has seen them all end.
* `LiveDirAlwaysKept`, for every step: `WhoRemoves` says that the directory of a live
  launcher goes by its own worker only, unless an earlier launcher had one of that name
  (`NoOtherHad`), which is the excepted case.
* `RoutesAlwaysLead`: `Kept` says a launcher that runs owns its directory, with each
  socket bound by its own bridge. It rests on the numbering of sockets being one to
  one (`SocketOf`), whatever the environment.

`AgentHooks_proofs`, each part for any value of its constants
* `ScannerInvariant`, with `ModelLoadedOnce` and `AlwaysAnsweredOrExcused`, of
  `PromptScanner`. `Loading(t)` says that only the holder of the load lock fills the
  cache, and that it is empty while it does; `Counted` that loads exceed releases by
  one exactly when a model is cached; the rest relates each scan's progress to its
  promised verdict. `ScanLocksGivenBack` adds that neither lock outlives the scan that
  took it, also when the model is not there or the tokenizer panics.
* `HooksInvariant`, with `AlwaysToldOrFailed`, of `AgentHooks`: event, printed verdict
  and exit code follow from the request, and so does what is told (`Told`), unless the
  hook ended without an answer. `FindingsMean` and `ScanMeans` say of the code scanner,
  for texts of any length, that it finds what a rule is about or looks past it. They
  need of `Normalize` only that it keeps the length, not how deep its parentheses are.
* `PluginInvariant`, with `KeysAlwaysTried`, of `OpenClaw`: one `init-keys` exactly while
  the promise is pending, and only calls that wait for it wait.

`Commands_proofs`, on `IndexReader`, `Posture` and `SandboxGuard`
* `ReaderInvariant`, with `PagesAreComplete` and `CountsAgree`, of `IndexReader`, for any
  finite set of events. That an event which stays is not missed is not inductive in terms
  of what has been read; `ReaderInv` counts instead: if it has not been read, at least as
  many newer ones match as the offset skips. Insertions add to the newer ones, and what
  leaves is older than what stays. `NewestFirstFacts` says that the list of a query has each
  row once, behind as many newer ones as its place says; `GroupsAddUp` that groups can be
  added up in any order.
* `LogInvariant`, with `PostureTold` and `AlarmsAreThePosture`, of `Middleware` and
  `Posture`, for any number of rules, assets, skills and events. `LogInv` says what each
  back end's events look like, failed ones too (`Shape`), as every command ends in one of
  `post_action` or `on_error` (`InvokeKeeps`). Without it nothing ties a verification's
  count, which the summary reads, to the exit code, which the user has seen. For a
  hardening run that raised, the posture calls without a suggestion: `FailureCounts` says
  that the footer counts it. `PerSkillSame` says that the two ways to the latest checks
  find the same ones.
* `CommandIsKept` of `SandboxGuard`, for texts and options of any length. `GuardInv` says
  that what is offered was extracted from the line that ran, and what ran was built from
  the agent's command. The rest is about the operators: `EscapeUndone`, that putting the quotes
  back undoes the quoting of any text, and `CapturedWhole`, that the pattern captures
  such a text up to its closing quote, and has one, if it is not misread: its steps stay on the places
  where the text's characters begin (`Places`), as a run of backslashes is taken in pairs
  (`EvenRun`). `TextComesBack` is the two together.

Induction over data. The library's induction theorems cannot be used here (they take
operators), so where a proof follows a list, a text or a recursive function it takes the
set of numbers for which the claim fails and its least element (`LeastOf`, from the
well-foundedness of `<`; `UpTo`, `DownFrom`); that a recursive function exists is shown by
building it up (`Iterated`).

With TLC, `ReaderInv`, `LogInv` and `GuardInv` hold in the instance of `commands`.

Only model-checked: `EveryWriteReturns` and `DirGoes`, which are liveness under fairness.
`NobodyWaitsInVain` is the part of the first that a proof reaches; that the one who can go
on does, and that a waiter gets its turn, is the fairness of section 3.
The four runs that expect a violation show a counterexample and need no proof.

## 5. Not modelled, and the plan

| part | why not |
|---|---|
| sandbox classification (`sandbox/`) | pure rules over a parsed command line; the rules are data |
| linux-sandbox policy and launch | pure translation of a policy into arguments and a filter |
| `agent_frontend/gateway.py`, `tools/sign-skill.sh` | a demonstration and a release script without state |
| intent and summary back ends | a stub, and counts that `IndexReader` has |
| regular expressions, the neural model, gpg, loongshield | external or data: inputs of the models |
| the 10 000 events a summary reads at most | a bound no short log reaches |

Within the modelled parts: process ids of unrelated processes beyond the test for
stale directories, nested process-id namespaces, command texts that contain the
marker the sandbox guard itself adds, clocks that go back; a `latest.json` whose version
or scans were altered and that `certify` signs again; rows of the index that are no
events; a clean-up of backups that fails for some files and not for others.

Open: a rotation beside a `certify` in `KeyStore`, which is in no behaviour of
`ExclusiveSpec`; and which misread texts come back all the same, as two runs can
cancel out (a text of a backslash, a quote, a backslash and a quote does), so that
`Misread` excepts a few texts too many.
