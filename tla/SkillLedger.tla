----------------------------- MODULE SkillLedger -----------------------------
(***************************************************************************)
(* The skill ledger of one skill directory                                 *)
(* (agent-sec-cli/src/agent_sec_cli/skill_ledger/core): the commands check *)
(* and certify, run by any number of command-line processes, on the files  *)
(*                                                                         *)
(*   <skill>/...                          files                            *)
(*   <skill>/.skill-meta/latest.json      latest                           *)
(*   .../versions/v<n>.json               versions[n]                      *)
(*   .../versions/v<n>.snapshot/          snapshots[n]                     *)
(*                                                                         *)
(* One action is one access to those files.  Nothing in the code locks     *)
(* them (version_chain.py says so), so steps of two processes interleave,  *)
(* and a process may die between two of its steps: the hooks kill a check  *)
(* that takes longer than five seconds.                                    *)
(***************************************************************************)
EXTENDS Integers, FiniteSets, FiniteSetsExt

CONSTANTS
    Procs,        \* command-line processes working on the directory
    Contents,     \* what the files of the skill directory can hold
    Scanners,     \* names given to certify --scanner
    Given,        \* bound: scan verdicts that findings files lead to
    Damage,       \* bound: what may happen to latest.json (LoseLatest)
    MaxVersion,   \* the largest version number (999999 in the code)
    MaxStamp,     \* bound: signatures made in one behaviour
    NoFile,       \* a file or directory that does not exist; no manifest
    Unparsable,   \* a latest.json that exists and does not parse
    Partial       \* a snapshot directory that is not a full copy

VARIABLES
    files,        \* content of the skill directory
    latest,       \* latest.json
    versions,     \* versions/v<n>.json
    snapshots,    \* versions/v<n>.snapshot/
    clock,        \* signatures made so far; the next one is clock + 1
    pc,           \* the next step of each process
    job,          \* the command each process runs
    seen,         \* current_hashes: the content the process hashed
    hand,         \* manifest: the manifest the process holds
    fresh,        \* new_version_created
    acked,        \* history: the last scan acknowledged for each scanner
    overlapped,   \* history: a command started while another was running
    still         \* history: nobody edited the skill while a command ran

disk  == <<latest, versions, snapshots>>
local == <<job, seen, hand, fresh>>
ghost == <<acked, overlapped, still>>
vars  == <<files, disk, clock, pc, local, ghost>>
-----------------------------------------------------------------------------
NoSig      == 0
Verdicts   == {"pass", "warn", "deny"}
ScanStatus == Verdicts \cup {"none"}

\* scans[]: at most one entry for each scanner
Scans  == [Scanners -> Verdicts \cup {"absent"}]
NoScan == [s \in Scanners |-> "absent"]

VersionIds == 1 .. MaxVersion

\* intact: manifestHash matches and the signature, if any, verifies
Manifest == [vid : VersionIds, prevVid : {0} \cup VersionIds,
             content : Contents, scans : Scans, scanStatus : ScanStatus,
             prevSig : Nat, sig : Nat, intact : BOOLEAN]

\* a command: certify may be given a findings file (entries), one that
\* cannot be loaded (readable = FALSE), or none (entries = NoScan)
Job == [op : {"check", "certify"}, readable : BOOLEAN, entries : Scans]

CheckJob == [op |-> "check", readable |-> TRUE, entries |-> NoScan]
CertifyJobs ==
    LET one == {e \in Scans : \E s \in Scanners, v \in Given :
                                  e = [NoScan EXCEPT ![s] = v]}
    IN  [op : {"certify"}, readable : BOOLEAN, entries : {NoScan}]
        \cup [op : {"certify"}, readable : {TRUE}, entries : one]

CheckSteps   == {"check_hash", "base_list", "base_number", "base_version",
                 "base_latest", "base_begin", "base_copy"}
CertifySteps == {"latest", "number", "prev_sig", "begin", "copy", "collect",
                 "version", "publish"}

ASSUME LedgerAssumption ==
    /\ MaxVersion \in Nat \ {0} /\ MaxStamp \in Nat /\ Given \subseteq Verdicts
    /\ NoFile \notin Manifest /\ Unparsable \notin Manifest
    /\ NoFile # Unparsable
    /\ NoFile \notin Contents /\ Partial \notin Contents
    /\ NoFile # Partial
-----------------------------------------------------------------------------
(* version_chain.py, scan.py, manifest.py                                  *)

\* list_version_ids
Listed == {v \in VersionIds : versions[v] # NoFile}

LastListed == Max({0} \cup Listed)

\* mutant: ids[0] for ids[-1]
OldestSig == IF Listed = {} THEN NoSig ELSE versions[1].sig

\* get_previous_signature
PreviousSig == IF Listed = {} THEN NoSig ELSE versions[LastListed].sig

\* aggregate_scan_status: the most severe status; "none" without scans
Aggregate(scans) ==
    CASE \E s \in Scanners : scans[s] = "deny" -> "deny"
      [] (\E s \in Scanners : scans[s] = "warn")
           /\ (\A s \in Scanners : scans[s] # "deny") -> "warn"
      [] (\E s \in Scanners : scans[s] = "pass")
           /\ (\A s \in Scanners : scans[s] \notin {"deny", "warn"}) -> "pass"
      [] OTHER -> "none"

\* mutant: the new entries replace all of scans[]
MergeReplacing(old, entries) == entries

\* the loop of certify's phase 3: replace the entry of the same scanner
Merge(old, entries) ==
    [s \in Scanners |-> IF entries[s] = "absent" THEN old[s] ELSE entries[s]]

\* mutant: previousManifestSignature is forgotten
NewManifestUnlinked(v, pv, content, sig) ==
    [vid |-> v, prevVid |-> pv, content |-> content, scans |-> NoScan,
     scanStatus |-> "none", prevSig |-> NoSig, sig |-> NoSig, intact |-> TRUE]

NewManifest(v, pv, content, sig) ==
    [vid |-> v, prevVid |-> pv, content |-> content, scans |-> NoScan,
     scanStatus |-> "none", prevSig |-> sig, sig |-> NoSig, intact |-> TRUE]
-----------------------------------------------------------------------------
TypeOK ==
    /\ files \in Contents
    /\ latest \in Manifest \cup {NoFile, Unparsable}
    /\ versions \in [VersionIds -> Manifest \cup {NoFile}]
    /\ snapshots \in [VersionIds -> Contents \cup {NoFile, Partial}]
    /\ clock \in Nat
    /\ pc \in [Procs -> {"idle"} \cup CheckSteps \cup CertifySteps]
    /\ job \in [Procs -> Job]
    /\ seen \in [Procs -> Contents \cup {NoFile}]
    /\ hand \in [Procs -> Manifest \cup {NoFile}]
    /\ fresh \in [Procs -> BOOLEAN]
    /\ acked \in [Scanners -> [vid : {0} \cup VersionIds,
                               verdict : Verdicts \cup {"absent"}]]
    /\ overlapped \in BOOLEAN /\ still \in BOOLEAN

Init ==
    /\ files \in Contents
    /\ latest = NoFile
    /\ versions = [v \in VersionIds |-> NoFile]
    /\ snapshots = [v \in VersionIds |-> NoFile]
    /\ clock = 0
    /\ pc = [p \in Procs |-> "idle"]
    /\ job = [p \in Procs |-> CheckJob]
    /\ seen = [p \in Procs |-> NoFile]
    /\ hand = [p \in Procs |-> NoFile]
    /\ fresh = [p \in Procs |-> FALSE]
    /\ acked = [s \in Scanners |-> [vid |-> 0, verdict |-> "absent"]]
    /\ overlapped = FALSE /\ still = TRUE
-----------------------------------------------------------------------------
(* Steps shared by the commands                                            *)

Quiet == \A p \in Procs : pc[p] = "idle"

\* the command ends, and its locals with the process
Finish(p) ==
    /\ pc' = [pc EXCEPT ![p] = "idle"]
    /\ job' = [job EXCEPT ![p] = CheckJob]
    /\ seen' = [seen EXCEPT ![p] = NoFile]
    /\ hand' = [hand EXCEPT ![p] = NoFile]
    /\ fresh' = [fresh EXCEPT ![p] = FALSE]

Goto(p, step) ==
    /\ pc' = [pc EXCEPT ![p] = step]
    /\ UNCHANGED job

\* a process takes up command j; the bound on signatures is kept here
Start(p, j) ==
    /\ pc[p] = "idle"
    /\ j.op = "certify" =>
           clock + Cardinality({q \in Procs : pc[q] # "idle"}) < MaxStamp
    /\ job' = [job EXCEPT ![p] = j]
    /\ overlapped' = (overlapped \/ ~Quiet)
    /\ UNCHANGED <<files, disk, clock, fresh, acked, still>>
-----------------------------------------------------------------------------
(* check (checker.py)                                                      *)

\* step 1: a latest.json that does not parse is answered with tampered
CheckUnparsable(p) ==
    /\ latest = Unparsable
    /\ Start(p, CheckJob)
    /\ UNCHANGED <<pc, seen, hand>>

CheckLatest(p) ==
    /\ latest # Unparsable
    /\ Start(p, CheckJob)
    /\ hand' = [hand EXCEPT ![p] = latest]
    /\ pc' = [pc EXCEPT ![p] = "check_hash"]
    /\ UNCHANGED seen

\* steps 3 to 6: the answer for manifest m and content c
CheckAnswer(m, c) ==
    CASE m.content # c -> "drifted"
      [] m.content = c /\ ~m.intact -> "tampered"
      [] m.content = c /\ m.intact /\ m.sig = NoSig -> "none"
      [] OTHER -> m.scanStatus

\* step 2: hash the files; without a manifest go on to create one
CheckHash(p) ==
    /\ pc[p] = "check_hash"
    /\ \/ /\ hand[p] = NoFile
          /\ seen' = [seen EXCEPT ![p] = files]
          /\ Goto(p, "base_list")
          /\ UNCHANGED <<hand, fresh>>
       \/ /\ hand[p] # NoFile
          /\ Finish(p)   \* the answer is CheckAnswer(hand[p], files)
    /\ UNCHANGED <<files, disk, clock, ghost>>

\* _auto_create_manifest: the first listing gives the previous version
BaselineList(p) ==
    /\ pc[p] = "base_list"
    /\ \/ /\ Listed = {}
          /\ hand' = [hand EXCEPT ![p] = NewManifest(1, 0, seen[p], NoSig)]
          /\ Goto(p, "base_version")
       \/ /\ Listed # {}
          /\ hand' = [hand EXCEPT ![p] =
                 NewManifest(LastListed, LastListed, seen[p], NoSig)]
          /\ Goto(p, "base_number")
    /\ UNCHANGED <<files, disk, clock, seen, fresh, ghost>>

\* next_version_id lists again; then the previous version is loaded
BaselineNumber(p) ==
    /\ pc[p] = "base_number"
    /\ \/ /\ LastListed >= MaxVersion
          /\ Finish(p)   \* an error
       \/ /\ LastListed < MaxVersion
          /\ hand' = [hand EXCEPT ![p] =
                 NewManifest(LastListed + 1, hand[p].prevVid, seen[p],
                             versions[hand[p].prevVid].sig)]
          /\ Goto(p, "base_version")
          /\ UNCHANGED <<seen, fresh>>
    /\ UNCHANGED <<files, disk, clock, ghost>>

\* mutant: a version file that exists is not written again
WriteVersionOnce(p, step, next) ==
    /\ pc[p] = step
    /\ versions' = IF hand[p].vid \in Listed THEN versions
                   ELSE [versions EXCEPT ![hand[p].vid] = hand[p]]
    /\ Goto(p, next)
    /\ UNCHANGED <<files, latest, snapshots, clock, seen, hand, fresh, ghost>>

\* save_manifest, first write
WriteVersion(p, step, next) ==
    /\ pc[p] = step
    /\ versions' = [versions EXCEPT ![hand[p].vid] = hand[p]]
    /\ Goto(p, next)
    /\ UNCHANGED <<files, latest, snapshots, clock, seen, hand, fresh, ghost>>

\* save_manifest, second write
BaselineLatest(p) ==
    /\ pc[p] = "base_latest"
    /\ latest' = hand[p]
    /\ Goto(p, "base_begin")
    /\ UNCHANGED <<files, versions, snapshots, clock, seen, hand, fresh, ghost>>

\* mutant: an existing snapshot directory is kept
SnapshotBeginOver(p, step, next) ==
    /\ pc[p] = step
    /\ snapshots' = [snapshots EXCEPT ![hand[p].vid] =
                        IF @ = NoFile THEN Partial ELSE @]
    /\ Goto(p, next)
    /\ UNCHANGED <<files, latest, versions, clock, seen, hand, fresh, ghost>>

\* create_snapshot: an existing directory is removed, an empty one made
SnapshotBegin(p, step, next) ==
    /\ pc[p] = step
    /\ snapshots' = [snapshots EXCEPT ![hand[p].vid] = Partial]
    /\ Goto(p, next)
    /\ UNCHANGED <<files, latest, versions, clock, seen, hand, fresh, ghost>>

\* ... and the files, as they are now, are copied into it.  A directory
\* another process filled with something else in between ends up mixed.
Copied(v) ==
    IF snapshots[v] \in Contents \ {files} THEN Partial ELSE files

BaselineCopy(p) ==
    /\ pc[p] = "base_copy"
    /\ snapshots' = [snapshots EXCEPT ![hand[p].vid] = Copied(hand[p].vid)]
    /\ Finish(p)   \* the answer is none
    /\ UNCHANGED <<files, latest, versions, clock, ghost>>

\* two processes in create_snapshot for one version: mkdir finds the
\* directory there, or a copy finds it gone, and the command ends
SnapshotClash(p) ==
    /\ pc[p] \in {"begin", "copy", "base_begin", "base_copy"}
    /\ \E q \in Procs \ {p} :
         /\ pc[q] \in {"begin", "copy", "base_begin", "base_copy"}
         /\ hand[q].vid = hand[p].vid
    /\ \E s \in {snapshots[hand[p].vid], NoFile, Partial} :
         snapshots' = [snapshots EXCEPT ![hand[p].vid] = s]
    /\ Finish(p)   \* an error
    /\ UNCHANGED <<files, latest, versions, clock, ghost>>
-----------------------------------------------------------------------------
(* certify (certifier.py)                                                  *)

\* the directory is validated, its files are hashed
CertifyHash(p, j) ==
    /\ Start(p, j)
    /\ seen' = [seen EXCEPT ![p] = files]
    /\ pc' = [pc EXCEPT ![p] = "latest"]
    /\ UNCHANGED hand

\* phase 1: a manifest for the content seen is kept, any other case makes a
\* new version; latest.json that does not parse ends the command
CertifyLatest(p) ==
    /\ pc[p] = "latest"
    /\ \/ /\ latest = Unparsable
          /\ Finish(p)   \* an error
       \/ /\ latest # Unparsable
          /\ hand' = [hand EXCEPT ![p] = latest]
          /\ Goto(p, IF latest # NoFile /\ latest.content = seen[p]
                     THEN "collect" ELSE "number")
          /\ UNCHANGED <<seen, fresh>>
    /\ UNCHANGED <<files, disk, clock, ghost>>

\* mutant: the number is counted from latest.json
NumberFromLatest(p) ==
    /\ pc[p] = "number"
    /\ LET last == IF hand[p] = NoFile THEN 0 ELSE hand[p].vid
       IN  /\ last < MaxVersion
           /\ hand' = [hand EXCEPT ![p] =
                  NewManifest(last + 1, last, seen[p], NoSig)]
    /\ Goto(p, "prev_sig")
    /\ UNCHANGED <<files, disk, clock, seen, fresh, ghost>>

\* mutant: no end to version numbers
NumberWithoutEnd(p) ==
    /\ pc[p] = "number"
    /\ hand' = [hand EXCEPT ![p] =
           NewManifest(LastListed + 1, 0, seen[p], NoSig)]
    /\ Goto(p, "prev_sig")
    /\ UNCHANGED <<files, disk, clock, seen, fresh, ghost>>

\* next_version_id; the previous id comes from latest.json, not from the list
CertifyNumber(p) ==
    /\ pc[p] = "number"
    /\ \/ /\ LastListed >= MaxVersion
          /\ Finish(p)   \* an error
       \/ /\ LastListed < MaxVersion
          /\ hand' = [hand EXCEPT ![p] =
                 NewManifest(LastListed + 1,
                             IF hand[p] = NoFile THEN 0 ELSE hand[p].vid,
                             seen[p], NoSig)]
          /\ Goto(p, "prev_sig")
          /\ UNCHANGED <<seen, fresh>>
    /\ UNCHANGED <<files, disk, clock, ghost>>

\* get_previous_signature lists again
CertifyPrevSig(p) ==
    /\ pc[p] = "prev_sig"
    /\ hand' = [hand EXCEPT ![p].prevSig = PreviousSig]
    /\ fresh' = [fresh EXCEPT ![p] = TRUE]
    /\ Goto(p, "begin")
    /\ UNCHANGED <<files, disk, clock, seen, ghost>>

CertifyCopy(p) ==
    /\ pc[p] = "copy"
    /\ snapshots' = [snapshots EXCEPT ![hand[p].vid] = Copied(hand[p].vid)]
    /\ Goto(p, "collect")
    /\ UNCHANGED <<files, latest, versions, clock, seen, hand, fresh, ghost>>

\* phase 2 and the short cut of phase 3: findings that cannot be loaded end
\* the command, and so does a signature that cannot be made (no key, no
\* passphrase); without scan entries an existing version is left alone
CollectEnds(p) ==
    /\ pc[p] = "collect"
    /\ Finish(p)
    /\ UNCHANGED <<files, disk, clock, ghost>>

\* phase 3: merge, aggregate, sign.  A fresh updatedAt makes every signature
\* a new value.
Signed(m, entries, stamp) ==
    LET merged == Merge(m.scans, entries)
    IN  [m EXCEPT !.scans = merged,
                  !.scanStatus = IF entries = NoScan THEN @ ELSE Aggregate(merged),
                  !.sig = stamp, !.intact = TRUE]

\* mutant: the version file is not written (write_version=False)
SignForLatestOnly(p) ==
    /\ pc[p] = "collect"
    /\ job[p].readable
    /\ job[p].entries # NoScan \/ fresh[p]
    /\ clock' = clock + 1
    /\ hand' = [hand EXCEPT ![p] = Signed(hand[p], job[p].entries, clock + 1)]
    /\ Goto(p, "publish")
    /\ UNCHANGED <<files, disk, seen, fresh, ghost>>

CollectAndSign(p) ==
    /\ pc[p] = "collect"
    /\ job[p].readable
    /\ job[p].entries # NoScan \/ fresh[p]
    /\ clock' = clock + 1
    /\ hand' = [hand EXCEPT ![p] = Signed(hand[p], job[p].entries, clock + 1)]
    /\ Goto(p, "version")
    /\ UNCHANGED <<files, disk, seen, fresh, ghost>>

\* the second write of save_manifest; then the command has succeeded
CertifyPublish(p) ==
    /\ pc[p] = "publish"
    /\ latest' = hand[p]
    /\ acked' = [s \in Scanners |->
           IF job[p].entries[s] = "absent" THEN acked[s]
           ELSE [vid |-> hand[p].vid, verdict |-> job[p].entries[s]]]
    /\ Finish(p)
    /\ UNCHANGED <<files, versions, snapshots, clock, overlapped, still>>
-----------------------------------------------------------------------------
(* The surroundings                                                        *)

\* the process is killed, or an input or output of the step fails
Die(p) ==
    /\ pc[p] # "idle"
    /\ Finish(p)   \* an error
    /\ UNCHANGED <<files, disk, clock, ghost>>

\* somebody edits the skill
Edit ==
    /\ \E c \in Contents \ {files} : files' = c
    /\ still' = (still /\ Quiet)
    /\ UNCHANGED <<disk, clock, pc, local, acked, overlapped>>

\* latest.json is removed, no longer parses, or no longer verifies.  What it
\* says of version, files and scans stays as it was.
LoseLatest ==
    /\ latest \in Manifest
    /\ \/ "removed" \in Damage /\ latest' = NoFile
       \/ "unparsable" \in Damage /\ latest' = Unparsable
       \/ /\ "altered" \in Damage /\ latest.intact
          /\ latest' = [latest EXCEPT !.intact = FALSE]
    /\ UNCHANGED <<files, versions, snapshots, clock, pc, local, ghost>>
-----------------------------------------------------------------------------
CheckStep(p) ==
    \/ CheckHash(p)
    \/ BaselineList(p)
    \/ BaselineNumber(p)
    \/ WriteVersion(p, "base_version", "base_latest")
    \/ BaselineLatest(p)
    \/ SnapshotBegin(p, "base_begin", "base_copy")
    \/ BaselineCopy(p)

CertifyStep(p) ==
    \/ CertifyLatest(p)
    \/ CertifyNumber(p)
    \/ CertifyPrevSig(p)
    \/ SnapshotBegin(p, "begin", "copy")
    \/ CertifyCopy(p)
    \/ CollectEnds(p)
    \/ CollectAndSign(p)
    \/ WriteVersion(p, "version", "publish")
    \/ CertifyPublish(p)

Step(p) == CheckStep(p) \/ CertifyStep(p) \/ SnapshotClash(p)

Begin(p) ==
    \/ CheckUnparsable(p)
    \/ CheckLatest(p)
    \/ \E j \in CertifyJobs : CertifyHash(p, j)

Environment == Edit \/ LoseLatest

\* what the code allows: no lock, and processes that die
Next == Environment \/ \E p \in Procs : Begin(p) \/ Step(p) \/ Die(p)
Spec == Init /\ [][Next]_vars

\* commands run one at a time, as version_chain.py asks of its callers, and
\* each runs to its end
SerialNext ==
    \/ Environment
    \/ \E p \in Procs : (Quiet /\ Begin(p)) \/ Step(p)
SerialSpec == Init /\ [][SerialNext]_vars
-----------------------------------------------------------------------------
(* audit (auditor.py): what it reports of the files as they are            *)

PriorListed(v) == Max({0} \cup {w \in Listed : w < v})

\* prev_signature when the loop reaches version v
PriorSig(v) == IF PriorListed(v) = 0 THEN NoSig ELSE versions[PriorListed(v)].sig

AuditErrors ==
    {<<v, "hash or signature">> : v \in {w \in Listed : ~versions[w].intact}}
    \cup {<<v, "missing signature">> :
             v \in {w \in Listed : versions[w].sig = NoSig}}
    \cup {<<v, "chain broken">> :
             v \in {w \in Listed : PriorSig(w) # NoSig
                                  /\ versions[w].prevSig # PriorSig(w)}}
    \cup {<<v, "first has a previous signature">> :
             v \in {w \in Listed : PriorListed(w) = 0
                                  /\ versions[w].prevSig # NoSig}}
    \cup {<<v, "prior version manifest is missing">> :
             v \in {w \in Listed : PriorListed(w) # 0 /\ PriorSig(w) = NoSig}}
    \cup {<<v, "latest.json">> :
             v \in IF Listed # {} /\ latest \in Manifest
                      /\ latest.vid # LastListed
                   THEN {latest.vid} ELSE {}}

\* --verify-snapshots
SnapshotErrors == {v \in Listed : snapshots[v] # versions[v].content}

\* an audit that loads a latest.json that does not parse ends with an error
AuditValid == AuditErrors = {} /\ (Listed # {} => latest # Unparsable)
-----------------------------------------------------------------------------
(* Properties of every behaviour                                           *)

\* next_version_id never skips a number, whoever runs and dies: the listed
\* versions are 1 .. n, and latest.json names one of them.
NoGap ==
    /\ \E n \in 0 .. MaxVersion : Listed = 1 .. n
    /\ latest \in Manifest => latest.vid \in Listed

\* What latest.json says is on record in versions/: save_manifest writes the
\* version first, so a command that dies leaves latest.json behind, never
\* ahead.  Overlapping commands may mix two versions of one number.
LatestOnRecord ==
    ~overlapped /\ latest \in Manifest =>
        LET recorded == versions[latest.vid]
        IN  /\ recorded # NoFile
            /\ recorded.content = latest.content
            /\ recorded.sig >= latest.sig
            /\ recorded.sig = latest.sig => recorded.scans = latest.scans

\* A verdict certify acknowledged is still in latest.json as long as
\* latest.json is for that version: a later certify of another scanner, or
\* one that dies half way, does not drop it, and check answers deny for
\* unchanged files as long as one scanner's last verdict was deny.  Only
\* overlapping commands can lose a verdict.
NoLostScan ==
    ~overlapped /\ Quiet /\ latest \in Manifest =>
        \A s \in Scanners :
            acked[s].vid = latest.vid =>
                /\ latest.scans[s] = acked[s].verdict
                /\ acked[s].verdict = "deny" /\ latest.intact =>
                       CheckAnswer(latest, latest.content) = "deny"

\* A version, once written, is for ever a version of the same content, even
\* if commands die, provided no two commands overlap.
VersionKeepsContent ==
    [][~overlapped' =>
          \A v \in Listed :
              /\ versions'[v] # NoFile
              /\ versions'[v].content = versions[v].content]_vars

\* Properties of commands that run one at a time and to their end

\* the listed versions, as the entries of a chain
Entries ==
    [v \in 1 .. LastListed |->
        [content |-> versions[v].content, scans |-> versions[v].scans,
         prevSig |-> versions[v].prevSig, sig |-> versions[v].sig]]

Chain == INSTANCE VersionChain WITH chain <- Entries

\* versions/ is an append-only chain: a new version names the signature of
\* the last one, and only the last one is ever signed again (save_manifest,
\* get_previous_signature, _auto_create_manifest).
ImplementsChain == Chain!ChainSpec

\* The manifest in latest.json is the newest version, except for damage.
LatestIsNewest ==
    Quiet /\ latest \in Manifest =>
        /\ latest.vid = LastListed
        /\ latest = [versions[LastListed] EXCEPT !.intact = latest.intact]

\* Once every version is signed, audit accepts what check and certify have
\* written, whatever the order of checks, certifies, failures and edits.
AuditAcceptsSigned ==
    Quiet /\ latest # Unparsable /\ (\A v \in Listed : versions[v].sig # NoSig)
        => AuditValid

\* The snapshot of every version is a full copy of the content the version
\* is for, although certify copies before it can fail and check copies
\* after it has written: unless the skill was edited while a command ran.
SnapshotsMatch == Quiet /\ still => SnapshotErrors = {}

\* _auto_create_manifest: "the chain linkage fields are preserved so the
\* audit trail stays intact" (checker.py:71).  A baseline made after valid
\* versions leaves the audit valid.
AuditTrailIntact ==
    /\ Quiet /\ latest # Unparsable /\ LastListed > 1
    /\ \A v \in Listed \ {LastListed} : versions[v].sig # NoSig
    => AuditValid
=============================================================================
