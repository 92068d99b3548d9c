------------------------- MODULE SkillLedger_proofs -------------------------
(***************************************************************************)
(* Proofs about SkillLedger, for every number of processes, contents,      *)
(* scanners and versions: first of commands that crash, interleave and     *)
(* meet a damaged file (Spec), then of commands that run one at a time and *)
(* to their end (SerialSpec), when versions/ is the append-only chain of   *)
(* VersionChain and latest.json its newest entry, audit accepts what is    *)
(* signed, and the snapshots match.                                        *)
(***************************************************************************)
EXTENDS SkillLedger, SequenceTheorems, TLAPS
-----------------------------------------------------------------------------
(* Helpers                                                                 *)

\* list_version_ids()[-1], when the numbers listed are 1 .. n
LEMMA MaxUpTo == \A n \in Nat : Max({0} \cup 1 .. n) = n
  BY DEF Max

LEMMA NewManifestFacts ==
    ASSUME NEW v \in VersionIds, NEW pv \in {0} \cup VersionIds,
           NEW c \in Contents, NEW s \in Nat
    PROVE  LET m == NewManifest(v, pv, c, s)
           IN  /\ m \in Manifest /\ m.vid = v /\ m.prevVid = pv
               /\ m.content = c /\ m.sig = NoSig
  BY DEF NewManifest, Manifest, Scans, NoScan, ScanStatus, NoSig, Verdicts

\* merging and aggregating yield a manifest of the same version and content
LEMMA SignedFacts ==
    ASSUME NEW m \in Manifest, NEW e \in Scans, NEW s \in Nat
    PROVE  LET n == Signed(m, e, s)
           IN  /\ n \in Manifest /\ n.vid = m.vid /\ n.content = m.content
               /\ n.sig = s
<1>1. Merge(m.scans, e) \in Scans
  BY DEF Merge, Scans, Manifest, Verdicts
<1>2. Aggregate(Merge(m.scans, e)) \in ScanStatus
  BY DEF Aggregate, ScanStatus, Verdicts
<1>. QED
  BY <1>1, <1>2 DEF Signed, Manifest
-----------------------------------------------------------------------------
(* The inductive invariant                                                 *)

\* steps at which the manifest in hand has a number and is not yet written
NumberedSteps == {"base_version", "prev_sig", "begin", "copy", "collect", "version"}

\* steps at which versions/ has a manifest of that number
WrittenSteps == {"base_latest", "base_begin", "base_copy", "publish"}

\* What a process has in its hands at each step.  The number in hand is at
\* most one past the versions listed, whatever other processes have done.
Ready(p) ==
    /\ pc[p] \in {"base_list", "base_number", "latest", "number"} =>
           seen[p] \in Contents
    /\ pc[p] = "base_number" =>
           hand[p] \in Manifest /\ hand[p].prevVid \in Listed
    /\ pc[p] \in NumberedSteps =>
           hand[p] \in Manifest /\ (hand[p].vid = 1 \/ hand[p].vid - 1 \in Listed)
    /\ pc[p] \in WrittenSteps =>
           hand[p] \in Manifest /\ hand[p].vid \in Listed

LedgerInv == TypeOK /\ NoGap /\ \A p \in Procs : Ready(p)

LEMMA LedgerInvInit == Init => LedgerInv
<1>. SUFFICES ASSUME Init PROVE LedgerInv
  OBVIOUS
<1>1. TypeOK
  BY LedgerAssumption DEF Init, TypeOK, CheckJob, Job, NoScan, Scans
<1>2. NoGap
  <2>1. Listed = 1 .. 0
    BY DEF Init, Listed
  <2>. QED
    BY <2>1, LedgerAssumption DEF Init, NoGap
<1>3. \A p \in Procs : Ready(p)
  BY DEF Init, Ready, NumberedSteps, WrittenSteps
<1>. QED
  BY <1>1, <1>2, <1>3 DEF LedgerInv

\* the last number listed
LEMMA LastListedFacts ==
    ASSUME TypeOK, NoGap
    PROVE  /\ LastListed \in 0 .. MaxVersion
           /\ Listed = 1 .. LastListed
  BY MaxUpTo, LedgerAssumption DEF NoGap, LastListed

\* A step that leaves versions/ and latest.json alone keeps NoGap; one that
\* keeps every listed version keeps what the other processes rely on.
LEMMA NoGapFrame ==
    ASSUME NoGap, UNCHANGED <<latest, versions>>
    PROVE  NoGap' /\ Listed' = Listed
  BY DEF NoGap, Listed

LEMMA ReadyFrame ==
    ASSUME NEW q \in Procs, Ready(q), Listed \subseteq Listed',
           UNCHANGED <<pc[q], hand[q], seen[q]>>
    PROVE  Ready(q)'
  BY DEF Ready

LEMMA FinishFacts ==
    ASSUME TypeOK, NEW p \in Procs, Finish(p), Listed \subseteq Listed',
           \A q \in Procs : Ready(q)
    PROVE  /\ pc' \in [Procs -> {"idle"} \cup CheckSteps \cup CertifySteps]
           /\ job' \in [Procs -> Job]
           /\ seen' \in [Procs -> Contents \cup {NoFile}]
           /\ hand' \in [Procs -> Manifest \cup {NoFile}]
           /\ fresh' \in [Procs -> BOOLEAN]
           /\ \A q \in Procs : Ready(q)'
<1>1. CheckJob \in Job
  BY DEF CheckJob, Job, NoScan, Scans
<1>2. Ready(p)'
  BY DEF Finish, TypeOK, Ready, NumberedSteps, WrittenSteps
<1>3. \A q \in Procs \ {p} : Ready(q)'
  <2>. TAKE q \in Procs \ {p}
  <2>1. UNCHANGED <<pc[q], hand[q], seen[q]>>
    BY DEF Finish, TypeOK
  <2>. QED
    BY <2>1, ReadyFrame
<1>. QED
  BY <1>1, <1>2, <1>3 DEF Finish, TypeOK

\* the commands a process is started with
LEMMA JobTypes == CheckJob \in Job /\ CertifyJobs \subseteq Job
<1>1. NoScan \in Scans
  BY DEF NoScan, Scans
<1>. QED
  BY <1>1 DEF CheckJob, CertifyJobs, Job

\* the steps that touch neither versions/ nor latest.json
LEMMA QuietSteps ==
    ASSUME LedgerInv, NEW p \in Procs,
           \/ CheckUnparsable(p) \/ CheckLatest(p)
           \/ \E j \in CertifyJobs : CertifyHash(p, j)
           \/ CheckHash(p) \/ BaselineList(p) \/ BaselineNumber(p)
           \/ CertifyLatest(p) \/ CertifyNumber(p) \/ CertifyPrevSig(p)
           \/ CollectEnds(p) \/ CollectAndSign(p) \/ Die(p)
    PROVE  LedgerInv'
<1>. USE DEF LedgerInv
<1>1. NoGap' /\ Listed' = Listed
  <2>1. UNCHANGED <<latest, versions>>
    BY DEF CheckUnparsable, CheckLatest, CertifyHash, Start, CheckHash,
           BaselineList, BaselineNumber, CertifyLatest, CertifyNumber,
           CertifyPrevSig, CollectEnds, CollectAndSign, Die, disk
  <2>. QED
    BY <2>1, NoGapFrame
<1>2. LastListed \in 0 .. MaxVersion /\ Listed = 1 .. LastListed
  BY LastListedFacts
<1>3. \A v \in Listed : versions[v] \in Manifest
  BY DEF Listed, TypeOK
<1>4. CASE CheckUnparsable(p)
  <2>1. CheckJob \in Job
    BY JobTypes
  <2>2. \A q \in Procs : Ready(q)'
    BY <1>1, <1>4, ReadyFrame DEF CheckUnparsable
  <2>. QED
    BY <1>1, <1>4, <2>1, <2>2 DEF CheckUnparsable, Start, TypeOK, disk
<1>5. CASE CheckLatest(p)
  <2>1. CheckJob \in Job
    BY JobTypes
  <2>2. Ready(p)'
    BY <1>5 DEF CheckLatest, TypeOK, Ready, NumberedSteps, WrittenSteps
  <2>3. ASSUME NEW q \in Procs \ {p} PROVE Ready(q)'
    <3>1. UNCHANGED <<pc[q], hand[q], seen[q]>>
      BY <1>5 DEF CheckLatest, TypeOK
    <3>. QED
      BY <1>1, <3>1, ReadyFrame
  <2>4. TypeOK'
    BY <1>5, <2>1 DEF CheckLatest, Start, TypeOK, disk, CheckSteps
  <2>. QED
    BY <1>1, <2>2, <2>3, <2>4
<1>6. ASSUME NEW j \in CertifyJobs, CertifyHash(p, j) PROVE LedgerInv'
  <2>1. j \in Job
    BY JobTypes
  <2>2. Ready(p)'
    BY <1>6 DEF CertifyHash, TypeOK, Ready, NumberedSteps, WrittenSteps
  <2>3. ASSUME NEW q \in Procs \ {p} PROVE Ready(q)'
    <3>1. UNCHANGED <<pc[q], hand[q], seen[q]>>
      BY <1>6 DEF CertifyHash, TypeOK
    <3>. QED
      BY <1>1, <3>1, ReadyFrame
  <2>4. TypeOK'
    BY <1>6, <2>1 DEF CertifyHash, Start, TypeOK, disk, CertifySteps
  <2>. QED
    BY <1>1, <2>2, <2>3, <2>4
<1>7. CASE CheckHash(p)
  <2>1. CASE hand[p] = NoFile
    <3>1. Ready(p)'
      BY <1>7, <2>1, LedgerAssumption
      DEF CheckHash, Goto, TypeOK, Ready, NumberedSteps, WrittenSteps, CheckSteps
    <3>2. ASSUME NEW q \in Procs \ {p} PROVE Ready(q)'
      <4>1. UNCHANGED <<pc[q], hand[q], seen[q]>>
        BY <1>7, <2>1 DEF CheckHash, Goto, TypeOK
      <4>. QED
        BY <1>1, <4>1, ReadyFrame
    <3>3. TypeOK'
      BY <1>7, <2>1 DEF CheckHash, Goto, TypeOK, disk, ghost, CheckSteps
    <3>. QED
      BY <1>1, <3>1, <3>2, <3>3
  <2>2. CASE Finish(p)
    BY <1>1, <1>7, <2>2, FinishFacts DEF CheckHash, TypeOK, disk, ghost
  <2>. QED
    BY <1>7, <2>1, <2>2 DEF CheckHash
<1>8. CASE BaselineList(p)
  <2>1. seen[p] \in Contents
    BY <1>8 DEF BaselineList, Ready
  <2>2. /\ hand'[p] \in Manifest
        /\ pc'[p] = "base_version" => hand'[p].vid = 1
        /\ pc'[p] = "base_number" => hand'[p].prevVid \in Listed
    <3>1. CASE Listed = {}
      <4>1. 1 \in VersionIds /\ NoSig \in Nat
        BY LedgerAssumption DEF VersionIds, NoSig
      <4>2. hand'[p] = NewManifest(1, 0, seen[p], NoSig) /\ pc'[p] = "base_version"
        BY <1>8, <3>1 DEF BaselineList, Goto, TypeOK
      <4>3. hand'[p] \in Manifest /\ hand'[p].vid = 1
        BY <2>1, <4>1, <4>2, NewManifestFacts
      <4>. QED
        BY <4>2, <4>3
    <3>2. CASE Listed # {}
      <4>1. LastListed \in VersionIds /\ LastListed \in Listed /\ NoSig \in Nat
        BY <1>2, <3>2, LedgerAssumption DEF VersionIds, NoSig
      <4>2. /\ hand'[p] = NewManifest(LastListed, LastListed, seen[p], NoSig)
            /\ pc'[p] = "base_number"
        BY <1>8, <3>2 DEF BaselineList, Goto, TypeOK
      <4>3. hand'[p] \in Manifest /\ hand'[p].prevVid = LastListed
        <5>. DEFINE last == LastListed
        <5>1. last \in VersionIds /\ last \in {0} \cup VersionIds /\ NoSig \in Nat
          BY <4>1
        <5>2. hand'[p] = NewManifest(last, last, seen[p], NoSig)
          BY <4>2
        <5>. HIDE DEF last
        <5>3. hand'[p] \in Manifest /\ hand'[p].prevVid = last
          BY <2>1, <5>1, <5>2, NewManifestFacts
        <5>. QED
          BY <5>3 DEF last
      <4>. QED
        BY <4>1, <4>2, <4>3
    <3>. QED
      BY <3>1, <3>2
  <2>3. /\ pc'[p] \in {"base_number", "base_version"}
        /\ UNCHANGED <<seen, fresh, job, files, disk, clock, ghost>>
        /\ pc' = [pc EXCEPT ![p] = pc'[p]] /\ hand' = [hand EXCEPT ![p] = hand'[p]]
    BY <1>8 DEF BaselineList, Goto, TypeOK
  <2>4. Ready(p)'
    BY <1>1, <2>1, <2>2, <2>3 DEF Ready, NumberedSteps, WrittenSteps
  <2>5. ASSUME NEW q \in Procs \ {p} PROVE Ready(q)'
    <3>1. UNCHANGED <<pc[q], hand[q], seen[q]>>
      BY <2>3 DEF TypeOK
    <3>. QED
      BY <1>1, <3>1, ReadyFrame
  <2>6. TypeOK'
    BY <2>2, <2>3 DEF TypeOK, disk, ghost, CheckSteps
  <2>. QED
    BY <1>1, <2>4, <2>5, <2>6
<1>9. CASE BaselineNumber(p)
  <2>1. CASE Finish(p)
    BY <1>1, <1>9, <2>1, FinishFacts DEF BaselineNumber, TypeOK, disk, ghost
  <2>2. CASE /\ LastListed < MaxVersion
             /\ hand' = [hand EXCEPT ![p] =
                    NewManifest(LastListed + 1, hand[p].prevVid, seen[p],
                                versions[hand[p].prevVid].sig)]
             /\ Goto(p, "base_version")
             /\ UNCHANGED <<seen, fresh>>
    <3>1. /\ hand[p].prevVid \in Listed /\ hand[p].prevVid \in VersionIds
          /\ seen[p] \in Contents
      BY <1>9 DEF BaselineNumber, Ready, Listed
    <3>2. LastListed + 1 \in VersionIds /\ versions[hand[p].prevVid].sig \in Nat
      BY <1>2, <1>3, <2>2, <3>1, LedgerAssumption DEF VersionIds, Manifest
    <3>3. hand'[p] \in Manifest /\ hand'[p].vid = LastListed + 1
      BY <2>2, <3>1, <3>2, NewManifestFacts DEF TypeOK
    <3>4. Ready(p)'
      BY <1>1, <1>2, <2>2, <3>3
      DEF Goto, TypeOK, Ready, NumberedSteps, WrittenSteps
    <3>5. ASSUME NEW q \in Procs \ {p} PROVE Ready(q)'
      <4>1. UNCHANGED <<pc[q], hand[q], seen[q]>>
        BY <2>2 DEF Goto, TypeOK
      <4>. QED
        BY <1>1, <4>1, ReadyFrame
    <3>6. TypeOK'
      BY <1>9, <2>2, <3>3
      DEF BaselineNumber, Goto, TypeOK, disk, ghost, CheckSteps
    <3>. QED
      BY <1>1, <3>4, <3>5, <3>6
  <2>. QED
    BY <1>9, <2>1, <2>2 DEF BaselineNumber
<1>10. CASE CertifyLatest(p)
  <2>1. CASE Finish(p)
    BY <1>1, <1>10, <2>1, FinishFacts DEF CertifyLatest, TypeOK, disk, ghost
  <2>2. CASE /\ latest # Unparsable
             /\ hand' = [hand EXCEPT ![p] = latest]
             /\ Goto(p, IF latest # NoFile /\ latest.content = seen[p]
                        THEN "collect" ELSE "number")
             /\ UNCHANGED <<seen, fresh>>
    <3>1. seen[p] \in Contents
      BY <1>10 DEF CertifyLatest, Ready
    <3>2. latest \in Manifest => latest.vid = 1 \/ latest.vid - 1 \in Listed
      BY <1>2 DEF NoGap
    <3>3. Ready(p)'
      BY <1>1, <2>2, <3>1, <3>2
      DEF Goto, TypeOK, Ready, NumberedSteps, WrittenSteps
    <3>4. ASSUME NEW q \in Procs \ {p} PROVE Ready(q)'
      <4>1. UNCHANGED <<pc[q], hand[q], seen[q]>>
        BY <2>2 DEF Goto, TypeOK
      <4>. QED
        BY <1>1, <4>1, ReadyFrame
    <3>5. TypeOK'
      BY <1>10, <2>2
      DEF CertifyLatest, Goto, TypeOK, disk, ghost, CertifySteps
    <3>. QED
      BY <1>1, <3>3, <3>4, <3>5
  <2>. QED
    BY <1>10, <2>1, <2>2 DEF CertifyLatest
<1>11. CASE CertifyNumber(p)
  <2>1. CASE Finish(p)
    BY <1>1, <1>11, <2>1, FinishFacts DEF CertifyNumber, TypeOK, disk, ghost
  <2>2. CASE /\ LastListed < MaxVersion
             /\ hand' = [hand EXCEPT ![p] =
                    NewManifest(LastListed + 1,
                                IF hand[p] = NoFile THEN 0 ELSE hand[p].vid,
                                seen[p], NoSig)]
             /\ Goto(p, "prev_sig")
             /\ UNCHANGED <<seen, fresh>>
    <3>. DEFINE pv == IF hand[p] = NoFile THEN 0 ELSE hand[p].vid
    <3>1. seen[p] \in Contents /\ NoSig \in Nat
      BY <1>11 DEF CertifyNumber, Ready, NoSig
    <3>2. LastListed + 1 \in VersionIds /\ pv \in {0} \cup VersionIds
      BY <1>2, <2>2, LedgerAssumption DEF VersionIds, Manifest, TypeOK
    <3>3. hand'[p] \in Manifest /\ hand'[p].vid = LastListed + 1
      <4>1. hand'[p] = NewManifest(LastListed + 1, pv, seen[p], NoSig)
        BY <2>2 DEF TypeOK
      <4>. HIDE DEF pv
      <4>. QED
        BY <3>1, <3>2, <4>1, NewManifestFacts
    <3>4. Ready(p)'
      BY <1>1, <1>2, <2>2, <3>3
      DEF Goto, TypeOK, Ready, NumberedSteps, WrittenSteps
    <3>5. ASSUME NEW q \in Procs \ {p} PROVE Ready(q)'
      <4>1. UNCHANGED <<pc[q], hand[q], seen[q]>>
        BY <2>2 DEF Goto, TypeOK
      <4>. QED
        BY <1>1, <4>1, ReadyFrame
    <3>6. TypeOK'
      BY <1>11, <2>2, <3>3
      DEF CertifyNumber, Goto, TypeOK, disk, ghost, CertifySteps
    <3>. QED
      BY <1>1, <3>4, <3>5, <3>6
  <2>. QED
    BY <1>11, <2>1, <2>2 DEF CertifyNumber
<1>12. CASE CertifyPrevSig(p)
  <2>1. PreviousSig \in Nat
    <3>1. Listed # {} => LastListed \in Listed
      BY <1>2
    <3>. QED
      BY <1>3, <3>1 DEF PreviousSig, NoSig, Manifest
  <2>2. /\ hand[p] \in Manifest
        /\ hand'[p] = [hand[p] EXCEPT !.prevSig = PreviousSig]
        /\ pc'[p] = "begin" /\ pc[p] = "prev_sig"
    BY <1>12 DEF CertifyPrevSig, Goto, TypeOK, Ready, NumberedSteps
  <2>3. hand'[p] \in Manifest /\ hand'[p].vid = hand[p].vid
    BY <2>1, <2>2 DEF Manifest
  <2>4. Ready(p)'
    BY <1>1, <2>2, <2>3 DEF Ready, NumberedSteps, WrittenSteps
  <2>5. ASSUME NEW q \in Procs \ {p} PROVE Ready(q)'
    <3>1. UNCHANGED <<pc[q], hand[q], seen[q]>>
      BY <1>12 DEF CertifyPrevSig, Goto, TypeOK
    <3>. QED
      BY <1>1, <3>1, ReadyFrame
  <2>6. hand' = [hand EXCEPT ![p] = hand'[p]]
    BY <1>12 DEF CertifyPrevSig, TypeOK
  <2>7. TypeOK'
    BY <1>12, <2>3, <2>6
    DEF CertifyPrevSig, Goto, TypeOK, disk, ghost, CertifySteps
  <2>. QED
    BY <1>1, <2>4, <2>5, <2>7
<1>13. CASE CollectEnds(p)
  BY <1>1, <1>13, FinishFacts DEF CollectEnds, TypeOK, disk, ghost
<1>14. CASE Die(p)
  BY <1>1, <1>14, FinishFacts DEF Die, TypeOK, disk, ghost
<1>15. CASE CollectAndSign(p)
  <2>1. /\ hand[p] \in Manifest /\ job[p].entries \in Scans /\ clock + 1 \in Nat
        /\ hand'[p] = Signed(hand[p], job[p].entries, clock + 1)
        /\ pc'[p] = "version" /\ pc[p] = "collect"
    BY <1>15 DEF CollectAndSign, Goto, TypeOK, Ready, NumberedSteps, Job
  <2>2. hand'[p] \in Manifest /\ hand'[p].vid = hand[p].vid
    BY <2>1, SignedFacts
  <2>3. Ready(p)'
    BY <1>1, <2>1, <2>2 DEF Ready, NumberedSteps, WrittenSteps
  <2>4. ASSUME NEW q \in Procs \ {p} PROVE Ready(q)'
    <3>1. UNCHANGED <<pc[q], hand[q], seen[q]>>
      BY <1>15 DEF CollectAndSign, Goto, TypeOK
    <3>. QED
      BY <1>1, <3>1, ReadyFrame
  <2>5. hand' = [hand EXCEPT ![p] = hand'[p]]
    BY <1>15 DEF CollectAndSign, TypeOK
  <2>6. TypeOK'
    BY <1>15, <2>1, <2>2, <2>5
    DEF CollectAndSign, Goto, TypeOK, disk, ghost, CertifySteps
  <2>. QED
    BY <1>1, <2>3, <2>4, <2>6
<1>. QED
  BY <1>4, <1>5, <1>6, <1>7, <1>8, <1>9, <1>10, <1>11, <1>12, <1>13, <1>14, <1>15

\* create_snapshot changes the snapshots only
LEMMA SnapshotSteps ==
    ASSUME LedgerInv, NEW p \in Procs,
           \/ SnapshotBegin(p, "base_begin", "base_copy")
           \/ SnapshotBegin(p, "begin", "copy")
           \/ BaselineCopy(p) \/ CertifyCopy(p) \/ SnapshotClash(p)
    PROVE  LedgerInv'
<1>. USE DEF LedgerInv
<1>1. NoGap' /\ Listed' = Listed
  <2>1. UNCHANGED <<latest, versions>>
    BY DEF SnapshotBegin, BaselineCopy, CertifyCopy, SnapshotClash
  <2>. QED
    BY <2>1, NoGapFrame
<1>2. Copied(hand[p].vid) \in Contents \cup {NoFile, Partial}
  BY DEF Copied, TypeOK
<1>3. CASE BaselineCopy(p)
  BY <1>1, <1>2, <1>3, FinishFacts DEF BaselineCopy, TypeOK, ghost
<1>4. CASE SnapshotClash(p)
  <2>1. hand[p] \in Manifest
    BY <1>4 DEF SnapshotClash, Ready, NumberedSteps, WrittenSteps
  <2>2. snapshots' \in [VersionIds -> Contents \cup {NoFile, Partial}]
    BY <1>4, <2>1 DEF SnapshotClash, TypeOK, Manifest
  <2>. QED
    BY <1>1, <1>4, <2>2, FinishFacts DEF SnapshotClash, TypeOK, ghost
<1>5. ASSUME NEW next \in {"base_copy", "copy", "collect"},
             pc[p] \in {"base_begin", "begin", "copy"},
             pc[p] = "base_begin" <=> next = "base_copy",
             snapshots' \in [VersionIds -> Contents \cup {NoFile, Partial}],
             Goto(p, next),
             UNCHANGED <<files, latest, versions, clock, seen, hand, fresh, ghost>>
      PROVE  LedgerInv'
  <2>1. Ready(p)'
    BY <1>1, <1>5 DEF Goto, TypeOK, Ready, NumberedSteps, WrittenSteps
  <2>2. ASSUME NEW q \in Procs \ {p} PROVE Ready(q)'
    <3>1. UNCHANGED <<pc[q], hand[q], seen[q]>>
      BY <1>5 DEF Goto, TypeOK
    <3>. QED
      BY <1>1, <3>1, ReadyFrame
  <2>3. TypeOK'
    BY <1>5 DEF Goto, TypeOK, ghost, CheckSteps, CertifySteps
  <2>. QED
    BY <1>1, <2>1, <2>2, <2>3
<1>6. CASE SnapshotBegin(p, "base_begin", "base_copy")
  BY <1>5, <1>6 DEF SnapshotBegin, TypeOK
<1>7. CASE SnapshotBegin(p, "begin", "copy")
  BY <1>5, <1>7 DEF SnapshotBegin, TypeOK
<1>8. CASE CertifyCopy(p)
  BY <1>2, <1>5, <1>8 DEF CertifyCopy, TypeOK
<1>. QED
  BY <1>3, <1>4, <1>6, <1>7, <1>8

\* the first write of save_manifest: the number written is one of those
\* listed or the one after them
LEMMA WriteVersionSteps ==
    ASSUME LedgerInv, NEW p \in Procs,
           \/ WriteVersion(p, "base_version", "base_latest")
           \/ WriteVersion(p, "version", "publish")
    PROVE  LedgerInv'
<1>. USE DEF LedgerInv
<1>1. PICK next \in {"base_latest", "publish"} :
        /\ pc[p] \in {"base_version", "version"}
        /\ pc[p] = "version" <=> next = "publish"
        /\ versions' = [versions EXCEPT ![hand[p].vid] = hand[p]]
        /\ Goto(p, next)
        /\ UNCHANGED <<files, latest, snapshots, clock, seen, hand, fresh, ghost>>
  BY DEF WriteVersion
<1>2. /\ hand[p] \in Manifest /\ hand[p].vid \in VersionIds
      /\ hand[p].vid = 1 \/ hand[p].vid - 1 \in Listed
  BY <1>1 DEF Ready, NumberedSteps, Manifest
<1>3. Listed' = Listed \cup {hand[p].vid}
  BY <1>1, <1>2, LedgerAssumption DEF Listed, TypeOK
<1>4. NoGap'
  <2>1. PICK n \in 0 .. MaxVersion : Listed = 1 .. n
    BY DEF NoGap
  <2>2. hand[p].vid \in 1 .. n + 1
    BY <1>2, <2>1 DEF VersionIds
  <2>3. CASE hand[p].vid = n + 1
    <3>1. Listed' = 1 .. n + 1 /\ n + 1 \in 0 .. MaxVersion
      BY <1>2, <1>3, <2>1, <2>3, LedgerAssumption DEF VersionIds
    <3>. QED
      BY <1>1, <1>3, <3>1 DEF NoGap
  <2>4. CASE hand[p].vid \in 1 .. n
    <3>1. Listed' = 1 .. n
      BY <1>3, <2>1, <2>4
    <3>. QED
      BY <1>1, <1>3, <3>1 DEF NoGap
  <2>. QED
    BY <2>2, <2>3, <2>4
<1>5. Ready(p)'
  BY <1>1, <1>2, <1>3 DEF Goto, TypeOK, Ready, NumberedSteps, WrittenSteps
<1>6. ASSUME NEW q \in Procs \ {p} PROVE Ready(q)'
  <2>1. UNCHANGED <<pc[q], hand[q], seen[q]>>
    BY <1>1 DEF Goto, TypeOK
  <2>. QED
    BY <1>3, <2>1, ReadyFrame
<1>7. TypeOK'
  BY <1>1, <1>2 DEF Goto, TypeOK, ghost, CheckSteps, CertifySteps
<1>. QED
  BY <1>4, <1>5, <1>6, <1>7

\* the second write of save_manifest: latest.json names a version written
LEMMA WriteLatestSteps ==
    ASSUME LedgerInv, NEW p \in Procs, BaselineLatest(p) \/ CertifyPublish(p)
    PROVE  LedgerInv'
<1>. USE DEF LedgerInv
<1>1. /\ hand[p] \in Manifest /\ hand[p].vid \in Listed
      /\ latest' = hand[p] /\ UNCHANGED versions
  BY DEF BaselineLatest, CertifyPublish, Ready, WrittenSteps
<1>2. NoGap' /\ Listed' = Listed
  BY <1>1 DEF NoGap, Listed
<1>3. CASE BaselineLatest(p)
  <2>1. Ready(p)'
    BY <1>1, <1>2, <1>3
    DEF BaselineLatest, Goto, TypeOK, Ready, NumberedSteps, WrittenSteps
  <2>2. ASSUME NEW q \in Procs \ {p} PROVE Ready(q)'
    <3>1. UNCHANGED <<pc[q], hand[q], seen[q]>>
      BY <1>3 DEF BaselineLatest, Goto, TypeOK
    <3>. QED
      BY <1>2, <3>1, ReadyFrame
  <2>3. TypeOK'
    BY <1>1, <1>3 DEF BaselineLatest, Goto, TypeOK, ghost, CheckSteps
  <2>. QED
    BY <1>2, <2>1, <2>2, <2>3
<1>4. CASE CertifyPublish(p)
  <2>1. Finish(p)
    BY <1>4 DEF CertifyPublish
  <2>2. acked' \in [Scanners -> [vid : {0} \cup VersionIds,
                                 verdict : Verdicts \cup {"absent"}]]
    BY <1>1, <1>4 DEF CertifyPublish, TypeOK, Job, Scans, Manifest
  <2>. QED
    BY <1>1, <1>2, <1>4, <2>1, <2>2, FinishFacts DEF CertifyPublish, TypeOK
<1>. QED
  BY <1>3, <1>4

\* edits of the skill, and damage to latest.json
LEMMA EnvironmentSteps ==
    ASSUME LedgerInv, Environment
    PROVE  LedgerInv'
<1>. USE DEF LedgerInv
<1>1. Listed' = Listed /\ UNCHANGED <<versions, pc, seen, hand>>
  BY DEF Environment, Edit, LoseLatest, disk, local, Listed
<1>2. \A q \in Procs : Ready(q)'
  BY <1>1, ReadyFrame
<1>3. /\ latest' \in Manifest \cup {NoFile, Unparsable}
      /\ latest' \in Manifest => latest \in Manifest /\ latest'.vid = latest.vid
  BY LedgerAssumption DEF Environment, Edit, LoseLatest, disk, TypeOK, Manifest
<1>4. NoGap'
  BY <1>1, <1>3 DEF NoGap
<1>5. TypeOK'
  BY <1>3 DEF Environment, Edit, LoseLatest, disk, local, ghost, TypeOK
<1>. QED
  BY <1>2, <1>4, <1>5

LEMMA LedgerInvStep == LedgerInv /\ [Next]_vars => LedgerInv'
<1>. SUFFICES ASSUME LedgerInv, [Next]_vars PROVE LedgerInv'
  OBVIOUS
<1>1. CASE UNCHANGED vars
  BY <1>1
  DEF LedgerInv, vars, disk, local, ghost, TypeOK, NoGap, Ready, Listed
<1>2. CASE Environment
  BY <1>2, EnvironmentSteps
<1>3. ASSUME NEW p \in Procs, Begin(p) \/ Step(p) \/ Die(p) PROVE LedgerInv'
  BY <1>3, QuietSteps, SnapshotSteps, WriteVersionSteps, WriteLatestSteps
  DEF Begin, Step, CheckStep, CertifyStep
<1>. QED
  BY <1>1, <1>2, <1>3 DEF Next
-----------------------------------------------------------------------------
(* What every behaviour of commands that overlap and die satisfies         *)

THEOREM LedgerInvariant == Spec => []LedgerInv
  BY LedgerInvInit, LedgerInvStep, PTL DEF Spec

\* Every variable keeps its type: in particular no command ever writes a
\* manifest with a number past MaxVersion or a field that is missing.
THEOREM TypeCorrect == Spec => []TypeOK
<1>1. LedgerInv => TypeOK
  BY DEF LedgerInv
<1>. QED
  BY LedgerInvariant, <1>1, PTL

\* next_version_id never skips a number and latest.json always names a
\* version that is there, however commands overlap and wherever they die.
THEOREM NumbersWithoutGap == Spec => []NoGap
<1>1. LedgerInv => NoGap
  BY DEF LedgerInv
<1>. QED
  BY LedgerInvariant, <1>1, PTL
-----------------------------------------------------------------------------
(* Commands that die, but do not overlap                                   *)

OneBusy ==
    \A p, q \in Procs : pc[p] # "idle" /\ pc[q] # "idle" => p = q

\* no signature in use is newer than the clock
Stamped ==
    /\ \A v \in Listed : versions[v].sig <= clock
    /\ latest \in Manifest => latest.sig <= clock

\* LatestOnRecord without its guard
OnRecord ==
    latest \in Manifest =>
        LET recorded == versions[latest.vid]
        IN  /\ recorded # NoFile
            /\ recorded.content = latest.content
            /\ recorded.sig >= latest.sig
            /\ recorded.sig = latest.sig => recorded.scans = latest.scans

\* How the manifest in hand compares with the files: a new number is not
\* listed yet, an old one keeps its content, and a manifest just signed is
\* newer than everything on disk.
Held(p) ==
    /\ pc[p] \in {"base_version", "prev_sig", "begin", "copy"} =>
           hand[p].vid \notin Listed
    /\ pc[p] = "base_version" => hand[p].sig = NoSig
    /\ pc[p] \in {"collect", "version"} /\ hand[p].vid \in Listed =>
           versions[hand[p].vid].content = hand[p].content
    /\ pc[p] = "version" =>
           /\ hand[p].sig = clock
           /\ \A v \in Listed : versions[v].sig < clock
           /\ latest \in Manifest => latest.sig < clock
    /\ pc[p] \in WrittenSteps => versions[hand[p].vid] = hand[p]

AloneInv ==
    ~overlapped => OneBusy /\ Stamped /\ OnRecord /\ \A p \in Procs : Held(p)

LEMMA AloneInvInit == Init => AloneInv
  BY LedgerAssumption
  DEF Init, AloneInv, OneBusy, Stamped, OnRecord, Held, Listed, WrittenSteps

\* a process that is idle holds nothing
LEMMA IdleHeld ==
    ASSUME NEW q \in Procs, pc[q] = "idle"
    PROVE  Held(q)
  BY DEF Held, WrittenSteps

\* what the steps of a busy process have in common
LEMMA BusyStep ==
    ASSUME TypeOK, NEW p \in Procs, Step(p) \/ Die(p)
    PROVE  /\ pc[p] # "idle" /\ overlapped' = overlapped
           /\ \A q \in Procs \ {p} : pc'[q] = pc[q]
  BY DEF Step, CheckStep, CertifyStep, Die, Finish, Goto, TypeOK, ghost,
         CheckHash, BaselineList, BaselineNumber, WriteVersion, BaselineLatest,
         SnapshotBegin, BaselineCopy, SnapshotClash, CertifyLatest,
         CertifyNumber, CertifyPrevSig, CertifyCopy, CollectEnds,
         CollectAndSign, CertifyPublish

\* so that without overlap, only the process of the step matters
LEMMA BusyFrame ==
    ASSUME LedgerInv, AloneInv, NEW p \in Procs, Step(p) \/ Die(p), ~overlapped',
           Stamped', OnRecord', Held(p)'
    PROVE  AloneInv'
<1>1. /\ pc[p] # "idle" /\ ~overlapped
      /\ \A q \in Procs \ {p} : pc'[q] = pc[q]
  BY BusyStep DEF LedgerInv
<1>2. OneBusy
  BY <1>1 DEF AloneInv
<1>3. \A q \in Procs \ {p} : pc'[q] = "idle"
  BY <1>1, <1>2 DEF OneBusy
<1>4. \A q \in Procs \ {p} : Held(q)'
  BY <1>3 DEF Held, WrittenSteps
<1>5. OneBusy'
  BY <1>3 DEF OneBusy
<1>. QED
  BY <1>4, <1>5 DEF AloneInv

\* a command starts alone, or else the commands have overlapped
LEMMA AloneBegin ==
    ASSUME LedgerInv, AloneInv, NEW p \in Procs, Begin(p)
    PROVE  AloneInv'
<1>. SUFFICES ASSUME ~overlapped'
              PROVE  OneBusy' /\ Stamped' /\ OnRecord' /\ \A q \in Procs : Held(q)'
  BY DEF AloneInv
<1>1. /\ ~overlapped /\ Quiet
      /\ UNCHANGED <<files, disk, clock>>
      /\ \A q \in Procs \ {p} : pc'[q] = pc[q]
      /\ pc'[p] \in {"idle", "check_hash", "latest"}
  BY DEF LedgerInv, TypeOK, Begin, CheckUnparsable, CheckLatest, CertifyHash,
         Start, Quiet
<1>2. \A q \in Procs \ {p} : pc'[q] = "idle"
  BY <1>1 DEF Quiet
<1>3. OneBusy'
  BY <1>2 DEF OneBusy
<1>4. \A q \in Procs : Held(q)'
  BY <1>1, <1>2 DEF Held, WrittenSteps
<1>5. Stamped' /\ OnRecord'
  BY <1>1 DEF AloneInv, Stamped, OnRecord, Listed, disk
<1>. QED
  BY <1>3, <1>4, <1>5

LEMMA AloneEnvironment ==
    ASSUME LedgerInv, AloneInv, Environment
    PROVE  AloneInv'
<1>. SUFFICES ASSUME ~overlapped'
              PROVE  OneBusy' /\ Stamped' /\ OnRecord' /\ \A q \in Procs : Held(q)'
  BY DEF AloneInv
<1>1. /\ ~overlapped
      /\ UNCHANGED <<versions, clock, pc, hand>> /\ Listed' = Listed
  BY DEF Environment, Edit, LoseLatest, disk, local, ghost, Listed
<1>2. latest' \in Manifest =>
        /\ latest \in Manifest /\ latest'.vid = latest.vid
        /\ latest'.content = latest.content /\ latest'.sig = latest.sig
        /\ latest'.scans = latest.scans
  BY LedgerAssumption
  DEF LedgerInv, TypeOK, Environment, Edit, LoseLatest, disk, Manifest
<1>3. OneBusy /\ Stamped /\ OnRecord /\ \A q \in Procs : Held(q)
  BY <1>1 DEF AloneInv
<1>4. OneBusy'
  BY <1>1, <1>3 DEF OneBusy
<1>5. Stamped'
  BY <1>1, <1>2, <1>3 DEF Stamped
<1>6. OnRecord'
  BY <1>1, <1>2, <1>3 DEF OnRecord
<1>7. \A q \in Procs : Held(q)'
  BY <1>1, <1>2, <1>3 DEF Held, WrittenSteps
<1>. QED
  BY <1>4, <1>5, <1>6, <1>7

\* steps after which versions/, latest.json and the clock are as before
LEMMA AloneReads ==
    ASSUME LedgerInv, AloneInv, NEW p \in Procs, Step(p) \/ Die(p),
           UNCHANGED <<latest, versions, clock>>, Held(p)'
    PROVE  AloneInv'
<1>. SUFFICES ASSUME ~overlapped' PROVE AloneInv'
  BY DEF AloneInv
<1>1. ~overlapped
  BY BusyStep DEF LedgerInv
<1>2. Stamped' /\ OnRecord'
  BY <1>1 DEF AloneInv, Stamped, OnRecord, Listed
<1>. QED
  BY <1>2, BusyFrame

LEMMA AloneCheck ==
    ASSUME LedgerInv, AloneInv, NEW p \in Procs, CheckStep(p)
    PROVE  AloneInv'
<1>. USE DEF LedgerInv
<1>. SUFFICES ASSUME ~overlapped' PROVE AloneInv'
  BY DEF AloneInv
<1>0. Step(p)
  BY DEF Step
<1>1. ~overlapped /\ Stamped /\ OnRecord /\ Held(p)
  BY <1>0, BusyStep DEF AloneInv
<1>2. LastListed \in 0 .. MaxVersion /\ Listed = 1 .. LastListed
  BY LastListedFacts
<1>3. CASE CheckHash(p)
  <2>1. Held(p)'
    BY <1>3 DEF CheckHash, Goto, Finish, TypeOK, Held, WrittenSteps
  <2>. QED
    BY <1>0, <1>3, <2>1, AloneReads DEF CheckHash, disk
<1>4. CASE BaselineList(p)
  <2>1. Held(p)'
    <3>1. seen[p] \in Contents /\ NoSig \in Nat /\ 1 \in VersionIds
      BY <1>4, LedgerAssumption DEF BaselineList, Ready, NoSig, VersionIds
    <3>2. CASE Listed = {}
      <4>1. hand'[p] = NewManifest(1, 0, seen[p], NoSig)
        BY <1>4, <3>2 DEF BaselineList, TypeOK
      <4>2. hand'[p].sig = NoSig
        BY <3>1, <4>1, NewManifestFacts
      <4>3. pc'[p] = "base_version" /\ Listed' = {}
        BY <1>4, <3>2 DEF BaselineList, Goto, TypeOK, Listed, disk
      <4>. QED
        BY <4>2, <4>3 DEF Held, WrittenSteps
    <3>3. CASE Listed # {}
      BY <1>4, <3>3 DEF BaselineList, Goto, TypeOK, Held, WrittenSteps
    <3>. QED
      BY <3>2, <3>3
  <2>. QED
    BY <1>0, <1>4, <2>1, AloneReads DEF BaselineList, disk
<1>5. CASE BaselineNumber(p)
  <2>1. Held(p)'
    <3>1. CASE Finish(p)
      BY <3>1 DEF Finish, TypeOK, Held, WrittenSteps
    <3>2. CASE /\ LastListed < MaxVersion
               /\ hand' = [hand EXCEPT ![p] =
                      NewManifest(LastListed + 1, hand[p].prevVid, seen[p],
                                  versions[hand[p].prevVid].sig)]
               /\ Goto(p, "base_version")
      <4>1. hand'[p].vid = LastListed + 1 /\ hand'[p].sig = NoSig
        BY <3>2 DEF NewManifest, TypeOK
      <4>2. Listed' = Listed /\ pc'[p] = "base_version"
        BY <1>5, <3>2 DEF BaselineNumber, Goto, TypeOK, Listed, disk
      <4>. QED
        BY <1>2, <4>1, <4>2 DEF Held, WrittenSteps
    <3>. QED
      BY <1>5, <3>1, <3>2 DEF BaselineNumber
  <2>. QED
    BY <1>0, <1>5, <2>1, AloneReads DEF BaselineNumber, disk
<1>6. CASE WriteVersion(p, "base_version", "base_latest")
  <2>1. /\ hand[p] \in Manifest /\ hand[p].vid \in VersionIds
        /\ hand[p].vid \notin Listed /\ hand[p].sig = NoSig
        /\ versions' = [versions EXCEPT ![hand[p].vid] = hand[p]]
        /\ UNCHANGED <<latest, clock, hand>> /\ pc'[p] = "base_latest"
    BY <1>1, <1>6
    DEF WriteVersion, Goto, TypeOK, Ready, NumberedSteps, Held, Manifest
  <2>2. Listed' = Listed \cup {hand[p].vid}
    BY <2>1, LedgerAssumption DEF Listed, TypeOK
  <2>3. \A v \in Listed : versions'[v] = versions[v]
    BY <2>1 DEF TypeOK, Listed
  <2>4. versions'[hand[p].vid] = hand[p]
    BY <2>1 DEF TypeOK
  <2>5. Stamped'
    BY <1>1, <2>1, <2>2, <2>3, <2>4 DEF Stamped, NoSig, TypeOK
  <2>6. OnRecord'
    BY <1>1, <2>1, <2>3 DEF OnRecord, NoGap
  <2>7. Held(p)'
    BY <2>1, <2>4 DEF Held
  <2>. QED
    BY <1>0, <2>5, <2>6, <2>7, BusyFrame
<1>7. CASE BaselineLatest(p)
  <2>1. /\ hand[p] \in Manifest /\ hand[p].vid \in Listed
        /\ versions[hand[p].vid] = hand[p]
        /\ latest' = hand[p] /\ UNCHANGED <<versions, clock, hand>>
        /\ pc'[p] = "base_begin"
    BY <1>1, <1>7
    DEF BaselineLatest, Goto, TypeOK, Ready, WrittenSteps, Held
  <2>2. Stamped'
    BY <1>1, <2>1 DEF Stamped, Listed
  <2>3. OnRecord'
    BY <2>1, LedgerAssumption DEF OnRecord, Manifest
  <2>4. Held(p)'
    BY <2>1 DEF Held
  <2>. QED
    BY <1>0, <2>2, <2>3, <2>4, BusyFrame
<1>8. CASE SnapshotBegin(p, "base_begin", "base_copy")
  <2>1. Held(p)'
    BY <1>1, <1>8 DEF SnapshotBegin, Goto, TypeOK, Held, WrittenSteps
  <2>. QED
    BY <1>0, <1>8, <2>1, AloneReads DEF SnapshotBegin
<1>9. CASE BaselineCopy(p)
  <2>1. Held(p)'
    BY <1>9 DEF BaselineCopy, Finish, TypeOK, Held, WrittenSteps
  <2>. QED
    BY <1>0, <1>9, <2>1, AloneReads DEF BaselineCopy
<1>. QED
  BY <1>3, <1>4, <1>5, <1>6, <1>7, <1>8, <1>9 DEF CheckStep

LEMMA AloneCertify ==
    ASSUME LedgerInv, AloneInv, NEW p \in Procs, CertifyStep(p)
    PROVE  AloneInv'
<1>. USE DEF LedgerInv
<1>. SUFFICES ASSUME ~overlapped' PROVE AloneInv'
  BY DEF AloneInv
<1>0. Step(p)
  BY DEF Step
<1>1. ~overlapped /\ Stamped /\ OnRecord /\ Held(p)
  BY <1>0, BusyStep DEF AloneInv
<1>2. LastListed \in 0 .. MaxVersion /\ Listed = 1 .. LastListed
  BY LastListedFacts
<1>3. CASE CertifyLatest(p)
  <2>1. Held(p)'
    <3>1. CASE Finish(p)
      BY <3>1 DEF Finish, TypeOK, Held, WrittenSteps
    <3>2. CASE /\ latest # Unparsable
               /\ hand' = [hand EXCEPT ![p] = latest]
               /\ Goto(p, IF latest # NoFile /\ latest.content = seen[p]
                          THEN "collect" ELSE "number")
      <4>1. pc'[p] = "collect" => latest \in Manifest
        BY <3>2 DEF Goto, TypeOK
      <4>2. hand'[p] = latest /\ UNCHANGED versions
        BY <1>3, <3>2 DEF CertifyLatest, TypeOK, disk
      <4>3. pc'[p] \in {"collect", "number"}
        BY <3>2 DEF Goto, TypeOK
      <4>. QED
        BY <1>1, <4>1, <4>2, <4>3 DEF Held, OnRecord, WrittenSteps
    <3>. QED
      BY <1>3, <3>1, <3>2 DEF CertifyLatest
  <2>. QED
    BY <1>0, <1>3, <2>1, AloneReads DEF CertifyLatest, disk
<1>4. CASE CertifyNumber(p)
  <2>1. Held(p)'
    <3>1. CASE Finish(p)
      BY <3>1 DEF Finish, TypeOK, Held, WrittenSteps
    <3>2. CASE /\ hand' = [hand EXCEPT ![p] =
                      NewManifest(LastListed + 1,
                                  IF hand[p] = NoFile THEN 0 ELSE hand[p].vid,
                                  seen[p], NoSig)]
               /\ Goto(p, "prev_sig")
      <4>1. hand'[p].vid = LastListed + 1
        BY <3>2 DEF NewManifest, TypeOK
      <4>2. Listed' = Listed /\ pc'[p] = "prev_sig"
        BY <1>4, <3>2 DEF CertifyNumber, Goto, TypeOK, Listed, disk
      <4>. QED
        BY <1>2, <4>1, <4>2 DEF Held, WrittenSteps
    <3>. QED
      BY <1>4, <3>1, <3>2 DEF CertifyNumber
  <2>. QED
    BY <1>0, <1>4, <2>1, AloneReads DEF CertifyNumber, disk
<1>5. CASE CertifyPrevSig(p)
  <2>1. Held(p)'
    <3>1. /\ hand'[p].vid = hand[p].vid /\ hand[p].vid \notin Listed
          /\ Listed' = Listed /\ pc'[p] = "begin"
      BY <1>1, <1>5
      DEF CertifyPrevSig, Goto, TypeOK, Ready, NumberedSteps, Held, Listed,
          disk, Manifest
    <3>. QED
      BY <3>1 DEF Held, WrittenSteps
  <2>. QED
    BY <1>0, <1>5, <2>1, AloneReads DEF CertifyPrevSig, disk
<1>6. CASE SnapshotBegin(p, "begin", "copy")
  <2>1. Held(p)'
    BY <1>1, <1>6 DEF SnapshotBegin, Goto, TypeOK, Held, WrittenSteps, Listed
  <2>. QED
    BY <1>0, <1>6, <2>1, AloneReads DEF SnapshotBegin
<1>7. CASE CertifyCopy(p)
  <2>1. Held(p)'
    BY <1>1, <1>7 DEF CertifyCopy, Goto, TypeOK, Held, WrittenSteps, Listed
  <2>. QED
    BY <1>0, <1>7, <2>1, AloneReads DEF CertifyCopy
<1>8. CASE CollectEnds(p)
  <2>1. Held(p)'
    BY <1>8 DEF CollectEnds, Finish, TypeOK, Held, WrittenSteps
  <2>. QED
    BY <1>0, <1>8, <2>1, AloneReads DEF CollectEnds, disk
<1>9. CASE CollectAndSign(p)
  <2>1. /\ hand[p] \in Manifest /\ job[p].entries \in Scans /\ clock + 1 \in Nat
        /\ hand'[p] = Signed(hand[p], job[p].entries, clock + 1)
        /\ pc'[p] = "version" /\ pc[p] = "collect" /\ clock' = clock + 1
        /\ UNCHANGED <<latest, versions>> /\ Listed' = Listed
    BY <1>9
    DEF CollectAndSign, Goto, TypeOK, Ready, NumberedSteps, Job, disk, Listed
  <2>2. /\ hand'[p].vid = hand[p].vid /\ hand'[p].content = hand[p].content
        /\ hand'[p].sig = clock + 1
    BY <2>1, SignedFacts
  <2>3. /\ \A v \in Listed : versions[v].sig \in Nat
        /\ latest \in Manifest => latest.sig \in Nat
        /\ clock \in Nat
    BY DEF TypeOK, Listed, Manifest
  <2>4. Stamped' /\ OnRecord'
    BY <1>1, <2>1, <2>3 DEF Stamped, OnRecord
  <2>5. Held(p)'
    BY <1>1, <2>1, <2>2, <2>3 DEF Held, Stamped, WrittenSteps
  <2>. QED
    BY <1>0, <2>4, <2>5, BusyFrame
<1>10. CASE WriteVersion(p, "version", "publish")
  <2>1. /\ hand[p] \in Manifest /\ hand[p].vid \in VersionIds
        /\ hand[p].sig = clock
        /\ \A v \in Listed : versions[v].sig < clock
        /\ latest \in Manifest => latest.sig < clock
        /\ hand[p].vid \in Listed =>
              versions[hand[p].vid].content = hand[p].content
        /\ versions' = [versions EXCEPT ![hand[p].vid] = hand[p]]
        /\ UNCHANGED <<latest, clock, hand>> /\ pc'[p] = "publish"
    BY <1>1, <1>10
    DEF WriteVersion, Goto, TypeOK, Ready, NumberedSteps, Held, Manifest
  <2>2. Listed' = Listed \cup {hand[p].vid}
    BY <2>1, LedgerAssumption DEF Listed, TypeOK
  <2>3. \A v \in Listed \ {hand[p].vid} : versions'[v] = versions[v]
    BY <2>1 DEF TypeOK, Listed
  <2>4. versions'[hand[p].vid] = hand[p]
    BY <2>1 DEF TypeOK
  <2>5. /\ clock \in Nat
        /\ \A v \in Listed : versions[v].sig \in Nat
        /\ latest \in Manifest => latest.sig \in Nat
    BY DEF TypeOK, Listed, Manifest
  <2>6. Stamped'
    BY <1>1, <2>1, <2>2, <2>3, <2>4, <2>5 DEF Stamped
  <2>7. OnRecord'
    <3>. SUFFICES ASSUME latest \in Manifest PROVE OnRecord'
      BY <2>1 DEF OnRecord
    <3>1. latest.vid \in Listed
      BY DEF NoGap
    <3>2. CASE latest.vid = hand[p].vid
      BY <1>1, <2>1, <2>4, <2>5, <3>1, <3>2, LedgerAssumption DEF OnRecord
    <3>3. CASE latest.vid # hand[p].vid
      BY <1>1, <2>1, <2>3, <3>1, <3>3 DEF OnRecord
    <3>. QED
      BY <3>2, <3>3
  <2>8. Held(p)'
    BY <2>1, <2>4 DEF Held
  <2>. QED
    BY <1>0, <2>6, <2>7, <2>8, BusyFrame
<1>11. CASE CertifyPublish(p)
  <2>1. /\ hand[p] \in Manifest /\ hand[p].vid \in Listed
        /\ versions[hand[p].vid] = hand[p]
        /\ latest' = hand[p] /\ UNCHANGED <<versions, clock>>
        /\ pc'[p] = "idle"
    BY <1>1, <1>11
    DEF CertifyPublish, Finish, TypeOK, Ready, WrittenSteps, Held
  <2>2. Stamped'
    BY <1>1, <2>1 DEF Stamped, Listed
  <2>3. OnRecord'
    BY <2>1, LedgerAssumption DEF OnRecord, Manifest
  <2>4. Held(p)'
    BY <2>1 DEF Held, WrittenSteps
  <2>. QED
    BY <1>0, <2>2, <2>3, <2>4, BusyFrame
<1>. QED
  BY <1>3, <1>4, <1>5, <1>6, <1>7, <1>8, <1>9, <1>10, <1>11 DEF CertifyStep

LEMMA AloneInvStep == LedgerInv /\ AloneInv /\ [Next]_vars => AloneInv'
<1>. SUFFICES ASSUME LedgerInv, AloneInv, [Next]_vars PROVE AloneInv'
  OBVIOUS
<1>1. CASE UNCHANGED vars
  BY <1>1
  DEF AloneInv, vars, disk, local, ghost, OneBusy, Stamped, OnRecord, Held,
      WrittenSteps, Listed
<1>2. CASE Environment
  BY <1>2, AloneEnvironment
<1>3. ASSUME NEW p \in Procs, Begin(p) PROVE AloneInv'
  BY <1>3, AloneBegin
<1>4. ASSUME NEW p \in Procs, Step(p) PROVE AloneInv'
  <2>1. CASE SnapshotClash(p)
    <3>1. Held(p)'
      BY <2>1
      DEF LedgerInv, SnapshotClash, Finish, TypeOK, Held, WrittenSteps
    <3>. QED
      BY <1>4, <2>1, <3>1, AloneReads DEF SnapshotClash
  <2>. QED
    BY <1>4, <2>1, AloneCheck, AloneCertify DEF Step
<1>5. ASSUME NEW p \in Procs, Die(p) PROVE AloneInv'
  <2>1. Held(p)'
    BY <1>5 DEF LedgerInv, Die, Finish, TypeOK, Held, WrittenSteps
  <2>. QED
    BY <1>5, <2>1, AloneReads DEF Die, disk
<1>. QED
  BY <1>1, <1>2, <1>3, <1>4, <1>5 DEF Next

THEOREM AloneInvariant == Spec => [](LedgerInv /\ AloneInv)
<1>1. Spec => []AloneInv
  BY LedgerInvariant, AloneInvInit, AloneInvStep, PTL DEF Spec
<1>. QED
  BY LedgerInvariant, <1>1, PTL

\* As long as commands do not overlap, what latest.json says is on record in
\* versions/: save_manifest writes the version first, so a command that dies
\* between the two writes leaves latest.json behind, never ahead.
THEOREM LatestIsOnRecord == Spec => []LatestOnRecord
<1>1. AloneInv => LatestOnRecord
  BY DEF AloneInv, OnRecord, LatestOnRecord
<1>. QED
  BY AloneInvariant, <1>1, PTL

\* A step that changes versions/ without overlap
LEMMA VersionStep ==
    ASSUME LedgerInv, AloneInv, [Next]_vars, ~overlapped',
           NEW v \in Listed
    PROVE  versions'[v] # NoFile /\ versions'[v].content = versions[v].content
<1>. USE DEF LedgerInv
<1>1. versions[v] # NoFile
  BY DEF Listed
<1>2. CASE UNCHANGED versions
  BY <1>1, <1>2
<1>3. ASSUME NEW p \in Procs,
             \/ WriteVersion(p, "base_version", "base_latest")
             \/ WriteVersion(p, "version", "publish")
      PROVE  versions'[v] # NoFile /\ versions'[v].content = versions[v].content
  <2>1. Step(p)
    BY <1>3 DEF Step, CheckStep, CertifyStep
  <2>2. Held(p)
    BY <2>1, BusyStep DEF AloneInv
  <2>3. /\ hand[p] \in Manifest
        /\ versions' = [versions EXCEPT ![hand[p].vid] = hand[p]]
        /\ hand[p].vid \in Listed =>
               versions[hand[p].vid].content = hand[p].content
    BY <1>3, <2>2 DEF WriteVersion, Ready, NumberedSteps, Held
  <2>. QED
    BY <1>1, <2>3, LedgerAssumption DEF TypeOK, Listed
<1>4. CASE Environment
  BY <1>1, <1>4 DEF Environment, Edit, LoseLatest, disk
<1>5. ASSUME NEW p \in Procs, Begin(p) \/ Die(p)
      PROVE  UNCHANGED versions
  BY <1>5 DEF Begin, CheckUnparsable, CheckLatest, CertifyHash, Start, Die, disk
<1>6. ASSUME NEW p \in Procs, Step(p),
             ~WriteVersion(p, "base_version", "base_latest"),
             ~WriteVersion(p, "version", "publish")
      PROVE  UNCHANGED versions
  BY <1>6
  DEF Step, CheckStep, CertifyStep, CheckHash, BaselineList, BaselineNumber,
      BaselineLatest, SnapshotBegin, BaselineCopy, SnapshotClash,
      CertifyLatest, CertifyNumber, CertifyPrevSig, CertifyCopy, CollectEnds,
      CollectAndSign, CertifyPublish, disk
<1>7. CASE UNCHANGED vars
  BY <1>2, <1>7 DEF vars, disk
<1>. QED
  BY <1>2, <1>3, <1>4, <1>5, <1>6, <1>7 DEF Next

\* A version file, once written, is for ever a file of the same skill
\* content, even if commands die, as long as they do not overlap.
THEOREM VersionsKeepContent == Spec => VersionKeepsContent
<1>1. LedgerInv /\ AloneInv /\ [Next]_vars =>
        [~overlapped' =>
            \A v \in Listed :
                /\ versions'[v] # NoFile
                /\ versions'[v].content = versions[v].content]_vars
  BY VersionStep
<1>. QED
  BY AloneInvariant, <1>1, PTL DEF Spec, VersionKeepsContent
-----------------------------------------------------------------------------
(* What certify has acknowledged, as long as commands do not overlap       *)

\* the last verdicts acknowledged for this version are in the manifest
Agrees(m) ==
    \A s \in Scanners : acked[s].vid = m.vid => m.scans[s] = acked[s].verdict

\* a deny in scans[] is what check will answer
DenyShown(m) ==
    \A s \in Scanners : m.scans[s] = "deny" => m.scanStatus = "deny" /\ m.sig # NoSig

\* What the manifest in hand says about verdicts.  A baseline is for a number
\* that nothing was acknowledged for; one that certify has merged says what
\* was acknowledged, or what this certify is about to acknowledge.
Carries(p) ==
    /\ pc[p] \in NumberedSteps \cup WrittenSteps => DenyShown(hand[p])
    /\ pc[p] = "base_latest" => \A s \in Scanners : acked[s].vid # hand[p].vid
    /\ pc[p] = "collect" => Agrees(hand[p])
    /\ pc[p] \in {"version", "publish"} =>
          \A s \in Scanners :
             /\ job[p].entries[s] # "absent" => hand[p].scans[s] = job[p].entries[s]
             /\ job[p].entries[s] = "absent" /\ acked[s].vid = hand[p].vid
                   => hand[p].scans[s] = acked[s].verdict

AckedListed == \A s \in Scanners : acked[s].vid \in {0} \cup Listed

LatestCarries == latest \in Manifest => Agrees(latest) /\ DenyShown(latest)

ScanInv ==
    ~overlapped => AckedListed /\ LatestCarries /\ \A p \in Procs : Carries(p)

LEMMA SignedScans ==
    ASSUME NEW m \in Manifest, NEW e \in Scans, NEW n \in Nat, DenyShown(m)
    PROVE  /\ \A s \in Scanners : Signed(m, e, n + 1).scans[s]
                                     = IF e[s] = "absent" THEN m.scans[s] ELSE e[s]
           /\ Signed(m, e, n + 1).vid = m.vid
           /\ DenyShown(Signed(m, e, n + 1))
<1>. DEFINE signed == Signed(m, e, n + 1)
            merged == Merge(m.scans, e)
<1>1. /\ signed.scans = merged /\ signed.vid = m.vid /\ signed.sig = n + 1
      /\ signed.scanStatus = IF e = NoScan THEN m.scanStatus ELSE Aggregate(merged)
  BY DEF Signed, Manifest
<1>2. \A s \in Scanners : merged[s] = IF e[s] = "absent" THEN m.scans[s] ELSE e[s]
  BY DEF Merge
<1>3. ASSUME NEW s \in Scanners, merged[s] = "deny"
      PROVE  signed.scanStatus = "deny"
  <2>1. CASE e = NoScan
    BY <1>1, <1>2, <1>3, <2>1 DEF NoScan, DenyShown
  <2>2. CASE e # NoScan
    BY <1>1, <1>3, <2>2 DEF Aggregate
  <2>. QED
    BY <2>1, <2>2
<1>. QED
  BY <1>1, <1>2, <1>3 DEF DenyShown, NoSig

LEMMA NewManifestScans ==
    \A v, pv, c, n : DenyShown(NewManifest(v, pv, c, n))
  BY DEF NewManifest, NoScan, DenyShown

LEMMA ScanInvInit == Init => ScanInv
  BY LedgerAssumption
  DEF Init, ScanInv, AckedListed, LatestCarries, Carries, NumberedSteps, WrittenSteps

\* only the process of the step matters
LEMMA ScanFrame ==
    ASSUME LedgerInv, AloneInv, NEW p \in Procs, Step(p) \/ Die(p), ~overlapped',
           AckedListed', LatestCarries', Carries(p)'
    PROVE  ScanInv'
<1>1. /\ pc[p] # "idle" /\ ~overlapped
      /\ \A q \in Procs \ {p} : pc'[q] = pc[q]
  BY BusyStep DEF LedgerInv
<1>2. \A q \in Procs \ {p} : pc'[q] = "idle"
  BY <1>1 DEF AloneInv, OneBusy
<1>3. \A q \in Procs \ {p} : Carries(q)'
  BY <1>2 DEF Carries, NumberedSteps, WrittenSteps
<1>. QED
  BY <1>3 DEF ScanInv

\* steps that acknowledge nothing, leave latest.json alone and only add to
\* versions/
LEMMA ScanReads ==
    ASSUME LedgerInv, AloneInv, ScanInv, NEW p \in Procs, Step(p) \/ Die(p),
           UNCHANGED <<latest, acked>>, Listed \subseteq Listed', Carries(p)'
    PROVE  ScanInv'
<1>. SUFFICES ASSUME ~overlapped' PROVE ScanInv'
  BY DEF ScanInv
<1>1. ~overlapped
  BY BusyStep DEF LedgerInv
<1>2. AckedListed' /\ LatestCarries'
  BY <1>1 DEF ScanInv, AckedListed, LatestCarries, Agrees, DenyShown
<1>. QED
  BY <1>2, ScanFrame

LEMMA ScanBegin ==
    ASSUME LedgerInv, AloneInv, ScanInv, NEW p \in Procs, Begin(p)
    PROVE  ScanInv'
<1>. SUFFICES ASSUME ~overlapped' PROVE ScanInv'
  BY DEF ScanInv
<1>1. /\ ~overlapped /\ Quiet
      /\ UNCHANGED <<latest, versions, acked>>
      /\ \A q \in Procs \ {p} : pc'[q] = pc[q]
      /\ pc'[p] \in {"idle", "check_hash", "latest"}
  BY DEF LedgerInv, TypeOK, Begin, CheckUnparsable, CheckLatest, CertifyHash,
         Start, Quiet, disk
<1>2. \A q \in Procs : Carries(q)'
  BY <1>1 DEF Quiet, Carries, NumberedSteps, WrittenSteps
<1>3. AckedListed' /\ LatestCarries'
  BY <1>1 DEF ScanInv, AckedListed, LatestCarries, Agrees, DenyShown, Listed
<1>. QED
  BY <1>2, <1>3 DEF ScanInv

LEMMA ScanEnvironment ==
    ASSUME LedgerInv, ScanInv, Environment
    PROVE  ScanInv'
<1>. SUFFICES ASSUME ~overlapped' PROVE ScanInv'
  BY DEF ScanInv
<1>1. ~overlapped /\ UNCHANGED <<versions, acked, pc, hand, job>>
  BY DEF Environment, Edit, LoseLatest, disk, local, ghost
<1>2. latest' \in Manifest =>
        /\ latest \in Manifest /\ latest'.vid = latest.vid
        /\ latest'.scanStatus = latest.scanStatus /\ latest'.sig = latest.sig
        /\ latest'.scans = latest.scans
  BY LedgerAssumption
  DEF LedgerInv, TypeOK, Environment, Edit, LoseLatest, disk, Manifest
<1>3. LatestCarries'
  BY <1>1, <1>2 DEF ScanInv, LatestCarries, Agrees, DenyShown
<1>4. AckedListed' /\ \A q \in Procs : Carries(q)'
  BY <1>1 DEF ScanInv, AckedListed, Listed, Carries, Agrees, DenyShown
<1>. QED
  BY <1>3, <1>4 DEF ScanInv

LEMMA FinishCarries ==
    ASSUME TypeOK, NEW p \in Procs, Finish(p)
    PROVE  Carries(p)'
  BY DEF Finish, TypeOK, Carries, NumberedSteps, WrittenSteps

LEMMA ScanCheck ==
    ASSUME LedgerInv, AloneInv, ScanInv, NEW p \in Procs, CheckStep(p), ~overlapped'
    PROVE  ScanInv'
<1>. USE DEF LedgerInv
<1>0. Step(p)
  BY DEF Step
<1>1. Held(p) /\ Carries(p) /\ AckedListed /\ LatestCarries
  BY <1>0, BusyStep DEF AloneInv, ScanInv
<1>2. ASSUME NEW next, Goto(p, next) PROVE pc'[p] = next /\ UNCHANGED job
  BY <1>2 DEF Goto, TypeOK
<1>3. CASE CheckHash(p)
  <2>1. Carries(p)'
    <3>1. CASE Finish(p)
      BY <3>1, FinishCarries
    <3>2. CASE Goto(p, "base_list")
      BY <1>2, <3>2 DEF Carries, NumberedSteps, WrittenSteps
    <3>. QED
      BY <1>3, <3>1, <3>2 DEF CheckHash
  <2>. QED
    BY <1>0, <1>3, <2>1, ScanReads DEF CheckHash, disk, ghost, Listed
<1>4. CASE BaselineList(p)
  <2>1. Carries(p)'
    <3>1. \E v, pv : hand'[p] = NewManifest(v, pv, seen[p], NoSig)
      BY <1>4 DEF BaselineList, TypeOK
    <3>2. pc'[p] \in {"base_version", "base_number"}
      BY <1>2, <1>4 DEF BaselineList
    <3>. QED
      BY <3>1, <3>2, NewManifestScans DEF Carries, DenyShown
  <2>. QED
    BY <1>0, <1>4, <2>1, ScanReads DEF BaselineList, disk, ghost, Listed
<1>5. CASE BaselineNumber(p)
  <2>1. Carries(p)'
    <3>1. CASE Finish(p)
      BY <3>1, FinishCarries
    <3>2. CASE Goto(p, "base_version") /\ ~Finish(p)
      <4>1. \E v, n : hand'[p] = NewManifest(v, hand[p].prevVid, seen[p], n)
        BY <1>5, <3>2 DEF BaselineNumber, TypeOK
      <4>. QED
        BY <1>2, <3>2, <4>1, NewManifestScans DEF Carries, DenyShown
    <3>. QED
      BY <1>5, <3>1, <3>2 DEF BaselineNumber
  <2>. QED
    BY <1>0, <1>5, <2>1, ScanReads DEF BaselineNumber, disk, ghost, Listed
<1>6. CASE WriteVersion(p, "base_version", "base_latest")
  <2>1. /\ hand[p] \in Manifest /\ hand[p].vid \in VersionIds
        /\ hand[p].vid \notin Listed /\ DenyShown(hand[p])
        /\ versions' = [versions EXCEPT ![hand[p].vid] = hand[p]]
        /\ UNCHANGED <<latest, hand, acked>> /\ pc'[p] = "base_latest"
    BY <1>1, <1>2, <1>6
    DEF WriteVersion, Ready, NumberedSteps, Held, Manifest, Carries, ghost
  <2>2. Listed \subseteq Listed'
    BY <2>1, LedgerAssumption DEF Listed, TypeOK
  <2>3. \A s \in Scanners : acked[s].vid # hand[p].vid
    BY <1>1, <2>1 DEF AckedListed, VersionIds
  <2>4. Carries(p)'
    BY <2>1, <2>3 DEF Carries, DenyShown
  <2>. QED
    BY <1>0, <2>1, <2>2, <2>4, ScanReads
<1>7. CASE BaselineLatest(p)
  <2>1. /\ DenyShown(hand[p]) /\ \A s \in Scanners : acked[s].vid # hand[p].vid
        /\ latest' = hand[p] /\ UNCHANGED <<versions, hand, acked>>
        /\ pc'[p] = "base_begin"
    BY <1>1, <1>2, <1>7 DEF BaselineLatest, Carries, WrittenSteps, ghost
  <2>2. LatestCarries' /\ AckedListed'
    BY <1>1, <2>1 DEF LatestCarries, AckedListed, Agrees, DenyShown, Listed
  <2>3. Carries(p)'
    BY <2>1 DEF Carries, DenyShown
  <2>. QED
    BY <1>0, <2>2, <2>3, ScanFrame
<1>8. CASE SnapshotBegin(p, "base_begin", "base_copy")
  <2>1. Carries(p)'
    BY <1>1, <1>2, <1>8 DEF SnapshotBegin, Carries, WrittenSteps, DenyShown
  <2>. QED
    BY <1>0, <1>8, <2>1, ScanReads DEF SnapshotBegin, ghost, Listed
<1>9. CASE BaselineCopy(p)
  <2>1. Carries(p)'
    BY <1>9, FinishCarries DEF BaselineCopy
  <2>. QED
    BY <1>0, <1>9, <2>1, ScanReads DEF BaselineCopy, ghost, Listed
<1>. QED
  BY <1>3, <1>4, <1>5, <1>6, <1>7, <1>8, <1>9 DEF CheckStep

LEMMA ScanCertify ==
    ASSUME LedgerInv, AloneInv, ScanInv, NEW p \in Procs, CertifyStep(p), ~overlapped'
    PROVE  ScanInv'
<1>. USE DEF LedgerInv
<1>0. Step(p)
  BY DEF Step
<1>1. Held(p) /\ Carries(p) /\ AckedListed /\ LatestCarries
  BY <1>0, BusyStep DEF AloneInv, ScanInv
<1>2. ASSUME NEW next, Goto(p, next) PROVE pc'[p] = next /\ UNCHANGED job
  BY <1>2 DEF Goto, TypeOK
<1>3. CASE CertifyLatest(p)
  <2>1. Carries(p)'
    <3>1. CASE Finish(p)
      BY <3>1, FinishCarries
    <3>2. CASE Goto(p, "number")
      BY <1>2, <3>2 DEF Carries, NumberedSteps, WrittenSteps
    <3>3. CASE latest \in Manifest /\ hand' = [hand EXCEPT ![p] = latest] /\ Goto(p, "collect")
      <4>1. hand'[p] = latest /\ pc'[p] = "collect" /\ UNCHANGED acked
        BY <1>2, <1>3, <3>3 DEF CertifyLatest, TypeOK, ghost
      <4>. QED
        BY <1>1, <3>3, <4>1 DEF Carries, LatestCarries, Agrees, DenyShown
    <3>. QED
      BY <1>3, <3>1, <3>2, <3>3 DEF CertifyLatest, TypeOK
  <2>. QED
    BY <1>0, <1>3, <2>1, ScanReads DEF CertifyLatest, disk, ghost, Listed
<1>4. CASE CertifyNumber(p)
  <2>1. Carries(p)'
    <3>1. CASE Finish(p)
      BY <3>1, FinishCarries
    <3>2. CASE Goto(p, "prev_sig") /\ ~Finish(p)
      <4>1. \E v, pv : hand'[p] = NewManifest(v, pv, seen[p], NoSig)
        BY <1>4, <3>2 DEF CertifyNumber, TypeOK
      <4>. QED
        BY <1>2, <3>2, <4>1, NewManifestScans DEF Carries, DenyShown
    <3>. QED
      BY <1>4, <3>1, <3>2 DEF CertifyNumber
  <2>. QED
    BY <1>0, <1>4, <2>1, ScanReads DEF CertifyNumber, disk, ghost, Listed
<1>5. CASE CertifyPrevSig(p)
  <2>1. /\ hand[p] \in Manifest /\ DenyShown(hand[p]) /\ pc'[p] = "begin"
        /\ hand'[p] = [hand[p] EXCEPT !.prevSig = PreviousSig]
    BY <1>1, <1>2, <1>5
    DEF CertifyPrevSig, TypeOK, Ready, NumberedSteps, Carries
  <2>2. DenyShown(hand'[p])
    BY <2>1 DEF DenyShown, Manifest
  <2>3. Carries(p)'
    BY <2>1, <2>2 DEF Carries, DenyShown
  <2>. QED
    BY <1>0, <1>5, <2>3, ScanReads DEF CertifyPrevSig, disk, ghost, Listed
<1>6. CASE SnapshotBegin(p, "begin", "copy")
  <2>1. Carries(p)'
    BY <1>1, <1>2, <1>6 DEF SnapshotBegin, Carries, NumberedSteps, DenyShown
  <2>. QED
    BY <1>0, <1>6, <2>1, ScanReads DEF SnapshotBegin, ghost, Listed
<1>7. CASE CertifyCopy(p)
  <2>1. /\ DenyShown(hand[p]) /\ hand[p] \in Manifest /\ hand[p].vid \notin Listed
        /\ pc'[p] = "collect" /\ UNCHANGED <<hand, acked>>
    BY <1>1, <1>2, <1>7 DEF CertifyCopy, Held, Carries, NumberedSteps, Ready, ghost
  <2>2. Agrees(hand[p])
    BY <1>1, <2>1 DEF Agrees, AckedListed, Manifest, VersionIds
  <2>3. Carries(p)'
    BY <2>1, <2>2 DEF Carries, DenyShown, Agrees
  <2>. QED
    BY <1>0, <1>7, <2>3, ScanReads DEF CertifyCopy, ghost, Listed
<1>8. CASE CollectEnds(p)
  <2>1. Carries(p)'
    BY <1>8, FinishCarries DEF CollectEnds
  <2>. QED
    BY <1>0, <1>8, <2>1, ScanReads DEF CollectEnds, disk, ghost, Listed
<1>9. CASE CollectAndSign(p)
  <2>1. /\ hand[p] \in Manifest /\ job[p].entries \in Scans /\ clock \in Nat
        /\ hand'[p] = Signed(hand[p], job[p].entries, clock + 1)
        /\ pc'[p] = "version" /\ pc[p] = "collect" /\ UNCHANGED <<job, acked>>
    BY <1>2, <1>9 DEF CollectAndSign, TypeOK, Ready, NumberedSteps, Job, ghost
  <2>2. DenyShown(hand[p]) /\ Agrees(hand[p])
    BY <1>1, <2>1 DEF Carries, NumberedSteps
  <2>3. /\ \A s \in Scanners : hand'[p].scans[s] =
               IF job[p].entries[s] = "absent" THEN hand[p].scans[s] ELSE job[p].entries[s]
        /\ hand'[p].vid = hand[p].vid
        /\ DenyShown(hand'[p])
    <3>. DEFINE m == hand[p]
                e == job[p].entries
    <3>1. m \in Manifest /\ e \in Scans /\ clock \in Nat /\ DenyShown(m)
      BY <2>1, <2>2
    <3>. HIDE DEF m, e
    <3>2. /\ \A s \in Scanners : Signed(m, e, clock + 1).scans[s]
                                     = IF e[s] = "absent" THEN m.scans[s] ELSE e[s]
          /\ Signed(m, e, clock + 1).vid = m.vid
          /\ DenyShown(Signed(m, e, clock + 1))
      BY <3>1, SignedScans
    <3>. QED
      BY <2>1, <3>2 DEF m, e
  <2>4. Carries(p)'
    BY <2>1, <2>2, <2>3 DEF Carries, Agrees, DenyShown
  <2>. QED
    BY <1>0, <1>9, <2>4, ScanReads DEF CollectAndSign, disk, ghost, Listed
<1>10. CASE WriteVersion(p, "version", "publish")
  <2>1. /\ hand[p] \in Manifest /\ hand[p].vid \in VersionIds
        /\ versions' = [versions EXCEPT ![hand[p].vid] = hand[p]]
        /\ UNCHANGED <<latest, hand, acked, job>>
        /\ pc[p] = "version" /\ pc'[p] = "publish"
    BY <1>2, <1>10 DEF WriteVersion, Ready, NumberedSteps, Manifest, ghost
  <2>2. Listed \subseteq Listed'
    BY <2>1, LedgerAssumption DEF Listed, TypeOK
  <2>3. Carries(p)'
    BY <1>1, <2>1 DEF Carries, DenyShown, NumberedSteps
  <2>. QED
    BY <1>0, <2>1, <2>2, <2>3, ScanReads
<1>11. CASE CertifyPublish(p)
  <2>1. /\ hand[p] \in Manifest /\ hand[p].vid \in Listed /\ DenyShown(hand[p])
        /\ latest' = hand[p] /\ UNCHANGED versions
        /\ acked' = [s \in Scanners |->
               IF job[p].entries[s] = "absent" THEN acked[s]
               ELSE [vid |-> hand[p].vid, verdict |-> job[p].entries[s]]]
        /\ \A s \in Scanners :
             /\ job[p].entries[s] # "absent" => hand[p].scans[s] = job[p].entries[s]
             /\ job[p].entries[s] = "absent" /\ acked[s].vid = hand[p].vid
                   => hand[p].scans[s] = acked[s].verdict
    BY <1>1, <1>11 DEF CertifyPublish, Ready, WrittenSteps, Carries
  <2>2. AckedListed'
    BY <1>1, <2>1 DEF AckedListed, Listed
  <2>3. LatestCarries'
    BY <2>1 DEF LatestCarries, Agrees, DenyShown
  <2>4. Carries(p)'
    BY <1>11, FinishCarries DEF CertifyPublish
  <2>. QED
    BY <1>0, <2>2, <2>3, <2>4, ScanFrame
<1>. QED
  BY <1>3, <1>4, <1>5, <1>6, <1>7, <1>8, <1>9, <1>10, <1>11 DEF CertifyStep

LEMMA ScanInvStep == LedgerInv /\ AloneInv /\ ScanInv /\ [Next]_vars => ScanInv'
<1>. SUFFICES ASSUME LedgerInv, AloneInv, ScanInv, [Next]_vars PROVE ScanInv'
  OBVIOUS
<1>1. CASE UNCHANGED vars
  BY <1>1
  DEF ScanInv, vars, disk, local, ghost, AckedListed, LatestCarries, Carries,
      Agrees, DenyShown, Listed
<1>2. CASE Environment
  BY <1>2, ScanEnvironment
<1>3. ASSUME NEW p \in Procs, Begin(p) PROVE ScanInv'
  BY <1>3, ScanBegin
<1>4. ASSUME NEW p \in Procs, Step(p) PROVE ScanInv'
  <2>1. CASE SnapshotClash(p)
    <3>1. Carries(p)'
      BY <2>1, FinishCarries DEF LedgerInv, SnapshotClash
    <3>. QED
      BY <1>4, <2>1, <3>1, ScanReads DEF SnapshotClash, ghost, Listed
  <2>2. CASE overlapped'
    BY <2>2 DEF ScanInv
  <2>. QED
    BY <1>4, <2>1, <2>2, ScanCheck, ScanCertify DEF Step
<1>5. ASSUME NEW p \in Procs, Die(p) PROVE ScanInv'
  <2>1. Carries(p)'
    BY <1>5, FinishCarries DEF LedgerInv, Die
  <2>. QED
    BY <1>5, <2>1, ScanReads DEF Die, disk, ghost, Listed
<1>. QED
  BY <1>1, <1>2, <1>3, <1>4, <1>5 DEF Next

\* A verdict that certify acknowledged is in latest.json as long as that is
\* for the same version, and check answers deny for it, whatever certify of
\* another scanner follows and wherever commands die, as long as they do not
\* overlap (certify's phase 3, aggregate_scan_status, save_manifest).
THEOREM NoScanIsLost == Spec => []NoLostScan
<1>1. LedgerInv /\ ScanInv => NoLostScan
  <2>. SUFFICES ASSUME LedgerInv, ScanInv, ~overlapped, Quiet, latest \in Manifest,
                       NEW s \in Scanners, acked[s].vid = latest.vid
                PROVE  /\ latest.scans[s] = acked[s].verdict
                       /\ acked[s].verdict = "deny" /\ latest.intact =>
                              CheckAnswer(latest, latest.content) = "deny"
    BY DEF NoLostScan
  <2>1. Agrees(latest) /\ DenyShown(latest)
    BY DEF ScanInv, LatestCarries
  <2>2. latest.scans[s] = acked[s].verdict
    BY <2>1 DEF Agrees
  <2>3. ASSUME acked[s].verdict = "deny", latest.intact
        PROVE  CheckAnswer(latest, latest.content) = "deny"
    BY <2>1, <2>2, <2>3 DEF DenyShown, CheckAnswer
  <2>. QED
    BY <2>2, <2>3
<1>2. Spec => []ScanInv
  BY AloneInvariant, ScanInvInit, ScanInvStep, PTL DEF Spec
<1>. QED
  BY LedgerInvariant, <1>1, <1>2, PTL
-----------------------------------------------------------------------------
(* One command at a time: the inductive invariant                          *)

\* latest.json is the last version, except between the two writes of
\* save_manifest and except for damage
Newest ==
    latest \in Manifest
        /\ (\A p \in Procs : pc[p] \notin {"base_latest", "publish"}) =>
        /\ latest.vid = LastListed
        /\ latest = [versions[LastListed] EXCEPT !.intact = latest.intact]

\* the manifest in hand is the next version and names the last signature
Appends(m) == m.vid = LastListed + 1 /\ m.prevSig = PreviousSig

\* the manifest in hand is the last version
Replaces(m) ==
    /\ m.vid = LastListed /\ LastListed # 0
    /\ m.content = versions[LastListed].content
    /\ m.prevSig = versions[LastListed].prevSig

Linked(p) ==
    /\ pc[p] = "base_number" => hand[p].prevVid = LastListed
    /\ pc[p] = "prev_sig" => hand[p].vid = LastListed + 1
    /\ pc[p] \in {"base_version", "begin", "copy"} => Appends(hand[p])
    /\ pc[p] \in {"collect", "version"} => Appends(hand[p]) \/ Replaces(hand[p])
    /\ pc[p] \in {"base_latest", "publish"} => hand[p].vid = LastListed

SerialInv == ~overlapped /\ Newest /\ \A p \in Procs : Linked(p)

LEMMA SerialInvInit == Init => SerialInv
  BY LedgerAssumption DEF Init, SerialInv, Newest, Linked

\* serial behaviours are behaviours of Spec
LEMMA SerialIsNext == [SerialNext]_vars => [Next]_vars
  BY DEF SerialNext, Next

LEMMA SerialIsSpec == SerialSpec => Spec
  BY SerialIsNext, PTL DEF SerialSpec, Spec

LEMMA IdleLinked ==
    ASSUME NEW q \in Procs, pc[q] = "idle"
    PROVE  Linked(q)
  BY DEF Linked

\* only the process of the step matters
LEMMA SerialFrame ==
    ASSUME LedgerInv, AloneInv, SerialInv, NEW p \in Procs, Step(p),
           Newest', Linked(p)'
    PROVE  SerialInv'
<1>1. /\ pc[p] # "idle" /\ ~overlapped'
      /\ \A q \in Procs \ {p} : pc'[q] = pc[q]
  BY BusyStep DEF LedgerInv, SerialInv
<1>2. \A q \in Procs \ {p} : pc'[q] = "idle"
  BY <1>1 DEF AloneInv, SerialInv, OneBusy
<1>. QED
  BY <1>1, <1>2 DEF Linked, SerialInv

\* steps that leave versions/ and latest.json alone
LEMMA SerialReads ==
    ASSUME LedgerInv, AloneInv, SerialInv, NEW p \in Procs, Step(p),
           UNCHANGED <<latest, versions>>, Linked(p)',
           pc[p] \notin {"base_latest", "publish"}
    PROVE  SerialInv'
<1>1. \A q \in Procs \ {p} : pc[q] = "idle"
  BY BusyStep DEF LedgerInv, AloneInv, SerialInv, OneBusy
<1>2. Newest
  BY DEF SerialInv
<1>3. LastListed' = LastListed
  BY DEF LastListed, Listed
<1>4. Newest'
  BY <1>1, <1>2, <1>3 DEF Newest
<1>. QED
  BY <1>4, SerialFrame

LEMMA SerialBegin ==
    ASSUME LedgerInv, SerialInv, NEW p \in Procs, Quiet, Begin(p)
    PROVE  SerialInv'
<1>1. /\ UNCHANGED <<latest, versions>> /\ ~overlapped'
      /\ \A q \in Procs : pc'[q] \in {"idle", "check_hash", "latest"}
  BY DEF LedgerInv, SerialInv, TypeOK, Begin, CheckUnparsable, CheckLatest,
         CertifyHash, Start, Quiet, disk
<1>2. LastListed' = LastListed
  BY <1>1 DEF LastListed, Listed
<1>3. Newest
  BY DEF SerialInv
<1>4. Newest'
  BY <1>1, <1>2, <1>3 DEF Newest, Quiet
<1>5. \A q \in Procs : Linked(q)'
  BY <1>1 DEF Linked
<1>. QED
  BY <1>1, <1>4, <1>5 DEF SerialInv

LEMMA SerialEnvironment ==
    ASSUME LedgerInv, SerialInv, Environment
    PROVE  SerialInv'
<1>1. UNCHANGED <<versions, pc, hand, overlapped>>
  BY DEF Environment, Edit, LoseLatest, disk, local, ghost
<1>2. LastListed' = LastListed /\ PreviousSig' = PreviousSig
  BY <1>1 DEF LastListed, PreviousSig, Listed
<1>3. \A q \in Procs : Linked(q)'
  BY <1>1, <1>2 DEF SerialInv, Linked, Appends, Replaces
<1>4. latest' \in Manifest =>
        /\ latest \in Manifest /\ latest'.vid = latest.vid
        /\ latest' = [latest EXCEPT !.intact = latest'.intact]
  BY LedgerAssumption
  DEF LedgerInv, TypeOK, Environment, Edit, LoseLatest, disk, Manifest
<1>5. Newest'
  <2>. SUFFICES ASSUME latest' \in Manifest,
                       \A q \in Procs : pc[q] \notin {"base_latest", "publish"}
                PROVE  /\ latest'.vid = LastListed
                       /\ latest' = [versions[LastListed] EXCEPT
                                        !.intact = latest'.intact]
    BY <1>1, <1>2 DEF Newest
  <2>1. /\ latest \in Manifest /\ latest.vid = LastListed
        /\ latest = [versions[LastListed] EXCEPT !.intact = latest.intact]
    BY <1>4 DEF SerialInv, Newest
  <2>2. versions[LastListed] \in Manifest
    BY <2>1 DEF LedgerInv, NoGap, TypeOK, Listed
  <2>. QED
    BY <1>4, <2>1, <2>2 DEF Manifest
<1>. QED
  BY <1>1, <1>3, <1>5 DEF SerialInv

\* the first write of save_manifest appends a version or replaces the last
LEMMA SerialWrite ==
    ASSUME LedgerInv, AloneInv, SerialInv, NEW p \in Procs, Step(p),
           \/ WriteVersion(p, "base_version", "base_latest")
           \/ WriteVersion(p, "version", "publish")
    PROVE  /\ hand[p] \in Manifest
           /\ Appends(hand[p]) \/ Replaces(hand[p])
           /\ pc[p] = "base_version" => Appends(hand[p])
           /\ versions' = [versions EXCEPT ![hand[p].vid] = hand[p]]
           /\ LastListed' = hand[p].vid
           /\ SerialInv'
<1>1. /\ hand[p] \in Manifest /\ hand[p].vid \in VersionIds
      /\ pc[p] \in {"base_version", "version"}
      /\ versions' = [versions EXCEPT ![hand[p].vid] = hand[p]]
      /\ pc'[p] \in {"base_latest", "publish"} /\ UNCHANGED hand
  BY DEF LedgerInv, WriteVersion, Goto, TypeOK, Ready, NumberedSteps, Manifest
<1>2. /\ Appends(hand[p]) \/ Replaces(hand[p])
      /\ pc[p] = "base_version" => Appends(hand[p])
  BY <1>1 DEF SerialInv, Linked
<1>3. LastListed \in 0 .. MaxVersion /\ Listed = 1 .. LastListed
  BY LastListedFacts DEF LedgerInv
<1>4. LastListed' = hand[p].vid
  <2>1. Listed' = Listed \cup {hand[p].vid}
    BY <1>1, LedgerAssumption DEF LedgerInv, Listed, TypeOK
  <2>2. hand[p].vid \in {LastListed, LastListed + 1}
    BY <1>2 DEF Appends, Replaces
  <2>3. Listed' = 1 .. hand[p].vid
    BY <1>1, <1>3, <2>1, <2>2 DEF VersionIds
  <2>. QED
    BY <1>1, <2>3, MaxUpTo DEF LastListed, VersionIds
<1>5. Newest'
  BY <1>1 DEF Newest
<1>6. Linked(p)'
  BY <1>1, <1>4 DEF Linked
<1>. QED
  BY <1>1, <1>2, <1>4, <1>5, <1>6, SerialFrame

\* the second write brings latest.json up to the last version
LEMMA SerialLatest ==
    ASSUME LedgerInv, AloneInv, SerialInv, NEW p \in Procs, Step(p),
           BaselineLatest(p) \/ CertifyPublish(p)
    PROVE  SerialInv'
<1>1. /\ hand[p] \in Manifest /\ hand[p].vid = LastListed
      /\ versions[hand[p].vid] = hand[p]
      /\ latest' = hand[p] /\ UNCHANGED versions
      /\ pc'[p] \in {"idle", "base_begin"}
  BY DEF LedgerInv, AloneInv, SerialInv, BaselineLatest, CertifyPublish, Goto,
         Finish, TypeOK, Ready, WrittenSteps, Held, Linked
<1>2. LastListed' = LastListed
  BY <1>1 DEF LastListed, Listed
<1>3. Newest'
  BY <1>1, <1>2 DEF Newest, Manifest
<1>4. Linked(p)'
  BY <1>1 DEF Linked
<1>. QED
  BY <1>3, <1>4, SerialFrame

LEMMA SerialStep ==
    ASSUME LedgerInv, AloneInv, SerialInv, NEW p \in Procs, Step(p)
    PROVE  SerialInv'
<1>. USE DEF LedgerInv
<1>1. Linked(p) /\ Newest
  BY DEF SerialInv
<1>2. LastListed \in 0 .. MaxVersion /\ Listed = 1 .. LastListed
  BY LastListedFacts
<1>3. ASSUME NEW next, Goto(p, next), UNCHANGED <<latest, versions>>
      PROVE  /\ pc'[p] = next /\ LastListed' = LastListed
             /\ PreviousSig' = PreviousSig
  BY <1>3 DEF Goto, TypeOK, LastListed, PreviousSig, Listed
<1>4. ASSUME Finish(p), UNCHANGED <<latest, versions>>,
             pc[p] \notin {"base_latest", "publish"}
      PROVE  SerialInv'
  <2>1. Linked(p)'
    BY <1>4 DEF Finish, TypeOK, Linked
  <2>. QED
    BY <1>4, <2>1, SerialReads
<1>5. ASSUME NEW next, Goto(p, next), UNCHANGED <<latest, versions>>,
             next \in {"base_list", "latest", "number", "base_copy"},
             pc[p] \notin {"base_latest", "publish"}
      PROVE  SerialInv'
  <2>1. Linked(p)'
    BY <1>3, <1>5 DEF Linked
  <2>. QED
    BY <1>5, <2>1, SerialReads
<1>6. CASE CheckHash(p)
  BY <1>4, <1>5, <1>6 DEF CheckHash, disk
<1>7. CASE BaselineList(p)
  <2>1. Linked(p)'
    <3>1. CASE Listed = {}
      <4>1. /\ hand'[p] = NewManifest(1, 0, seen[p], NoSig)
            /\ Goto(p, "base_version") /\ UNCHANGED <<latest, versions>>
        BY <1>7, <3>1 DEF BaselineList, TypeOK, disk
      <4>2. /\ hand'[p].vid = 1 /\ hand'[p].prevSig = NoSig
            /\ LastListed = 0 /\ PreviousSig = NoSig
        BY <1>2, <3>1, <4>1 DEF NewManifest, PreviousSig
      <4>. QED
        BY <1>3, <4>1, <4>2 DEF Linked, Appends
    <3>2. CASE Listed # {}
      <4>1. /\ hand'[p] = NewManifest(LastListed, LastListed, seen[p], NoSig)
            /\ Goto(p, "base_number") /\ UNCHANGED <<latest, versions>>
        BY <1>7, <3>2 DEF BaselineList, TypeOK, disk
      <4>2. hand'[p].prevVid = LastListed
        BY <4>1 DEF NewManifest
      <4>. QED
        BY <1>3, <4>1, <4>2 DEF Linked
    <3>. QED
      BY <3>1, <3>2
  <2>. QED
    BY <1>7, <2>1, SerialReads DEF BaselineList, disk
<1>8. CASE BaselineNumber(p)
  <2>1. CASE Finish(p)
    BY <1>4, <1>8, <2>1 DEF BaselineNumber, disk
  <2>2. CASE /\ LastListed < MaxVersion
             /\ hand' = [hand EXCEPT ![p] =
                    NewManifest(LastListed + 1, hand[p].prevVid, seen[p],
                                versions[hand[p].prevVid].sig)]
             /\ Goto(p, "base_version")
    <3>1. hand[p].prevVid = LastListed /\ Listed # {}
      BY <1>1, <1>8 DEF BaselineNumber, Linked, Ready
    <3>2. Appends(hand'[p])
      BY <2>2, <3>1 DEF NewManifest, TypeOK, Appends, PreviousSig
    <3>3. Linked(p)'
      BY <1>3, <1>8, <2>2, <3>2 DEF BaselineNumber, disk, Linked, Appends
    <3>. QED
      BY <1>8, <3>3, SerialReads DEF BaselineNumber, disk
  <2>. QED
    BY <1>8, <2>1, <2>2 DEF BaselineNumber
<1>9. CASE \/ WriteVersion(p, "base_version", "base_latest")
           \/ WriteVersion(p, "version", "publish")
  BY <1>9, SerialWrite
<1>10. CASE BaselineLatest(p) \/ CertifyPublish(p)
  BY <1>10, SerialLatest
<1>11. CASE SnapshotBegin(p, "base_begin", "base_copy")
  BY <1>5, <1>11 DEF SnapshotBegin
<1>12. CASE BaselineCopy(p)
  BY <1>4, <1>12 DEF BaselineCopy
<1>13. CASE SnapshotClash(p)
  BY <1>4, <1>13 DEF SnapshotClash
<1>14. CASE CertifyLatest(p)
  <2>1. CASE Finish(p)
    BY <1>4, <1>14, <2>1 DEF CertifyLatest, disk
  <2>2. CASE Goto(p, "number")
    BY <1>5, <1>14, <2>2 DEF CertifyLatest, disk
  <2>3. CASE /\ latest \in Manifest
             /\ hand' = [hand EXCEPT ![p] = latest]
             /\ Goto(p, "collect")
    <3>1. \A q \in Procs : pc[q] \notin {"base_latest", "publish"}
      <4>1. \A q \in Procs \ {p} : pc[q] = "idle"
        BY BusyStep DEF AloneInv, SerialInv, OneBusy
      <4>. QED
        BY <1>14, <4>1 DEF CertifyLatest
    <3>2. /\ latest.vid = LastListed
          /\ latest = [versions[LastListed] EXCEPT !.intact = latest.intact]
      BY <1>1, <2>3, <3>1 DEF Newest
    <3>3. LastListed \in Listed /\ versions[LastListed] \in Manifest
      BY <2>3, <3>2 DEF NoGap, TypeOK, Listed
    <3>4. Replaces(hand'[p])
      BY <1>2, <2>3, <3>2, <3>3 DEF TypeOK, Replaces, Manifest
    <3>5. Linked(p)'
      BY <1>3, <1>14, <2>3, <3>4 DEF CertifyLatest, disk, Linked, Replaces
    <3>. QED
      BY <1>14, <3>5, SerialReads DEF CertifyLatest, disk
  <2>. QED
    BY <1>14, <2>1, <2>2, <2>3 DEF CertifyLatest, TypeOK
<1>15. CASE CertifyNumber(p)
  <2>1. CASE Finish(p)
    BY <1>4, <1>15, <2>1 DEF CertifyNumber, disk
  <2>2. CASE /\ hand' = [hand EXCEPT ![p] =
                    NewManifest(LastListed + 1,
                                IF hand[p] = NoFile THEN 0 ELSE hand[p].vid,
                                seen[p], NoSig)]
             /\ Goto(p, "prev_sig")
    <3>1. hand'[p].vid = LastListed + 1
      BY <2>2 DEF NewManifest, TypeOK
    <3>2. Linked(p)'
      BY <1>3, <1>15, <2>2, <3>1 DEF CertifyNumber, disk, Linked
    <3>. QED
      BY <1>15, <3>2, SerialReads DEF CertifyNumber, disk
  <2>. QED
    BY <1>15, <2>1, <2>2 DEF CertifyNumber
<1>16. CASE CertifyPrevSig(p)
  <2>1. Appends(hand'[p])
    BY <1>1, <1>16
    DEF CertifyPrevSig, Linked, Appends, TypeOK, Ready, NumberedSteps, Manifest
  <2>2. Linked(p)'
    BY <1>3, <1>16, <2>1 DEF CertifyPrevSig, disk, Linked, Appends
  <2>. QED
    BY <1>16, <2>2, SerialReads DEF CertifyPrevSig, disk
<1>17. CASE SnapshotBegin(p, "begin", "copy") \/ CertifyCopy(p)
  <2>1. Linked(p)'
    BY <1>1, <1>3, <1>17 DEF SnapshotBegin, CertifyCopy, Linked, Appends
  <2>. QED
    BY <1>17, <2>1, SerialReads DEF SnapshotBegin, CertifyCopy
<1>18. CASE CollectEnds(p)
  BY <1>4, <1>18 DEF CollectEnds, disk
<1>19. CASE CollectAndSign(p)
  <2>1. /\ hand[p] \in Manifest
        /\ hand'[p] = Signed(hand[p], job[p].entries, clock + 1)
        /\ Goto(p, "version") /\ UNCHANGED <<latest, versions>>
        /\ pc[p] = "collect"
    BY <1>19 DEF CollectAndSign, TypeOK, Ready, NumberedSteps, disk
  <2>2. /\ hand'[p].vid = hand[p].vid /\ hand'[p].content = hand[p].content
        /\ hand'[p].prevSig = hand[p].prevSig
    BY <2>1 DEF Signed, Manifest
  <2>3. Appends(hand'[p]) \/ Replaces(hand'[p])
    BY <1>1, <2>1, <2>2 DEF Linked, Appends, Replaces
  <2>4. Linked(p)'
    BY <1>3, <2>1, <2>3 DEF Linked, Appends, Replaces
  <2>. QED
    BY <2>1, <2>4, SerialReads
<1>. QED
  BY <1>6, <1>7, <1>8, <1>9, <1>10, <1>11, <1>12, <1>13, <1>14, <1>15, <1>16,
     <1>17, <1>18, <1>19 DEF Step, CheckStep, CertifyStep

LEMMA SerialInvStep ==
    LedgerInv /\ AloneInv /\ SerialInv /\ [SerialNext]_vars => SerialInv'
<1>. SUFFICES ASSUME LedgerInv, AloneInv, SerialInv, [SerialNext]_vars
              PROVE  SerialInv'
  OBVIOUS
<1>1. CASE UNCHANGED vars
  BY <1>1
  DEF SerialInv, vars, disk, local, ghost, Newest, Linked, Appends, Replaces,
      LastListed, PreviousSig, Listed
<1>2. CASE Environment
  BY <1>2, SerialEnvironment
<1>3. ASSUME NEW p \in Procs, Quiet /\ Begin(p) PROVE SerialInv'
  BY <1>3, SerialBegin
<1>4. ASSUME NEW p \in Procs, Step(p) PROVE SerialInv'
  BY <1>4, SerialStep
<1>. QED
  BY <1>1, <1>2, <1>3, <1>4 DEF SerialNext

\* The inductive invariant of commands that run one at a time and to their
\* end (version_chain.py, checker.py, certifier.py).
THEOREM SerialInvariant == SerialSpec => [](LedgerInv /\ AloneInv /\ SerialInv)
<1>1. SerialSpec => [](LedgerInv /\ AloneInv)
  BY SerialIsSpec, AloneInvariant, PTL
<1>2. SerialSpec => []SerialInv
  BY <1>1, SerialInvInit, SerialInvStep, PTL DEF SerialSpec
<1>. QED
  BY <1>1, <1>2, PTL
-----------------------------------------------------------------------------
(* What serial commands guarantee                                          *)

\* Between commands the manifest in latest.json is the newest version,
\* field by field, except for damage (save_manifest, next_version_id).
THEOREM LatestAlwaysNewest == SerialSpec => []LatestIsNewest
<1>1. LedgerInv /\ SerialInv => LatestIsNewest
  BY DEF SerialInv, Newest, LatestIsNewest, Quiet
<1>. QED
  BY SerialInvariant, <1>1, PTL

\* the listed versions, read as a sequence
LEMMA EntriesFacts ==
    ASSUME LedgerInv
    PROVE  /\ Entries \in Seq(Chain!Entry)
           /\ Len(Entries) = LastListed
           /\ LastListed \in Nat
           /\ \A i \in 1 .. LastListed :
                 Entries[i] = [content |-> versions[i].content,
                               scans   |-> versions[i].scans,
                               prevSig |-> versions[i].prevSig,
                               sig     |-> versions[i].sig]
<1>1. LastListed \in 0 .. MaxVersion /\ Listed = 1 .. LastListed
  BY LastListedFacts DEF LedgerInv
<1>2. \A i \in 1 .. LastListed : versions[i] \in Manifest
  BY <1>1 DEF LedgerInv, TypeOK, Listed
<1>3. Entries \in [1 .. LastListed -> Chain!Entry]
  BY <1>2 DEF Entries, Manifest, Chain!Entry
<1>4. LastListed \in Nat
  BY <1>1, LedgerAssumption
<1>5. Entries \in Seq(Chain!Entry)
  BY <1>3, <1>4, SeqDef
<1>6. Len(Entries) = LastListed
  BY <1>3, <1>4, <1>5, LenProperties
<1>. QED
  BY <1>4, <1>5, <1>6 DEF Entries

\* the same of the next state
LEMMA NextEntriesFacts ==
    LedgerInv' => /\ (Entries \in Seq(Chain!Entry))'
                  /\ (Len(Entries) = LastListed)'
                  /\ (LastListed \in Nat)'
<1>1. LedgerInv => /\ Entries \in Seq(Chain!Entry)
                   /\ Len(Entries) = LastListed
                   /\ LastListed \in Nat
  BY EntriesFacts
<1>. QED
  BY <1>1, PTL

\* the signature the next entry of the chain has to name is the one
\* get_previous_signature returns
LEMMA HeadSigIsPreviousSig ==
    ASSUME LedgerInv
    PROVE  Chain!HeadSig = PreviousSig
<1>1. Listed = 1 .. LastListed /\ LastListed \in Nat
  BY LastListedFacts, EntriesFacts DEF LedgerInv
<1>2. CASE LastListed = 0
  <2>1. Entries = << >>
    BY <1>2, EntriesFacts, EmptySeq
  <2>. QED
    BY <1>1, <1>2, <2>1 DEF Chain!HeadSig, PreviousSig
<1>3. CASE LastListed # 0
  <2>1. Entries # << >>
    BY <1>1, <1>3, EntriesFacts, EmptySeq
  <2>2. Entries[Len(Entries)].sig = versions[LastListed].sig
    BY <1>1, <1>3, EntriesFacts
  <2>. QED
    BY <1>1, <1>3, <2>1, <2>2 DEF Chain!HeadSig, PreviousSig
<1>. QED
  BY <1>2, <1>3

\* the first write of save_manifest is a step of the chain, ...
LEMMA WriteIsChainStep ==
    ASSUME LedgerInv, LedgerInv', AloneInv, SerialInv, NEW p \in Procs, Step(p),
           \/ WriteVersion(p, "base_version", "base_latest")
           \/ WriteVersion(p, "version", "publish")
    PROVE  Chain!ChainNext
<1>1. /\ hand[p] \in Manifest
      /\ Appends(hand[p]) \/ Replaces(hand[p])
      /\ pc[p] = "base_version" => Appends(hand[p])
      /\ versions' = [versions EXCEPT ![hand[p].vid] = hand[p]]
      /\ LastListed' = hand[p].vid
  BY SerialWrite
<1>2. /\ Len(Entries) = LastListed /\ LastListed \in Nat
      /\ \A i \in 1 .. LastListed :
            Entries[i] = [content |-> versions[i].content,
                          scans   |-> versions[i].scans,
                          prevSig |-> versions[i].prevSig,
                          sig     |-> versions[i].sig]
  BY EntriesFacts
<1>3. /\ Len(Entries') = LastListed' /\ LastListed' \in Nat
      /\ \A i \in 1 .. LastListed' :
            Entries'[i] = [content |-> versions'[i].content,
                           scans   |-> versions'[i].scans,
                           prevSig |-> versions'[i].prevSig,
                           sig     |-> versions'[i].sig]
  <2>1. Entries' = [v \in 1 .. LastListed' |->
                      [content |-> versions'[v].content,
                       scans   |-> versions'[v].scans,
                       prevSig |-> versions'[v].prevSig,
                       sig     |-> versions'[v].sig]]
    BY DEF Entries
  <2>2. Len(Entries') = LastListed' /\ LastListed' \in Nat
    BY NextEntriesFacts
  <2>. QED
    BY <2>1, <2>2
<1>4. /\ \A v \in VersionIds \ {hand[p].vid} : versions'[v] = versions[v]
      /\ hand[p].vid \in VersionIds /\ versions'[hand[p].vid] = hand[p]
      /\ 1 .. LastListed \subseteq VersionIds
  BY <1>1, LastListedFacts DEF LedgerInv, TypeOK, Manifest, Listed
<1>5. CASE Appends(hand[p])
  <2>1. LastListed' = LastListed + 1 /\ hand[p].prevSig = Chain!HeadSig
    BY <1>1, <1>5, HeadSigIsPreviousSig DEF Appends
  <2>2. \A i \in 1 .. LastListed : Entries'[i] = Entries[i]
    BY <1>2, <1>3, <1>4, <2>1, <1>1
  <2>3. Entries'[LastListed'].prevSig = Chain!HeadSig
    BY <1>1, <1>2, <1>3, <1>4, <2>1
  <2>4. Chain!Extend
    BY <1>2, <1>3, <2>1, <2>2, <2>3 DEF Chain!Extend, Chain!Sealed
  <2>. QED
    BY <2>4 DEF Chain!ChainNext
<1>6. CASE Replaces(hand[p]) /\ ~Appends(hand[p])
  <2>1. LastListed' = LastListed /\ LastListed \in 1 .. LastListed
    BY <1>1, <1>2, <1>6 DEF Replaces
  <2>2. \A i \in 1 .. LastListed - 1 : Entries'[i] = Entries[i]
    BY <1>1, <1>2, <1>3, <1>4, <2>1
  <2>3. hand[p].sig # NoSig
    <3>1. pc[p] = "version" /\ hand[p].sig = clock
      BY <1>1, <1>6, BusyStep
      DEF WriteVersion, AloneInv, SerialInv, Held
    <3>2. LastListed \in Listed
      BY <2>1, LastListedFacts DEF LedgerInv
    <3>3. versions[LastListed].sig < clock /\ versions[LastListed].sig \in Nat
      BY <3>1, <3>2
      DEF AloneInv, SerialInv, Held, LedgerInv, TypeOK, Listed, Manifest
    <3>. QED
      BY <3>1, <3>3 DEF NoSig, LedgerInv, TypeOK
  <2>4. /\ Entries'[LastListed].content = Entries[LastListed].content
        /\ Entries'[LastListed].prevSig = Entries[LastListed].prevSig
        /\ Entries'[LastListed].sig # NoSig
    BY <1>1, <1>2, <1>3, <1>4, <1>6, <2>1, <2>3 DEF Replaces
  <2>5. Entries # << >>
    BY <1>2, <2>1, EntriesFacts, EmptySeq
  <2>6. Chain!Reseal
    BY <1>2, <1>3, <2>1, <2>2, <2>4, <2>5 DEF Chain!Reseal, Chain!Sealed
  <2>. QED
    BY <2>6 DEF Chain!ChainNext
<1>. QED
  BY <1>1, <1>5, <1>6

\* ... and no other step touches versions/
LEMMA OtherStepsKeepVersions ==
    ASSUME [SerialNext]_vars,
           \A p \in Procs : /\ ~WriteVersion(p, "base_version", "base_latest")
                            /\ ~WriteVersion(p, "version", "publish")
    PROVE  UNCHANGED versions
<1>1. CASE UNCHANGED vars
  BY <1>1 DEF vars, disk
<1>2. CASE Environment
  BY <1>2 DEF Environment, Edit, LoseLatest, disk
<1>3. ASSUME NEW p \in Procs, Begin(p) PROVE UNCHANGED versions
  BY <1>3
  DEF Begin, CheckUnparsable, CheckLatest, CertifyHash, Start, disk
<1>4. ASSUME NEW p \in Procs, Step(p) PROVE UNCHANGED versions
  BY <1>4
  DEF Step, CheckStep, CertifyStep, CheckHash, BaselineList, BaselineNumber,
      BaselineLatest, SnapshotBegin, BaselineCopy, SnapshotClash,
      CertifyLatest, CertifyNumber, CertifyPrevSig, CertifyCopy, CollectEnds,
      CollectAndSign, CertifyPublish, disk
<1>. QED
  BY <1>1, <1>2, <1>3, <1>4 DEF SerialNext

\* so that they do not change the chain either
LEMMA OtherStepsKeepEntries ==
    ASSUME [SerialNext]_vars,
           \A p \in Procs : /\ ~WriteVersion(p, "base_version", "base_latest")
                            /\ ~WriteVersion(p, "version", "publish")
    PROVE  UNCHANGED Entries
  BY OtherStepsKeepVersions DEF Entries, LastListed, Listed

\* versions/ is an append-only chain when commands run one at a time: a new
\* version names the signature of the last one, and only the last one is
\* ever written again, signed and for the same content.
THEOREM LedgerImplementsChain == SerialSpec => ImplementsChain
<1>1. Init => Chain!ChainInit
  <2>. SUFFICES ASSUME Init PROVE Chain!ChainInit
    OBVIOUS
  <2>1. LedgerInv
    BY LedgerInvInit
  <2>2. LastListed = 0
    <3>1. Listed = {}
      BY DEF Init, Listed
    <3>. QED
      BY <2>1, <3>1, LastListedFacts DEF LedgerInv
  <2>. QED
    BY <2>1, <2>2, EntriesFacts, EmptySeq DEF Chain!ChainInit
<1>2. LedgerInv /\ LedgerInv' /\ AloneInv /\ SerialInv /\ [SerialNext]_vars
        => [Chain!ChainNext /\ Entries' \in Seq(Chain!Entry)]_Entries
  <2>. SUFFICES ASSUME LedgerInv, LedgerInv', AloneInv, SerialInv,
                       [SerialNext]_vars, ~UNCHANGED Entries
                PROVE  Chain!ChainNext /\ Entries' \in Seq(Chain!Entry)
    OBVIOUS
  <2>1. Entries' \in Seq(Chain!Entry)
    BY NextEntriesFacts
  <2>2. PICK p \in Procs : \/ WriteVersion(p, "base_version", "base_latest")
                           \/ WriteVersion(p, "version", "publish")
    BY OtherStepsKeepEntries
  <2>3. Step(p)
    BY <2>2 DEF Step, CheckStep, CertifyStep
  <2>. QED
    BY <2>1, <2>2, <2>3, WriteIsChainStep
<1>. QED
  BY <1>1, <1>2, SerialInvariant, PTL
  DEF SerialSpec, ImplementsChain, Chain!ChainSpec
-----------------------------------------------------------------------------
(* What audit finds in the files that serial commands leave                *)

\* every version is intact and names the signature of the one before
Intact == \A v \in Listed : versions[v].intact

SignaturesLinked ==
    \A v \in Listed :
        versions[v].prevSig = IF v = 1 THEN NoSig ELSE versions[v - 1].sig

WritesIntact(p) == pc[p] \in {"base_version", "version"} => hand[p].intact

AuditInv == Intact /\ SignaturesLinked /\ \A p \in Procs : WritesIntact(p)

\* the snapshots of all versions but one that check is still making
MakesBaseline(p, v) ==
    pc[p] \in {"base_latest", "base_begin", "base_copy"} /\ hand[p].vid = v

Copies ==
    \A v \in Listed :
        (\E p \in Procs : MakesBaseline(p, v)) \/ snapshots[v] = versions[v].content

\* a command works on the content that it has hashed
Hashed(p) ==
    /\ pc[p] \in {"base_list", "base_number", "latest", "number"} => seen[p] = files
    /\ pc[p] \in {"base_version", "base_latest", "base_begin", "base_copy",
                  "prev_sig", "begin", "copy"} => hand[p].content = files
    /\ pc[p] \in {"copy", "base_copy"} => snapshots[hand[p].vid] = Partial
    /\ pc[p] \in {"collect", "version"} => snapshots[hand[p].vid] = hand[p].content

SnapshotInv == still => Copies /\ \A p \in Procs : Hashed(p)

LEMMA AuditInvInit == Init => AuditInv
  BY DEF Init, AuditInv, Intact, SignaturesLinked, WritesIntact, Listed

LEMMA SnapshotInvInit == Init => SnapshotInv
  BY DEF Init, SnapshotInv, Copies, Hashed, Listed

\* a step of one process is a step beside processes that are idle
LEMMA OthersIdle ==
    ASSUME LedgerInv, AloneInv, SerialInv, NEW p \in Procs, Step(p)
    PROVE  /\ pc[p] # "idle"
           /\ \A q \in Procs \ {p} : pc[q] = "idle" /\ pc'[q] = "idle"
  BY BusyStep DEF LedgerInv, AloneInv, SerialInv, OneBusy

\* what a process puts in its hands before it writes is intact
LEMMA IntactStep ==
    ASSUME LedgerInv, AuditInv, NEW p \in Procs, Step(p)
    PROVE  WritesIntact(p)'
<1>. USE DEF LedgerInv
<1>. SUFFICES ASSUME pc'[p] \in {"base_version", "version"} PROVE hand'[p].intact
  BY DEF WritesIntact
<1>1. \/ BaselineList(p) \/ BaselineNumber(p) \/ CollectAndSign(p)
  BY DEF Step, CheckStep, CertifyStep, Finish, Goto, TypeOK, CheckHash,
         WriteVersion, BaselineLatest, SnapshotBegin, BaselineCopy, SnapshotClash,
         CertifyLatest, CertifyNumber, CertifyPrevSig, CertifyCopy, CollectEnds,
         CertifyPublish
<1>2. \A v, pv, c, n : NewManifest(v, pv, c, n).intact
  BY DEF NewManifest
<1>3. CASE BaselineList(p)
  BY <1>2, <1>3 DEF BaselineList, TypeOK
<1>4. CASE BaselineNumber(p)
  BY <1>2, <1>4 DEF BaselineNumber, TypeOK, Finish
<1>5. CASE CollectAndSign(p)
  <2>1. hand[p] \in Manifest /\ hand'[p] = Signed(hand[p], job[p].entries, clock + 1)
    BY <1>5 DEF CollectAndSign, TypeOK, Ready, NumberedSteps
  <2>. QED
    BY <2>1 DEF Signed, Manifest
<1>. QED
  BY <1>1, <1>3, <1>4, <1>5

\* a version that is appended names the last signature, one that is signed
\* again keeps the name it had
LEMMA AuditWrite ==
    ASSUME LedgerInv, AloneInv, SerialInv, AuditInv, NEW p \in Procs, Step(p),
           \/ WriteVersion(p, "base_version", "base_latest")
           \/ WriteVersion(p, "version", "publish")
    PROVE  Intact' /\ SignaturesLinked'
<1>. DEFINE new == hand[p].vid
<1>1. /\ hand[p] \in Manifest /\ hand[p].intact
      /\ Appends(hand[p]) \/ Replaces(hand[p])
      /\ versions' = [versions EXCEPT ![new] = hand[p]]
      /\ LastListed' = new
  BY SerialWrite DEF AuditInv, WritesIntact, WriteVersion
<1>2. LastListed \in 0 .. MaxVersion /\ Listed = 1 .. LastListed
  BY LastListedFacts DEF LedgerInv
<1>3. new \in VersionIds /\ new \in {LastListed, LastListed + 1}
  BY <1>1 DEF Manifest, Appends, Replaces
<1>4. /\ versions'[new] = hand[p]
      /\ \A v \in VersionIds \ {new} : versions'[v] = versions[v]
  BY <1>1, <1>3 DEF LedgerInv, TypeOK
<1>5. Listed' = 1 .. new /\ 1 .. new \subseteq VersionIds
  <2>1. Listed' = Listed \cup {new}
    BY <1>1, <1>3, <1>4, LedgerAssumption DEF Listed
  <2>2. MaxVersion \in Nat
    BY LedgerAssumption
  <2>. QED
    BY <1>2, <1>3, <2>1, <2>2 DEF VersionIds
<1>6. hand[p].prevSig = IF new = 1 THEN NoSig ELSE versions[new - 1].sig
  <2>1. CASE Appends(hand[p])
    BY <1>2, <1>3, <2>1 DEF Appends, PreviousSig
  <2>2. CASE Replaces(hand[p])
    BY <1>2, <1>3, <2>2 DEF Replaces, AuditInv, SignaturesLinked
  <2>. QED
    BY <1>1, <2>1, <2>2
<1>. HIDE DEF new
<1>7. ASSUME NEW v \in Listed'
      PROVE  /\ versions'[v].intact
             /\ versions'[v].prevSig = IF v = 1 THEN NoSig ELSE versions'[v - 1].sig
  <2>1. v \in 1 .. new /\ v \in VersionIds
    BY <1>5, <1>7
  <2>2. v # 1 => v - 1 \in VersionIds \ {new} /\ versions'[v - 1] = versions[v - 1]
    BY <1>3, <1>4, <1>5, <2>1 DEF VersionIds
  <2>3. CASE v = new
    BY <1>1, <1>4, <1>6, <2>2, <2>3 DEF new
  <2>4. CASE v # new
    <3>1. v \in Listed
      BY <1>2, <1>3, <2>1, <2>4
    <3>2. versions'[v] = versions[v]
      BY <1>4, <2>1, <2>4
    <3>. QED
      BY <2>2, <3>1, <3>2 DEF AuditInv, Intact, SignaturesLinked
  <2>. QED
    BY <2>3, <2>4
<1>. QED
  BY <1>7 DEF Intact, SignaturesLinked

LEMMA AuditInvStep ==
    LedgerInv /\ AloneInv /\ SerialInv /\ AuditInv /\ [SerialNext]_vars => AuditInv'
<1>. SUFFICES ASSUME LedgerInv, AloneInv, SerialInv, AuditInv, [SerialNext]_vars
              PROVE  AuditInv'
  OBVIOUS
<1>1. Intact' /\ SignaturesLinked'
  <2>1. CASE UNCHANGED versions
    BY <2>1 DEF AuditInv, Intact, SignaturesLinked, Listed
  <2>2. ASSUME NEW p \in Procs,
               \/ WriteVersion(p, "base_version", "base_latest")
               \/ WriteVersion(p, "version", "publish")
        PROVE  Intact' /\ SignaturesLinked'
    <3>1. Step(p)
      BY <2>2 DEF Step, CheckStep, CertifyStep
    <3>. QED
      BY <2>2, <3>1, AuditWrite
  <2>. QED
    BY <2>1, <2>2, OtherStepsKeepVersions
<1>2. \A p \in Procs : WritesIntact(p)'
  <2>1. CASE UNCHANGED vars \/ Environment
    BY <2>1 DEF Environment, Edit, LoseLatest, vars, local, AuditInv, WritesIntact
  <2>2. ASSUME NEW p \in Procs, Quiet, Begin(p)
        PROVE  \A q \in Procs : WritesIntact(q)'
    BY <2>2
    DEF LedgerInv, TypeOK, Begin, CheckUnparsable, CheckLatest, CertifyHash,
        Quiet, WritesIntact
  <2>3. ASSUME NEW p \in Procs, Step(p)
        PROVE  \A q \in Procs : WritesIntact(q)'
    BY <2>3, IntactStep, OthersIdle DEF WritesIntact
  <2>. QED
    BY <2>1, <2>2, <2>3 DEF SerialNext
<1>. QED
  BY <1>1, <1>2 DEF AuditInv

\* what a step of one process does to the snapshots
LEMMA SnapshotStep ==
    ASSUME LedgerInv, AloneInv, SerialInv, SnapshotInv, NEW p \in Procs, Step(p)
    PROVE  SnapshotInv'
<1>. USE DEF LedgerInv
<1>1. UNCHANGED <<files, still>>
  BY DEF Step, CheckStep, CertifyStep, CheckHash, BaselineList, BaselineNumber,
         WriteVersion, BaselineLatest, SnapshotBegin, BaselineCopy, SnapshotClash,
         CertifyLatest, CertifyNumber, CertifyPrevSig, CertifyCopy, CollectEnds,
         CollectAndSign, CertifyPublish, ghost
<1>. SUFFICES ASSUME still PROVE Copies' /\ \A q \in Procs : Hashed(q)'
  BY <1>1 DEF SnapshotInv
<1>2. Copies /\ Hashed(p)
  BY DEF SnapshotInv
<1>3. pc[p] # "idle" /\ \A q \in Procs \ {p} : pc[q] = "idle" /\ pc'[q] = "idle"
  BY OthersIdle
<1>4. SUFFICES Copies' /\ Hashed(p)'
  BY <1>3 DEF Hashed
<1>5. Held(p) /\ Linked(p) /\ OnRecord
  BY DEF AloneInv, SerialInv
<1>6. ASSUME NEW next, Goto(p, next) PROVE pc'[p] = next
  BY <1>6 DEF Goto, TypeOK
<1>7. ASSUME Finish(p) PROVE pc'[p] = "idle" /\ Hashed(p)'
  BY <1>7 DEF Finish, TypeOK, Hashed
<1>8. \A v \in Listed : snapshots[v] = versions[v].content \/ MakesBaseline(p, v)
  BY <1>2, <1>3 DEF Copies, MakesBaseline
<1>9. ASSUME UNCHANGED <<versions, snapshots>>,
             pc[p] \notin {"base_latest", "base_begin", "base_copy"}
      PROVE  Copies'
  BY <1>8, <1>9 DEF Copies, MakesBaseline, Listed
<1>10. LastListed \in 0 .. MaxVersion /\ Listed = 1 .. LastListed
  BY LastListedFacts
<1>11. CASE CheckHash(p)
  <2>1. Copies'
    BY <1>9, <1>11 DEF CheckHash, disk
  <2>2. CASE Finish(p)
    BY <1>7, <2>1, <2>2
  <2>3. CASE seen' = [seen EXCEPT ![p] = files] /\ Goto(p, "base_list")
    BY <1>1, <1>6, <2>1, <2>3 DEF Hashed, TypeOK
  <2>. QED
    BY <1>11, <2>2, <2>3 DEF CheckHash
<1>12. CASE BaselineList(p)
  <2>1. Copies'
    BY <1>9, <1>12 DEF BaselineList, disk
  <2>2. /\ pc'[p] \in {"base_version", "base_number"}
        /\ seen'[p] = files /\ hand'[p].content = files
    BY <1>2, <1>6, <1>12 DEF BaselineList, Hashed, NewManifest, TypeOK
  <2>. QED
    BY <1>1, <2>1, <2>2 DEF Hashed
<1>13. CASE BaselineNumber(p)
  <2>1. Copies'
    BY <1>9, <1>13 DEF BaselineNumber, disk
  <2>2. CASE Finish(p)
    BY <1>7, <2>1, <2>2
  <2>3. CASE Goto(p, "base_version") /\ ~Finish(p)
    <3>1. pc'[p] = "base_version" /\ hand'[p].content = files
      BY <1>2, <1>6, <1>13, <2>3 DEF BaselineNumber, Hashed, NewManifest, TypeOK
    <3>. QED
      BY <1>1, <2>1, <3>1 DEF Hashed
  <2>. QED
    BY <1>13, <2>2, <2>3 DEF BaselineNumber
<1>14. CASE WriteVersion(p, "base_version", "base_latest")
  <2>1. /\ hand[p].content = files /\ UNCHANGED <<hand, snapshots>>
        /\ pc'[p] = "base_latest" /\ hand[p] \in Manifest
        /\ versions' = [versions EXCEPT ![hand[p].vid] = hand[p]]
    BY <1>2, <1>6, <1>14 DEF WriteVersion, Hashed, Ready, NumberedSteps
  <2>2. \A v \in Listed' : v = hand[p].vid \/ (v \in Listed /\ versions'[v] = versions[v])
    BY <2>1 DEF Listed, TypeOK
  <2>3. \A v \in Listed : snapshots[v] = versions[v].content
    BY <1>8, <1>14 DEF MakesBaseline, WriteVersion
  <2>4. Copies'
    BY <2>1, <2>2, <2>3 DEF Copies, MakesBaseline
  <2>. QED
    BY <1>1, <2>1, <2>4 DEF Hashed
<1>15. CASE BaselineLatest(p)
  <2>1. /\ hand[p].content = files /\ UNCHANGED <<hand, snapshots, versions>>
        /\ pc'[p] = "base_begin" /\ pc[p] = "base_latest"
    BY <1>2, <1>6, <1>15 DEF BaselineLatest, Hashed
  <2>2. Copies'
    BY <1>8, <2>1 DEF Copies, MakesBaseline, Listed
  <2>. QED
    BY <1>1, <2>1, <2>2 DEF Hashed
<1>16. CASE SnapshotBegin(p, "base_begin", "base_copy")
  <2>1. /\ hand[p].content = files /\ UNCHANGED <<hand, versions>>
        /\ pc'[p] = "base_copy" /\ pc[p] = "base_begin"
        /\ hand[p] \in Manifest /\ hand[p].vid \in VersionIds
        /\ snapshots' = [snapshots EXCEPT ![hand[p].vid] = Partial]
    BY <1>2, <1>6, <1>16 DEF SnapshotBegin, Hashed, Ready, WrittenSteps, Manifest
  <2>2. \A v \in VersionIds \ {hand[p].vid} : snapshots'[v] = snapshots[v]
    BY <2>1 DEF TypeOK
  <2>3. Copies'
    BY <1>8, <2>1, <2>2 DEF Copies, MakesBaseline, Listed
  <2>4. snapshots'[hand[p].vid] = Partial
    BY <2>1 DEF TypeOK
  <2>. QED
    BY <1>1, <2>1, <2>3, <2>4 DEF Hashed
<1>17. CASE BaselineCopy(p)
  <2>1. /\ hand[p].content = files /\ snapshots[hand[p].vid] = Partial
        /\ UNCHANGED versions /\ pc[p] = "base_copy" /\ pc'[p] = "idle"
        /\ hand[p] \in Manifest /\ hand[p].vid \in VersionIds
        /\ versions[hand[p].vid] = hand[p]
        /\ snapshots' = [snapshots EXCEPT ![hand[p].vid] = Copied(hand[p].vid)]
    BY <1>2, <1>5, <1>7, <1>17
    DEF BaselineCopy, Hashed, Held, Ready, WrittenSteps, Manifest
  <2>2. Copied(hand[p].vid) = files
    BY <2>1, LedgerAssumption DEF Copied
  <2>3. \A v \in Listed : snapshots'[v] = versions[v].content
    <3>1. \A v \in Listed \ {hand[p].vid} : snapshots'[v] = snapshots[v]
      BY <2>1 DEF TypeOK, Listed
    <3>2. snapshots'[hand[p].vid] = files
      BY <2>1, <2>2 DEF TypeOK
    <3>. QED
      BY <1>8, <2>1, <3>1, <3>2 DEF MakesBaseline
  <2>4. Copies'
    BY <2>1, <2>3 DEF Copies, Listed
  <2>. QED
    BY <1>7, <1>17, <2>4 DEF BaselineCopy
<1>18. CASE SnapshotClash(p)
  BY <1>3, <1>18 DEF SnapshotClash
<1>19. CASE CertifyLatest(p)
  <2>1. Copies'
    BY <1>9, <1>19 DEF CertifyLatest, disk
  <2>2. CASE Finish(p)
    BY <1>7, <2>1, <2>2
  <2>3. CASE Goto(p, "number") /\ UNCHANGED seen
    BY <1>1, <1>2, <1>6, <1>19, <2>1, <2>3 DEF CertifyLatest, Hashed
  <2>4. CASE latest \in Manifest /\ hand' = [hand EXCEPT ![p] = latest] /\ Goto(p, "collect")
    <3>1. /\ hand'[p] = latest /\ pc'[p] = "collect" /\ UNCHANGED snapshots
          /\ pc[p] = "latest" /\ latest.vid \in Listed
          /\ versions[latest.vid].content = latest.content
      BY <1>5, <1>6, <1>19, <2>4 DEF CertifyLatest, TypeOK, disk, NoGap, OnRecord
    <3>2. snapshots[latest.vid] = latest.content
      BY <1>8, <3>1 DEF MakesBaseline
    <3>. QED
      BY <2>1, <3>1, <3>2 DEF Hashed
  <2>. QED
    BY <1>19, <2>2, <2>3, <2>4 DEF CertifyLatest, TypeOK
<1>20. CASE CertifyNumber(p)
  <2>1. Copies'
    BY <1>9, <1>20 DEF CertifyNumber, disk
  <2>2. CASE Finish(p)
    BY <1>7, <2>1, <2>2
  <2>3. CASE Goto(p, "prev_sig") /\ ~Finish(p)
    <3>1. pc'[p] = "prev_sig" /\ hand'[p].content = files
      BY <1>2, <1>6, <1>20, <2>3 DEF CertifyNumber, Hashed, NewManifest, TypeOK
    <3>. QED
      BY <1>1, <2>1, <3>1 DEF Hashed
  <2>. QED
    BY <1>20, <2>2, <2>3 DEF CertifyNumber
<1>21. CASE CertifyPrevSig(p)
  <2>1. Copies'
    BY <1>9, <1>21 DEF CertifyPrevSig, disk
  <2>2. /\ pc'[p] = "begin" /\ hand[p] \in Manifest /\ hand[p].content = files
        /\ hand'[p] = [hand[p] EXCEPT !.prevSig = PreviousSig]
    BY <1>2, <1>6, <1>21 DEF CertifyPrevSig, Hashed, TypeOK, Ready, NumberedSteps
  <2>. QED
    BY <1>1, <2>1, <2>2 DEF Hashed, Manifest
<1>22. CASE SnapshotBegin(p, "begin", "copy")
  <2>1. /\ hand[p].content = files /\ UNCHANGED <<hand, versions>>
        /\ pc'[p] = "copy" /\ pc[p] = "begin" /\ hand[p].vid \notin Listed
        /\ hand[p] \in Manifest /\ hand[p].vid \in VersionIds
        /\ snapshots' = [snapshots EXCEPT ![hand[p].vid] = Partial]
    BY <1>2, <1>5, <1>6, <1>22
    DEF SnapshotBegin, Hashed, Ready, NumberedSteps, Held, Manifest
  <2>2. \A v \in Listed : snapshots'[v] = snapshots[v]
    BY <2>1 DEF TypeOK, Listed
  <2>3. Copies'
    BY <1>8, <2>1, <2>2 DEF Copies, MakesBaseline, Listed
  <2>4. snapshots'[hand[p].vid] = Partial
    BY <2>1 DEF TypeOK
  <2>. QED
    BY <1>1, <2>1, <2>3, <2>4 DEF Hashed
<1>23. CASE CertifyCopy(p)
  <2>1. /\ hand[p].content = files /\ UNCHANGED <<hand, versions>>
        /\ pc'[p] = "collect" /\ pc[p] = "copy" /\ hand[p].vid \notin Listed
        /\ hand[p] \in Manifest /\ hand[p].vid \in VersionIds
        /\ snapshots[hand[p].vid] = Partial
        /\ snapshots' = [snapshots EXCEPT ![hand[p].vid] = Copied(hand[p].vid)]
    BY <1>2, <1>5, <1>6, <1>23
    DEF CertifyCopy, Hashed, Ready, NumberedSteps, Held, Manifest
  <2>2. Copied(hand[p].vid) = files
    BY <2>1, LedgerAssumption DEF Copied
  <2>3. \A v \in Listed : snapshots'[v] = snapshots[v]
    BY <2>1 DEF TypeOK, Listed
  <2>4. Copies'
    BY <1>8, <2>1, <2>3 DEF Copies, MakesBaseline, Listed
  <2>5. snapshots'[hand[p].vid] = files
    BY <2>1, <2>2 DEF TypeOK
  <2>. QED
    BY <1>1, <2>1, <2>4, <2>5 DEF Hashed
<1>24. CASE CollectEnds(p)
  BY <1>7, <1>9, <1>24 DEF CollectEnds, disk
<1>25. CASE CollectAndSign(p)
  <2>1. Copies'
    BY <1>9, <1>25 DEF CollectAndSign, disk
  <2>2. /\ hand[p] \in Manifest /\ hand'[p] = Signed(hand[p], job[p].entries, clock + 1)
        /\ pc'[p] = "version" /\ snapshots[hand[p].vid] = hand[p].content
        /\ UNCHANGED snapshots
    BY <1>2, <1>6, <1>25 DEF CollectAndSign, Hashed, TypeOK, Ready, NumberedSteps, disk
  <2>3. hand'[p].vid = hand[p].vid /\ hand'[p].content = hand[p].content
    BY <2>2 DEF Signed, Manifest
  <2>. QED
    BY <2>1, <2>2, <2>3 DEF Hashed
<1>26. CASE WriteVersion(p, "version", "publish")
  <2>1. /\ snapshots[hand[p].vid] = hand[p].content /\ UNCHANGED <<hand, snapshots>>
        /\ pc[p] = "version" /\ pc'[p] = "publish"
        /\ hand[p] \in Manifest /\ hand[p].vid \in VersionIds
        /\ versions' = [versions EXCEPT ![hand[p].vid] = hand[p]]
    BY <1>2, <1>6, <1>26 DEF WriteVersion, Hashed, Ready, NumberedSteps, Manifest
  <2>2. /\ \A v \in Listed' \ {hand[p].vid} : v \in Listed /\ versions'[v] = versions[v]
        /\ versions'[hand[p].vid] = hand[p]
    BY <2>1 DEF Listed, TypeOK
  <2>3. Copies'
    BY <1>8, <2>1, <2>2 DEF Copies, MakesBaseline
  <2>. QED
    BY <2>1, <2>3 DEF Hashed
<1>27. CASE CertifyPublish(p)
  BY <1>7, <1>9, <1>27 DEF CertifyPublish
<1>. QED
  BY <1>11, <1>12, <1>13, <1>14, <1>15, <1>16, <1>17, <1>18, <1>19, <1>20, <1>21, <1>22,
     <1>23, <1>24, <1>25, <1>26, <1>27 DEF Step, CheckStep, CertifyStep

LEMMA SnapshotInvStep ==
    LedgerInv /\ AloneInv /\ SerialInv /\ SnapshotInv /\ [SerialNext]_vars => SnapshotInv'
<1>. SUFFICES ASSUME LedgerInv, AloneInv, SerialInv, SnapshotInv, [SerialNext]_vars
              PROVE  SnapshotInv'
  OBVIOUS
<1>1. CASE UNCHANGED vars
  BY <1>1
  DEF SnapshotInv, vars, disk, local, ghost, Copies, MakesBaseline, Hashed, Listed
<1>2. CASE Edit
  <2>. SUFFICES ASSUME still' PROVE Copies' /\ \A p \in Procs : Hashed(p)'
    BY DEF SnapshotInv
  <2>1. still /\ Quiet /\ UNCHANGED <<versions, snapshots, pc, hand>>
    BY <1>2 DEF Edit, disk, local
  <2>2. Copies'
    BY <2>1 DEF SnapshotInv, Copies, MakesBaseline, Listed
  <2>3. \A p \in Procs : Hashed(p)'
    BY <2>1 DEF Quiet, Hashed
  <2>. QED
    BY <2>2, <2>3
<1>3. CASE LoseLatest
  BY <1>3
  DEF LoseLatest, SnapshotInv, local, ghost, Copies, MakesBaseline, Hashed, Listed
<1>4. ASSUME NEW p \in Procs, Quiet, Begin(p) PROVE SnapshotInv'
  <2>. SUFFICES ASSUME still' PROVE Copies' /\ \A q \in Procs : Hashed(q)'
    BY DEF SnapshotInv
  <2>1. /\ still /\ UNCHANGED <<versions, snapshots, files>>
        /\ \A q \in Procs : pc'[q] \in {"idle", "check_hash", "latest"}
        /\ \A q \in Procs : pc'[q] = "latest" => seen'[q] = files
    BY <1>4
    DEF LedgerInv, TypeOK, Begin, CheckUnparsable, CheckLatest, CertifyHash,
        Start, Quiet, disk
  <2>2. Copies'
    BY <1>4, <2>1 DEF Quiet, SnapshotInv, Copies, MakesBaseline, Listed
  <2>3. \A q \in Procs : Hashed(q)'
    BY <2>1 DEF Hashed
  <2>. QED
    BY <2>2, <2>3
<1>5. ASSUME NEW p \in Procs, Step(p) PROVE SnapshotInv'
  BY <1>5, SnapshotStep
<1>. QED
  BY <1>1, <1>2, <1>3, <1>4, <1>5 DEF SerialNext, Environment

\* The inductive invariant of what serial commands leave in versions/ and in
\* the snapshot directories (manifest.py, version_chain.py).
THEOREM FilesInvariant == SerialSpec => [](AuditInv /\ SnapshotInv)
<1>1. SerialSpec => []AuditInv
  BY SerialInvariant, AuditInvInit, AuditInvStep, PTL DEF SerialSpec
<1>2. SerialSpec => []SnapshotInv
  BY SerialInvariant, SnapshotInvInit, SnapshotInvStep, PTL DEF SerialSpec
<1>. QED
  BY <1>1, <1>2, PTL

\* the version before v, and the signature audit compares with
LEMMA PriorFacts ==
    ASSUME LedgerInv, NEW v \in Listed
    PROVE  /\ PriorListed(v) = v - 1
           /\ PriorSig(v) = IF v = 1 THEN NoSig ELSE versions[v - 1].sig
<1>1. LastListed \in 0 .. MaxVersion /\ Listed = 1 .. LastListed
  BY LastListedFacts DEF LedgerInv
<1>2. v \in 1 .. LastListed /\ LastListed \in Nat /\ v - 1 \in Nat
  BY <1>1, LedgerAssumption
<1>3. {w \in Listed : w < v} = 1 .. (v - 1)
  BY <1>1, <1>2
<1>4. PriorListed(v) = v - 1
  BY <1>2, <1>3, MaxUpTo DEF PriorListed
<1>. QED
  BY <1>2, <1>4 DEF PriorSig

\* Once every version is signed, audit finds nothing wrong in what check and
\* certify have written, whatever the order of checks, certifies, failures
\* and edits (auditor.py).
THEOREM AuditAlwaysAccepts == SerialSpec => []AuditAcceptsSigned
<1>1. LedgerInv /\ SerialInv /\ AuditInv => AuditAcceptsSigned
  <2>. SUFFICES ASSUME LedgerInv, SerialInv, AuditInv, Quiet, latest # Unparsable,
                       \A v \in Listed : versions[v].sig # NoSig
                PROVE  AuditErrors = {}
    BY DEF AuditAcceptsSigned, AuditValid
  <2>1. ASSUME NEW v \in Listed
        PROVE  /\ versions[v].intact
               /\ PriorListed(v) = 0 <=> v = 1
               /\ PriorListed(v) # 0 => PriorSig(v) # NoSig
               /\ versions[v].prevSig = PriorSig(v)
    <3>1. /\ PriorListed(v) = v - 1
          /\ PriorSig(v) = IF v = 1 THEN NoSig ELSE versions[v - 1].sig
      BY PriorFacts
    <3>2. v \in Nat /\ (v # 1 => v - 1 \in Listed)
      <4>1. Listed = 1 .. LastListed /\ LastListed \in 0 .. MaxVersion
        BY LastListedFacts DEF LedgerInv
      <4>. QED
        BY <4>1, LedgerAssumption
    <3>. QED
      BY <3>1, <3>2 DEF AuditInv, Intact, SignaturesLinked
  <2>2. latest \in Manifest => latest.vid = LastListed
    BY DEF SerialInv, Newest, Quiet
  <2>3. \A v \in Listed : PriorListed(v) = 0 => versions[v].prevSig = NoSig
    BY <2>1, PriorFacts DEF LedgerInv
  <2>. QED
    BY <2>1, <2>2, <2>3 DEF AuditErrors
<1>. QED
  BY SerialInvariant, FilesInvariant, <1>1, PTL

\* Between commands the snapshot of every version is a full copy of the
\* content that the version is for, if nobody has edited the skill while a
\* command ran (create_snapshot, _auto_create_manifest).
THEOREM SnapshotsAlwaysMatch == SerialSpec => []SnapshotsMatch
<1>1. SnapshotInv => SnapshotsMatch
  BY DEF SnapshotInv, Copies, MakesBaseline, SnapshotsMatch, SnapshotErrors, Quiet
<1>. QED
  BY FilesInvariant, <1>1, PTL
=============================================================================
