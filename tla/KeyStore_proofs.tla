--------------------------- MODULE KeyStore_proofs ---------------------------
(***************************************************************************)
(* Proofs about KeyStore, for every number of processes and key pairs,     *)
(* under ExclusiveSpec: init-keys runs while no other command does.        *)
(***************************************************************************)
EXTENDS KeyStore, TLAPS
-----------------------------------------------------------------------------
(* The inductive invariant                                                 *)

\* a process inside init-keys is the only one that is inside a command
Alone ==
    \A p, q \in Procs : p # q /\ pc[p] \in InitSteps => pc[q] = "idle"

\* What a process has in its hands at each step, whatever has failed before.
InHand(p) ==
    /\ pc[p] \in InitSteps => ~whole
    /\ pc[p] \in {"archive_check", "archive_open", "archive_write"} =>
           hold[p] = pub /\ pub # Absent
    /\ pc[p] = "archive_open" => ring[pub] = Absent
    /\ pc[p] \in {"enc_write", "pub_open", "pub_write"} => hold[p] \in Keys
    /\ pc[p] \in {"pub_open", "pub_write"} => enc = hold[p]
    /\ pc[p] = "finger" => hold[p] \in Keys
    /\ pc[p] \in {"primary", "ring"} => hold[p] \in emitted

KeyInv ==
    /\ TypeOK /\ Alone /\ WholeAfterInit
    /\ \A p \in Procs : InHand(p)

\* As long as nothing has failed: the two key files hold one pair except
\* between their two writes, ...
OnePair ==
    (\A p \in Procs : pc[p] \notin {"enc_write", "pub_open", "pub_write"}) =>
        enc = pub /\ pub # Empty

\* ... no archived key is half written when it is relied on, the current
\* public key is archived before it is overwritten, and the key files do not
\* change under a sign or a verify.
Sound(p) ==
    /\ pc[p] \in {"enc_open", "enc_write", "pub_open"} =>
           pub # Empty /\ (pub \in Keys => ring[pub] = pub)
    /\ pc[p] = "pub_write" => pub = Empty
    /\ pc[p] = "finger" => hold[p] = enc
    /\ pc[p] = "primary" => pub = hold[p].fp
    /\ pc[p] = "ring" => pub # hold[p].fp

RingWhole ==
    \A k \in Keys :
        \/ ring[k] \in {Absent, k}
        \/ pub = k /\ \E p \in Procs : pc[p] = "archive_write"

\* the key of every signature is in key.pub or in the keyring
Kept == \A s \in emitted : s.key = s.fp /\ (pub = s.fp \/ ring[s.fp] = s.fp)

SoundInv ==
    ~failed =>
        /\ OnePair /\ RingWhole /\ Kept /\ rejected = {}
        /\ \A p \in Procs : Sound(p)
-----------------------------------------------------------------------------
(* KeyInv: what a process has in its hands                                 *)

LEMMA InitEstablishesKeyInv == Init => KeyInv
  <1>1. SUFFICES ASSUME Init PROVE KeyInv
    OBVIOUS
  <1>2. TypeOK
    BY <1>1, KeyAssumption DEF Init, TypeOK, Content, Steps
  <1>3. Alone /\ \A p \in Procs : InHand(p)
    BY <1>1 DEF Init, Alone, InHand
  <1> QED
    BY <1>1, <1>2, <1>3 DEF KeyInv, WholeAfterInit, Init

LEMMA StepKeepsKeyInv ==
    ASSUME KeyInv, NEW p \in Procs, Step(p)
    PROVE  KeyInv'
  <1>0. /\ TypeOK /\ Alone /\ WholeAfterInit
        /\ \A q \in Procs : InHand(q)
    BY DEF KeyInv
  <1>1. CASE ArchiveRead(p)
    <2>1. TypeOK'
      BY <1>0, <1>1 DEF ArchiveRead, At, Goto, TypeOK, Steps, InitSteps,
         BeforeGenerate, store
    <2>2. Alone'
      BY <1>0, <1>1 DEF ArchiveRead, At, Goto, Alone, TypeOK, InitSteps,
         BeforeGenerate
    <2>3. WholeAfterInit'
      BY <1>0, <1>1 DEF ArchiveRead, WholeAfterInit, store
    <2>4. ASSUME NEW q \in Procs PROVE InHand(q)'
      BY <1>0, <1>1, <2>4 DEF ArchiveRead, At, Goto, InHand, TypeOK, InitSteps,
         BeforeGenerate, store
    <2> QED
      BY <2>1, <2>2, <2>3, <2>4 DEF KeyInv
  <1>2. CASE ArchiveCheck(p)
    <2>1. TypeOK'
      BY <1>0, <1>2 DEF ArchiveCheck, At, Goto, TypeOK, Content, Steps, InitSteps,
         BeforeGenerate, store
    <2>2. Alone'
      BY <1>0, <1>2 DEF ArchiveCheck, At, Goto, Alone, TypeOK, InitSteps,
         BeforeGenerate
    <2>3. WholeAfterInit'
      BY <1>0, <1>2 DEF ArchiveCheck, WholeAfterInit, store
    <2>4. ASSUME NEW q \in Procs PROVE InHand(q)'
      BY <1>0, <1>2, <2>4 DEF ArchiveCheck, At, Goto, InHand, TypeOK, InitSteps,
         BeforeGenerate, store
    <2> QED
      BY <2>1, <2>2, <2>3, <2>4 DEF KeyInv
  <1>3. CASE ArchiveOpen(p)
    <2>1. TypeOK'
      BY <1>0, <1>3 DEF ArchiveOpen, At, Goto, TypeOK, Content, Steps, InitSteps,
         BeforeGenerate, InHand
    <2>2. Alone'
      BY <1>0, <1>3 DEF ArchiveOpen, At, Goto, Alone, InitSteps, BeforeGenerate
    <2>3. WholeAfterInit'
      BY <1>0, <1>3 DEF ArchiveOpen, WholeAfterInit
    <2>4. ASSUME NEW q \in Procs PROVE InHand(q)'
      BY <1>0, <1>3, <2>4 DEF ArchiveOpen, At, Goto, InHand, Alone, TypeOK,
         InitSteps, BeforeGenerate
    <2> QED
      BY <2>1, <2>2, <2>3, <2>4 DEF KeyInv
  <1>4. CASE ArchiveWrite(p)
    <2>1. TypeOK'
      BY <1>0, <1>4 DEF ArchiveWrite, At, Goto, TypeOK, Content, Steps, InitSteps,
         BeforeGenerate, InHand
    <2>2. Alone'
      BY <1>0, <1>4 DEF ArchiveWrite, At, Goto, Alone, InitSteps, BeforeGenerate
    <2>3. WholeAfterInit'
      BY <1>0, <1>4 DEF ArchiveWrite, WholeAfterInit
    <2>4. ASSUME NEW q \in Procs PROVE InHand(q)'
      BY <1>0, <1>4, <2>4 DEF ArchiveWrite, At, Goto, InHand, Alone, TypeOK,
         InitSteps, BeforeGenerate
    <2> QED
      BY <2>1, <2>2, <2>3, <2>4 DEF KeyInv
  <1>5. CASE EncOpen(p)
    <2>1. TypeOK'
      BY <1>0, <1>5 DEF EncOpen, At, Goto, TypeOK, Content, Steps, InitSteps
    <2>2. Alone'
      BY <1>0, <1>5 DEF EncOpen, At, Goto, Alone, InitSteps, BeforeGenerate
    <2>3. WholeAfterInit'
      BY <1>0, <1>5 DEF EncOpen, At, WholeAfterInit, InHand, InitSteps,
         BeforeGenerate
    <2>4. ASSUME NEW q \in Procs PROVE InHand(q)'
      BY <1>0, <1>5, <2>4 DEF EncOpen, At, Goto, InHand, Alone, TypeOK, InitSteps,
         BeforeGenerate
    <2> QED
      BY <2>1, <2>2, <2>3, <2>4 DEF KeyInv
  <1>6. CASE EncWrite(p)
    <2>1. TypeOK'
      BY <1>0, <1>6 DEF EncWrite, At, Goto, TypeOK, Content, Steps, InitSteps,
         InHand
    <2>2. Alone'
      BY <1>0, <1>6 DEF EncWrite, At, Goto, Alone, InitSteps
    <2>3. WholeAfterInit'
      BY <1>0, <1>6 DEF EncWrite, At, WholeAfterInit, InHand, InitSteps
    <2>4. ASSUME NEW q \in Procs PROVE InHand(q)'
      BY <1>0, <1>6, <2>4 DEF EncWrite, At, Goto, InHand, Alone, InitSteps
    <2> QED
      BY <2>1, <2>2, <2>3, <2>4 DEF KeyInv
  <1>7. CASE PubOpen(p)
    <2>1. TypeOK'
      BY <1>0, <1>7 DEF PubOpen, At, Goto, TypeOK, Content, Steps, InitSteps
    <2>2. Alone'
      BY <1>0, <1>7 DEF PubOpen, At, Goto, Alone, InitSteps
    <2>3. WholeAfterInit'
      BY <1>0, <1>7 DEF PubOpen, At, WholeAfterInit, InHand, InitSteps
    <2>4. ASSUME NEW q \in Procs PROVE InHand(q)'
      BY <1>0, <1>7, <2>4 DEF PubOpen, At, Goto, InHand, Alone, InitSteps
    <2> QED
      BY <2>1, <2>2, <2>3, <2>4 DEF KeyInv
  <1>8. CASE PubWrite(p)
    <2>1. TypeOK'
      BY <1>0, <1>8 DEF PubWrite, At, Goto, Finish, TypeOK, Content, Steps, InHand
    <2>2. Alone'
      BY <1>0, <1>8 DEF PubWrite, At, Goto, Finish, Alone, InitSteps
    <2>3. WholeAfterInit'
      BY <1>0, <1>8 DEF PubWrite, At, WholeAfterInit, InHand
    <2>4. ASSUME NEW q \in Procs PROVE InHand(q)'
      BY <1>0, <1>8, <2>4 DEF PubWrite, At, Goto, Finish, InHand, Alone, TypeOK,
         InitSteps, BeforeGenerate
    <2> QED
      BY <2>1, <2>2, <2>3, <2>4 DEF KeyInv
  <1>9. CASE SignFinger(p)
    <2>1. TypeOK'
      BY <1>0, <1>9 DEF SignFinger, Goto, Finish, TypeOK, Content, Signature,
         Steps, InHand, store
    <2>2. Alone'
      BY <1>0, <1>9 DEF SignFinger, Goto, Finish, Alone, InitSteps, BeforeGenerate
    <2>3. WholeAfterInit'
      BY <1>0, <1>9 DEF SignFinger, WholeAfterInit, store
    <2>4. ASSUME NEW q \in Procs PROVE InHand(q)'
      BY <1>0, <1>9, <2>4 DEF SignFinger, Goto, Finish, InHand, TypeOK, InitSteps,
         BeforeGenerate, store
    <2> QED
      BY <2>1, <2>2, <2>3, <2>4 DEF KeyInv
  <1>10. CASE VerifyPrimary(p)
    <2>1. TypeOK'
      BY <1>0, <1>10 DEF VerifyPrimary, Goto, Finish, Answer, TypeOK, Content,
         Steps, InHand, store
    <2>2. Alone'
      BY <1>0, <1>10 DEF VerifyPrimary, Goto, Finish, Alone, InitSteps,
         BeforeGenerate
    <2>3. WholeAfterInit'
      BY <1>0, <1>10 DEF VerifyPrimary, WholeAfterInit, store
    <2>4. ASSUME NEW q \in Procs PROVE InHand(q)'
      BY <1>0, <1>10, <2>4 DEF VerifyPrimary, Goto, Finish, InHand, TypeOK,
         InitSteps, BeforeGenerate, store
    <2> QED
      BY <2>1, <2>2, <2>3, <2>4 DEF KeyInv
  <1>11. CASE VerifyRing(p)
    <2>1. TypeOK'
      BY <1>0, <1>11 DEF VerifyRing, Goto, Finish, Answer, TypeOK, Content, Steps,
         InHand, store
    <2>2. Alone'
      BY <1>0, <1>11 DEF VerifyRing, Goto, Finish, Alone, InitSteps, BeforeGenerate
    <2>3. WholeAfterInit'
      BY <1>0, <1>11 DEF VerifyRing, WholeAfterInit, store
    <2>4. ASSUME NEW q \in Procs PROVE InHand(q)'
      BY <1>0, <1>11, <2>4 DEF VerifyRing, Goto, Finish, InHand, TypeOK, InitSteps,
         BeforeGenerate, store
    <2> QED
      BY <2>1, <2>2, <2>3, <2>4 DEF KeyInv
  <1> QED
    BY <1>1, <1>2, <1>3, <1>4, <1>5, <1>6, <1>7, <1>8, <1>9, <1>10, <1>11 DEF Step

\* the beginnings of commands, and the end of one that dies
LEMMA OthersKeepKeyInv ==
    ASSUME KeyInv, NEW p \in Procs,
           \/ /\ \A q \in Procs : pc[q] = "idle"
              /\ \E force \in BOOLEAN : InitKeys(p, force)
           \/ (\A q \in Procs : pc[q] \notin InitSteps) /\ Use(p)
           \/ Die(p)
    PROVE  KeyInv'
  <1>0. /\ TypeOK /\ Alone /\ WholeAfterInit
        /\ \A q \in Procs : InHand(q)
    BY DEF KeyInv
  <1>1. CASE (\A q \in Procs : pc[q] = "idle") /\ \E force \in BOOLEAN : InitKeys(p, force)
    <2>1. TypeOK'
      BY <1>0, <1>1, KeyAssumption DEF InitKeys, Goto, TypeOK, Content, Signature,
         Steps, InitSteps, BeforeGenerate, InHand, vars, store, ghost
    <2>2. Alone'
      BY <1>0, <1>1 DEF InitKeys, Goto, Alone, InitSteps, BeforeGenerate
    <2>3. WholeAfterInit'
      BY <1>0, <1>1 DEF InitKeys, WholeAfterInit
    <2>4. ASSUME NEW q \in Procs PROVE InHand(q)'
      BY <1>0, <1>1, <2>4 DEF InitKeys, Goto, InHand
    <2> QED
      BY <2>1, <2>2, <2>3, <2>4 DEF KeyInv
  <1>2. CASE InitRefused(p)
    <2>1. TypeOK'
      BY <1>0, <1>2 DEF InitRefused, TypeOK, vars, store, ghost
    <2>2. Alone'
      BY <1>0, <1>2 DEF InitRefused, Alone, vars
    <2>3. WholeAfterInit'
      BY <1>0, <1>2 DEF InitRefused, WholeAfterInit, vars, store, ghost
    <2>4. ASSUME NEW q \in Procs PROVE InHand(q)'
      BY <1>0, <1>2, <2>4 DEF InitRefused, InHand, vars, store, ghost
    <2> QED
      BY <2>1, <2>2, <2>3, <2>4 DEF KeyInv
  <1>3. CASE (\A q \in Procs : pc[q] \notin InitSteps) /\ SignBegin(p)
    <2>1. TypeOK'
      BY <1>0, <1>3 DEF SignBegin, Goto, TypeOK, Steps, store
    <2>2. Alone'
      BY <1>0, <1>3 DEF SignBegin, Goto, Alone, TypeOK, InitSteps, BeforeGenerate,
         vars
    <2>3. WholeAfterInit'
      BY <1>0, <1>3 DEF SignBegin, WholeAfterInit, store
    <2>4. ASSUME NEW q \in Procs PROVE InHand(q)'
      BY <1>0, <1>3, <2>4 DEF SignBegin, Goto, InHand, TypeOK, InitSteps,
         BeforeGenerate
    <2> QED
      BY <2>1, <2>2, <2>3, <2>4 DEF KeyInv
  <1>4. CASE /\ \A q \in Procs : pc[q] \notin InitSteps
             /\ \E s \in emitted : VerifyBegin(p, s)
    <2>1. TypeOK'
      BY <1>0, <1>4 DEF VerifyBegin, Goto, TypeOK, Steps, store
    <2>2. Alone'
      BY <1>0, <1>4 DEF VerifyBegin, Goto, Alone, TypeOK, InitSteps,
         BeforeGenerate, vars
    <2>3. WholeAfterInit'
      BY <1>0, <1>4 DEF VerifyBegin, WholeAfterInit, store
    <2>4. ASSUME NEW q \in Procs PROVE InHand(q)'
      BY <1>0, <1>4, <2>4 DEF VerifyBegin, Goto, InHand, TypeOK, InitSteps,
         BeforeGenerate
    <2> QED
      BY <2>1, <2>2, <2>3, <2>4 DEF KeyInv
  <1>5. CASE Die(p)
    <2>1. TypeOK'
      BY <1>0, <1>5 DEF Die, Goto, Finish, TypeOK, Content, Steps, store
    <2>2. Alone'
      BY <1>0, <1>5 DEF Die, Goto, Finish, Alone, InitSteps, BeforeGenerate
    <2>3. WholeAfterInit'
      BY <1>0, <1>5 DEF Die, WholeAfterInit, store
    <2>4. ASSUME NEW q \in Procs PROVE InHand(q)'
      BY <1>0, <1>5, <2>4 DEF Die, Goto, Finish, InHand, TypeOK, InitSteps,
         BeforeGenerate, store
    <2> QED
      BY <2>1, <2>2, <2>3, <2>4 DEF KeyInv
  <1> QED
    BY <1>1, <1>2, <1>3, <1>4, <1>5 DEF Use

LEMMA NextKeepsKeyInv == KeyInv /\ [ExclusiveNext]_vars => KeyInv'
  <1>1. SUFFICES ASSUME KeyInv, [ExclusiveNext]_vars PROVE KeyInv'
    OBVIOUS
  <1>2. CASE ExclusiveNext
    BY <1>1, <1>2, StepKeepsKeyInv, OthersKeepKeyInv DEF ExclusiveNext
  <1>3. CASE UNCHANGED vars
    BY <1>1, <1>3 DEF vars, store, ghost, KeyInv, TypeOK, Alone, WholeAfterInit,
       InHand
  <1> QED
    BY <1>1, <1>2, <1>3

\* What each process has in its hands while init-keys runs alone.
THEOREM KeyInvariant == ExclusiveSpec => []KeyInv
  BY InitEstablishesKeyInv, NextKeepsKeyInv, PTL DEF ExclusiveSpec

\* The key files, the keyring and the histories keep their types, for any
\* number of processes and keys.
THEOREM TypeCorrect == ExclusiveSpec => []TypeOK
  BY KeyInvariant, PTL DEF KeyInv

\* When init-keys has run to its end, key.enc and key.pub are one pair,
\* whatever a rotation that failed earlier has left behind.
THEOREM WholeAfterInitHolds == ExclusiveSpec => []WholeAfterInit
  BY KeyInvariant, PTL DEF KeyInv
-----------------------------------------------------------------------------
(* The keyring only grows                                                  *)

LEMMA StepKeepsRing ==
    ASSUME KeyInv, [ExclusiveNext]_vars, NEW k \in Keys, ring[k] = k
    PROVE  ring'[k] = k
  <1>0. /\ TypeOK
        /\ \A q \in Procs : InHand(q)
    BY DEF KeyInv
  <1>1. CASE ring' = ring
    BY <1>1
  <1>2. ASSUME NEW p \in Procs, ArchiveOpen(p) PROVE ring'[k] = k
    BY <1>0, <1>2 DEF ArchiveOpen, At, InHand
  <1>3. ASSUME NEW p \in Procs, ArchiveWrite(p) PROVE ring'[k] = k
    BY <1>0, <1>3 DEF ArchiveWrite
  <1>4. ASSUME NEW p \in Procs, Step(p), ~ArchiveOpen(p), ~ArchiveWrite(p)
        PROVE  ring' = ring
    BY <1>4 DEF Step, ArchiveRead, ArchiveCheck, EncOpen, EncWrite, PubOpen,
       PubWrite, SignFinger, VerifyPrimary, VerifyRing, store
  <1>5. ASSUME NEW p \in Procs,
               (\E force \in BOOLEAN : InitKeys(p, force)) \/ Use(p) \/ Die(p)
        PROVE  ring' = ring
    BY <1>5 DEF InitKeys, Use, InitRefused, SignBegin, VerifyBegin, Die, vars, store
  <1>6. CASE UNCHANGED vars
    BY <1>1, <1>6 DEF vars, store
  <1> QED
    BY <1>1, <1>2, <1>3, <1>4, <1>5, <1>6 DEF ExclusiveNext

\* An archived public key is never emptied or replaced: archiving looks first,
\* and writes the key of the file's own name.
THEOREM ArchivedKeysStay == ExclusiveSpec => KeyringOnlyGrows
  <1>1. KeyInv /\ [ExclusiveNext]_vars
           => [\A k \in Keys : ring[k] = k => ring'[k] = k]_vars
    BY StepKeepsRing
  <1> QED
    BY <1>1, KeyInvariant, PTL DEF ExclusiveSpec, KeyringOnlyGrows
-----------------------------------------------------------------------------
(* No false alarm                                                          *)

LEMMA InitEstablishesSoundInv == Init => SoundInv
  BY KeyAssumption DEF Init, SoundInv, OnePair, RingWhole, Kept, Sound

LEMMA StepKeepsSoundInv ==
    ASSUME KeyInv, SoundInv, ~failed, NEW p \in Procs, Step(p)
    PROVE  SoundInv'
  <1>0. /\ TypeOK /\ Alone /\ \A q \in Procs : InHand(q)
        /\ OnePair /\ RingWhole /\ Kept /\ rejected = {}
        /\ \A q \in Procs : Sound(q)
    BY DEF KeyInv, SoundInv
  <1>1. CASE ArchiveRead(p)
    <2>1. OnePair'
      BY <1>0, <1>1 DEF ArchiveRead, At, Goto, OnePair, TypeOK, store
    <2>2. RingWhole'
      BY <1>0, <1>1 DEF ArchiveRead, At, Goto, RingWhole, TypeOK, store
    <2>3. Kept'
      BY <1>0, <1>1 DEF ArchiveRead, At, Kept, store
    <2>4. rejected' = {}
      BY <1>0, <1>1 DEF ArchiveRead, At
    <2>5. ASSUME NEW q \in Procs PROVE Sound(q)'
      BY <1>0, <1>1, <2>5, KeyAssumption DEF ArchiveRead, Goto, Sound, TypeOK, store
    <2> QED
      BY <2>1, <2>2, <2>3, <2>4, <2>5 DEF SoundInv
  <1>2. CASE ArchiveCheck(p)
    <2>1. OnePair'
      BY <1>0, <1>2 DEF ArchiveCheck, At, Goto, OnePair, TypeOK, store
    <2>2. RingWhole'
      BY <1>0, <1>2 DEF ArchiveCheck, At, Goto, RingWhole, TypeOK, store
    <2>3. Kept'
      BY <1>0, <1>2 DEF ArchiveCheck, At, Kept, store
    <2>4. rejected' = {}
      BY <1>0, <1>2 DEF ArchiveCheck, At
    <2>5. ASSUME NEW q \in Procs PROVE Sound(q)'
      BY <1>0, <1>2, <2>5 DEF ArchiveCheck, At, Goto, Sound, OnePair, RingWhole,
         TypeOK, Alone, InHand, InitSteps, BeforeGenerate, store
    <2> QED
      BY <2>1, <2>2, <2>3, <2>4, <2>5 DEF SoundInv
  <1>3. CASE ArchiveOpen(p)
    <2>1. OnePair'
      BY <1>0, <1>3 DEF ArchiveOpen, At, Goto, OnePair
    <2>2. RingWhole'
      BY <1>0, <1>3 DEF ArchiveOpen, At, Goto, RingWhole, TypeOK, InHand
    <2>3. Kept'
      BY <1>0, <1>3 DEF ArchiveOpen, At, Kept, InHand
    <2>4. rejected' = {}
      BY <1>0, <1>3 DEF ArchiveOpen, At
    <2>5. ASSUME NEW q \in Procs PROVE Sound(q)'
      BY <1>0, <1>3, <2>5 DEF ArchiveOpen, At, Goto, Sound, InHand
    <2> QED
      BY <2>1, <2>2, <2>3, <2>4, <2>5 DEF SoundInv
  <1>4. CASE ArchiveWrite(p)
    <2>1. OnePair'
      BY <1>0, <1>4 DEF ArchiveWrite, At, Goto, OnePair
    <2>2. RingWhole'
      BY <1>0, <1>4 DEF ArchiveWrite, At, RingWhole, TypeOK, InHand
    <2>3. Kept'
      BY <1>0, <1>4 DEF ArchiveWrite, At, Kept
    <2>4. rejected' = {}
      BY <1>0, <1>4 DEF ArchiveWrite, At
    <2>5. ASSUME NEW q \in Procs PROVE Sound(q)'
      BY <1>0, <1>4, <2>5 DEF ArchiveWrite, At, Goto, Sound, OnePair, TypeOK,
         Alone, InHand, InitSteps
    <2> QED
      BY <2>1, <2>2, <2>3, <2>4, <2>5 DEF SoundInv
  <1>5. CASE EncOpen(p)
    <2>1. OnePair'
      BY <1>0, <1>5 DEF EncOpen, Goto, OnePair, TypeOK
    <2>2. RingWhole'
      BY <1>0, <1>5 DEF EncOpen, At, RingWhole, Sound
    <2>3. Kept'
      BY <1>0, <1>5 DEF EncOpen, At, Kept
    <2>4. rejected' = {}
      BY <1>0, <1>5 DEF EncOpen, At
    <2>5. ASSUME NEW q \in Procs PROVE Sound(q)'
      BY <1>0, <1>5, <2>5 DEF EncOpen, At, Goto, Sound, Alone, InitSteps,
         BeforeGenerate
    <2> QED
      BY <2>1, <2>2, <2>3, <2>4, <2>5 DEF SoundInv
  <1>6. CASE EncWrite(p)
    <2>1. OnePair'
      BY <1>0, <1>6 DEF EncWrite, At, Goto, OnePair
    <2>2. RingWhole'
      BY <1>0, <1>6 DEF EncWrite, At, RingWhole, Sound
    <2>3. Kept'
      BY <1>0, <1>6 DEF EncWrite, At, Kept
    <2>4. rejected' = {}
      BY <1>0, <1>6 DEF EncWrite, At
    <2>5. ASSUME NEW q \in Procs PROVE Sound(q)'
      BY <1>0, <1>6, <2>5 DEF EncWrite, At, Goto, Sound, Alone, InitSteps
    <2> QED
      BY <2>1, <2>2, <2>3, <2>4, <2>5 DEF SoundInv
  <1>7. CASE PubOpen(p)
    <2>1. OnePair'
      BY <1>0, <1>7 DEF PubOpen, At, Goto, OnePair
    <2>2. RingWhole'
      BY <1>0, <1>7 DEF PubOpen, At, RingWhole, Sound
    <2>3. Kept'
      BY <1>0, <1>7 DEF PubOpen, At, Kept, Sound, TypeOK, Signature
    <2>4. rejected' = {}
      BY <1>0, <1>7 DEF PubOpen, At
    <2>5. ASSUME NEW q \in Procs PROVE Sound(q)'
      BY <1>0, <1>7, <2>5 DEF PubOpen, At, Goto, Sound, TypeOK, Alone, InitSteps
    <2> QED
      BY <2>1, <2>2, <2>3, <2>4, <2>5 DEF SoundInv
  <1>8. CASE PubWrite(p)
    <2>1. OnePair'
      BY <1>0, <1>8, KeyAssumption DEF PubWrite, At, OnePair, InHand
    <2>2. RingWhole'
      BY <1>0, <1>8 DEF PubWrite, At, RingWhole, Alone, InitSteps
    <2>3. Kept'
      BY <1>0, <1>8, KeyAssumption DEF PubWrite, At, Kept, Sound, TypeOK, Signature
    <2>4. rejected' = {}
      BY <1>0, <1>8 DEF PubWrite, At
    <2>5. ASSUME NEW q \in Procs PROVE Sound(q)'
      BY <1>0, <1>8, <2>5 DEF PubWrite, At, Goto, Finish, Sound, TypeOK, Alone,
         InitSteps
    <2> QED
      BY <2>1, <2>2, <2>3, <2>4, <2>5 DEF SoundInv
  <1>9. CASE SignFinger(p)
    <2>1. OnePair'
      BY <1>0, <1>9 DEF SignFinger, Goto, Finish, OnePair, store
    <2>2. RingWhole'
      BY <1>0, <1>9 DEF SignFinger, Goto, Finish, RingWhole, store
    <2>3. Kept'
      BY <1>0, <1>9 DEF SignFinger, Kept, Sound, OnePair, Alone, InitSteps, store
    <2>4. rejected' = {}
      BY <1>0, <1>9 DEF SignFinger
    <2>5. ASSUME NEW q \in Procs PROVE Sound(q)'
      BY <1>0, <1>9, <2>5 DEF SignFinger, Goto, Finish, Sound, TypeOK, store
    <2> QED
      BY <2>1, <2>2, <2>3, <2>4, <2>5 DEF SoundInv
  <1>10. CASE VerifyPrimary(p)
    <2>1. OnePair'
      BY <1>0, <1>10 DEF VerifyPrimary, Goto, Finish, OnePair, store
    <2>2. RingWhole'
      BY <1>0, <1>10 DEF VerifyPrimary, Goto, Finish, RingWhole, store
    <2>3. Kept'
      BY <1>0, <1>10 DEF VerifyPrimary, Kept, store
    <2>4. rejected' = {}
      BY <1>0, <1>10 DEF VerifyPrimary, Kept, Sound, InHand, Answer
    <2>5. ASSUME NEW q \in Procs PROVE Sound(q)'
      BY <1>0, <1>10, <2>5 DEF VerifyPrimary, Goto, Finish, Sound, TypeOK, store
    <2> QED
      BY <2>1, <2>2, <2>3, <2>4, <2>5 DEF SoundInv
  <1>11. CASE VerifyRing(p)
    <2>1. OnePair'
      BY <1>0, <1>11 DEF VerifyRing, Goto, Finish, OnePair, store
    <2>2. RingWhole'
      BY <1>0, <1>11 DEF VerifyRing, Goto, Finish, RingWhole, store
    <2>3. Kept'
      BY <1>0, <1>11 DEF VerifyRing, Kept, store
    <2>4. rejected' = {}
      BY <1>0, <1>11 DEF VerifyRing, Kept, Sound, TypeOK, Signature, InHand, Answer
    <2>5. ASSUME NEW q \in Procs PROVE Sound(q)'
      BY <1>0, <1>11, <2>5 DEF VerifyRing, Goto, Finish, Sound, TypeOK, store
    <2> QED
      BY <2>1, <2>2, <2>3, <2>4, <2>5 DEF SoundInv
  <1> QED
    BY <1>1, <1>2, <1>3, <1>4, <1>5, <1>6, <1>7, <1>8, <1>9, <1>10, <1>11 DEF Step

LEMMA OthersKeepSoundInv ==
    ASSUME KeyInv, SoundInv, ~failed, NEW p \in Procs,
           \/ /\ \A q \in Procs : pc[q] = "idle"
              /\ \E force \in BOOLEAN : InitKeys(p, force)
           \/ (\A q \in Procs : pc[q] \notin InitSteps) /\ Use(p)
           \/ Die(p)
    PROVE  SoundInv'
  <1>0. /\ TypeOK /\ Alone /\ \A q \in Procs : InHand(q)
        /\ OnePair /\ RingWhole /\ Kept /\ rejected = {}
        /\ \A q \in Procs : Sound(q)
    BY DEF KeyInv, SoundInv
  <1>1. CASE (\A q \in Procs : pc[q] = "idle") /\ \E force \in BOOLEAN : InitKeys(p, force)
    <2>1. OnePair'
      BY <1>0, <1>1 DEF InitKeys, OnePair, store
    <2>2. RingWhole'
      BY <1>0, <1>1 DEF InitKeys, RingWhole, store
    <2>3. Kept'
      BY <1>0, <1>1 DEF InitKeys, Kept, store
    <2>4. rejected' = {}
      BY <1>0, <1>1 DEF InitKeys
    <2>5. ASSUME NEW q \in Procs PROVE Sound(q)'
      BY <1>0, <1>1, <2>5, KeyAssumption DEF InitKeys, Goto, Sound, OnePair, store,
         KeysExist
    <2> QED
      BY <2>1, <2>2, <2>3, <2>4, <2>5 DEF SoundInv
  <1>2. CASE InitRefused(p)
    <2>1. OnePair'
      BY <1>0, <1>2 DEF InitRefused, OnePair, store, vars
    <2>2. RingWhole'
      BY <1>0, <1>2 DEF InitRefused, RingWhole, store, vars
    <2>3. Kept'
      BY <1>0, <1>2 DEF InitRefused, Kept, store, vars, ghost
    <2>4. rejected' = {}
      BY <1>0, <1>2 DEF InitRefused, vars, ghost
    <2>5. ASSUME NEW q \in Procs PROVE Sound(q)'
      BY <1>0, <1>2, <2>5 DEF InitRefused, Sound, store, vars
    <2> QED
      BY <2>1, <2>2, <2>3, <2>4, <2>5 DEF SoundInv
  <1>3. CASE (\A q \in Procs : pc[q] \notin InitSteps) /\ SignBegin(p)
    <2>1. OnePair'
      BY <1>0, <1>3 DEF SignBegin, Goto, OnePair, TypeOK, store
    <2>2. RingWhole'
      BY <1>0, <1>3 DEF SignBegin, Goto, RingWhole, TypeOK, store
    <2>3. Kept'
      BY <1>0, <1>3 DEF SignBegin, Kept, store
    <2>4. rejected' = {}
      BY <1>0, <1>3 DEF SignBegin
    <2>5. ASSUME NEW q \in Procs PROVE Sound(q)'
      BY <1>0, <1>3, <2>5 DEF SignBegin, Goto, Sound, TypeOK, store
    <2> QED
      BY <2>1, <2>2, <2>3, <2>4, <2>5 DEF SoundInv
  <1>4. CASE /\ \A q \in Procs : pc[q] \notin InitSteps
             /\ \E s \in emitted : VerifyBegin(p, s)
    <2>1. OnePair'
      BY <1>0, <1>4 DEF VerifyBegin, Goto, OnePair, TypeOK, store
    <2>2. RingWhole'
      BY <1>0, <1>4 DEF VerifyBegin, Goto, RingWhole, TypeOK, store
    <2>3. Kept'
      BY <1>0, <1>4 DEF VerifyBegin, Kept, store
    <2>4. rejected' = {}
      BY <1>0, <1>4 DEF VerifyBegin
    <2>5. ASSUME NEW q \in Procs PROVE Sound(q)'
      BY <1>0, <1>4, <2>5 DEF VerifyBegin, Goto, Sound, TypeOK, store
    <2> QED
      BY <2>1, <2>2, <2>3, <2>4, <2>5 DEF SoundInv
  <1>5. CASE Die(p) /\ pc[p] \in InitSteps
    BY <1>5 DEF Die, SoundInv
  <1>6. CASE Die(p) /\ pc[p] \notin InitSteps
    <2>1. OnePair'
      BY <1>0, <1>6 DEF Die, OnePair, Alone, InitSteps, store
    <2>2. RingWhole'
      BY <1>0, <1>6 DEF Die, RingWhole, Alone, InitSteps, BeforeGenerate, store
    <2>3. Kept'
      BY <1>0, <1>6 DEF Die, Kept, store
    <2>4. rejected' = {}
      BY <1>0, <1>6 DEF Die
    <2>5. ASSUME NEW q \in Procs PROVE Sound(q)'
      BY <1>0, <1>6, <2>5 DEF Die, Goto, Finish, Sound, TypeOK, store
    <2> QED
      BY <2>1, <2>2, <2>3, <2>4, <2>5 DEF SoundInv
  <1> QED
    BY <1>1, <1>2, <1>3, <1>4, <1>5, <1>6 DEF Use

LEMMA NextKeepsSoundInv == KeyInv /\ SoundInv /\ [ExclusiveNext]_vars => SoundInv'
  <1>1. SUFFICES ASSUME KeyInv, SoundInv, [ExclusiveNext]_vars PROVE SoundInv'
    OBVIOUS
  <1>2. CASE failed
    <2>1. ASSUME NEW p \in Procs, Step(p) PROVE failed'
      BY <1>2, <2>1 DEF Step, ArchiveRead, ArchiveCheck, ArchiveOpen, ArchiveWrite,
         EncOpen, EncWrite, PubOpen, PubWrite, SignFinger, VerifyPrimary,
         VerifyRing, At
    <2>2. ASSUME NEW p \in Procs,
                 (\E force \in BOOLEAN : InitKeys(p, force)) \/ Use(p)
          PROVE  failed'
      BY <1>2, <2>2 DEF InitKeys, Use, InitRefused, SignBegin, VerifyBegin, vars,
         ghost
    <2>3. ASSUME UNCHANGED vars PROVE failed'
      BY <1>2, <2>3 DEF vars, ghost
    <2>4. ASSUME NEW p \in Procs, Die(p) PROVE failed'
      BY <1>2, <2>4, Zenon DEF Die
    <2>5. failed'
      BY <1>1, <2>1, <2>2, <2>3, <2>4 DEF ExclusiveNext
    <2> QED
      BY <2>5 DEF SoundInv
  <1>3. CASE ~failed /\ ExclusiveNext
    BY <1>1, <1>3, StepKeepsSoundInv, OthersKeepSoundInv DEF ExclusiveNext
  <1>4. CASE UNCHANGED vars
    BY <1>1, <1>4 DEF vars, store, ghost, SoundInv, OnePair, RingWhole, Kept, Sound
  <1> QED
    BY <1>1, <1>2, <1>3, <1>4

\* The key of every signature is in key.pub or in the keyring, so verify
\* refuses none, as long as no init-keys has failed.
THEOREM NeverFalseAlarm == ExclusiveSpec => []NoFalseAlarm
  <1>1. SoundInv => NoFalseAlarm
    BY DEF SoundInv, NoFalseAlarm
  <1>2. Init => KeyInv /\ SoundInv
    BY InitEstablishesKeyInv, InitEstablishesSoundInv
  <1>3. KeyInv /\ SoundInv /\ [ExclusiveNext]_vars => (KeyInv /\ SoundInv)'
    BY NextKeepsKeyInv, NextKeepsSoundInv
  <1> QED
    BY <1>1, <1>2, <1>3, PTL DEF ExclusiveSpec
=============================================================================
