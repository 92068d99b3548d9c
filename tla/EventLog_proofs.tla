--------------------------- MODULE EventLog_proofs ---------------------------
(***************************************************************************)
(* Proofs about EventLog, for any number of threads, processes, events and *)
(* backups, and any sizes of lines and files.                              *)
(***************************************************************************)
EXTENDS EventLog, FiniteSetTheorems, TLAPS

-----------------------------------------------------------------------------
(* The inductive invariant: types.                                         *)

\* what a thread has in hand at each step
HoldOK(t) ==
    /\ pc[t] # "idle" => line[t] \in LineSizes
    /\ pc[t] = "move" => hold[t] \in Names
    /\ pc[t] = "unlink" => hold[t] \in SUBSET Names
    /\ pc[t] = "write" =>
          /\ hold[t].file \in DOMAIN files
          /\ hold[t].event \in Nat /\ hold[t].part \in Nat
          /\ hold[t].part < line[t]
          /\ hold[t].part > 0 =>
                hold[t].event \in DOMAIN sizes /\ sizes[hold[t].event] = line[t]

\* the threads that may still begin a line
NotBegun ==
    {t \in Threads :
        \/ pc[t] \in {"mutex", "flock", "check", "name", "move", "list", "unlink", "open"}
        \/ pc[t] = "write" /\ hold[t].part = 0}

\* TypeOK, by parts
StoreTypes ==
    /\ files \in Seq(File)
    /\ current \in DOMAIN files \cup {NoFile}
    /\ DOMAIN backups \subseteq Names
    /\ \A n \in DOMAIN backups : backups[n] \in DOMAIN files

LockTypes ==
    /\ mutex \in [Processes -> Threads \cup {Nobody}]
    /\ flock \in Threads \cup {Nobody}

LineTypes ==
    /\ sizes \in Seq(LineSizes) /\ Len(sizes) <= MaxEvents
    /\ acked \subseteq DOMAIN sizes /\ torn \in Nat /\ stuck \in BOOLEAN

ThreadTypes ==
    /\ pc \in [Threads -> Steps] /\ line \in [Threads -> {0} \cup LineSizes]
    /\ DOMAIN hold = Threads

TypeInv ==
    /\ deployed \in Deployments /\ now \in 0 .. MaxTime
    /\ StoreTypes /\ LockTypes /\ LineTypes /\ ThreadTypes
    /\ \A t \in Threads : HoldOK(t)
    /\ Len(sizes) + Cardinality(NotBegun) <= MaxEvents
-----------------------------------------------------------------------------
(* One thread inside at a time.                                            *)

\* the lock works, or one process logs
Exclusive == LockMayFail => \A t, u \in Threads : ProcessOf(t) = ProcessOf(u)

Inside == {"check", "name", "move", "list", "unlink", "open", "write", "unlock"}

LockInv ==
    \A t \in Threads :
        /\ pc[t] \notin {"idle", "mutex"} => mutex[ProcessOf(t)] = t
        /\ pc[t] \in Inside => LockMayFail \/ flock = t
-----------------------------------------------------------------------------
(* What the thread inside relies on.                                       *)

Lines(f) == files[f].lines

\* the file is below its limit, or has one line only
Fits(f) == Len(Lines(f)) < Limit \/ \A i \in DOMAIN Lines(f) : Lines(f)[i].event = Lines(f)[1].event

\* a line goes where it fits, or into a file of its own
Fitting(t) ==
    /\ pc[t] \in {"list", "unlink"} => current = NoFile
    /\ pc[t] = "open" =>
          current = NoFile \/ Len(Lines(current)) + line[t] < Limit
    /\ pc[t] = "write" =>
          \/ Len(Lines(hold[t].file)) + line[t] - hold[t].part < Limit
          \/ \A i \in DOMAIN Lines(hold[t].file) :
                hold[t].part > 0 /\ Lines(hold[t].file)[i].event = hold[t].event

LimitInv ==
    Exclusive /\ ~stuck =>
        (\A f \in DOMAIN files : Fits(f)) /\ (\A t \in Threads : Fitting(t))
-----------------------------------------------------------------------------
(* Where the chunks of a line are.                                         *)

\* t is in the middle of a line
Writing(t) == pc[t] = "write" /\ hold[t].part > 0

Underway == {hold[t].event : t \in {u \in Threads : Writing(u)}}

\* the lines begun that will never be finished
Torn == DOMAIN sizes \ (acked \cup Underway)

\* a chunk follows the earlier ones of its line
InOrder ==
    \A f \in DOMAIN files : \A i \in DOMAIN Lines(f) :
        LET c == Lines(f)[i]
        IN  /\ c.event \in DOMAIN sizes /\ c.part \in 1 .. sizes[c.event] /\ c.part <= i
            /\ \A k \in 1 .. c.part : Lines(f)[i - c.part + k] = [event |-> c.event, part |-> k]

Once ==
    \A f, g \in DOMAIN files : \A i \in DOMAIN Lines(f), j \in DOMAIN Lines(g) :
        Lines(f)[i] = Lines(g)[j] => f = g /\ i = j

\* a line that is acknowledged is there to its end
AckedWhole ==
    \A e \in acked : \E f \in DOMAIN files : \E i \in DOMAIN Lines(f) :
        Lines(f)[i] = [event |-> e, part |-> sizes[e]]

\* the line being written is at the end of its file
AtEnd ==
    \A t \in Threads :
        Writing(t) =>
            LET lines == Lines(hold[t].file)
            IN  /\ Len(lines) > 0
                /\ lines[Len(lines)] = [event |-> hold[t].event, part |-> hold[t].part]
                /\ hold[t].event \notin acked
                /\ \A f \in DOMAIN files : \A i \in DOMAIN Lines(f) :
                      Lines(f)[i].event = hold[t].event => Lines(f)[i].part <= hold[t].part

LayoutInv ==
    Exclusive => InOrder /\ Once /\ AckedWhole /\ AtEnd /\ torn = Cardinality(Torn)
-----------------------------------------------------------------------------
(* What the abstract log needs.                                            *)

\* some name is free when one is chosen
NamesLeft ==
    \A t \in Threads :
        pc[t] = "name" => \E c \in 0 .. MaxCounter : Name(c) \notin DOMAIN backups

\* what a clean-up has still to remove, and where a line goes
Prepared(t) ==
    /\ pc[t] = "write" => hold[t].file = current
    /\ pc[t] = "unlink" =>
          /\ hold[t] \subseteq DOMAIN backups
          /\ Cardinality(DOMAIN backups \ hold[t]) >= Count
          /\ \A n \in hold[t], m \in DOMAIN backups \ hold[t] : Time(n) <= Time(m)

StoreInv ==
    /\ backups = [n \in DOMAIN backups |-> backups[n]]
    /\ IsFiniteSet(DOMAIN backups)
    /\ \A f \in DOMAIN files : files[f].time <= now
    /\ Exclusive =>
          /\ \A n \in DOMAIN backups : backups[n] # current
          /\ \A t \in Threads : Prepared(t)

\* ... and while names are left
NameInv ==
    Exclusive => \A t \in Threads : pc[t] = "move" => hold[t] \notin DOMAIN backups
-----------------------------------------------------------------------------
(* What a step changes.                                                    *)

\* a step of t changes nothing of another thread
Others(t) ==
    \A u \in Threads \ {t} : pc'[u] = pc[u] /\ hold'[u] = hold[u] /\ line'[u] = line[u]

\* files are made and lines begun, and no number of either is used again
Grown ==
    /\ DOMAIN files \subseteq DOMAIN files' /\ DOMAIN sizes \subseteq DOMAIN sizes'
    /\ \A e \in DOMAIN sizes : sizes'[e] = sizes[e]

LEMMA TypesGiven == TypeInv => TypeOK
  BY DEF TypeInv, TypeOK, StoreTypes, LockTypes, LineTypes, ThreadTypes

LEMMA GotoFacts ==
  ASSUME ThreadTypes, NEW t \in Threads, NEW s \in Steps, NEW v, Goto(t, s, v)
  PROVE  /\ ThreadTypes' /\ Others(t)
         /\ pc'[t] = s /\ hold'[t] = v /\ line'[t] = line[t]
  BY DEF ThreadTypes, Others, Goto

LEMMA ProcessOfType ==
  ASSUME deployed \in Deployments, NEW t \in Threads
  PROVE  ProcessOf(t) \in Processes
<1>1. deployed \in [processOf : [Threads -> Processes], lockMayFail : BOOLEAN]
  BY LogAssumption
<1>. QED
  BY <1>1 DEF ProcessOf

LEMMA LineSize ==
  ASSUME ThreadTypes, NEW t \in Threads
  PROVE  line[t] \in Nat
<1>1. line[t] \in {0} \cup LineSizes
  BY DEF ThreadTypes
<1>2. \A k \in {0} \cup LineSizes : k \in Nat
  BY LogAssumption
<1>. QED
  BY <1>1, <1>2

LEMMA HoldFrame ==
  ASSUME TypeInv, NEW t \in Threads, Others(t), Grown, HoldOK(t)'
  PROVE  \A u \in Threads : HoldOK(u)'
<1>. SUFFICES ASSUME NEW u \in Threads \ {t} PROVE HoldOK(u)'
  BY DEF Others
<1>1. HoldOK(u) /\ pc'[u] = pc[u] /\ hold'[u] = hold[u] /\ line'[u] = line[u]
  BY DEF TypeInv, Others
<1>. QED
  BY <1>1 DEF HoldOK, Grown

LEMMA NotBegunFinite ==
  IsFiniteSet(NotBegun) /\ Cardinality(NotBegun) \in Nat
<1>1. NotBegun \in SUBSET Threads
  BY DEF NotBegun
<1>. QED
  BY <1>1, LogAssumption, FS_Subset, FS_CardinalityType

LEMMA NotBegunFrame ==
  ASSUME TypeInv, NEW t \in Threads, Others(t), t \in NotBegun' => t \in NotBegun
  PROVE  Len(sizes) + Cardinality(NotBegun') <= MaxEvents
<1>1. NotBegun' \in SUBSET NotBegun
  <2>. SUFFICES ASSUME NEW u \in NotBegun', u # t PROVE u \in NotBegun
    BY DEF NotBegun
  <2>. QED
    BY DEF NotBegun, Others
<1>2. /\ IsFiniteSet(NotBegun') /\ Cardinality(NotBegun') \in Nat
      /\ Cardinality(NotBegun') <= Cardinality(NotBegun)
  BY <1>1, NotBegunFinite, FS_Subset, FS_CardinalityType
<1>. QED
  BY <1>2, NotBegunFinite, LogAssumption DEF TypeInv, LineTypes

\* Most steps change a thread's place, or the files or a lock with it.
LEMMA TypeStep ==
  ASSUME TypeInv, NEW t \in Threads, Others(t), Grown,
         deployed' = deployed, now' = now, sizes' = sizes,
         StoreTypes', LockTypes', LineTypes', ThreadTypes',
         HoldOK(t)', t \in NotBegun' => t \in NotBegun
  PROVE  TypeInv'
  BY HoldFrame, NotBegunFrame DEF TypeInv

LEMMA StoreUnchanged ==
  ASSUME StoreTypes, UNCHANGED store
  PROVE  StoreTypes' /\ DOMAIN files = DOMAIN files'
  BY DEF StoreTypes, store

LEMMA LinesUnchanged ==
  ASSUME LineTypes, UNCHANGED <<sizes, ghost>>
  PROVE  LineTypes'
  BY DEF LineTypes, ghost

LEMMA LocksUnchanged ==
  ASSUME LockTypes, UNCHANGED locks
  PROVE  LockTypes'
  BY DEF LockTypes, locks
-----------------------------------------------------------------------------
(* The steps that look at no file, whoever is inside.                      *)

Aside(t) ==
    \/ Call(t) \/ TakeMutex(t) \/ NotSerialised(t) \/ TakeFlock(t) \/ FlockFails(t)
    \/ Unlock(t) \/ Release(t)

LEMMA AsideFacts ==
  ASSUME ThreadTypes, NEW t \in Threads, Aside(t)
  PROVE  /\ UNCHANGED <<store, now, sizes, ghost>>
         /\ ThreadTypes' /\ Others(t)
         /\ pc[t] \in {"idle", "mutex", "flock", "unlock", "release"}
         /\ pc'[t] \in {"idle", "mutex", "flock", "check", "release"}
<1>. {"idle", "mutex", "flock", "check", "release"} \subseteq Steps
  BY DEF Steps
<1>1. CASE Call(t)
  BY <1>1 DEF Call, ThreadTypes, Others
<1>2. CASE TakeMutex(t)
  BY <1>2, GotoFacts DEF TakeMutex
<1>3. CASE NotSerialised(t)
  BY <1>3, GotoFacts DEF NotSerialised
<1>4. CASE TakeFlock(t)
  BY <1>4, GotoFacts DEF TakeFlock
<1>5. CASE FlockFails(t)
  BY <1>5, GotoFacts DEF FlockFails
<1>6. CASE Unlock(t)
  BY <1>6, GotoFacts DEF Unlock
<1>7. CASE Release(t)
  BY <1>7 DEF Release, ThreadTypes, Others
<1>. QED
  BY <1>1, <1>2, <1>3, <1>4, <1>5, <1>6, <1>7 DEF Aside

LEMMA AsideLocks ==
  ASSUME TypeInv, NEW t \in Threads, Aside(t)
  PROVE  LockTypes'
<1>. USE DEF LockTypes, locks
<1>1. CASE TakeMutex(t)
  BY <1>1, ProcessOfType DEF TypeInv, TakeMutex
<1>2. CASE TakeFlock(t)
  BY <1>2 DEF TypeInv, TakeFlock
<1>3. CASE Unlock(t)
  BY <1>3 DEF TypeInv, Unlock
<1>4. CASE Release(t)
  BY <1>4, ProcessOfType DEF TypeInv, Release
<1>5. CASE Call(t) \/ NotSerialised(t) \/ FlockFails(t)
  BY <1>5 DEF TypeInv, Call, NotSerialised, FlockFails
<1>. QED
  BY <1>1, <1>2, <1>3, <1>4, <1>5 DEF Aside

\* the line that a thread is to write has a size from the call to its end
LEMMA AsideHold ==
  ASSUME TypeInv, NEW t \in Threads, Aside(t)
  PROVE  HoldOK(t)'
<1>1. pc'[t] # "idle" => line'[t] \in LineSizes
  <2>. {"idle", "mutex", "flock", "check", "release"} \subseteq Steps
    BY DEF Steps
  <2>1. CASE Call(t)
    BY <2>1 DEF Call, TypeInv, ThreadTypes
  <2>2. CASE Release(t)
    BY <2>2 DEF Release, TypeInv, ThreadTypes
  <2>3. CASE TakeMutex(t) \/ NotSerialised(t) \/ TakeFlock(t) \/ FlockFails(t) \/ Unlock(t)
    <3>1. line' = line /\ pc[t] # "idle"
      BY <2>3 DEF TakeMutex, NotSerialised, TakeFlock, FlockFails, Unlock, Goto
    <3>. QED
      BY <3>1 DEF TypeInv, HoldOK
  <2>. QED
    BY <2>1, <2>2, <2>3 DEF Aside
<1>2. pc'[t] \notin {"move", "unlink", "write"}
  BY AsideFacts DEF TypeInv
<1>. QED
  BY <1>1, <1>2 DEF HoldOK

LEMMA TypeInvAside ==
  ASSUME TypeInv, NEW t \in Threads, Aside(t), deployed' = deployed
  PROVE  TypeInv'
<1>1. /\ UNCHANGED <<store, now, sizes, ghost>>
      /\ ThreadTypes' /\ Others(t)
      /\ pc[t] \in {"idle", "mutex", "flock", "unlock", "release"}
      /\ pc'[t] \in {"idle", "mutex", "flock", "check", "release"}
  BY AsideFacts DEF TypeInv
<1>2. StoreTypes' /\ LineTypes' /\ LockTypes'
  BY <1>1, StoreUnchanged, LinesUnchanged, AsideLocks DEF TypeInv
<1>3. Grown
  BY <1>1 DEF Grown, store
<1>4. HoldOK(t)'
  BY AsideHold
<1>5. CASE ~Call(t)
  <2>1. t \in NotBegun' => t \in NotBegun
    <3>1. CASE pc[t] \in {"mutex", "flock"}
      BY <3>1 DEF NotBegun
    <3>2. CASE pc[t] \notin {"mutex", "flock"}
      <4>. {"idle", "mutex", "flock", "check", "release"} \subseteq Steps
        BY DEF Steps
      <4>1. pc'[t] \in {"idle", "release"}
        BY <1>5, <3>2, GotoFacts
        DEF Aside, TakeMutex, NotSerialised, TakeFlock, FlockFails, Unlock, Release,
            TypeInv, ThreadTypes
      <4>. QED
        BY <4>1 DEF NotBegun
    <3>. QED
      BY <3>1, <3>2
  <2>. QED
    BY <1>1, <1>2, <1>3, <1>4, <2>1, TypeStep
<1>6. CASE Call(t)
  <2>. DEFINE busy == {u \in Threads : pc[u] # "idle"}
  <2>1. IsFiniteSet(busy) /\ Cardinality(busy) \in Nat
    <3>1. busy \in SUBSET Threads
      OBVIOUS
    <3>. QED
      BY <3>1, LogAssumption, FS_Subset, FS_CardinalityType
  <2>2. Cardinality(NotBegun') <= Cardinality(busy) + 1 /\ Cardinality(NotBegun') \in Nat
    <3>1. NotBegun' \in SUBSET (busy \cup {t})
      BY <1>1 DEF NotBegun, Others
    <3>. HIDE DEF busy
    <3>2. /\ IsFiniteSet(busy \cup {t}) /\ Cardinality(busy \cup {t}) \in Nat
          /\ Cardinality(busy \cup {t}) <= Cardinality(busy) + 1
      <4>1. /\ IsFiniteSet(busy \cup {t})
            /\ Cardinality(busy \cup {t}) =
                  IF t \in busy THEN Cardinality(busy) ELSE Cardinality(busy) + 1
        BY <2>1, FS_AddElement, Zenon
      <4>. QED
        BY <2>1, <4>1
    <3>3. /\ IsFiniteSet(NotBegun')
          /\ Cardinality(NotBegun') <= Cardinality(busy \cup {t})
      BY <3>1, <3>2, FS_Subset
    <3>4. Cardinality(NotBegun') \in Nat
      BY <3>3, FS_CardinalityType
    <3>. QED
      BY <2>1, <3>2, <3>3, <3>4
  <2>3. Len(sizes) + Cardinality(busy) < MaxEvents
    BY <1>6 DEF Call
  <2>4. Len(sizes') + Cardinality(NotBegun') <= MaxEvents
    BY <1>1, <2>1, <2>2, <2>3, LogAssumption DEF TypeInv, LineTypes
  <2>5. \A u \in Threads : HoldOK(u)'
    BY <1>1, <1>3, <1>4, HoldFrame
  <2>. QED
    BY <1>1, <1>2, <2>4, <2>5 DEF TypeInv
<1>. QED
  BY <1>5, <1>6
-----------------------------------------------------------------------------
(* The steps that look at the files, and change none.                      *)

\* a call goes on to its next step
Looks(t) == Check(t) \/ ChooseName(t) \/ List(t) \/ MoveFails(t) \/ CleanupFails(t)

LEMMA LeastName ==
  ASSUME NEW free \in SUBSET Nat, free # {}
  PROVE  (CHOOSE c \in free : \A d \in free : c <= d) \in free
<1>1. PICK c \in free : \A d \in free : ~ (<<d, c>> \in OpToRel(<, Nat))
  BY NatLessThanWellFounded, WFMin, Zenon
<1>2. \A d \in free : ~ (d < c)
  BY <1>1 DEF OpToRel
<1>3. \E b \in free : \A d \in free : b <= d
  BY <1>2
<1>. QED
  BY <1>3, Zenon

LEMMA CheckFacts ==
  ASSUME ThreadTypes, NEW t \in Threads, Check(t)
  PROVE  /\ UNCHANGED <<store, now, locks, sizes, ghost>>
         /\ ThreadTypes' /\ Others(t) /\ line'[t] = line[t]
         /\ pc[t] = "check" /\ pc'[t] \in {"name", "open"}
         /\ pc'[t] = "open" =>
               current = NoFile \/ ~(Len(Lines(current)) + line[t] >= Limit)
<1>. {"name", "open"} \subseteq Steps
  BY DEF Steps
<1>. QED
  BY GotoFacts DEF Check, Lines

LEMMA ChooseNameFacts ==
  ASSUME ThreadTypes, NEW t \in Threads, now \in 0 .. MaxTime, ChooseName(t)
  PROVE  /\ UNCHANGED <<store, now, locks, sizes, ghost>>
         /\ ThreadTypes' /\ Others(t) /\ line'[t] = line[t]
         /\ pc[t] = "name" /\ pc'[t] = "move"
         /\ hold'[t] \in Names
         /\ (\E c \in 0 .. MaxCounter : Name(c) \notin DOMAIN backups)
               => hold'[t] \notin DOMAIN backups
<1>. "move" \in Steps
  BY DEF Steps
<1>. DEFINE free == {c \in 0 .. MaxCounter : Name(c) \notin DOMAIN backups}
            c    == CHOOSE c \in free : \A d \in free : c <= d
<1>1. Goto(t, "move", Name(IF free = {} THEN 0 ELSE c))
  BY DEF ChooseName
<1>2. free # {} => c \in free
  <2>1. free \in SUBSET Nat
    OBVIOUS
  <2>. HIDE DEF free
  <2>. QED
    BY <2>1, LeastName, Zenon
<1>3. free \subseteq 0 .. MaxCounter /\ 0 \in 0 .. MaxCounter
  BY LogAssumption
<1>4. \A d \in free : Name(d) \notin DOMAIN backups
  OBVIOUS
<1>5. free = {} => \A d \in 0 .. MaxCounter : Name(d) \in DOMAIN backups
  OBVIOUS
<1>. HIDE DEF free, c
<1>6. hold'[t] = Name(IF free = {} THEN 0 ELSE c)
  BY <1>1, GotoFacts
<1>7. hold'[t] \in Names
  <2>1. (IF free = {} THEN 0 ELSE c) \in 0 .. MaxCounter
    BY <1>2, <1>3
  <2>2. \A k \in 0 .. MaxCounter : Name(k) \in Names
    BY DEF Name, Names
  <2>. QED
    BY <1>6, <2>1, <2>2
<1>8. free # {} => hold'[t] \notin DOMAIN backups
  BY <1>2, <1>4, <1>6
<1>9. /\ UNCHANGED <<store, now, locks, sizes, ghost>>
      /\ ThreadTypes' /\ Others(t) /\ line'[t] = line[t]
      /\ pc[t] = "name" /\ pc'[t] = "move"
  BY <1>1, GotoFacts DEF ChooseName
<1>. QED
  BY <1>5, <1>7, <1>8, <1>9

LEMMA ListFacts ==
  ASSUME ThreadTypes, NEW t \in Threads, List(t)
  PROVE  /\ UNCHANGED <<store, now, locks, sizes, ghost>>
         /\ ThreadTypes' /\ Others(t) /\ line'[t] = line[t]
         /\ pc[t] = "list" /\ pc'[t] \in {"open", "unlink"}
         /\ pc'[t] = "unlink" =>
               /\ hold'[t] \in SUBSET DOMAIN backups
               /\ Cardinality(DOMAIN backups \ hold'[t]) = Count
               /\ \A n \in hold'[t], m \in DOMAIN backups \ hold'[t] : Time(n) <= Time(m)
<1>. {"open", "unlink"} \subseteq Steps
  BY DEF Steps
<1>1. PICK old \in SUBSET DOMAIN backups :
          /\ old # {} => Cardinality(DOMAIN backups \ old) = Count
          /\ \A n \in old, m \in DOMAIN backups \ old : Time(n) <= Time(m)
          /\ Goto(t, IF old = {} THEN "open" ELSE "unlink", old)
  BY DEF List
<1>2. /\ ThreadTypes' /\ Others(t) /\ hold'[t] = old /\ line'[t] = line[t]
      /\ pc'[t] = IF old = {} THEN "open" ELSE "unlink"
  BY <1>1, GotoFacts
<1>. QED
  BY <1>1, <1>2 DEF List

LEMMA FailFacts ==
  ASSUME ThreadTypes, NEW t \in Threads, MoveFails(t) \/ CleanupFails(t)
  PROVE  /\ UNCHANGED <<store, now, locks, sizes, acked, torn>>
         /\ ThreadTypes' /\ Others(t) /\ line'[t] = line[t]
         /\ pc[t] \in {"move", "list", "unlink"} /\ pc'[t] = "open"
         /\ \/ stuck' = TRUE
            \/ stuck' = stuck /\ pc[t] \in {"list", "unlink"}
<1>. "open" \in Steps
  BY DEF Steps
<1>. QED
  BY GotoFacts DEF MoveFails, CleanupFails, ghost

LEMMA LooksFacts ==
  ASSUME ThreadTypes, NEW t \in Threads, now \in 0 .. MaxTime, Looks(t)
  PROVE  /\ UNCHANGED <<store, now, locks, sizes, acked, torn>>
         /\ ThreadTypes' /\ Others(t) /\ line'[t] = line[t]
         /\ pc[t] \in {"check", "name", "list", "move", "unlink"}
         /\ pc'[t] \in {"name", "open", "move", "unlink"}
         /\ stuck' = TRUE \/ stuck' = stuck
<1>1. CASE Check(t)
  BY <1>1, CheckFacts DEF ghost
<1>2. CASE ChooseName(t)
  BY <1>2, ChooseNameFacts DEF ghost
<1>3. CASE List(t)
  BY <1>3, ListFacts DEF ghost
<1>4. CASE MoveFails(t) \/ CleanupFails(t)
  BY <1>4, FailFacts
<1>. QED
  BY <1>1, <1>2, <1>3, <1>4 DEF Looks

LEMMA TypeInvLooks ==
  ASSUME TypeInv, NEW t \in Threads, Looks(t), deployed' = deployed
  PROVE  TypeInv'
<1>1. /\ UNCHANGED <<store, now, locks, sizes, acked, torn>>
      /\ ThreadTypes' /\ Others(t) /\ line'[t] = line[t]
      /\ pc[t] \in {"check", "name", "list", "move", "unlink"}
      /\ pc'[t] \in {"name", "open", "move", "unlink"}
      /\ stuck' = TRUE \/ stuck' = stuck
  BY LooksFacts DEF TypeInv
<1>2. StoreTypes' /\ LockTypes' /\ LineTypes'
  <2>1. LineTypes'
    BY <1>1 DEF TypeInv, LineTypes
  <2>. QED
    BY <1>1, <2>1, StoreUnchanged, LocksUnchanged DEF TypeInv
<1>3. Grown
  BY <1>1 DEF Grown, store
<1>4. HoldOK(t)'
  <2>1. pc'[t] = "move" => hold'[t] \in Names
    <3>. SUFFICES ASSUME pc'[t] = "move" PROVE hold'[t] \in Names
      OBVIOUS
    <3>. CASE ChooseName(t)
      BY ChooseNameFacts DEF TypeInv
    <3>. CASE ~ChooseName(t)
      BY CheckFacts, ListFacts, FailFacts DEF Looks, TypeInv
    <3>. QED
      OBVIOUS
  <2>2. pc'[t] = "unlink" => hold'[t] \in SUBSET Names
    <3>. SUFFICES ASSUME pc'[t] = "unlink" PROVE hold'[t] \in SUBSET Names
      OBVIOUS
    <3>1. List(t)
      BY CheckFacts, ChooseNameFacts, FailFacts DEF Looks, TypeInv
    <3>. QED
      BY <3>1, ListFacts DEF TypeInv, StoreTypes
  <2>3. line'[t] \in LineSizes
    BY <1>1 DEF TypeInv, HoldOK
  <2>. QED
    BY <1>1, <2>1, <2>2, <2>3 DEF HoldOK
<1>5. t \in NotBegun
  BY <1>1 DEF NotBegun
<1>. QED
  BY <1>1, <1>2, <1>3, <1>4, <1>5, TypeStep
-----------------------------------------------------------------------------
(* The steps that move, remove, make and write files.                      *)

LEMMA MoveFacts ==
  ASSUME ThreadTypes, NEW t \in Threads, Move(t)
  PROVE  /\ UNCHANGED <<files, now, locks, sizes, ghost>>
         /\ ThreadTypes' /\ Others(t) /\ line'[t] = line[t]
         /\ pc[t] = "move"
         /\ \/ /\ current # NoFile /\ current' = NoFile /\ pc'[t] = "list"
               /\ backups' = [n \in DOMAIN backups \cup {hold[t]} |->
                                 IF n = hold[t] THEN current ELSE backups[n]]
            \/ /\ current = NoFile /\ pc'[t] = "open"
               /\ UNCHANGED <<current, backups>>
<1>. {"list", "open"} \subseteq Steps
  BY DEF Steps
<1>. QED
  BY GotoFacts DEF Move

LEMMA UnlinkFacts ==
  ASSUME ThreadTypes, NEW t \in Threads, Unlink(t)
  PROVE  /\ UNCHANGED <<current, files, now, locks, sizes, ghost>>
         /\ ThreadTypes' /\ Others(t) /\ line'[t] = line[t]
         /\ pc[t] = "unlink" /\ pc'[t] \in {"open", "unlink"}
         /\ \E n \in hold[t] :
               /\ n \in DOMAIN backups =>
                     \A m \in hold[t] \cap DOMAIN backups : Time(n) <= Time(m)
               /\ backups' = [m \in DOMAIN backups \ {n} |-> backups[m]]
               /\ hold'[t] = hold[t] \ {n}
<1>. {"open", "unlink"} \subseteq Steps
  BY DEF Steps
<1>1. PICK n \in hold[t] :
          /\ n \in DOMAIN backups =>
                \A m \in hold[t] \cap DOMAIN backups : Time(n) <= Time(m)
          /\ backups' = [m \in DOMAIN backups \ {n} |-> backups[m]]
          /\ Goto(t, IF hold[t] = {n} THEN "open" ELSE "unlink", hold[t] \ {n})
  BY DEF Unlink
<1>2. /\ ThreadTypes' /\ Others(t) /\ hold'[t] = hold[t] \ {n} /\ line'[t] = line[t]
      /\ pc'[t] \in {"open", "unlink"}
  BY <1>1, GotoFacts
<1>. QED
  BY <1>1, <1>2 DEF Unlink

\* the log that is not there is made
Creates ==
    /\ current = NoFile /\ current' = Len(files) + 1
    /\ files' = Append(files, [lines |-> << >>, time |-> now])

LEMMA OpenFacts ==
  ASSUME ThreadTypes, NEW t \in Threads, Open(t)
  PROVE  /\ UNCHANGED <<backups, now, locks, sizes, ghost>>
         /\ ThreadTypes' /\ Others(t) /\ line'[t] = line[t]
         /\ pc[t] = "open" /\ pc'[t] = "write"
         /\ hold'[t].file = current' /\ hold'[t].event = 0 /\ hold'[t].part = 0
         /\ (current # NoFile /\ UNCHANGED store) \/ Creates
<1>. "write" \in Steps
  BY DEF Steps
<1>1. CASE current # NoFile
  <2>1. UNCHANGED store /\ Goto(t, "write", [file |-> current, event |-> 0, part |-> 0])
    BY <1>1 DEF Open
  <2>. QED
    BY <1>1, <2>1, GotoFacts DEF Open, store
<1>2. CASE current = NoFile
  <2>1. /\ UNCHANGED backups
        /\ Creates
        /\ Goto(t, "write", [file |-> Len(files) + 1, event |-> 0, part |-> 0])
    BY <1>2 DEF Open, Creates
  <2>2. current' = Len(files) + 1
    BY <2>1 DEF Creates
  <2>. QED
    BY <2>1, <2>2, GotoFacts DEF Open
<1>. QED
  BY <1>1, <1>2

\* the event that t writes, and its next chunk
Event(t) == IF hold[t].part = 0 THEN Len(sizes) + 1 ELSE hold[t].event
Added(t) == [event |-> Event(t), part |-> hold[t].part + 1]
Ends(t)  == hold[t].part + 1 = line[t]

LEMMA WriteFacts ==
  ASSUME ThreadTypes, NEW t \in Threads, WriteChunk(t)
  PROVE  /\ UNCHANGED <<current, backups, now, locks, torn, stuck>>
         /\ ThreadTypes' /\ Others(t) /\ line'[t] = line[t]
         /\ pc[t] = "write" /\ pc'[t] = IF Ends(t) THEN "unlock" ELSE "write"
         /\ hold'[t].file = hold[t].file
         /\ hold'[t].event = Event(t) /\ hold'[t].part = hold[t].part + 1
         /\ sizes' = IF hold[t].part = 0 THEN Append(sizes, line[t]) ELSE sizes
         /\ acked' = IF Ends(t) THEN acked \cup {Event(t)} ELSE acked
         /\ files' = [files EXCEPT ![hold[t].file] =
                         [lines |-> Append(Lines(hold[t].file), Added(t)), time |-> now]]
<1>. {"unlock", "write"} \subseteq Steps
  BY DEF Steps
<1>1. Goto(t, IF Ends(t) THEN "unlock" ELSE "write",
           [file |-> hold[t].file, event |-> Event(t), part |-> hold[t].part + 1])
  BY DEF WriteChunk, Ends, Event
<1>2. /\ UNCHANGED <<current, backups, now, locks, torn, stuck>>
      /\ pc[t] = "write"
      /\ sizes' = IF hold[t].part = 0 THEN Append(sizes, line[t]) ELSE sizes
      /\ acked' = IF Ends(t) THEN acked \cup {Event(t)} ELSE acked
  BY DEF WriteChunk, Ends, Event
<1>3. files' = [files EXCEPT ![hold[t].file] =
                         [lines |-> Append(Lines(hold[t].file), Added(t)), time |-> now]]
  BY DEF WriteChunk, Event, Added, Lines
<1>. QED
  BY <1>1, <1>2, <1>3, GotoFacts

LEMMA WriteFailsFacts ==
  ASSUME ThreadTypes, NEW t \in Threads, WriteFails(t)
  PROVE  /\ UNCHANGED <<store, now, locks, sizes, acked, stuck>>
         /\ ThreadTypes' /\ Others(t) /\ line'[t] = line[t]
         /\ pc[t] \in {"open", "write"} /\ pc'[t] = "unlock"
         /\ torn' = IF pc[t] = "write" /\ hold[t].part > 0 THEN torn + 1 ELSE torn
<1>. "unlock" \in Steps
  BY DEF Steps
<1>. QED
  BY GotoFacts DEF WriteFails

\* the threads that die with p, and those of them in a line
Dead(p) == {t \in Threads : ProcessOf(t) = p}
Half(p) == {t \in Dead(p) : pc[t] = "write" /\ hold[t].part > 0}

LEMMA DieFacts ==
  ASSUME ThreadTypes, NEW p \in Processes, Die(p)
  PROVE  /\ UNCHANGED <<store, now, sizes, acked, stuck>>
         /\ ThreadTypes'
         /\ \A t \in Dead(p) : pc'[t] = "idle" /\ line'[t] = 0
         /\ \A t \in Threads \ Dead(p) :
               pc'[t] = pc[t] /\ line'[t] = line[t] /\ hold'[t] = hold[t]
         /\ mutex' = [mutex EXCEPT ![p] = Nobody]
         /\ flock' = IF flock \in Dead(p) THEN Nobody ELSE flock
         /\ torn' = torn + Cardinality(Half(p))
<1>. "idle" \in Steps
  BY DEF Steps
<1>1. /\ UNCHANGED <<store, now, sizes, acked, stuck>>
      /\ pc' = [t \in Threads |-> IF t \in Dead(p) THEN "idle" ELSE pc[t]]
      /\ line' = [t \in Threads |-> IF t \in Dead(p) THEN 0 ELSE line[t]]
      /\ hold' = [t \in Threads |-> IF t \in Dead(p) THEN NoFile ELSE hold[t]]
      /\ mutex' = [mutex EXCEPT ![p] = Nobody]
      /\ flock' = IF flock \in Dead(p) THEN Nobody ELSE flock
      /\ torn' = torn + Cardinality(Half(p))
  BY DEF Die, Dead, Half
<1>2. Dead(p) \subseteq Threads
  BY DEF Dead
<1>. QED
  BY <1>1, <1>2 DEF ThreadTypes
-----------------------------------------------------------------------------
(* The types are kept.                                                     *)

\* what the store's types say of one file
LEMMA FileFacts ==
  ASSUME StoreTypes, NEW f \in DOMAIN files
  PROVE  /\ files[f] \in File /\ Lines(f) \in Seq(Chunk) /\ files[f].time \in 0 .. MaxTime
         /\ files[f] # NoFile /\ f # NoFile
<1>1. files \in Seq(File)
  BY DEF StoreTypes
<1>2. files[f] \in File /\ f \in Nat
  BY <1>1
<1>. QED
  BY <1>2, LogAssumption DEF File, Lines

LEMMA TypeInvMove ==
  ASSUME TypeInv, NEW t \in Threads, Move(t), deployed' = deployed
  PROVE  TypeInv'
<1>1. /\ UNCHANGED <<files, now, locks, sizes, ghost>>
      /\ ThreadTypes' /\ Others(t) /\ line'[t] = line[t]
      /\ pc[t] = "move" /\ pc'[t] \in {"list", "open"}
      /\ \/ /\ current # NoFile /\ current' = NoFile
            /\ backups' = [n \in DOMAIN backups \cup {hold[t]} |->
                              IF n = hold[t] THEN current ELSE backups[n]]
         \/ UNCHANGED <<current, backups>>
  BY MoveFacts DEF TypeInv
<1>2. hold[t] \in Names /\ line[t] \in LineSizes
  BY <1>1 DEF TypeInv, HoldOK
<1>3. StoreTypes'
  BY <1>1, <1>2 DEF TypeInv, StoreTypes
<1>4. Grown /\ LockTypes' /\ LineTypes' /\ HoldOK(t)' /\ t \in NotBegun
  BY <1>1, <1>2, LocksUnchanged, LinesUnchanged DEF TypeInv, Grown, HoldOK, NotBegun
<1>. QED
  BY <1>1, <1>3, <1>4, TypeStep

LEMMA TypeInvUnlink ==
  ASSUME TypeInv, NEW t \in Threads, Unlink(t), deployed' = deployed
  PROVE  TypeInv'
<1>1. /\ UNCHANGED <<current, files, now, locks, sizes, ghost>>
      /\ ThreadTypes' /\ Others(t) /\ line'[t] = line[t]
      /\ pc[t] = "unlink" /\ pc'[t] \in {"open", "unlink"}
  BY UnlinkFacts DEF TypeInv
<1>2. PICK n : /\ backups' = [m \in DOMAIN backups \ {n} |-> backups[m]]
               /\ hold'[t] = hold[t] \ {n}
  BY UnlinkFacts DEF TypeInv
<1>3. hold[t] \in SUBSET Names /\ line[t] \in LineSizes
  BY <1>1 DEF TypeInv, HoldOK
<1>4. StoreTypes'
  BY <1>1, <1>2 DEF TypeInv, StoreTypes
<1>5. Grown /\ LockTypes' /\ LineTypes' /\ t \in NotBegun
  BY <1>1, LocksUnchanged, LinesUnchanged DEF TypeInv, Grown, NotBegun
<1>6. HoldOK(t)'
  BY <1>1, <1>2, <1>3 DEF HoldOK
<1>. QED
  BY <1>1, <1>4, <1>5, <1>6, TypeStep

LEMMA CreatesFacts ==
  ASSUME StoreTypes, now \in 0 .. MaxTime, Creates
  PROVE  /\ DOMAIN files' = DOMAIN files \cup {current'} /\ current' \notin DOMAIN files
         /\ \A f \in DOMAIN files : files'[f] = files[f]
         /\ files'[current'] = [lines |-> << >>, time |-> now]
         /\ files' \in Seq(File)
<1>. DEFINE new == [lines |-> << >>, time |-> now]
<1>1. files \in Seq(File) /\ new \in File
  BY DEF StoreTypes, File
<1>2. files' = Append(files, new) /\ current' = Len(files) + 1
  BY DEF Creates
<1>. HIDE DEF new
<1>3. /\ DOMAIN files' = DOMAIN files \cup {current'} /\ current' \notin DOMAIN files
      /\ \A f \in DOMAIN files : files'[f] = files[f]
      /\ files'[current'] = new
      /\ files' \in Seq(File)
  BY <1>1, <1>2
<1>. QED
  BY <1>3 DEF new

LEMMA TypeInvOpen ==
  ASSUME TypeInv, NEW t \in Threads, Open(t), deployed' = deployed
  PROVE  TypeInv'
<1>1. /\ UNCHANGED <<backups, now, locks, sizes, ghost>>
      /\ ThreadTypes' /\ Others(t) /\ line'[t] = line[t]
      /\ pc[t] = "open" /\ pc'[t] = "write"
      /\ hold'[t].file = current' /\ hold'[t].event = 0 /\ hold'[t].part = 0
      /\ (current # NoFile /\ UNCHANGED store) \/ Creates
  BY OpenFacts DEF TypeInv
<1>2. /\ StoreTypes' /\ current' \in DOMAIN files'
      /\ DOMAIN files \subseteq DOMAIN files'
  <2>1. CASE current # NoFile /\ UNCHANGED store
    BY <2>1 DEF TypeInv, StoreTypes, store
  <2>2. CASE Creates
    BY <2>2, <1>1, CreatesFacts DEF TypeInv, StoreTypes
  <2>. QED
    BY <1>1, <2>1, <2>2
<1>3. line[t] \in LineSizes /\ line[t] \in Nat \ {0}
  BY <1>1, LogAssumption DEF TypeInv, HoldOK
<1>4. Grown /\ LockTypes' /\ LineTypes' /\ t \in NotBegun
  BY <1>1, <1>2, LocksUnchanged, LinesUnchanged DEF TypeInv, Grown, NotBegun
<1>5. HoldOK(t)'
  BY <1>1, <1>2, <1>3 DEF HoldOK
<1>. QED
  BY <1>1, <1>2, <1>4, <1>5, TypeStep

LEMMA TypeInvWriteFails ==
  ASSUME TypeInv, NEW t \in Threads, WriteFails(t), deployed' = deployed
  PROVE  TypeInv'
<1>1. /\ UNCHANGED <<store, now, locks, sizes, acked, stuck>>
      /\ ThreadTypes' /\ Others(t) /\ line'[t] = line[t]
      /\ pc[t] \in {"open", "write"} /\ pc'[t] = "unlock"
      /\ torn' = IF pc[t] = "write" /\ hold[t].part > 0 THEN torn + 1 ELSE torn
  BY WriteFailsFacts DEF TypeInv
<1>2. StoreTypes' /\ LockTypes' /\ LineTypes' /\ Grown
  BY <1>1, StoreUnchanged, LocksUnchanged DEF TypeInv, LineTypes, Grown
<1>3. HoldOK(t)' /\ t \notin NotBegun'
  BY <1>1 DEF TypeInv, HoldOK, NotBegun
<1>. QED
  BY <1>1, <1>2, <1>3, TypeStep

LEMMA TypeInvTick ==
  ASSUME TypeInv, Tick, deployed' = deployed
  PROVE  TypeInv'
<1>1. UNCHANGED <<store, locks, sizes, local, ghost>> /\ now' \in 0 .. MaxTime
  BY LogAssumption DEF Tick, TypeInv
<1>2. StoreTypes' /\ LockTypes' /\ LineTypes'
  BY <1>1, StoreUnchanged, LocksUnchanged, LinesUnchanged DEF TypeInv
<1>3. ThreadTypes' /\ NotBegun' = NotBegun /\ \A t \in Threads : HoldOK(t)'
  BY <1>1 DEF TypeInv, ThreadTypes, NotBegun, HoldOK, local, store
<1>. QED
  BY <1>1, <1>2, <1>3 DEF TypeInv

LEMMA TypeInvDie ==
  ASSUME TypeInv, NEW p \in Processes, Die(p), deployed' = deployed
  PROVE  TypeInv'
<1>1. /\ UNCHANGED <<store, now, sizes, acked, stuck>>
      /\ ThreadTypes'
      /\ \A t \in Dead(p) : pc'[t] = "idle" /\ line'[t] = 0
      /\ \A t \in Threads \ Dead(p) :
            pc'[t] = pc[t] /\ line'[t] = line[t] /\ hold'[t] = hold[t]
      /\ mutex' = [mutex EXCEPT ![p] = Nobody]
      /\ flock' = IF flock \in Dead(p) THEN Nobody ELSE flock
      /\ torn' = torn + Cardinality(Half(p))
  BY DieFacts DEF TypeInv
<1>2. StoreTypes' /\ LockTypes'
  BY <1>1, StoreUnchanged DEF TypeInv, LockTypes
<1>3. LineTypes'
  <2>1. Half(p) \in SUBSET Threads
    BY DEF Half, Dead
  <2>2. Cardinality(Half(p)) \in Nat
    BY <2>1, LogAssumption, FS_Subset, FS_CardinalityType
  <2>. QED
    BY <1>1, <2>2 DEF TypeInv, LineTypes
<1>4. \A t \in Threads : HoldOK(t)'
  <2>. SUFFICES ASSUME NEW t \in Threads PROVE HoldOK(t)'
    OBVIOUS
  <2>1. CASE t \in Dead(p)
    BY <1>1, <2>1 DEF HoldOK
  <2>2. CASE t \notin Dead(p)
    BY <1>1, <2>2 DEF HoldOK, TypeInv, store
  <2>. QED
    BY <2>1, <2>2
<1>5. Len(sizes') + Cardinality(NotBegun') <= MaxEvents
  <2>1. NotBegun' \in SUBSET NotBegun
    <3>. SUFFICES ASSUME NEW t \in NotBegun' PROVE t \in NotBegun
      OBVIOUS
    <3>1. t \in Threads \ Dead(p)
      BY <1>1 DEF NotBegun
    <3>. QED
      BY <1>1, <3>1 DEF NotBegun
  <2>2. /\ IsFiniteSet(NotBegun') /\ Cardinality(NotBegun') \in Nat
        /\ Cardinality(NotBegun') <= Cardinality(NotBegun)
    BY <2>1, NotBegunFinite, FS_Subset, FS_CardinalityType
  <2>. QED
    BY <1>1, <2>2, NotBegunFinite, LogAssumption DEF TypeInv, LineTypes
<1>. QED
  BY <1>1, <1>2, <1>3, <1>4, <1>5 DEF TypeInv
-----------------------------------------------------------------------------
(* A chunk at the end of a file.                                           *)

LEMMA ChunkFacts ==
  ASSUME TypeInv, NEW t \in Threads, WriteChunk(t)
  PROVE  /\ hold[t].file \in DOMAIN files
         /\ hold[t].part \in Nat /\ hold[t].part < line[t] /\ line[t] \in LineSizes
         /\ Event(t) \in Nat /\ Event(t) \in DOMAIN sizes' /\ Added(t) \in Chunk
         /\ hold[t].part > 0 => Event(t) \in DOMAIN sizes
         /\ hold[t].part = 0 => Event(t) \notin DOMAIN sizes /\ Len(sizes') = Len(sizes) + 1
         /\ DOMAIN sizes' = DOMAIN sizes \cup {Event(t)}
         /\ sizes' \in Seq(LineSizes) /\ Len(sizes') <= MaxEvents
         /\ sizes'[Event(t)] = line[t]
         /\ \A e \in DOMAIN sizes : sizes'[e] = sizes[e]
<1>1. pc[t] = "write" /\ sizes' = IF hold[t].part = 0 THEN Append(sizes, line[t]) ELSE sizes
  BY WriteFacts DEF TypeInv
<1>2. /\ hold[t].file \in DOMAIN files
      /\ hold[t].part \in Nat /\ hold[t].part < line[t] /\ line[t] \in LineSizes
      /\ hold[t].part > 0 => hold[t].event \in DOMAIN sizes /\ sizes[hold[t].event] = line[t]
  BY <1>1 DEF TypeInv, HoldOK
<1>3. sizes \in Seq(LineSizes) /\ Len(sizes) \in Nat /\ Len(sizes) <= MaxEvents
  BY DEF TypeInv, LineTypes
<1>4. CASE hold[t].part = 0
  <2>1. Len(sizes) + 1 <= MaxEvents
    <3>1. t \in NotBegun
      BY <1>1, <1>4 DEF NotBegun
    <3>2. Cardinality(NotBegun) # 0
      BY <3>1, NotBegunFinite, FS_EmptySet
    <3>. QED
      BY <1>3, <3>2, NotBegunFinite, LogAssumption DEF TypeInv
  <2>2. Event(t) = Len(sizes) + 1 /\ sizes' = Append(sizes, line[t])
    BY <1>1, <1>4 DEF Event
  <2>3. /\ Event(t) \in Nat /\ Event(t) \in DOMAIN sizes' /\ Event(t) \notin DOMAIN sizes
        /\ Len(sizes') = Len(sizes) + 1
        /\ DOMAIN sizes' = DOMAIN sizes \cup {Event(t)}
        /\ sizes' \in Seq(LineSizes) /\ Len(sizes') <= MaxEvents
        /\ sizes'[Event(t)] = line[t]
        /\ \A e \in DOMAIN sizes : sizes'[e] = sizes[e]
    BY <1>2, <1>3, <2>1, <2>2
  <2>4. Added(t) \in Chunk
    BY <1>2, <1>3, <2>1, <2>2 DEF Added, Chunk
  <2>. QED
    BY <1>2, <1>4, <2>3, <2>4
<1>5. CASE hold[t].part # 0
  <2>1. hold[t].part > 0
    BY <1>2, <1>5
  <2>2. Event(t) = hold[t].event /\ sizes' = sizes
    BY <1>1, <1>5 DEF Event
  <2>3. Event(t) \in Nat /\ Event(t) \in DOMAIN sizes /\ sizes[Event(t)] = line[t]
    BY <1>3, <1>2, <2>1, <2>2
  <2>4. Added(t) \in Chunk
    BY <1>2, <1>3, <2>3, LogAssumption DEF Added, Chunk
  <2>. QED
    BY <1>2, <1>3, <1>5, <2>2, <2>3, <2>4
<1>. QED
  BY <1>4, <1>5

LEMMA ChunkFile ==
  ASSUME TypeInv, NEW t \in Threads, WriteChunk(t)
  PROVE  /\ DOMAIN files' = DOMAIN files /\ files' \in Seq(File)
         /\ \A g \in DOMAIN files \ {hold[t].file} : files'[g] = files[g]
         /\ files'[hold[t].file] = [lines |-> Append(Lines(hold[t].file), Added(t)), time |-> now]
         /\ files'[hold[t].file].lines = Append(Lines(hold[t].file), Added(t))
         /\ files'[hold[t].file].time = now
<1>. DEFINE f == hold[t].file
            lines == Append(Lines(f), Added(t))
            new == [lines |-> lines, time |-> now]
<1>1. f \in DOMAIN files /\ Added(t) \in Chunk
  BY ChunkFacts
<1>2. files' = [files EXCEPT ![f] = new]
  BY WriteFacts DEF TypeInv
<1>3. lines \in Seq(Chunk)
  BY <1>1, FileFacts DEF TypeInv
<1>4. new \in File
  BY <1>3 DEF File, TypeInv
<1>5. files \in Seq(File)
  BY DEF TypeInv, StoreTypes
<1>. HIDE DEF lines
<1>7. new.lines = lines /\ new.time = now
  OBVIOUS
<1>. HIDE DEF f, new
<1>6. /\ DOMAIN files' = DOMAIN files /\ files' \in Seq(File)
      /\ \A g \in DOMAIN files \ {f} : files'[g] = files[g]
      /\ files'[f] = new
  BY <1>1, <1>2, <1>4, <1>5
<1>. QED
  BY <1>6, <1>7 DEF f, new, lines

\* the lines of a file after a chunk is written
LEMMA ChunkLines ==
  ASSUME TypeInv, NEW t \in Threads, WriteChunk(t), NEW f \in DOMAIN files
  PROVE  /\ Lines(f)' = IF f = hold[t].file THEN Append(Lines(f), Added(t)) ELSE Lines(f)
         /\ Lines(f) \in Seq(Chunk)
         /\ \A i \in DOMAIN Lines(f) : i \in DOMAIN Lines(f)' /\ Lines(f)'[i] = Lines(f)[i]
         /\ f # hold[t].file => DOMAIN Lines(f)' = DOMAIN Lines(f)
         /\ f = hold[t].file =>
               /\ Len(Lines(f)') = Len(Lines(f)) + 1
               /\ DOMAIN Lines(f)' = DOMAIN Lines(f) \cup {Len(Lines(f)) + 1}
               /\ Lines(f)'[Len(Lines(f)) + 1] = Added(t)
<1>1. Lines(f)' = IF f = hold[t].file THEN Append(Lines(f), Added(t)) ELSE Lines(f)
  <2>1. CASE f = hold[t].file
    <3>. DEFINE g == hold[t].file
    <3>1. files'[g] = [lines |-> Append(Lines(g), Added(t)), time |-> now]
      BY ChunkFile
    <3>2. f = g
      BY <2>1
    <3>. HIDE DEF g
    <3>3. files'[f].lines = Append(Lines(f), Added(t))
      BY <3>1, <3>2
    <3>. QED
      BY <2>1, <3>3 DEF Lines
  <2>2. CASE f # hold[t].file
    BY <2>2, ChunkFile DEF Lines
  <2>. QED
    BY <2>1, <2>2
<1>2. Lines(f) \in Seq(Chunk) /\ Added(t) \in Chunk
  BY FileFacts, ChunkFacts DEF TypeInv
<1>. DEFINE lines == Lines(f)
            after == Lines(f)'
            c     == Added(t)
<1>3. after = IF f = hold[t].file THEN Append(lines, c) ELSE lines
  BY <1>1
<1>4. lines \in Seq(Chunk) /\ c \in Chunk
  BY <1>2
<1>. HIDE DEF lines, after, c
<1>5. /\ \A i \in DOMAIN lines : i \in DOMAIN after /\ after[i] = lines[i]
      /\ f # hold[t].file => DOMAIN after = DOMAIN lines
      /\ f = hold[t].file =>
            /\ Len(after) = Len(lines) + 1
            /\ DOMAIN after = DOMAIN lines \cup {Len(lines) + 1}
            /\ after[Len(lines) + 1] = c
  BY <1>3, <1>4
<1>. QED
  BY <1>1, <1>2, <1>5 DEF lines, after, c

LEMMA TypeInvWriteChunk ==
  ASSUME TypeInv, NEW t \in Threads, WriteChunk(t), deployed' = deployed
  PROVE  TypeInv'
<1>1. /\ UNCHANGED <<current, backups, now, locks, torn, stuck>>
      /\ ThreadTypes' /\ Others(t) /\ line'[t] = line[t]
      /\ pc[t] = "write" /\ pc'[t] = IF Ends(t) THEN "unlock" ELSE "write"
      /\ hold'[t].file = hold[t].file
      /\ hold'[t].event = Event(t) /\ hold'[t].part = hold[t].part + 1
      /\ sizes' = IF hold[t].part = 0 THEN Append(sizes, line[t]) ELSE sizes
      /\ acked' = IF Ends(t) THEN acked \cup {Event(t)} ELSE acked
  BY WriteFacts DEF TypeInv
<1>2. /\ hold[t].part \in Nat /\ hold[t].part < line[t] /\ line[t] \in Nat /\ line[t] \in LineSizes
      /\ hold[t].file \in DOMAIN files
      /\ Event(t) \in Nat /\ Event(t) \in DOMAIN sizes' /\ sizes'[Event(t)] = line[t]
      /\ hold[t].part = 0 => Len(sizes') = Len(sizes) + 1
  BY ChunkFacts, LogAssumption
<1>3. DOMAIN files' = DOMAIN files /\ files' \in Seq(File)
  BY ChunkFile
<1>4. StoreTypes' /\ LockTypes'
  BY <1>1, <1>3, LocksUnchanged DEF TypeInv, StoreTypes
<1>5. LineTypes'
  BY <1>1, ChunkFacts DEF TypeInv, LineTypes
<1>6. Grown
  BY <1>3, ChunkFacts DEF Grown
<1>7. HoldOK(t)'
  <2>1. pc'[t] = "write" => hold[t].part + 1 < line[t]
    BY <1>1, <1>2 DEF Ends
  <2>. QED
    BY <1>1, <1>2, <1>3, <2>1 DEF HoldOK
<1>8. CASE hold[t].part # 0
  <2>1. sizes' = sizes /\ t \notin NotBegun'
    BY <1>1, <1>2, <1>8 DEF NotBegun
  <2>. QED
    BY <1>1, <1>4, <1>5, <1>6, <1>7, <2>1, TypeStep
<1>9. CASE hold[t].part = 0
  <2>1. NotBegun' \in SUBSET (NotBegun \ {t})
    <3>1. t \notin NotBegun'
      BY <1>1, <1>2 DEF NotBegun
    <3>. QED
      BY <1>1, <3>1 DEF NotBegun, Others
  <2>2. /\ IsFiniteSet(NotBegun \ {t})
        /\ Cardinality(NotBegun \ {t}) = Cardinality(NotBegun) - 1
    <3>1. t \in NotBegun
      BY <1>1, <1>9 DEF NotBegun
    <3>2. IsFiniteSet(NotBegun)
      BY NotBegunFinite
    <3>. HIDE DEF NotBegun
    <3>. QED
      BY <3>1, <3>2, FS_RemoveElement, Zenon
  <2>3. Cardinality(NotBegun') \in Nat /\ Cardinality(NotBegun') <= Cardinality(NotBegun) - 1
    BY <2>1, <2>2, FS_Subset, FS_CardinalityType
  <2>4. Len(sizes) \in Nat
    BY DEF TypeInv, LineTypes
  <2>5. Len(sizes') + Cardinality(NotBegun') <= MaxEvents
    BY <1>9, <1>2, <2>3, <2>4, NotBegunFinite, LogAssumption DEF TypeInv
  <2>6. \A u \in Threads : HoldOK(u)'
    BY <1>1, <1>6, <1>7, HoldFrame
  <2>. QED
    BY <1>1, <1>4, <1>5, <2>5, <2>6 DEF TypeInv
<1>. QED
  BY <1>8, <1>9
-----------------------------------------------------------------------------
(* The steps, by what they do.                                             *)

LEMMA NextCases ==
  ASSUME Next
  PROVE  \/ Tick
         \/ \E p \in Processes : Die(p)
         \/ \E t \in Threads : \/ Aside(t) \/ Looks(t) \/ Move(t) \/ Unlink(t)
                               \/ Open(t) \/ WriteChunk(t) \/ WriteFails(t)
  BY DEF Next, Step, Run, Fail, Aside, Looks

LEMMA TypeInvInit == Init => TypeInv
<1>. SUFFICES ASSUME Init PROVE TypeInv
  OBVIOUS
<1>1. StoreTypes /\ LockTypes /\ LineTypes
  <2>1. StoreTypes
    BY DEF Init, StoreTypes
  <2>2. LockTypes /\ LineTypes
    <3>1. sizes = << >> /\ Len(sizes) = 0 /\ Len(sizes) <= MaxEvents
      BY LogAssumption DEF Init
    <3>2. sizes \in Seq(LineSizes)
      BY <3>1
    <3>. QED
      BY <3>1, <3>2 DEF Init, LockTypes, LineTypes
  <2>. QED
    BY <2>1, <2>2
<1>2. ThreadTypes
  BY DEF Init, ThreadTypes, Steps
<1>3. NotBegun = {} /\ \A t \in Threads : HoldOK(t)
  BY DEF Init, NotBegun, HoldOK
<1>4. Cardinality(NotBegun) = 0
  BY <1>3, FS_EmptySet
<1>. QED
  BY <1>1, <1>2, <1>3, <1>4, LogAssumption DEF Init, TypeInv

LEMMA TypeInvUnchanged ==
  ASSUME TypeInv, UNCHANGED <<deployed, vars>>
  PROVE  TypeInv'
<1>1. UNCHANGED <<store, now, locks, sizes, ghost>> /\ UNCHANGED local
  BY DEF vars
<1>2. StoreTypes' /\ LockTypes' /\ LineTypes'
  BY <1>1, StoreUnchanged, LocksUnchanged, LinesUnchanged DEF TypeInv
<1>3. ThreadTypes' /\ NotBegun' = NotBegun /\ \A t \in Threads : HoldOK(t)'
  BY <1>1 DEF TypeInv, ThreadTypes, NotBegun, HoldOK, local, store
<1>. QED
  BY <1>1, <1>2, <1>3 DEF TypeInv

LEMMA TypeInvNext ==
  ASSUME TypeInv, [Next /\ UNCHANGED deployed]_<<deployed, vars>>
  PROVE  TypeInv'
<1>1. CASE UNCHANGED <<deployed, vars>>
  BY <1>1, TypeInvUnchanged
<1>2. CASE Next /\ deployed' = deployed
  <2>1. CASE Tick
    BY <1>2, <2>1, TypeInvTick
  <2>2. CASE \E p \in Processes : Die(p)
    BY <1>2, <2>2, TypeInvDie
  <2>3. CASE \E t \in Threads : \/ Aside(t) \/ Looks(t) \/ Move(t) \/ Unlink(t)
                                \/ Open(t) \/ WriteChunk(t) \/ WriteFails(t)
    BY <1>2, <2>3, TypeInvAside, TypeInvLooks, TypeInvMove, TypeInvUnlink, TypeInvOpen,
       TypeInvWriteChunk, TypeInvWriteFails
  <2>. QED
    BY <1>2, <2>1, <2>2, <2>3, NextCases
<1>. QED
  BY <1>1, <1>2

\* In every state the values have their types: a thread that writes has a file
\* that exists and has not come to the end of its line, and the lines begun and
\* still to be begun are no more than the bound.
THEOREM LogTypes == Spec => []TypeOK
<1>1. TypeInv /\ [Next /\ UNCHANGED deployed]_<<deployed, vars>> => TypeInv'
  BY TypeInvNext
<1>. QED
  BY <1>1, TypeInvInit, TypesGiven, PTL DEF Spec
-----------------------------------------------------------------------------
(* One thread inside at a time.                                            *)

LEMMA LockInvAside ==
  ASSUME TypeInv, LockInv, NEW t \in Threads, Aside(t), deployed' = deployed
  PROVE  LockInv'
<1>1. /\ Others(t) /\ ThreadTypes
      /\ pc'[t] \in {"idle", "mutex", "flock", "check", "release"}
  BY AsideFacts DEF TypeInv
<1>2. \A u \in Threads : ProcessOf(u)' = ProcessOf(u) /\ ProcessOf(u) \in Processes
  BY ProcessOfType DEF TypeInv, ProcessOf
<1>3. /\ mutex \in [Processes -> Threads \cup {Nobody}] /\ Nobody \notin Threads
      /\ LockMayFail' = LockMayFail
  BY LogAssumption DEF TypeInv, LockTypes, LockMayFail
<1>4. \A u \in Threads :
         /\ pc[u] \notin {"idle", "mutex"} => mutex[ProcessOf(u)] = u
         /\ pc[u] \in Inside => LockMayFail \/ flock = u
  BY DEF LockInv
<1>. SUFFICES ASSUME NEW u \in Threads
              PROVE  /\ pc'[u] \notin {"idle", "mutex"} => mutex'[ProcessOf(u)] = u
                     /\ pc'[u] \in Inside => LockMayFail \/ flock' = u
  BY <1>2, <1>3 DEF LockInv
<1>5. u # t => pc'[u] = pc[u]
  BY <1>1 DEF Others
<1>6. {"idle", "mutex", "flock", "check", "release"} \subseteq Steps
  BY DEF Steps
<1>. DEFINE q == ProcessOf(t)
            r == ProcessOf(u)
<1>7. q \in Processes /\ r \in Processes
  BY <1>2
<1>8. CASE Call(t)
  <2>1. UNCHANGED locks /\ pc'[t] = "mutex"
    BY <1>8, <1>1 DEF Call, ThreadTypes
  <2>. QED
    BY <1>4, <1>5, <2>1 DEF locks, Inside
<1>9. CASE TakeMutex(t)
  <2>1. mutex[q] = Nobody /\ mutex' = [mutex EXCEPT ![q] = t] /\ flock' = flock /\ pc'[t] = "flock"
    BY <1>1, <1>6, <1>9, GotoFacts DEF TakeMutex
  <2>2. u # t /\ pc[u] \notin {"idle", "mutex"} => r # q
    BY <1>3, <1>4, <2>1
  <2>3. pc'[t] \notin Inside
    BY <2>1 DEF Inside
  <2>. HIDE DEF q, r
  <2>4. u = t => r = q
    BY DEF q, r
  <2>5. pc[u] \notin {"idle", "mutex"} => mutex[r] = u
    BY <1>4 DEF r
  <2>6. pc'[u] \notin {"idle", "mutex"} => mutex'[r] = u
    BY <1>3, <1>5, <1>7, <2>1, <2>2, <2>4, <2>5
  <2>. QED
    BY <1>4, <1>5, <2>1, <2>3, <2>6 DEF r
<1>10. CASE NotSerialised(t)
  <2>1. pc[t] = "flock" /\ UNCHANGED locks /\ pc'[t] = "release"
    BY <1>1, <1>6, <1>10, GotoFacts DEF NotSerialised
  <2>. QED
    BY <1>4, <1>5, <2>1 DEF locks, Inside
<1>11. CASE TakeFlock(t)
  <2>1. pc[t] = "flock" /\ flock = Nobody /\ flock' = t /\ mutex' = mutex
    BY <1>11 DEF TakeFlock
  <2>. QED
    BY <1>3, <1>4, <1>5, <2>1
<1>12. CASE FlockFails(t)
  <2>1. pc[t] = "flock" /\ LockMayFail /\ UNCHANGED locks
    BY <1>12 DEF FlockFails
  <2>. QED
    BY <1>4, <1>5, <2>1 DEF locks
<1>13. CASE Unlock(t)
  <2>1. /\ pc[t] = "unlock" /\ mutex' = mutex /\ pc'[t] = "release"
        /\ flock' = IF flock = t THEN Nobody ELSE flock
    BY <1>1, <1>6, <1>13, GotoFacts DEF Unlock
  <2>. QED
    BY <1>4, <1>5, <2>1 DEF Inside
<1>14. CASE Release(t)
  <2>1. /\ pc[t] = "release" /\ flock' = flock /\ pc'[t] = "idle"
        /\ mutex' = [mutex EXCEPT ![q] = Nobody]
    BY <1>1, <1>14 DEF Release, ThreadTypes
  <2>2. mutex[q] = t
    BY <1>4, <2>1
  <2>3. pc[u] \notin {"idle", "mutex"} => mutex[r] = u
    BY <1>4
  <2>. HIDE DEF q, r
  <2>4. pc'[u] \notin {"idle", "mutex"} => mutex'[r] = u
    BY <1>3, <1>5, <1>7, <2>1, <2>2, <2>3
  <2>. QED
    BY <1>4, <1>5, <2>1, <2>4 DEF r, Inside
<1>. QED
  BY <1>8, <1>9, <1>10, <1>11, <1>12, <1>13, <1>14 DEF Aside

\* a call that has the locks keeps them while it works on the files
LEMMA LockInvInside ==
  ASSUME LockInv, NEW t \in Threads, deployed' = deployed, UNCHANGED locks,
         Others(t), pc[t] \in Inside, pc'[t] \in Inside
  PROVE  LockInv'
  BY DEF LockInv, Others, Inside, locks, ProcessOf, LockMayFail

LEMMA LockInvDie ==
  ASSUME TypeInv, LockInv, NEW p \in Processes, Die(p), deployed' = deployed
  PROVE  LockInv'
<1>1. /\ \A t \in Dead(p) : pc'[t] = "idle"
      /\ \A t \in Threads \ Dead(p) : pc'[t] = pc[t]
      /\ mutex' = [mutex EXCEPT ![p] = Nobody]
      /\ flock' = IF flock \in Dead(p) THEN Nobody ELSE flock
  BY DieFacts DEF TypeInv
<1>. SUFFICES ASSUME NEW u \in Threads \ Dead(p)
              PROVE  /\ pc'[u] \notin {"idle", "mutex"} => mutex'[ProcessOf(u)] = u
                     /\ pc'[u] \in Inside => LockMayFail \/ flock' = u
  BY <1>1 DEF LockInv, Inside, ProcessOf, LockMayFail
<1>2. /\ pc[u] \notin {"idle", "mutex"} => mutex[ProcessOf(u)] = u
      /\ pc[u] \in Inside => LockMayFail \/ flock = u
  BY DEF LockInv
<1>3. ProcessOf(u) # p /\ ProcessOf(u) \in Processes
  BY ProcessOfType DEF Dead, TypeInv
<1>. QED
  BY <1>1, <1>2, <1>3 DEF TypeInv, LockTypes
\* a step on the files
Works(t) ==
    Looks(t) \/ Move(t) \/ Unlink(t) \/ Open(t) \/ WriteChunk(t) \/ WriteFails(t)

LEMMA WorksFacts ==
  ASSUME TypeInv, NEW t \in Threads, Works(t)
  PROVE  /\ UNCHANGED <<now, locks>> /\ Others(t) /\ line'[t] = line[t]
         /\ pc[t] \in Inside /\ pc'[t] \in Inside
<1>. USE DEF Inside
<1>1. CASE Looks(t)
  BY <1>1, LooksFacts DEF TypeInv
<1>2. CASE Move(t)
  BY <1>2, MoveFacts DEF TypeInv
<1>3. CASE Unlink(t)
  BY <1>3, UnlinkFacts DEF TypeInv
<1>4. CASE Open(t)
  BY <1>4, OpenFacts DEF TypeInv
<1>5. CASE WriteChunk(t)
  BY <1>5, WriteFacts DEF TypeInv
<1>6. CASE WriteFails(t)
  BY <1>6, WriteFailsFacts DEF TypeInv
<1>. QED
  BY <1>1, <1>2, <1>3, <1>4, <1>5, <1>6 DEF Works

LEMMA LockInvNext ==
  ASSUME TypeInv, LockInv, [Next /\ UNCHANGED deployed]_<<deployed, vars>>
  PROVE  LockInv'
<1>1. CASE UNCHANGED <<deployed, vars>>
  BY <1>1 DEF vars, locks, local, LockInv, ProcessOf, LockMayFail
<1>2. CASE Next /\ deployed' = deployed
  <2>1. CASE Tick
    <3>1. UNCHANGED <<mutex, flock, pc, deployed>>
      BY <1>2, <2>1 DEF Tick, locks, local
    <3>. QED
      BY <3>1 DEF LockInv, ProcessOf, LockMayFail
  <2>2. CASE \E p \in Processes : Die(p)
    BY <1>2, <2>2, LockInvDie
  <2>3. CASE \E t \in Threads : Aside(t)
    BY <1>2, <2>3, LockInvAside
  <2>4. CASE \E t \in Threads : Works(t)
    BY <1>2, <2>4, LockInvInside, WorksFacts
  <2>. QED
    BY <1>2, <2>1, <2>2, <2>3, <2>4, NextCases DEF Works
<1>. QED
  BY <1>1, <1>2

LEMMA LockInvInit == Init => LockInv
  BY DEF Init, LockInv, Inside

\* ... so that nobody else is inside.
LEMMA OneInside ==
  ASSUME LockInv, Exclusive, NEW t \in Threads, NEW u \in Threads,
         pc[t] \in Inside, pc[u] \in Inside
  PROVE  t = u
<1>1. CASE LockMayFail
  BY <1>1 DEF LockInv, Exclusive, Inside
<1>2. CASE ~LockMayFail
  BY <1>2 DEF LockInv
<1>. QED
  BY <1>1, <1>2

\* what is said of the threads inside is kept by a step of the one inside
LEMMA OthersOutside ==
  ASSUME TypeInv, LockInv, Exclusive, NEW t \in Threads, Works(t),
         NEW u \in Threads, u # t
  PROVE  pc'[u] = pc[u] /\ pc'[u] \notin Inside
  BY WorksFacts, OneInside DEF Others

LEMMA ExclusiveKept ==
  ASSUME deployed' = deployed
  PROVE  Exclusive' <=> Exclusive
  BY DEF Exclusive, ProcessOf, LockMayFail
-----------------------------------------------------------------------------
(* Whoever waits for a lock waits for a call that can go on.               *)

\* a lock is held by a call that will give it back: of the process the lock is
\* of, and not before the lock is taken or after it is released
HeldInv ==
    /\ \A p \in Processes :
          mutex[p] # Nobody =>
              ProcessOf(mutex[p]) = p /\ pc[mutex[p]] \notin {"idle", "mutex"}
    /\ flock # Nobody => pc[flock] \in Inside

Waits(t) ==
    \/ pc[t] = "mutex" /\ mutex[ProcessOf(t)] # Nobody
    \/ pc[t] = "flock" /\ flock # Nobody

\* the holder is in the middle of its call and waits for nothing
HeldByRunner(t) ==
    \E u \in Threads :
        /\ u = flock \/ u = mutex[ProcessOf(t)]
        /\ pc[u] # "idle" /\ ~Waits(u)

LEMMA HeldInvAside ==
  ASSUME TypeInv, LockInv, HeldInv, NEW t \in Threads, Aside(t), deployed' = deployed
  PROVE  HeldInv'
<1>1. /\ Others(t) /\ ThreadTypes /\ ProcessOf(t) \in Processes
      /\ {"idle", "mutex", "flock", "check", "release"} \subseteq Steps
  BY AsideFacts, ProcessOfType DEF TypeInv, Steps
<1>2. /\ mutex \in [Processes -> Threads \cup {Nobody}] /\ Nobody \notin Threads
      /\ flock \in Threads \cup {Nobody}
      /\ \A u \in Threads : ProcessOf(u)' = ProcessOf(u)
  BY LogAssumption DEF TypeInv, LockTypes, ProcessOf
<1>. DEFINE q == ProcessOf(t)
<1>3. \A u \in Threads : u # t => pc'[u] = pc[u]
  BY <1>1 DEF Others
<1>4. CASE UNCHANGED locks /\ flock # t /\ pc'[t] \notin {"idle", "mutex"}
  BY <1>2, <1>3, <1>4 DEF HeldInv, locks
<1>5. CASE Call(t)
  <2>1. UNCHANGED locks /\ pc[t] = "idle"
    BY <1>5 DEF Call
  <2>2. \A p \in Processes : mutex[p] # t
    BY <1>2, <2>1 DEF HeldInv
  <2>3. flock # t
    BY <1>2, <2>1 DEF HeldInv, Inside
  <2>. QED
    BY <1>2, <1>3, <2>1, <2>2, <2>3 DEF HeldInv, locks
<1>6. CASE TakeMutex(t)
  <2>1. /\ mutex[q] = Nobody /\ mutex' = [mutex EXCEPT ![q] = t]
        /\ flock' = flock /\ pc[t] = "mutex" /\ pc'[t] = "flock"
    BY <1>1, <1>6, GotoFacts DEF TakeMutex
  <2>2. flock # t
    BY <1>2, <2>1 DEF HeldInv, Inside
  <2>3. flock' # Nobody => pc'[flock'] \in Inside
    BY <1>2, <1>3, <2>1, <2>2 DEF HeldInv
  <2>4. ASSUME NEW p \in Processes, mutex'[p] # Nobody
        PROVE  ProcessOf(mutex'[p]) = p /\ pc'[mutex'[p]] \notin {"idle", "mutex"}
    <3>1. CASE p = q
      <4>1. mutex'[p] = t
        BY <1>1, <1>2, <2>1, <3>1
      <4>. QED
        BY <2>1, <3>1, <4>1
    <3>2. CASE p # q
      <4>1. mutex'[p] = mutex[p] /\ mutex[p] \in Threads
        BY <1>2, <2>1, <2>4, <3>2
      <4>2. ProcessOf(mutex[p]) = p /\ pc[mutex[p]] \notin {"idle", "mutex"}
        BY <2>4, <4>1 DEF HeldInv
      <4>. QED
        BY <1>3, <2>1, <4>1, <4>2
    <3>. QED
      BY <3>1, <3>2
  <2>5. \A p \in Processes : mutex'[p] # Nobody => mutex'[p] \in Threads
    BY <1>1, <1>2, <2>1
  <2>6. \A p \in Processes : mutex'[p] # Nobody => ProcessOf(mutex[p])' = p
    BY <1>2, <2>4, <2>5 DEF ProcessOf
  <2>. QED
    BY <2>3, <2>4, <2>6 DEF HeldInv
<1>7. CASE NotSerialised(t) \/ FlockFails(t)
  <2>1. pc[t] = "flock" /\ UNCHANGED locks /\ pc'[t] \in {"release", "check"}
    BY <1>1, <1>7, GotoFacts DEF NotSerialised, FlockFails
  <2>2. flock # t
    BY <1>2, <2>1 DEF HeldInv, Inside
  <2>. QED
    BY <1>4, <2>1, <2>2
<1>8. CASE TakeFlock(t)
  <2>1. /\ flock' = t /\ mutex' = mutex /\ pc'[t] = "check"
    BY <1>1, <1>8, GotoFacts DEF TakeFlock
  <2>. QED
    BY <1>2, <1>3, <2>1 DEF HeldInv, Inside
<1>9. CASE Unlock(t)
  <2>1. /\ mutex' = mutex /\ pc'[t] = "release"
        /\ flock' = IF flock = t THEN Nobody ELSE flock
    BY <1>1, <1>9, GotoFacts DEF Unlock
  <2>. QED
    BY <1>2, <1>3, <2>1 DEF HeldInv
<1>10. CASE Release(t)
  <2>1. /\ mutex' = [mutex EXCEPT ![q] = Nobody]
        /\ flock' = flock /\ pc[t] = "release" /\ pc'[t] = "idle"
    BY <1>1, <1>10 DEF Release, ThreadTypes
  <2>2. flock # t
    BY <1>2, <2>1 DEF HeldInv, Inside
  <2>3. flock' # Nobody => pc'[flock'] \in Inside
    BY <1>2, <1>3, <2>1, <2>2 DEF HeldInv
  <2>4. ASSUME NEW p \in Processes, mutex'[p] # Nobody
        PROVE  ProcessOf(mutex[p])' = p /\ pc'[mutex'[p]] \notin {"idle", "mutex"}
    <3>1. p # q /\ mutex'[p] = mutex[p] /\ mutex[p] \in Threads
      BY <1>1, <1>2, <2>1, <2>4
    <3>2. ProcessOf(mutex[p]) = p /\ pc[mutex[p]] \notin {"idle", "mutex"}
      BY <2>4, <3>1 DEF HeldInv
    <3>3. mutex[p] # t
      BY <3>1, <3>2
    <3>4. ProcessOf(mutex[p])' = ProcessOf(mutex[p])
      BY <3>1 DEF ProcessOf
    <3>. QED
      BY <1>3, <3>1, <3>2, <3>3, <3>4
  <2>. QED
    BY <2>3, <2>4 DEF HeldInv
<1>. QED
  BY <1>5, <1>6, <1>7, <1>8, <1>9, <1>10 DEF Aside

LEMMA HeldInvWorks ==
  ASSUME TypeInv, HeldInv, NEW t \in Threads, Works(t), deployed' = deployed
  PROVE  HeldInv'
<1>1. UNCHANGED locks /\ Others(t) /\ pc'[t] \in Inside
  BY WorksFacts
<1>2. \A u \in Threads : u # t => pc'[u] = pc[u]
  BY <1>1 DEF Others
<1>3. /\ mutex \in [Processes -> Threads \cup {Nobody}] /\ flock \in Threads \cup {Nobody}
  BY DEF TypeInv, LockTypes
<1>. QED
  BY <1>1, <1>2, <1>3 DEF HeldInv, Inside, locks, ProcessOf

\* the threads of a process that dies hold nothing any more
LEMMA HeldInvDie ==
  ASSUME TypeInv, HeldInv, NEW p \in Processes, Die(p), deployed' = deployed
  PROVE  HeldInv'
<1>1. /\ \A t \in Threads \ Dead(p) : pc'[t] = pc[t]
      /\ mutex' = [mutex EXCEPT ![p] = Nobody]
      /\ flock' = IF flock \in Dead(p) THEN Nobody ELSE flock
  BY DieFacts DEF TypeInv
<1>2. /\ mutex \in [Processes -> Threads \cup {Nobody}] /\ Nobody \notin Threads
      /\ flock \in Threads \cup {Nobody}
  BY LogAssumption DEF TypeInv, LockTypes
<1>3. flock' # Nobody => pc'[flock'] \in Inside
  BY <1>1, <1>2 DEF HeldInv
<1>4. ASSUME NEW r \in Processes, mutex'[r] # Nobody
      PROVE  ProcessOf(mutex[r])' = r /\ pc'[mutex'[r]] \notin {"idle", "mutex"}
  <2>1. r # p /\ mutex'[r] = mutex[r] /\ mutex[r] \in Threads
    BY <1>1, <1>2, <1>4
  <2>2. ProcessOf(mutex[r]) = r /\ pc[mutex[r]] \notin {"idle", "mutex"}
    BY <1>4, <2>1 DEF HeldInv
  <2>3. mutex[r] \notin Dead(p)
    BY <2>1, <2>2 DEF Dead
  <2>4. ProcessOf(mutex[r])' = ProcessOf(mutex[r])
    BY <2>1 DEF ProcessOf
  <2>. QED
    BY <1>1, <2>1, <2>2, <2>3, <2>4
<1>. QED
  BY <1>3, <1>4 DEF HeldInv

LEMMA HeldInvNext ==
  ASSUME TypeInv, LockInv, HeldInv, [Next /\ UNCHANGED deployed]_<<deployed, vars>>
  PROVE  HeldInv'
<1>1. CASE UNCHANGED <<deployed, vars>>
  BY <1>1 DEF vars, locks, local, HeldInv, ProcessOf
<1>2. CASE Next /\ deployed' = deployed
  <2>1. CASE Tick
    <3>1. UNCHANGED <<mutex, flock, pc, deployed>>
      BY <1>2, <2>1 DEF Tick, locks, local
    <3>. QED
      BY <3>1 DEF HeldInv, ProcessOf
  <2>2. CASE \E p \in Processes : Die(p)
    BY <1>2, <2>2, HeldInvDie
  <2>3. CASE \E t \in Threads : Aside(t)
    BY <1>2, <2>3, HeldInvAside
  <2>4. CASE \E t \in Threads : Works(t)
    BY <1>2, <2>4, HeldInvWorks
  <2>. QED
    BY <1>2, <2>1, <2>2, <2>3, <2>4, NextCases DEF Works
<1>. QED
  BY <1>1, <1>2

\* The part of EveryWriteReturns that is a matter of safety: no lock is left
\* behind by a call that returned, failed or died, and the two locks cannot be
\* waited for in a circle.  Whenever a call of write waits for a lock, a thread
\* that holds one is in the middle of its own call and waits for nothing.
THEOREM NobodyWaitsInVain ==
  Spec => [](\A t \in Threads : Waits(t) => HeldByRunner(t))
<1>1. TypeInv /\ LockInv /\ HeldInv /\ [Next /\ UNCHANGED deployed]_<<deployed, vars>>
        => TypeInv' /\ LockInv' /\ HeldInv'
  BY TypeInvNext, LockInvNext, HeldInvNext
<1>2. Init => TypeInv /\ LockInv /\ HeldInv
  <2>1. Init => HeldInv
    BY DEF Init, HeldInv
  <2>. QED
    BY <2>1, TypeInvInit, LockInvInit
<1>3. TypeInv /\ HeldInv => \A t \in Threads : Waits(t) => HeldByRunner(t)
  <2>. SUFFICES ASSUME TypeInv, HeldInv, NEW t \in Threads, Waits(t)
                PROVE  HeldByRunner(t)
    OBVIOUS
  <2>1. /\ mutex \in [Processes -> Threads \cup {Nobody}] /\ flock \in Threads \cup {Nobody}
        /\ ProcessOf(t) \in Processes
    BY ProcessOfType DEF TypeInv, LockTypes
  <2>2. CASE flock # Nobody
    <3>1. flock \in Threads /\ pc[flock] \in Inside
      BY <2>1, <2>2 DEF HeldInv
    <3>2. pc[flock] # "idle" /\ ~Waits(flock)
      BY <3>1 DEF Inside, Waits
    <3>. QED
      BY <3>1, <3>2 DEF HeldByRunner
  <2>3. CASE flock = Nobody
    <3>1. mutex[ProcessOf(t)] # Nobody
      BY <2>3 DEF Waits
    <3>2. /\ mutex[ProcessOf(t)] \in Threads
          /\ pc[mutex[ProcessOf(t)]] \notin {"idle", "mutex"}
      BY <2>1, <3>1 DEF HeldInv
    <3>. QED
      BY <2>3, <3>2 DEF HeldByRunner, Waits
  <2>. QED
    BY <2>2, <2>3
<1>. QED
  BY <1>1, <1>2, <1>3, PTL DEF Spec
-----------------------------------------------------------------------------
(* The limit.                                                              *)

LEMMA LimitFrame ==
  ASSUME TypeInv, LockInv, NEW t \in Threads, Works(t), deployed' = deployed,
         Exclusive /\ ~stuck' => (\A f \in DOMAIN files' : Fits(f)') /\ Fitting(t)'
  PROVE  LimitInv'
<1>. SUFFICES ASSUME Exclusive, ~stuck', NEW u \in Threads, u # t
              PROVE  Fitting(u)'
  BY ExclusiveKept DEF LimitInv
<1>. QED
  BY OthersOutside DEF Fitting, Inside

\* nothing that is said of files and threads inside has changed
LEMMA LimitSame ==
  ASSUME LimitInv, deployed' = deployed, UNCHANGED store, stuck' = stuck,
         \A u \in Threads :
            \/ pc'[u] \notin {"list", "unlink", "open", "write"}
            \/ pc'[u] = pc[u] /\ line'[u] = line[u] /\ hold'[u] = hold[u]
  PROVE  LimitInv'
<1>. SUFFICES ASSUME Exclusive, ~stuck
              PROVE  (\A f \in DOMAIN files' : Fits(f)') /\ (\A u \in Threads : Fitting(u)')
  BY ExclusiveKept DEF LimitInv
<1>1. files' = files /\ current' = current
  BY DEF store
<1>2. \A f \in DOMAIN files' : Fits(f)'
  BY <1>1 DEF LimitInv, Fits, Lines
<1>3. ASSUME NEW u \in Threads PROVE Fitting(u)'
  <2>1. CASE pc'[u] \notin {"list", "unlink", "open", "write"}
    BY <2>1 DEF Fitting
  <2>2. CASE pc'[u] = pc[u] /\ line'[u] = line[u] /\ hold'[u] = hold[u]
    <3>1. Fitting(u)
      BY DEF LimitInv
    <3>. QED
      BY <1>1, <2>2, <3>1 DEF Fitting, Lines
  <2>. QED
    BY <2>1, <2>2
<1>. QED
  BY <1>2, <1>3

LEMMA FitsSame ==
  ASSUME files' = files, \A f \in DOMAIN files : Fits(f)
  PROVE  \A f \in DOMAIN files' : Fits(f)'
  BY DEF Fits, Lines

LEMMA LimitLooks ==
  ASSUME TypeInv, LockInv, LimitInv, NEW t \in Threads, Looks(t), deployed' = deployed
  PROVE  LimitInv'
<1>1. UNCHANGED <<files, current>> /\ pc'[t] \in {"name", "open", "move", "unlink"}
      /\ line'[t] = line[t] /\ (stuck' = TRUE \/ stuck' = stuck)
  BY LooksFacts DEF TypeInv, store
<1>. SUFFICES ASSUME Exclusive, ~stuck'
              PROVE  (\A f \in DOMAIN files' : Fits(f)') /\ Fitting(t)'
  BY LimitFrame DEF Works
<1>2. (\A f \in DOMAIN files : Fits(f)) /\ Fitting(t)
  BY <1>1 DEF LimitInv
<1>3. pc[t] \in {"list", "unlink"} => current = NoFile
  BY <1>2 DEF Fitting
<1>4. CASE Check(t)
  <2>1. pc'[t] = "open" => current = NoFile \/ Len(Lines(current)) + line[t] < Limit
    <3>. SUFFICES ASSUME pc'[t] = "open", current # NoFile
                  PROVE  Len(Lines(current)) + line[t] < Limit
      OBVIOUS
    <3>1. ~(Len(Lines(current)) + line[t] >= Limit)
      BY <1>4, CheckFacts DEF TypeInv
    <3>2. Len(Lines(current)) \in Nat
      BY FileFacts DEF TypeInv, StoreTypes
    <3>3. line[t] \in Nat
      BY LineSize DEF TypeInv
    <3>. QED
      BY <3>1, <3>2, <3>3, LogAssumption
  <2>2. pc'[t] \in {"name", "open"}
    BY <1>4, CheckFacts DEF TypeInv
  <2>. QED
    BY <1>1, <1>2, <2>1, <2>2, FitsSame DEF Fitting, Lines
<1>5. CASE ChooseName(t)
  <2>1. pc'[t] = "move"
    BY <1>5, ChooseNameFacts DEF TypeInv
  <2>. QED
    BY <1>1, <1>2, <2>1, FitsSame DEF Fitting
<1>6. CASE List(t) \/ CleanupFails(t) \/ MoveFails(t)
  <2>1. pc[t] \in {"list", "unlink"}
    BY <1>6, ListFacts, FailFacts DEF TypeInv
  <2>2. pc'[t] # "write"
    BY <1>1
  <2>. QED
    BY <1>1, <1>2, <1>3, <2>1, <2>2, FitsSame DEF Fitting
<1>. QED
  BY <1>4, <1>5, <1>6 DEF Looks

LEMMA LimitMove ==
  ASSUME TypeInv, LockInv, LimitInv, NEW t \in Threads, Move(t) \/ Unlink(t),
         deployed' = deployed
  PROVE  LimitInv'
<1>. SUFFICES ASSUME Exclusive, ~stuck'
              PROVE  (\A f \in DOMAIN files' : Fits(f)') /\ Fitting(t)'
  BY LimitFrame DEF Works
<1>1. files' = files /\ stuck' = stuck
  BY MoveFacts, UnlinkFacts DEF TypeInv, ghost
<1>2. (\A f \in DOMAIN files : Fits(f)) /\ Fitting(t)
  BY <1>1 DEF LimitInv
<1>3. current' = NoFile /\ pc'[t] \in {"list", "open", "unlink"}
  <2>1. CASE Move(t)
    BY <2>1, MoveFacts DEF TypeInv
  <2>2. CASE Unlink(t)
    BY <1>2, <2>2, UnlinkFacts DEF TypeInv, Fitting
  <2>. QED
    BY <2>1, <2>2
<1>. QED
  BY <1>1, <1>2, <1>3, FitsSame DEF Fitting

LEMMA LimitOpen ==
  ASSUME TypeInv, LockInv, LimitInv, NEW t \in Threads, Open(t), deployed' = deployed
  PROVE  LimitInv'
<1>. SUFFICES ASSUME Exclusive, ~stuck'
              PROVE  (\A f \in DOMAIN files' : Fits(f)') /\ Fitting(t)'
  BY LimitFrame DEF Works
<1>1. /\ pc[t] = "open" /\ pc'[t] = "write" /\ stuck' = stuck /\ line'[t] = line[t]
      /\ hold'[t].file = current' /\ hold'[t].part = 0
      /\ (current # NoFile /\ UNCHANGED store) \/ Creates
  BY OpenFacts DEF TypeInv, ghost
<1>2. (\A f \in DOMAIN files : Fits(f)) /\ Fitting(t)
  BY <1>1 DEF LimitInv
<1>3. line[t] \in Nat
  BY LineSize DEF TypeInv
<1>4. CASE current # NoFile /\ UNCHANGED store
  <2>1. files' = files /\ current' = current
    BY <1>4 DEF store
  <2>2. Len(Lines(current)) + line[t] < Limit
    BY <1>1, <1>2, <1>4 DEF Fitting
  <2>3. Len(Lines(current)) \in Nat
    BY <1>4, FileFacts DEF TypeInv, StoreTypes
  <2>4. Len(Lines(current)) + line[t] - 0 < Limit
    BY <1>3, <2>2, <2>3
  <2>5. Fitting(t)'
    BY <1>1, <2>1, <2>4 DEF Fitting, Lines
  <2>. QED
    BY <1>2, <2>1, <2>5, FitsSame
<1>5. CASE Creates
  <2>1. /\ DOMAIN files' = DOMAIN files \cup {current'}
        /\ \A f \in DOMAIN files : files'[f] = files[f]
        /\ files'[current'] = [lines |-> << >>, time |-> now]
    BY <1>5, CreatesFacts DEF TypeInv
  <2>2. files'[current'].lines = << >>
    BY <2>1
  <2>3. DOMAIN (files'[current'].lines) = {}
    BY <2>2
  <2>4. Fits(current)'
    BY <2>3 DEF Fits, Lines
  <2>5. \A f \in DOMAIN files : Fits(f)'
    BY <1>2, <2>1 DEF Fits, Lines
  <2>6. Fitting(t)'
    BY <1>1, <2>3 DEF Fitting, Lines
  <2>. QED
    BY <2>1, <2>4, <2>5, <2>6 DEF Fits, Lines
<1>. QED
  BY <1>1, <1>4, <1>5

LEMMA LimitWriteChunk ==
  ASSUME TypeInv, LockInv, LimitInv, NEW t \in Threads, WriteChunk(t), deployed' = deployed
  PROVE  LimitInv'
<1>. SUFFICES ASSUME Exclusive, ~stuck'
              PROVE  (\A f \in DOMAIN files' : Fits(f)') /\ Fitting(t)'
  BY LimitFrame DEF Works
<1>1. /\ pc[t] = "write" /\ pc'[t] \in {"unlock", "write"} /\ stuck' = stuck
      /\ line'[t] = line[t] /\ hold'[t].file = hold[t].file
      /\ hold'[t].event = Event(t) /\ hold'[t].part = hold[t].part + 1
  BY WriteFacts DEF TypeInv
<1>2. (\A f \in DOMAIN files : Fits(f)) /\ Fitting(t)
  BY <1>1 DEF LimitInv
<1>. DEFINE f     == hold[t].file
            part  == hold[t].part
            size  == line[t]
            lines == Lines(f)
            after == files'[f].lines
<1>3. /\ f \in DOMAIN files /\ part \in Nat /\ size \in Nat /\ part < size
  BY ChunkFacts, LogAssumption
<1>4. /\ lines \in Seq(Chunk) /\ Len(after) = Len(lines) + 1
      /\ DOMAIN after = DOMAIN lines \cup {Len(lines) + 1}
      /\ \A i \in DOMAIN lines : after[i] = lines[i]
      /\ after[Len(lines) + 1] = Added(t)
  BY <1>3, ChunkLines DEF Lines
<1>5. \/ Len(lines) + size - part < Limit
      \/ \A i \in DOMAIN lines : part > 0 /\ lines[i].event = hold[t].event
  BY <1>1, <1>2 DEF Fitting
<1>6. Added(t).event = Event(t) /\ (part > 0 => Event(t) = hold[t].event)
  BY DEF Added, Event
<1>7. \/ Len(after) < Limit /\ Len(after) + size - (part + 1) < Limit
      \/ \A i \in DOMAIN after : after[i].event = Event(t)
  <2>1. CASE Len(lines) + size - part < Limit
    <3>. HIDE DEF f, part, size, lines, after
    <3>1. Len(lines) \in Nat
      BY <1>4
    <3>2. Limit \in Nat
      BY LogAssumption
    <3>. QED
      BY <1>3, <1>4, <2>1, <3>1, <3>2
  <2>2. CASE \A i \in DOMAIN lines : part > 0 /\ lines[i].event = hold[t].event
    <3>. HIDE DEF f, part, size, lines, after
    <3>. QED
      BY <1>4, <1>6, <2>2
  <2>. QED
    BY <1>5, <2>1, <2>2
<1>8. 1 \in DOMAIN after
  <2>. HIDE DEF f, lines, after
  <2>1. Len(lines) \in Nat /\ DOMAIN lines = 1 .. Len(lines)
    BY <1>4
  <2>. QED
    BY <1>4, <2>1
<1>9. Len(after) < Limit \/ \A i \in DOMAIN after : after[i].event = after[1].event
  BY <1>7, <1>8
<1>10. ASSUME NEW g \in DOMAIN files' PROVE Fits(g)'
  <2>1. CASE g = f
    BY <1>9, <2>1 DEF Fits, Lines
  <2>2. CASE g # f
    <3>1. g \in DOMAIN files /\ files'[g] = files[g]
      BY <2>2, ChunkFile
    <3>2. Fits(g)
      BY <1>2, <3>1
    <3>. QED
      BY <3>1, <3>2 DEF Fits, Lines
  <2>. QED
    BY <2>1, <2>2
<1>11. part + 1 > 0
  BY <1>3
<1>12. Fitting(t)'
  BY <1>1, <1>7, <1>11 DEF Fitting, Lines
<1>. QED
  BY <1>10, <1>12

LEMMA LimitInvNext ==
  ASSUME TypeInv, LockInv, LimitInv, [Next /\ UNCHANGED deployed]_<<deployed, vars>>
  PROVE  LimitInv'
<1>1. CASE UNCHANGED <<deployed, vars>>
  BY <1>1, LimitSame DEF vars, local, ghost
<1>2. CASE Next /\ deployed' = deployed
  <2>1. CASE Tick
    BY <1>2, <2>1, LimitSame DEF Tick, local, ghost
  <2>2. CASE \E p \in Processes : Die(p)
    <3>1. PICK p \in Processes : Die(p)
      BY <2>2
    <3>2. /\ UNCHANGED store /\ stuck' = stuck
          /\ \A t \in Dead(p) : pc'[t] = "idle"
          /\ \A t \in Threads \ Dead(p) :
                pc'[t] = pc[t] /\ line'[t] = line[t] /\ hold'[t] = hold[t]
      BY <3>1, DieFacts DEF TypeInv
    <3>. QED
      BY <1>2, <3>2, LimitSame
  <2>3. CASE \E t \in Threads : Aside(t)
    <3>1. PICK t \in Threads : Aside(t)
      BY <2>3
    <3>2. /\ UNCHANGED store /\ stuck' = stuck /\ Others(t)
          /\ pc'[t] \in {"idle", "mutex", "flock", "check", "release"}
      BY <3>1, AsideFacts DEF TypeInv, ghost
    <3>. QED
      BY <1>2, <3>2, LimitSame DEF Others
  <2>4. CASE \E t \in Threads : WriteFails(t)
    <3>1. PICK t \in Threads : WriteFails(t)
      BY <2>4
    <3>2. UNCHANGED store /\ stuck' = stuck /\ Others(t) /\ pc'[t] = "unlock"
      BY <3>1, WriteFailsFacts DEF TypeInv
    <3>. QED
      BY <1>2, <3>2, LimitSame DEF Others
  <2>. QED
    BY <1>2, <2>1, <2>2, <2>3, <2>4, NextCases, LimitLooks, LimitMove, LimitOpen,
       LimitWriteChunk
<1>. QED
  BY <1>1, <1>2

LEMMA LimitInvInit == Init => LimitInv
  BY DEF Init, LimitInv, Fitting, Fits

\* While the lock works or one process logs, a file stays below its limit
\* unless a single line is as long, or the log could once not be renamed.
THEOREM LimitAlwaysKept == Spec => [](Exclusive => LimitKept)
<1>1. TypeInv /\ LockInv /\ LimitInv /\ [Next /\ UNCHANGED deployed]_<<deployed, vars>>
        => TypeInv' /\ LockInv' /\ LimitInv'
  BY TypeInvNext, LockInvNext, LimitInvNext
<1>2. Init => TypeInv /\ LockInv /\ LimitInv
  BY TypeInvInit, LockInvInit, LimitInvInit
<1>3. TypeInv /\ LimitInv => (Exclusive => LimitKept)
  <2>. SUFFICES ASSUME TypeInv, LimitInv, Exclusive, ~stuck, NEW f \in Files
                PROVE  \/ Len(files[f].lines) < Limit
                       \/ \A i \in DOMAIN files[f].lines :
                             files[f].lines[i].event = files[f].lines[1].event
    BY DEF LimitKept
  <2>1. f \in DOMAIN files
    BY DEF Files, TypeInv, StoreTypes
  <2>. QED
    BY <2>1 DEF LimitInv, Fits, Lines
<1>. QED
  BY <1>1, <1>2, <1>3, PTL DEF Spec
-----------------------------------------------------------------------------
(* Where the chunks of a line are.                                         *)

LEMMA WritingFacts ==
  ASSUME TypeInv, NEW t \in Threads, Writing(t)
  PROVE  /\ hold[t].file \in DOMAIN files /\ hold[t].part \in Nat
         /\ hold[t].event \in DOMAIN sizes /\ pc[t] \in Inside
  BY DEF TypeInv, HoldOK, Writing, Inside

LEMMA TornFinite ==
  ASSUME TypeInv
  PROVE  IsFiniteSet(Torn) /\ Cardinality(Torn) \in Nat
<1>1. DOMAIN sizes = 1 .. Len(sizes) /\ Len(sizes) \in Nat
  BY DEF TypeInv, LineTypes
<1>2. IsFiniteSet(DOMAIN sizes)
  BY <1>1, FS_Interval
<1>3. Torn \in SUBSET DOMAIN sizes
  BY DEF Torn
<1>. QED
  BY <1>2, <1>3, FS_Subset, FS_CardinalityType

\* No line is begun, goes on or ends.
LEMMA LayoutSame ==
  ASSUME TypeInv, LayoutInv, deployed' = deployed, UNCHANGED <<sizes, acked, torn>>,
         DOMAIN files \subseteq DOMAIN files',
         \A f \in DOMAIN files : files'[f] = files[f],
         \A f \in DOMAIN files' \ DOMAIN files : DOMAIN (files'[f].lines) = {},
         \A u \in Threads : (Writing(u)' <=> Writing(u)) /\ (Writing(u) => hold'[u] = hold[u])
  PROVE  LayoutInv'
<1>. SUFFICES ASSUME Exclusive
              PROVE  (InOrder /\ Once /\ AckedWhole /\ AtEnd /\ torn = Cardinality(Torn))'
  BY ExclusiveKept DEF LayoutInv
<1>1. InOrder /\ Once /\ AckedWhole /\ AtEnd /\ torn = Cardinality(Torn)
  BY DEF LayoutInv
<1>2. \A f \in DOMAIN files' : \A i : i \in DOMAIN Lines(f)' => f \in DOMAIN files
  BY DEF Lines
<1>3. \A f \in DOMAIN files : Lines(f)' = Lines(f)
  BY DEF Lines
<1>4. InOrder'
  BY <1>1, <1>2, <1>3 DEF InOrder
<1>5. Once'
  BY <1>1, <1>2, <1>3 DEF Once
<1>6. AckedWhole'
  BY <1>1, <1>3 DEF AckedWhole
<1>7. AtEnd'
  <2>. SUFFICES ASSUME NEW t \in Threads, Writing(t)'
                PROVE  LET lines == Lines(hold[t].file)'
                       IN  /\ Len(lines) > 0
                           /\ lines[Len(lines)] = [event |-> hold'[t].event, part |-> hold'[t].part]
                           /\ hold'[t].event \notin acked'
                           /\ \A f \in DOMAIN files' : \A i \in DOMAIN Lines(f)' :
                                 Lines(f)'[i].event = hold'[t].event =>
                                    Lines(f)'[i].part <= hold'[t].part
    BY DEF AtEnd
  <2>1. Writing(t) /\ hold'[t] = hold[t]
    OBVIOUS
  <2>2. hold[t].file \in DOMAIN files
    BY <2>1, WritingFacts
  <2>3. LET lines == Lines(hold[t].file)
        IN  /\ Len(lines) > 0
            /\ lines[Len(lines)] = [event |-> hold[t].event, part |-> hold[t].part]
            /\ hold[t].event \notin acked
            /\ \A f \in DOMAIN files : \A i \in DOMAIN Lines(f) :
                  Lines(f)[i].event = hold[t].event => Lines(f)[i].part <= hold[t].part
    BY <1>1, <2>1 DEF AtEnd
  <2>4. Lines(hold[t].file)' = Lines(hold[t].file)
    BY <2>1, <2>2 DEF Lines
  <2>. QED
    BY <1>2, <1>3, <2>1, <2>3, <2>4
<1>8. Torn' = Torn
  <2>1. Underway' = Underway
    BY DEF Underway
  <2>. QED
    BY <2>1 DEF Torn
<1>. QED
  BY <1>1, <1>4, <1>5, <1>6, <1>7, <1>8

\* The only line under way is given up.
LEMMA LayoutLoses ==
  ASSUME TypeInv, LockInv, LayoutInv, deployed' = deployed, UNCHANGED <<files, sizes, acked>>,
         NEW t \in Threads, Writing(t), Exclusive => torn' = torn + 1,
         Exclusive => \A u \in Threads : ~Writing(u)'
  PROVE  LayoutInv'
<1>. SUFFICES ASSUME Exclusive
              PROVE  (InOrder /\ Once /\ AckedWhole /\ AtEnd /\ torn = Cardinality(Torn))'
  BY ExclusiveKept DEF LayoutInv
<1>1. InOrder /\ Once /\ AckedWhole /\ AtEnd /\ torn = Cardinality(Torn)
  BY DEF LayoutInv
<1>2. InOrder' /\ Once' /\ AckedWhole'
  BY <1>1 DEF InOrder, Once, AckedWhole, Lines
<1>3. AtEnd'
  BY DEF AtEnd
<1>4. torn' = Cardinality(Torn')
  <2>. DEFINE e == hold[t].event
  <2>1. Underway = {e}
    <3>1. \A u \in Threads : Writing(u) => u = t
      BY OneInside, WritingFacts
    <3>. QED
      BY <3>1 DEF Underway
  <2>2. Underway' = {}
    BY DEF Underway
  <2>3. e \in DOMAIN sizes /\ e \notin acked
    BY <1>1, WritingFacts DEF AtEnd
  <2>4. Torn' = Torn \cup {e} /\ e \notin Torn
    BY <2>1, <2>2, <2>3 DEF Torn
  <2>5. IsFiniteSet(Torn) /\ Cardinality(Torn) \in Nat
    BY TornFinite
  <2>. HIDE DEF e
  <2>6. Cardinality(Torn') = Cardinality(Torn) + 1
    <3>1. Cardinality(Torn \cup {e}) = Cardinality(Torn) + 1
      BY <2>4, <2>5, FS_AddElement, Zenon
    <3>. QED
      BY <2>4, <3>1
  <2>. QED
    BY <1>1, <2>6
<1>. QED
  BY <1>2, <1>3, <1>4
-----------------------------------------------------------------------------
(* The next chunk of a line goes to the end of its file.                   *)

\* where the line that t writes has come to
LEMMA EndFacts ==
  ASSUME TypeInv, InOrder, AtEnd, acked \subseteq DOMAIN sizes,
         NEW t \in Threads, WriteChunk(t)
  PROVE  /\ \A f \in DOMAIN files : \A i \in DOMAIN Lines(f) :
               Lines(f)[i].event = Event(t) => Lines(f)[i].part <= hold[t].part
         /\ Event(t) \notin acked
         /\ hold[t].part > 0 =>
               /\ Writing(t) /\ hold[t].event = Event(t)
               /\ Len(Lines(hold[t].file)) > 0
               /\ Lines(hold[t].file)[Len(Lines(hold[t].file))]
                     = [event |-> Event(t), part |-> hold[t].part]
<1>1. pc[t] = "write" /\ hold[t].part \in Nat
  BY WriteFacts, ChunkFacts DEF TypeInv
<1>2. CASE hold[t].part = 0
  <2>1. Event(t) \notin DOMAIN sizes
    BY <1>2, ChunkFacts
  <2>2. \A f \in DOMAIN files : \A i \in DOMAIN Lines(f) : Lines(f)[i].event \in DOMAIN sizes
    BY DEF InOrder
  <2>. QED
    BY <1>2, <2>1, <2>2
<1>3. CASE hold[t].part # 0
  <2>1. hold[t].part > 0 /\ Writing(t) /\ Event(t) = hold[t].event
    BY <1>1, <1>3 DEF Writing, Event
  <2>. QED
    BY <2>1 DEF AtEnd
<1>. QED
  BY <1>2, <1>3

\* a chunk is one of before, or the new one
LEMMA ChunkWhere ==
  ASSUME TypeInv, NEW t \in Threads, WriteChunk(t),
         NEW f \in DOMAIN files', NEW i \in DOMAIN Lines(f)'
  PROVE  /\ f \in DOMAIN files
         /\ \/ i \in DOMAIN Lines(f) /\ Lines(f)'[i] = Lines(f)[i]
            \/ f = hold[t].file /\ i = Len(Lines(f)) + 1 /\ Lines(f)'[i] = Added(t)
<1>1. f \in DOMAIN files
  BY ChunkFile
<1>. DEFINE after == Lines(f)'
            lines == Lines(f)
<1>2. /\ \A j \in DOMAIN lines : after[j] = lines[j]
      /\ f # hold[t].file => DOMAIN after = DOMAIN lines
      /\ f = hold[t].file =>
            DOMAIN after = DOMAIN lines \cup {Len(lines) + 1} /\ after[Len(lines) + 1] = Added(t)
  BY <1>1, ChunkLines
<1>. HIDE DEF after, lines
<1>3. i \in DOMAIN after
  BY DEF after
<1>4. \/ i \in DOMAIN lines /\ after[i] = lines[i]
      \/ f = hold[t].file /\ i = Len(lines) + 1 /\ after[i] = Added(t)
  BY <1>2, <1>3
<1>. QED
  BY <1>1, <1>4 DEF after, lines

LEMMA AddedFacts ==
  ASSUME NEW t
  PROVE  Added(t).event = Event(t) /\ Added(t).part = hold[t].part + 1
  BY DEF Added

LEMMA OnceWrites ==
  ASSUME TypeInv, InOrder, Once, AtEnd, acked \subseteq DOMAIN sizes,
         NEW t \in Threads, WriteChunk(t)
  PROVE  Once'
<1>. SUFFICES ASSUME NEW f \in DOMAIN files', NEW g \in DOMAIN files',
                     NEW i \in DOMAIN Lines(f)', NEW j \in DOMAIN Lines(g)',
                     Lines(f)'[i] = Lines(g)'[j]
              PROVE  f = g /\ i = j
  BY DEF Once
<1>1. hold[t].part \in Nat
  BY ChunkFacts
<1>2. \A h \in DOMAIN files : \A k \in DOMAIN Lines(h) : Lines(h)[k] # Added(t)
  <2>. SUFFICES ASSUME NEW h \in DOMAIN files, NEW k \in DOMAIN Lines(h),
                       Lines(h)[k] = Added(t)
                PROVE  FALSE
    OBVIOUS
  <2>1. Lines(h)[k].event = Event(t) /\ Lines(h)[k].part = hold[t].part + 1
    BY AddedFacts
  <2>2. Lines(h)[k].part <= hold[t].part
    BY <2>1, EndFacts
  <2>. QED
    BY <1>1, <2>1, <2>2
<1>3. /\ f \in DOMAIN files
      /\ \/ i \in DOMAIN Lines(f) /\ Lines(f)'[i] = Lines(f)[i]
         \/ f = hold[t].file /\ i = Len(Lines(f)) + 1 /\ Lines(f)'[i] = Added(t)
  BY ChunkWhere
<1>4. /\ g \in DOMAIN files
      /\ \/ j \in DOMAIN Lines(g) /\ Lines(g)'[j] = Lines(g)[j]
         \/ g = hold[t].file /\ j = Len(Lines(g)) + 1 /\ Lines(g)'[j] = Added(t)
  BY ChunkWhere
<1>5. CASE i \in DOMAIN Lines(f) /\ Lines(f)'[i] = Lines(f)[i]
  <2>1. j \in DOMAIN Lines(g) /\ Lines(g)'[j] = Lines(g)[j]
    BY <1>2, <1>3, <1>4, <1>5
  <2>. QED
    BY <1>3, <1>4, <1>5, <2>1 DEF Once
<1>6. CASE f = hold[t].file /\ i = Len(Lines(f)) + 1 /\ Lines(f)'[i] = Added(t)
  <2>1. g = hold[t].file /\ j = Len(Lines(g)) + 1
    BY <1>2, <1>4, <1>6
  <2>. QED
    BY <1>6, <2>1
<1>. QED
  BY <1>3, <1>5, <1>6

LEMMA InOrderWrites ==
  ASSUME TypeInv, InOrder, AtEnd, acked \subseteq DOMAIN sizes,
         NEW t \in Threads, WriteChunk(t)
  PROVE  InOrder'
<1>. SUFFICES ASSUME NEW f, f = hold[t].file PROVE InOrder'
  OBVIOUS
<1>. DEFINE n == Len(Lines(f))
            q == hold[t].part
            e == Event(t)
<1>1. /\ f \in DOMAIN files /\ q \in Nat /\ line[t] \in Nat /\ q < line[t]
      /\ e \in DOMAIN sizes' /\ sizes'[e] = line[t]
      /\ \A d \in DOMAIN sizes : d \in DOMAIN sizes' /\ sizes'[d] = sizes[d]
  BY ChunkFacts, LogAssumption
<1>2. n \in Nat /\ DOMAIN Lines(f) = 1 .. n
  BY <1>1, FileFacts DEF TypeInv
<1>3. q > 0 => n > 0 /\ Lines(f)[n] = [event |-> e, part |-> q]
  BY EndFacts
<1>4. /\ \A i \in DOMAIN Lines(f) : Lines(f)'[i] = Lines(f)[i]
      /\ Lines(f)'[n + 1] = Added(t)
  BY <1>1, ChunkLines
<1>5. Added(t) = [event |-> e, part |-> q + 1]
  BY DEF Added
\* the chunks of the line follow each other
<1>6. \A k \in 1 .. q + 1 : Lines(f)'[n + 1 - (q + 1) + k] = [event |-> e, part |-> k]
  <2>. SUFFICES ASSUME NEW k \in 1 .. q + 1
                PROVE  Lines(f)'[n + 1 - (q + 1) + k] = [event |-> e, part |-> k]
    OBVIOUS
  <2>1. CASE k = q + 1
    <3>1. n + 1 - (q + 1) + k = n + 1
      BY <1>1, <1>2, <2>1
    <3>. QED
      BY <1>4, <1>5, <2>1, <3>1
  <2>2. CASE k # q + 1
    <3>1. k \in 1 .. q /\ q > 0
      BY <1>1, <2>2
    <3>2. n \in DOMAIN Lines(f)
      BY <1>2, <1>3, <3>1
    <3>3. Lines(f)[n].event = e /\ Lines(f)[n].part = q
      BY <1>3, <3>1
    <3>4. q <= n /\ Lines(f)[n - q + k] = [event |-> e, part |-> k]
      BY <1>1, <3>1, <3>2, <3>3 DEF InOrder
    <3>5. n + 1 - (q + 1) + k = n - q + k /\ n - q + k \in 1 .. n
      BY <1>1, <1>2, <3>1, <3>4
    <3>. QED
      BY <1>2, <1>4, <3>4, <3>5
  <2>. QED
    BY <2>1, <2>2
<1>7. q <= n
  <2>1. CASE q > 0
    <3>1. n \in DOMAIN Lines(f) /\ Lines(f)[n].part = q
      BY <1>2, <1>3, <2>1
    <3>. QED
      BY <1>1, <3>1 DEF InOrder
  <2>. QED
    BY <1>1, <1>2, <2>1
<1>. SUFFICES ASSUME NEW g \in DOMAIN files', NEW i \in DOMAIN Lines(g)'
              PROVE  LET c == Lines(g)'[i]
                     IN  /\ c.event \in DOMAIN sizes' /\ c.part \in 1 .. sizes'[c.event]
                         /\ c.part <= i
                         /\ \A k \in 1 .. c.part :
                               Lines(g)'[i - c.part + k] = [event |-> c.event, part |-> k]
  BY DEF InOrder
<1>8. /\ g \in DOMAIN files
      /\ \/ i \in DOMAIN Lines(g) /\ Lines(g)'[i] = Lines(g)[i]
         \/ g = f /\ i = Len(Lines(g)) + 1 /\ Lines(g)'[i] = Added(t)
  BY ChunkWhere
<1>9. CASE i \in DOMAIN Lines(g) /\ Lines(g)'[i] = Lines(g)[i]
  <2>. DEFINE c == Lines(g)[i]
  <2>1. /\ c.event \in DOMAIN sizes /\ c.part \in 1 .. sizes[c.event]
        /\ c.part <= i
        /\ \A k \in 1 .. c.part : Lines(g)[i - c.part + k] = [event |-> c.event, part |-> k]
    BY <1>8, <1>9 DEF InOrder
  <2>2. Lines(g) \in Seq(Chunk)
    BY <1>8, FileFacts DEF TypeInv
  <2>3. i \in Nat /\ i <= Len(Lines(g)) /\ DOMAIN Lines(g) = 1 .. Len(Lines(g))
    <3>1. DOMAIN Lines(g) = 1 .. Len(Lines(g)) /\ Len(Lines(g)) \in Nat
      BY <2>2
    <3>. QED
      BY <1>9, <3>1
  <2>4. c.part \in Nat
    <3>1. c \in Chunk
      BY <1>9, <2>2
    <3>. QED
      BY <3>1 DEF Chunk
  <2>5. \A k \in 1 .. c.part : i - c.part + k \in DOMAIN Lines(g)
    <3>. HIDE DEF c
    <3>. QED
      BY <2>1, <2>3, <2>4
  <2>6. \A j \in DOMAIN Lines(g) : Lines(g)'[j] = Lines(g)[j]
    BY <1>8, ChunkLines
  <2>7. \A k \in 1 .. c.part : Lines(g)'[i - c.part + k] = [event |-> c.event, part |-> k]
    BY <2>1, <2>5, <2>6
  <2>8. c.event \in DOMAIN sizes' /\ c.part \in 1 .. sizes'[c.event]
    BY <1>1, <2>1
  <2>. QED
    BY <1>9, <2>1, <2>7, <2>8
<1>10. CASE g = f /\ i = Len(Lines(g)) + 1 /\ Lines(g)'[i] = Added(t)
  <2>1. i = n + 1 /\ Lines(g)'[i].event = e /\ Lines(g)'[i].part = q + 1
    BY <1>10, AddedFacts
  <2>2. q + 1 \in 1 .. sizes'[e] /\ q + 1 <= n + 1
    BY <1>1, <1>2, <1>7
  <2>3. \A k \in 1 .. q + 1 : Lines(g)'[n + 1 - (q + 1) + k] = [event |-> e, part |-> k]
    BY <1>6, <1>10
  <2>. DEFINE c == Lines(g)'[i]
  <2>4. c.event = e /\ c.part = q + 1
    BY <2>1
  <2>5. c.event \in DOMAIN sizes' /\ c.part \in 1 .. sizes'[c.event] /\ c.part <= i
    BY <1>1, <2>1, <2>2, <2>4
  <2>6. ASSUME NEW k \in 1 .. c.part
        PROVE  Lines(g)'[i - c.part + k] = [event |-> c.event, part |-> k]
    <3>. DEFINE m == n + 1 - (q + 1) + k
    <3>1. i - c.part + k = m
      <4>1. n \in Nat /\ q \in Nat /\ i = n + 1 /\ c.part = q + 1
        BY <1>1, <1>2, <2>1, <2>4
      <4>2. k \in Int
        OBVIOUS
      <4>. HIDE DEF c, n, q, e
      <4>. QED
        BY <4>1, <4>2
    <3>2. k \in 1 .. q + 1
      BY <2>4
    <3>3. Lines(g)'[m] = [event |-> e, part |-> k]
      BY <2>3, <3>2
    <3>. HIDE DEF m
    <3>. QED
      BY <2>4, <3>1, <3>3
  <2>. QED
    BY <2>5, <2>6
<1>. QED
  BY <1>8, <1>9, <1>10

LEMMA AckedWrites ==
  ASSUME TypeInv, InOrder, AckedWhole, AtEnd, acked \subseteq DOMAIN sizes,
         NEW t \in Threads, WriteChunk(t)
  PROVE  AckedWhole'
<1>. SUFFICES ASSUME NEW e \in acked'
              PROVE  \E f \in DOMAIN files' : \E i \in DOMAIN Lines(f)' :
                        Lines(f)'[i] = [event |-> e, part |-> sizes'[e]]
  BY DEF AckedWhole
<1>1. /\ DOMAIN files' = DOMAIN files
      /\ \A f \in DOMAIN files : \A i \in DOMAIN Lines(f) :
            i \in DOMAIN Lines(f)' /\ Lines(f)'[i] = Lines(f)[i]
  BY ChunkFile, ChunkLines
<1>2. CASE e \in acked
  <2>1. sizes'[e] = sizes[e]
    BY <1>2, ChunkFacts
  <2>. QED
    BY <1>1, <1>2, <2>1 DEF AckedWhole
<1>3. CASE e \notin acked
  <2>1. e = Event(t) /\ Ends(t)
    <3>1. acked' = IF Ends(t) THEN acked \cup {Event(t)} ELSE acked
      BY WriteFacts DEF TypeInv
    <3>. QED
      BY <1>3, <3>1
  <2>2. PICK f \in DOMAIN files : f = hold[t].file
    BY ChunkFacts
  <2>3. /\ DOMAIN Lines(f)' = DOMAIN Lines(f) \cup {Len(Lines(f)) + 1}
        /\ Lines(f)'[Len(Lines(f)) + 1] = Added(t)
    BY <2>2, ChunkLines
  <2>4. Added(t) = [event |-> e, part |-> sizes'[e]]
    BY <2>1, ChunkFacts DEF Added, Ends
  <2>. QED
    BY <1>1, <2>3, <2>4
<1>. QED
  BY <1>2, <1>3

LEMMA AtEndWrites ==
  ASSUME TypeInv, LockInv, Exclusive, InOrder, AtEnd, acked \subseteq DOMAIN sizes,
         NEW t \in Threads, WriteChunk(t)
  PROVE  AtEnd'
<1>1. \A u \in Threads : Writing(u)' => u = t
  BY OthersOutside DEF Works, Writing, Inside
<1>2. /\ pc'[t] = IF Ends(t) THEN "unlock" ELSE "write"
      /\ hold'[t].file = hold[t].file
      /\ hold'[t].event = Event(t) /\ hold'[t].part = hold[t].part + 1
      /\ acked' = IF Ends(t) THEN acked \cup {Event(t)} ELSE acked
  BY WriteFacts DEF TypeInv
<1>. SUFFICES ASSUME Writing(t)'
              PROVE  LET lines == Lines(hold[t].file)'
                     IN  /\ Len(lines) > 0
                         /\ lines[Len(lines)] = [event |-> hold'[t].event, part |-> hold'[t].part]
                         /\ hold'[t].event \notin acked'
                         /\ \A f \in DOMAIN files' : \A i \in DOMAIN Lines(f)' :
                               Lines(f)'[i].event = hold'[t].event =>
                                  Lines(f)'[i].part <= hold'[t].part
  BY <1>1 DEF AtEnd
<1>3. acked' = acked
  BY <1>2 DEF Writing
<1>4. PICK f \in DOMAIN files : f = hold[t].file
  BY ChunkFacts
<1>5. Lines(hold[t].file)' = Lines(f)'
  BY <1>2, <1>4 DEF Lines
<1>6. /\ Len(Lines(f)) \in Nat
      /\ Len(Lines(f)') = Len(Lines(f)) + 1
      /\ Lines(f)'[Len(Lines(f)) + 1] = Added(t)
  <2>1. Lines(f) \in Seq(Chunk)
    BY FileFacts DEF TypeInv
  <2>2. Len(Lines(f)) \in Nat
    BY <2>1
  <2>. QED
    BY <1>4, <2>2, ChunkLines
<1>7. Len(Lines(f)') > 0 /\ Lines(f)'[Len(Lines(f)')] = [event |-> hold'[t].event, part |-> hold'[t].part]
  BY <1>2, <1>6 DEF Added
<1>8. Event(t) \notin acked
  BY EndFacts
<1>9. ASSUME NEW g \in DOMAIN files', NEW i \in DOMAIN Lines(g)',
             Lines(g)'[i].event = Event(t)
      PROVE  Lines(g)'[i].part <= hold[t].part + 1
  <2>1. hold[t].part \in Nat
    BY ChunkFacts
  <2>2. /\ g \in DOMAIN files
        /\ \/ i \in DOMAIN Lines(g) /\ Lines(g)'[i] = Lines(g)[i]
           \/ Lines(g)'[i] = Added(t)
    BY ChunkWhere
  <2>3. CASE i \in DOMAIN Lines(g) /\ Lines(g)'[i] = Lines(g)[i]
    <3>1. Lines(g)[i].part <= hold[t].part
      BY <1>9, <2>2, <2>3, EndFacts
    <3>2. Lines(g)[i].part \in Nat
      <4>1. Lines(g)[i] \in Chunk
        BY <2>2, <2>3, FileFacts DEF TypeInv
      <4>. QED
        BY <4>1 DEF Chunk
    <3>. QED
      BY <2>1, <2>3, <3>1, <3>2
  <2>4. CASE Lines(g)'[i] = Added(t)
    BY <2>1, <2>4, AddedFacts
  <2>. QED
    BY <2>2, <2>3, <2>4
<1>. QED
  BY <1>2, <1>3, <1>5, <1>7, <1>8, <1>9

\* no line is given up by going on
LEMMA TornWrites ==
  ASSUME TypeInv, LockInv, Exclusive, InOrder, AtEnd, acked \subseteq DOMAIN sizes,
         NEW t \in Threads, WriteChunk(t)
  PROVE  Torn' = Torn
<1>. DEFINE e == Event(t)
<1>1. \A u \in Threads : Writing(u)' => u = t
  BY OthersOutside DEF Works, Writing, Inside
<1>2. \A u \in Threads : Writing(u) => u = t
  <2>1. pc[t] \in Inside
    BY WorksFacts DEF Works
  <2>. QED
    BY <2>1, OneInside, WritingFacts
<1>3. /\ pc[t] = "write" /\ pc'[t] = IF Ends(t) THEN "unlock" ELSE "write"
      /\ hold'[t].event = e /\ hold'[t].part = hold[t].part + 1
      /\ acked' = IF Ends(t) THEN acked \cup {e} ELSE acked
  BY WriteFacts DEF TypeInv
<1>4. /\ hold[t].part \in Nat /\ DOMAIN sizes' = DOMAIN sizes \cup {e}
      /\ (hold[t].part = 0 => e \notin DOMAIN sizes)
  BY ChunkFacts
<1>5. Underway' = IF Ends(t) THEN {} ELSE {e}
  <2>1. Writing(t)' <=> ~Ends(t)
    BY <1>3, <1>4 DEF Writing
  <2>. QED
    BY <1>1, <1>3, <2>1 DEF Underway
<1>6. Underway = IF hold[t].part = 0 THEN {} ELSE {e}
  <2>1. Writing(t) <=> hold[t].part # 0
    BY <1>3, <1>4 DEF Writing
  <2>2. hold[t].part # 0 => e = hold[t].event
    BY DEF Event
  <2>. QED
    BY <1>2, <2>1, <2>2 DEF Underway
<1>. QED
  BY <1>3, <1>4, <1>5, <1>6 DEF Torn

LEMMA LayoutWrites ==
  ASSUME TypeInv, LockInv, LayoutInv, NEW t \in Threads, WriteChunk(t), deployed' = deployed
  PROVE  LayoutInv'
<1>. SUFFICES ASSUME Exclusive
              PROVE  (InOrder /\ Once /\ AckedWhole /\ AtEnd /\ torn = Cardinality(Torn))'
  BY ExclusiveKept DEF LayoutInv
<1>1. InOrder /\ Once /\ AckedWhole /\ AtEnd /\ torn = Cardinality(Torn)
  BY DEF LayoutInv
<1>2. acked \subseteq DOMAIN sizes
  BY DEF TypeInv, LineTypes
<1>3. torn' = torn
  BY WriteFacts DEF TypeInv
<1>. QED
  BY <1>1, <1>2, <1>3, OnceWrites, InOrderWrites, AckedWrites, AtEndWrites, TornWrites
-----------------------------------------------------------------------------
(* The layout is kept by the other steps.                                  *)

LEMMA WritingSame ==
  ASSUME NEW t \in Threads, Others(t), ~Writing(t), ~Writing(t)'
  PROVE  \A u \in Threads : (Writing(u)' <=> Writing(u)) /\ (Writing(u) => hold'[u] = hold[u])
  BY DEF Others, Writing

LEMMA LayoutOpen ==
  ASSUME TypeInv, LayoutInv, NEW t \in Threads, Open(t), deployed' = deployed
  PROVE  LayoutInv'
<1>1. /\ UNCHANGED <<sizes, acked, torn>> /\ Others(t)
      /\ pc[t] = "open" /\ hold'[t].part = 0
      /\ (current # NoFile /\ UNCHANGED store) \/ Creates
  BY OpenFacts DEF TypeInv, ghost
<1>2. ~Writing(t) /\ ~Writing(t)'
  BY <1>1 DEF Writing
<1>3. \A u \in Threads : (Writing(u)' <=> Writing(u)) /\ (Writing(u) => hold'[u] = hold[u])
  BY <1>1, <1>2, WritingSame
<1>4. CASE Creates
  <2>1. /\ DOMAIN files' = DOMAIN files \cup {current'}
        /\ \A f \in DOMAIN files : files'[f] = files[f]
        /\ files'[current'] = [lines |-> << >>, time |-> now]
    BY <1>4, CreatesFacts DEF TypeInv
  <2>2. files'[current'].lines = << >>
    BY <2>1
  <2>3. DOMAIN (files'[current'].lines) = {}
    BY <2>2
  <2>. QED
    BY <1>1, <1>3, <2>1, <2>3, LayoutSame
<1>5. CASE UNCHANGED store
  BY <1>1, <1>3, <1>5, LayoutSame DEF store
<1>. QED
  BY <1>1, <1>4, <1>5

LEMMA LayoutQuiet ==
  ASSUME TypeInv, LayoutInv, deployed' = deployed,
         NEW t \in Threads, Aside(t) \/ Looks(t) \/ Move(t) \/ Unlink(t)
  PROVE  LayoutInv'
<1>1. /\ UNCHANGED <<files, sizes, acked, torn>> /\ Others(t)
      /\ pc[t] # "write" /\ pc'[t] # "write"
  <2>1. CASE Aside(t)
    BY <2>1, AsideFacts DEF TypeInv, store, ghost
  <2>2. CASE Looks(t)
    BY <2>2, LooksFacts DEF TypeInv, store
  <2>3. CASE Move(t)
    BY <2>3, MoveFacts DEF TypeInv, ghost
  <2>4. CASE Unlink(t)
    BY <2>4, UnlinkFacts DEF TypeInv, ghost
  <2>. QED
    BY <2>1, <2>2, <2>3, <2>4
<1>2. ~Writing(t) /\ ~Writing(t)'
  BY <1>1 DEF Writing
<1>. QED
  BY <1>1, <1>2, WritingSame, LayoutSame

LEMMA LayoutFails ==
  ASSUME TypeInv, LockInv, LayoutInv, deployed' = deployed,
         NEW t \in Threads, WriteFails(t)
  PROVE  LayoutInv'
<1>1. /\ UNCHANGED <<files, sizes, acked>> /\ Others(t)
      /\ pc'[t] = "unlock"
      /\ torn' = IF Writing(t) THEN torn + 1 ELSE torn
  BY WriteFailsFacts DEF TypeInv, store, Writing
<1>2. ~Writing(t)'
  BY <1>1 DEF Writing
<1>3. CASE Writing(t)
  <2>1. Exclusive => \A u \in Threads : ~Writing(u)'
    BY <1>2, OthersOutside DEF Works, Writing, Inside
  <2>. QED
    BY <1>1, <1>3, <2>1, LayoutLoses
<1>4. CASE ~Writing(t)
  BY <1>1, <1>2, <1>4, WritingSame, LayoutSame
<1>. QED
  BY <1>3, <1>4

LEMMA LayoutDie ==
  ASSUME TypeInv, LockInv, LayoutInv, deployed' = deployed,
         NEW p \in Processes, Die(p)
  PROVE  LayoutInv'
<1>1. /\ UNCHANGED <<files, sizes, acked>>
      /\ \A t \in Dead(p) : pc'[t] = "idle"
      /\ \A t \in Threads \ Dead(p) : pc'[t] = pc[t] /\ hold'[t] = hold[t]
      /\ torn' = torn + Cardinality(Half(p))
  BY DieFacts DEF TypeInv, store
<1>2. Half(p) = {t \in Dead(p) : Writing(t)} /\ torn \in Nat /\ Dead(p) \subseteq Threads
  BY DEF Half, Writing, Dead, TypeInv, LineTypes
<1>3. \A u \in Dead(p) : ~Writing(u)'
  BY <1>1 DEF Writing
<1>4. \A u \in Threads \ Dead(p) : (Writing(u)' <=> Writing(u)) /\ hold'[u] = hold[u]
  BY <1>1 DEF Writing
<1>5. CASE Half(p) = {}
  <2>1. torn' = torn
    BY <1>1, <1>2, <1>5, FS_EmptySet
  <2>2. \A u \in Threads : (Writing(u)' <=> Writing(u)) /\ (Writing(u) => hold'[u] = hold[u])
    BY <1>2, <1>3, <1>4, <1>5
  <2>. QED
    BY <1>1, <2>1, <2>2, LayoutSame
<1>6. CASE Half(p) # {}
  <2>1. PICK t \in Dead(p) : Writing(t)
    BY <1>2, <1>6
  <2>2. Exclusive => \A u \in Threads : Writing(u) => u = t
    BY <1>2, <2>1, OneInside, WritingFacts
  <2>3. Exclusive => Half(p) = {t}
    BY <1>2, <2>1, <2>2
  <2>4. Exclusive => torn' = torn + 1
    BY <1>1, <2>3, FS_Singleton
  <2>5. Exclusive => \A u \in Threads : ~Writing(u)'
    BY <1>3, <1>4, <2>1, <2>2
  <2>. QED
    BY <1>1, <1>2, <2>1, <2>4, <2>5, LayoutLoses
<1>. QED
  BY <1>5, <1>6

LEMMA LayoutInvNext ==
  ASSUME TypeInv, LockInv, LayoutInv, [Next /\ UNCHANGED deployed]_<<deployed, vars>>
  PROVE  LayoutInv'
<1>1. CASE UNCHANGED <<deployed, vars>>
  <2>1. UNCHANGED <<deployed, files, sizes, acked, torn, pc, hold>>
    BY <1>1 DEF vars, store, local, ghost
  <2>. QED
    BY <2>1, LayoutSame DEF Writing
<1>2. CASE Next /\ deployed' = deployed
  <2>1. CASE Tick
    <3>1. UNCHANGED <<files, sizes, acked, torn, pc, hold>>
      BY <2>1 DEF Tick, store, local, ghost
    <3>. QED
      BY <1>2, <3>1, LayoutSame DEF Writing
  <2>. QED
    BY <1>2, <2>1, NextCases, LayoutOpen, LayoutQuiet, LayoutFails, LayoutDie, LayoutWrites
<1>. QED
  BY <1>1, <1>2

LEMMA LayoutInvInit == Init => LayoutInv
<1>. SUFFICES ASSUME Init PROVE LayoutInv
  OBVIOUS
<1>1. DOMAIN files = {} /\ DOMAIN sizes = {} /\ acked = {} /\ torn = 0
  BY DEF Init
<1>2. \A t \in Threads : ~Writing(t)
  BY DEF Init, Writing
<1>3. Cardinality(Torn) = 0
  BY <1>1, FS_EmptySet DEF Torn
<1>. QED
  BY <1>1, <1>2, <1>3 DEF LayoutInv, InOrder, Once, AckedWhole, AtEnd
-----------------------------------------------------------------------------
(* Every line that a reader misses follows one that was given up.          *)

\* the first chunk of e comes after a chunk of p
Follows(e, p) ==
    \E f \in DOMAIN files : \E i \in DOMAIN Lines(f) :
        /\ i + 1 \in DOMAIN Lines(f)
        /\ Lines(f)[i].event = p /\ Lines(f)[i + 1] = [event |-> e, part |-> 1]

\* a chunk that is not the last one written of its line has the next one behind it
LEMMA NextChunk ==
  ASSUME TypeInv, InOrder, Once,
         NEW f \in DOMAIN files, NEW i \in DOMAIN Lines(f),
         NEW g \in DOMAIN files, NEW j \in DOMAIN Lines(g),
         Lines(f)[i].event = Lines(g)[j].event, Lines(f)[i].part < Lines(g)[j].part
  PROVE  /\ i + 1 \in DOMAIN Lines(f)
         /\ Lines(f)[i + 1].event = Lines(f)[i].event
         /\ Lines(f)[i + 1].part = Lines(f)[i].part + 1
<1>. DEFINE e == Lines(f)[i].event
            a == Lines(f)[i].part
            b == Lines(g)[j].part
<1>1. Lines(f) \in Seq(Chunk) /\ Lines(g) \in Seq(Chunk)
  BY FileFacts DEF TypeInv
<1>2. /\ Lines(f)[i] = [event |-> e, part |-> a] /\ a \in Nat
      /\ b \in Nat
  <2>1. Lines(f)[i] \in Chunk /\ Lines(g)[j] \in Chunk
    BY <1>1
  <2>. QED
    BY <2>1 DEF Chunk
<1>3. /\ a >= 1 /\ b <= j
      /\ \A k \in 1 .. b : Lines(g)[j - b + k] = [event |-> e, part |-> k]
  <2>1. a \in 1 .. sizes[e]
    BY DEF InOrder
  <2>. QED
    BY <2>1 DEF InOrder
<1>4. /\ i \in Nat /\ j \in Nat /\ j <= Len(Lines(g))
      /\ DOMAIN Lines(g) = 1 .. Len(Lines(g)) /\ Len(Lines(g)) \in Nat
  <2>1. /\ DOMAIN Lines(g) = 1 .. Len(Lines(g)) /\ Len(Lines(g)) \in Nat
        /\ DOMAIN Lines(f) = 1 .. Len(Lines(f)) /\ Len(Lines(f)) \in Nat
    BY <1>1
  <2>. QED
    BY <2>1
<1>5. a < b
  OBVIOUS
<1>. DEFINE x == j - b + a
            y == j - b + (a + 1)
<1>6. a \in 1 .. b /\ a + 1 \in 1 .. b /\ x \in DOMAIN Lines(g) /\ y \in DOMAIN Lines(g) /\ y = x + 1
  <2>. HIDE DEF e, a, b
  <2>. QED
    BY <1>2, <1>3, <1>4, <1>5
<1>7. Lines(g)[x] = [event |-> e, part |-> a] /\ Lines(g)[y] = [event |-> e, part |-> a + 1]
  <2>. HIDE DEF e, a, b
  <2>. QED
    BY <1>3, <1>6
<1>. HIDE DEF x, y
<1>8. f = g /\ i = x
  BY <1>2, <1>6, <1>7 DEF Once
<1>9. i + 1 \in DOMAIN Lines(f) /\ Lines(f)[i + 1] = [event |-> e, part |-> a + 1]
  BY <1>6, <1>7, <1>8
<1>. QED
  BY <1>9

\* a line follows one other at most
LEMMA FollowsOne ==
  ASSUME TypeInv, InOrder, Once, NEW e, NEW d, NEW p, Follows(e, p), Follows(d, p)
  PROVE  e = d
<1>1. PICK f, i :
         /\ f \in DOMAIN files /\ i \in DOMAIN Lines(f)
         /\ i + 1 \in DOMAIN Lines(f)
         /\ Lines(f)[i].event = p /\ Lines(f)[i + 1] = [event |-> e, part |-> 1]
  BY DEF Follows
<1>2. PICK g, j :
         /\ g \in DOMAIN files /\ j \in DOMAIN Lines(g)
         /\ j + 1 \in DOMAIN Lines(g)
         /\ Lines(g)[j].event = p /\ Lines(g)[j + 1] = [event |-> d, part |-> 1]
  BY DEF Follows
<1>3. Lines(f)[i].part \in Nat \ {0} /\ Lines(g)[j].part \in Nat \ {0}
  <2>1. Lines(f)[i] \in Chunk /\ Lines(g)[j] \in Chunk
    BY <1>1, <1>2, FileFacts DEF TypeInv
  <2>2. Lines(f)[i].part \in 1 .. sizes[Lines(f)[i].event]
        /\ Lines(g)[j].part \in 1 .. sizes[Lines(g)[j].event]
    BY <1>1, <1>2 DEF InOrder
  <2>3. Lines(f)[i].part \in Nat /\ Lines(g)[j].part \in Nat
    BY <2>1 DEF Chunk
  <2>. QED
    BY <2>2, <2>3
<1>4. Lines(f)[i].part = Lines(g)[j].part
  <2>1. ~(Lines(f)[i].part < Lines(g)[j].part)
    <3>. SUFFICES ASSUME Lines(f)[i].part < Lines(g)[j].part PROVE FALSE
      OBVIOUS
    <3>1. Lines(f)[i + 1].part = Lines(f)[i].part + 1
      BY <1>1, <1>2, NextChunk
    <3>. QED
      BY <1>1, <1>3, <3>1
  <2>2. ~(Lines(g)[j].part < Lines(f)[i].part)
    <3>. SUFFICES ASSUME Lines(g)[j].part < Lines(f)[i].part PROVE FALSE
      OBVIOUS
    <3>1. Lines(g)[j + 1].part = Lines(g)[j].part + 1
      BY <1>1, <1>2, NextChunk
    <3>. QED
      BY <1>2, <1>3, <3>1
  <2>. QED
    BY <1>3, <2>1, <2>2
<1>5. Lines(f)[i] = Lines(g)[j]
  <2>1. Lines(f)[i] \in Chunk /\ Lines(g)[j] \in Chunk
    BY <1>1, <1>2, FileFacts DEF TypeInv
  <2>. QED
    BY <1>1, <1>2, <1>4, <2>1 DEF Chunk
<1>6. f = g /\ i = j
  BY <1>1, <1>2, <1>5 DEF Once
<1>7. Lines(f)[i + 1].event = e /\ Lines(f)[i + 1].event = d
  BY <1>1, <1>2, <1>6
<1>. QED
  BY <1>7

\* a line that was finished has its last chunk, so what follows is a line of its own
LEMMA GivenUp ==
  ASSUME TypeInv, InOrder, Once, AckedWhole, AtEnd,
         NEW f \in DOMAIN files, NEW i \in DOMAIN Lines(f), i + 1 \in DOMAIN Lines(f),
         NEW e, Lines(f)[i + 1] = [event |-> e, part |-> 1],
         Lines(f)[i].part # sizes[Lines(f)[i].event]
  PROVE  Lines(f)[i].event \in Torn
<1>. DEFINE p == Lines(f)[i].event
            a == Lines(f)[i].part
<1>1. p \in DOMAIN sizes /\ a \in 1 .. sizes[p] /\ sizes[p] \in Nat /\ a \in Nat /\ a > 0
  <2>1. p \in DOMAIN sizes /\ a \in 1 .. sizes[p]
    BY DEF InOrder
  <2>2. sizes[p] \in Nat
    <3>1. sizes[p] \in LineSizes
      BY <2>1 DEF TypeInv, LineTypes
    <3>. QED
      BY <3>1, LogAssumption
  <2>. HIDE DEF p, a
  <2>. QED
    BY <2>1, <2>2
<1>2. Lines(f)[i + 1].part = 1
  OBVIOUS
\* nothing of p comes behind a
<1>3. \A g \in DOMAIN files : \A j \in DOMAIN Lines(g) :
         Lines(g)[j].event = p => ~(a < Lines(g)[j].part)
  <2>. SUFFICES ASSUME NEW g \in DOMAIN files, NEW j \in DOMAIN Lines(g),
                       Lines(g)[j].event = p, a < Lines(g)[j].part
                PROVE  FALSE
    OBVIOUS
  <2>1. Lines(f)[i + 1].part = a + 1
    BY NextChunk
  <2>. HIDE DEF p, a
  <2>. QED
    BY <1>1, <1>2, <2>1
<1>4. p \notin acked
  <2>. SUFFICES ASSUME p \in acked PROVE FALSE
    OBVIOUS
  <2>1. PICK g, j :
           /\ g \in DOMAIN files /\ j \in DOMAIN Lines(g)
           /\ Lines(g)[j] = [event |-> p, part |-> sizes[p]]
    BY DEF AckedWhole
  <2>2. ~(a < sizes[p])
    BY <1>3, <2>1
  <2>3. a # sizes[p]
    OBVIOUS
  <2>. HIDE DEF p, a
  <2>. QED
    BY <1>1, <2>2, <2>3
<1>5. p \notin Underway
  <2>. SUFFICES ASSUME NEW t \in Threads, Writing(t), hold[t].event = p PROVE FALSE
    BY DEF Underway
  <2>. DEFINE g == hold[t].file
              n == Len(Lines(g))
  <2>1. /\ g \in DOMAIN files /\ hold[t].part \in Nat
        /\ n > 0 /\ Lines(g)[n] = [event |-> p, part |-> hold[t].part]
        /\ a <= hold[t].part
    BY WritingFacts DEF AtEnd
  <2>2. n \in DOMAIN Lines(g) /\ n + 1 \notin DOMAIN Lines(g)
    <3>1. Lines(g) \in Seq(Chunk)
      BY <2>1, FileFacts DEF TypeInv
    <3>2. DOMAIN Lines(g) = 1 .. n /\ n \in Nat
      BY <3>1
    <3>. HIDE DEF n, g
    <3>. QED
      BY <2>1, <3>2
  <2>3. ~(a < hold[t].part)
    BY <1>3, <2>1, <2>2
  <2>4. a = hold[t].part
    <3>. HIDE DEF p, a
    <3>. QED
      BY <1>1, <2>1, <2>3
  <2>5. Lines(f)[i] = Lines(g)[n]
    <3>1. Lines(f)[i] \in Chunk
      BY FileFacts DEF TypeInv
    <3>2. Lines(f)[i] = [event |-> p, part |-> a]
      BY <3>1 DEF Chunk
    <3>. QED
      BY <2>1, <2>4, <3>2
  <2>6. f = g /\ i = n
    <3>1. g \in DOMAIN files /\ n \in DOMAIN Lines(g) /\ Lines(f)[i] = Lines(g)[n]
      BY <2>1, <2>2, <2>5
    <3>. HIDE DEF g, n
    <3>2. \A k \in DOMAIN Lines(g) : Lines(f)[i] = Lines(g)[k] => f = g /\ i = k
      BY <3>1 DEF Once
    <3>. QED
      BY <3>1, <3>2
  <2>. QED
    BY <2>2, <2>6
<1>. QED
  BY <1>1, <1>4, <1>5 DEF Torn

LEMMA UnreadableFollows ==
  ASSUME TypeInv, InOrder, Once, AckedWhole, AtEnd, NEW e \in Unreadable
  PROVE  \E p \in Torn : Follows(e, p)
<1>1. PICK h \in Files : /\ \E i \in DOMAIN files[h].lines : files[h].lines[i].event = e
                         /\ ~Readable(e, h)
  BY DEF Unreadable
<1>2. h \in DOMAIN files /\ e \in acked
  BY DEF Files, TypeInv, StoreTypes, Unreadable
<1>3. PICK k \in DOMAIN Lines(h) : Lines(h)[k].event = e
  BY <1>1 DEF Lines
<1>4. PICK g, j :
         /\ g \in DOMAIN files /\ j \in DOMAIN Lines(g)
         /\ Lines(g)[j] = [event |-> e, part |-> sizes[e]]
  BY <1>2 DEF AckedWhole
<1>. DEFINE size == sizes[e]
            lines == Lines(g)
<1>5. size \in Nat /\ size >= 1
  <2>1. sizes[e] \in LineSizes
    BY <1>2 DEF TypeInv, LineTypes
  <2>2. LineSizes \subseteq Nat \ {0}
    BY LogAssumption
  <2>3. size \in Nat \ {0}
    BY <2>1, <2>2
  <2>. HIDE DEF size
  <2>. QED
    BY <2>3
<1>6. /\ size <= j
      /\ \A m \in 1 .. size : lines[j - size + m] = [event |-> e, part |-> m]
  <2>1. lines[j].event = e /\ lines[j].part = size
    BY <1>4
  <2>. QED
    BY <1>4, <2>1 DEF InOrder
<1>7. lines \in Seq(Chunk) /\ DOMAIN lines = 1 .. Len(lines) /\ Len(lines) \in Nat
  <2>1. lines \in Seq(Chunk)
    BY <1>4, FileFacts DEF TypeInv
  <2>. HIDE DEF lines
  <2>. QED
    BY <2>1
<1>8. j \in Nat /\ j <= Len(lines)
  BY <1>4, <1>7
\* the file with a chunk of e is the one with its line
<1>9. h = g
  <2>. DEFINE c == Lines(h)[k].part
  <2>1. c \in 1 .. size
    BY <1>2, <1>3 DEF InOrder
  <2>2. lines[j - size + c] = [event |-> e, part |-> c]
    BY <1>6, <2>1
  <2>3. j - size + c \in DOMAIN lines
    <3>. HIDE DEF size, lines, c
    <3>. QED
      BY <1>5, <1>6, <1>7, <1>8, <2>1
  <2>4. Lines(h)[k] = [event |-> e, part |-> c]
    <3>1. Lines(h)[k] \in Chunk
      BY <1>2, FileFacts DEF TypeInv
    <3>. QED
      BY <1>3, <3>1 DEF Chunk
  <2>. QED
    BY <1>2, <1>3, <1>4, <2>2, <2>3, <2>4 DEF Once
<1>. DEFINE i == j - size
<1>10. i \in 0 .. Len(lines) - size /\ i \in Nat /\ i < Len(lines)
  <2>. HIDE DEF size, lines
  <2>. QED
    BY <1>5, <1>6, <1>7, <1>8
<1>11. i > 0 /\ lines[i].part # sizes[lines[i].event]
  BY <1>1, <1>6, <1>9, <1>10 DEF Readable, Lines
<1>12. i \in DOMAIN lines /\ i + 1 \in DOMAIN lines
  <2>. HIDE DEF i, lines
  <2>. QED
    BY <1>7, <1>10, <1>11
<1>13. lines[i + 1] = [event |-> e, part |-> 1]
  <2>. HIDE DEF lines, size
  <2>1. 1 \in 1 .. size
    BY <1>5
  <2>. QED
    BY <1>6, <2>1
<1>. HIDE DEF i
<1>14. lines[i].event \in Torn
  BY <1>4, <1>11, <1>12, <1>13, GivenUp
<1>15. Follows(e, lines[i].event)
  BY <1>4, <1>12, <1>13 DEF Follows
<1>. QED
  BY <1>14, <1>15

\* While the lock works or one process logs, the events that were acknowledged
\* and that a reader of the files cannot find are no more than the lines that
\* were begun and given up: each of them stands behind one of those.
THEOREM TornLinesAlwaysBounded == Spec => [](Exclusive => TornLinesBounded)
<1>1. TypeInv /\ LockInv /\ LayoutInv /\ [Next /\ UNCHANGED deployed]_<<deployed, vars>>
        => TypeInv' /\ LockInv' /\ LayoutInv'
  BY TypeInvNext, LockInvNext, LayoutInvNext
<1>2. Init => TypeInv /\ LockInv /\ LayoutInv
  BY TypeInvInit, LockInvInit, LayoutInvInit
<1>3. TypeInv /\ LayoutInv => (Exclusive => TornLinesBounded)
  <2>. SUFFICES ASSUME TypeInv, InOrder, Once, AckedWhole, AtEnd, torn = Cardinality(Torn)
                PROVE  Cardinality(Unreadable) <= torn
    BY DEF LayoutInv, TornLinesBounded
  <2>. DEFINE before == [e \in Unreadable |-> CHOOSE p \in Torn : Follows(e, p)]
  <2>1. \A e \in Unreadable : before[e] \in Torn /\ Follows(e, before[e])
    BY UnreadableFollows
  <2>2. before \in [Unreadable -> Torn]
    BY <2>1
  <2>3. \A d, e \in Unreadable : before[d] = before[e] => d = e
    BY <2>1, FollowsOne
  <2>. HIDE DEF before
  <2>4. before \in Injection(Unreadable, Torn)
    BY <2>2, <2>3 DEF Injection, IsInjective
  <2>5. Cardinality(Unreadable) <= Cardinality(Torn)
    BY <2>4, TornFinite, FS_Injection
  <2>. QED
    BY <2>5
<1>. QED
  BY <1>1, <1>2, <1>3, PTL DEF Spec
-----------------------------------------------------------------------------
(* The log as segments.                                                    *)

LEMMA StoreFrame ==
  ASSUME TypeInv, LockInv, NEW t \in Threads, Works(t), deployed' = deployed,
         backups' = [n \in DOMAIN backups' |-> backups'[n]],
         IsFiniteSet(DOMAIN backups'),
         \A f \in DOMAIN files' : files'[f].time <= now',
         Exclusive => (\A n \in DOMAIN backups' : backups'[n] # current') /\ Prepared(t)'
  PROVE  StoreInv'
<1>1. ASSUME Exclusive, NEW u \in Threads, u # t PROVE Prepared(u)'
  BY <1>1, OthersOutside DEF Prepared, Inside
<1>. QED
  BY <1>1, ExclusiveKept DEF StoreInv

LEMMA StoreSame ==
  ASSUME TypeInv, StoreInv, deployed' = deployed, UNCHANGED store,
         now' = now \/ (now < MaxTime /\ now' = now + 1),
         \A u \in Threads :
            \/ pc'[u] \notin {"write", "unlink"}
            \/ pc'[u] = pc[u] /\ hold'[u] = hold[u]
  PROVE  StoreInv'
<1>1. UNCHANGED <<files, current, backups>>
  BY DEF store
<1>2. \A f \in DOMAIN files' : files'[f].time <= now'
  <2>. SUFFICES ASSUME NEW f \in DOMAIN files PROVE files[f].time <= now'
    BY <1>1
  <2>1. files[f].time \in 0 .. MaxTime /\ files[f].time <= now
    BY FileFacts DEF StoreInv, TypeInv
  <2>2. now \in 0 .. MaxTime
    BY DEF TypeInv
  <2>. QED
    BY <2>1, <2>2
<1>3. ASSUME Exclusive, NEW u \in Threads PROVE Prepared(u)'
  <2>1. Prepared(u)
    BY <1>3 DEF StoreInv
  <2>. QED
    BY <1>1, <2>1 DEF Prepared, Time
<1>. QED
  BY <1>1, <1>2, <1>3, ExclusiveKept DEF StoreInv

LEMMA StoreLooks ==
  ASSUME TypeInv, LockInv, StoreInv, NEW t \in Threads, Looks(t), deployed' = deployed
  PROVE  StoreInv'
<1>1. /\ UNCHANGED <<store, now>> /\ Others(t)
      /\ pc'[t] \in {"name", "open", "move", "unlink"}
  BY LooksFacts DEF TypeInv
<1>2. CASE List(t)
  <2>1. UNCHANGED <<files, current, backups, now>>
    BY <1>1 DEF store
  <2>2. pc'[t] = "unlink" =>
           /\ hold'[t] \in SUBSET DOMAIN backups
           /\ Cardinality(DOMAIN backups \ hold'[t]) = Count
           /\ \A n \in hold'[t], m \in DOMAIN backups \ hold'[t] : Time(n) <= Time(m)
    BY <1>2, ListFacts DEF TypeInv
  <2>3. Count >= Count
    BY LogAssumption
  <2>4. Prepared(t)'
    BY <1>1, <2>1, <2>2, <2>3 DEF Prepared, Time
  <2>. QED
    BY <2>1, <2>4, StoreFrame DEF Works, StoreInv
<1>3. CASE ~List(t)
  <2>1. pc'[t] # "unlink"
    BY <1>3, CheckFacts, ChooseNameFacts, FailFacts DEF Looks, TypeInv
  <2>. QED
    BY <1>1, <2>1, StoreSame DEF Others
<1>. QED
  BY <1>2, <1>3

LEMMA StoreMove ==
  ASSUME TypeInv, LockInv, StoreInv, NEW t \in Threads, Move(t), deployed' = deployed
  PROVE  StoreInv'
<1>1. /\ UNCHANGED <<files, now>> /\ pc'[t] \in {"list", "open"}
      /\ \/ /\ current # NoFile /\ current' = NoFile
            /\ backups' = [n \in DOMAIN backups \cup {hold[t]} |->
                              IF n = hold[t] THEN current ELSE backups[n]]
         \/ UNCHANGED <<current, backups>>
  BY MoveFacts DEF TypeInv
<1>2. Prepared(t)'
  BY <1>1 DEF Prepared
<1>3. CASE UNCHANGED <<current, backups>>
  BY <1>1, <1>2, <1>3, StoreFrame DEF Works, StoreInv
<1>4. CASE /\ current # NoFile /\ current' = NoFile
           /\ backups' = [n \in DOMAIN backups \cup {hold[t]} |->
                             IF n = hold[t] THEN current ELSE backups[n]]
  <2>1. /\ DOMAIN backups' = DOMAIN backups \cup {hold[t]}
        /\ backups' = [n \in DOMAIN backups' |-> backups'[n]]
    BY <1>4
  <2>2. IsFiniteSet(DOMAIN backups')
    <3>1. IsFiniteSet(DOMAIN backups)
      BY DEF StoreInv
    <3>2. IsFiniteSet(DOMAIN backups \cup {hold[t]})
      BY <3>1, FS_AddElement, Zenon
    <3>. QED
      BY <2>1, <3>2
  <2>3. \A n \in DOMAIN backups' : backups'[n] \in DOMAIN files
    BY <1>4 DEF TypeInv, StoreTypes
  <2>4. \A n \in DOMAIN backups' : backups'[n] # current'
    BY <1>4, <2>3, FileFacts DEF TypeInv
  <2>. QED
    BY <1>1, <1>2, <2>1, <2>2, <2>4, StoreFrame DEF Works, StoreInv
<1>. QED
  BY <1>1, <1>3, <1>4

LEMMA StoreUnlink ==
  ASSUME TypeInv, LockInv, StoreInv, NEW t \in Threads, Unlink(t), deployed' = deployed
  PROVE  StoreInv'
<1>1. UNCHANGED <<current, files, now>> /\ pc[t] = "unlink" /\ pc'[t] \in {"open", "unlink"}
  BY UnlinkFacts DEF TypeInv
<1>2. PICK n \in hold[t] : /\ backups' = [m \in DOMAIN backups \ {n} |-> backups[m]]
                           /\ hold'[t] = hold[t] \ {n}
  BY UnlinkFacts DEF TypeInv
<1>3. /\ DOMAIN backups' = DOMAIN backups \ {n}
      /\ backups' = [m \in DOMAIN backups' |-> backups'[m]]
      /\ \A m \in DOMAIN backups' : backups'[m] = backups[m]
  BY <1>2
<1>4. IsFiniteSet(DOMAIN backups')
  <2>1. IsFiniteSet(DOMAIN backups)
    BY DEF StoreInv
  <2>2. IsFiniteSet(DOMAIN backups \ {n})
    BY <2>1, FS_RemoveElement, Zenon
  <2>. QED
    BY <1>3, <2>2
<1>5. ASSUME Exclusive
      PROVE  (\A m \in DOMAIN backups' : backups'[m] # current') /\ Prepared(t)'
  <2>1. Prepared(t) /\ \A m \in DOMAIN backups : backups[m] # current
    BY <1>5 DEF StoreInv
  <2>2. /\ hold[t] \subseteq DOMAIN backups
        /\ Cardinality(DOMAIN backups \ hold[t]) >= Count
        /\ \A k \in hold[t], m \in DOMAIN backups \ hold[t] : Time(k) <= Time(m)
    BY <1>1, <2>1 DEF Prepared
  <2>3. hold'[t] \subseteq DOMAIN backups' /\ DOMAIN backups' \ hold'[t] = DOMAIN backups \ hold[t]
    BY <1>2, <1>3, <2>2
  <2>4. \A m \in DOMAIN backups' : Time(m)' = Time(m)
    BY <1>1, <1>3 DEF Time
  <2>5. \A k \in hold'[t], m \in DOMAIN backups' \ hold'[t] : Time(k)' <= Time(m)'
    BY <1>2, <2>2, <2>3, <2>4
  <2>6. Prepared(t)'
    BY <1>1, <2>2, <2>3, <2>5 DEF Prepared
  <2>. QED
    BY <1>1, <1>3, <2>1, <2>6
<1>. QED
  BY <1>1, <1>3, <1>4, <1>5, StoreFrame DEF Works, StoreInv

LEMMA StoreOpen ==
  ASSUME TypeInv, LockInv, StoreInv, NEW t \in Threads, Open(t), deployed' = deployed
  PROVE  StoreInv'
<1>1. /\ UNCHANGED <<backups, now>> /\ pc'[t] = "write" /\ hold'[t].file = current'
      /\ UNCHANGED store \/ Creates
  BY OpenFacts DEF TypeInv
<1>2. Prepared(t)'
  BY <1>1 DEF Prepared
<1>3. CASE UNCHANGED store
  BY <1>1, <1>2, <1>3, StoreFrame DEF Works, StoreInv, store
<1>4. CASE Creates
  <2>1. /\ DOMAIN files' = DOMAIN files \cup {current'} /\ current' \notin DOMAIN files
        /\ \A f \in DOMAIN files : files'[f] = files[f]
        /\ files'[current'] = [lines |-> << >>, time |-> now]
    BY <1>4, CreatesFacts DEF TypeInv
  <2>2. files'[current'].time = now /\ now <= now
    BY <2>1 DEF TypeInv
  <2>3. \A f \in DOMAIN files' : files'[f].time <= now'
    BY <1>1, <2>1, <2>2 DEF StoreInv
  <2>4. \A n \in DOMAIN backups' : backups'[n] # current'
    BY <1>1, <2>1 DEF TypeInv, StoreTypes
  <2>. QED
    BY <1>1, <1>2, <2>3, <2>4, StoreFrame DEF Works, StoreInv
<1>. QED
  BY <1>1, <1>3, <1>4

LEMMA StoreWrites ==
  ASSUME TypeInv, LockInv, StoreInv, NEW t \in Threads, WriteChunk(t), deployed' = deployed
  PROVE  StoreInv'
<1>1. /\ UNCHANGED <<current, backups, now>>
      /\ pc[t] = "write" /\ pc'[t] \in {"write", "unlock"} /\ hold'[t].file = hold[t].file
  BY WriteFacts DEF TypeInv
<1>2. /\ DOMAIN files' = DOMAIN files
      /\ \A g \in DOMAIN files \ {hold[t].file} : files'[g] = files[g]
      /\ files'[hold[t].file].time = now
  BY ChunkFile
<1>3. \A f \in DOMAIN files' : files'[f].time <= now'
  <2>1. now <= now
    BY DEF TypeInv
  <2>. QED
    BY <1>1, <1>2, <2>1 DEF StoreInv
<1>4. Exclusive => Prepared(t)'
  BY <1>1 DEF StoreInv, Prepared
<1>. QED
  BY <1>1, <1>3, <1>4, StoreFrame DEF Works, StoreInv

LEMMA StoreInvNext ==
  ASSUME TypeInv, LockInv, StoreInv, [Next /\ UNCHANGED deployed]_<<deployed, vars>>
  PROVE  StoreInv'
<1>1. CASE UNCHANGED <<deployed, vars>>
  <2>1. UNCHANGED <<deployed, store, now, pc, hold>>
    BY <1>1 DEF vars, local
  <2>. QED
    BY <2>1, StoreSame
<1>2. CASE Next /\ deployed' = deployed
  <2>1. CASE Tick
    <3>1. UNCHANGED <<store, pc, hold>> /\ now < MaxTime /\ now' = now + 1
      BY <2>1 DEF Tick, local
    <3>. QED
      BY <1>2, <3>1, StoreSame
  <2>2. CASE \E p \in Processes : Die(p)
    <3>1. PICK p \in Processes : Die(p)
      BY <2>2
    <3>2. /\ UNCHANGED <<store, now>>
          /\ \A t \in Dead(p) : pc'[t] = "idle"
          /\ \A t \in Threads \ Dead(p) : pc'[t] = pc[t] /\ hold'[t] = hold[t]
      BY <3>1, DieFacts DEF TypeInv
    <3>. QED
      BY <1>2, <3>2, StoreSame
  <2>3. CASE \E t \in Threads : Aside(t)
    <3>1. PICK t \in Threads : Aside(t)
      BY <2>3
    <3>2. /\ UNCHANGED <<store, now>> /\ Others(t)
          /\ pc'[t] \in {"idle", "mutex", "flock", "check", "release"}
      BY <3>1, AsideFacts DEF TypeInv
    <3>. QED
      BY <1>2, <3>2, StoreSame DEF Others
  <2>4. CASE \E t \in Threads : WriteFails(t)
    <3>1. PICK t \in Threads : WriteFails(t)
      BY <2>4
    <3>2. UNCHANGED <<store, now>> /\ Others(t) /\ pc'[t] = "unlock"
      BY <3>1, WriteFailsFacts DEF TypeInv
    <3>. QED
      BY <1>2, <3>2, StoreSame DEF Others
  <2>. QED
    BY <1>2, <2>1, <2>2, <2>3, <2>4, NextCases, StoreLooks, StoreMove, StoreUnlink,
       StoreOpen, StoreWrites
<1>. QED
  BY <1>1, <1>2

LEMMA StoreInvInit == Init => StoreInv
<1>. SUFFICES ASSUME Init PROVE StoreInv
  OBVIOUS
<1>1. /\ backups = [n \in {} |-> NoFile] /\ DOMAIN files = {}
      /\ \A t \in Threads : pc[t] = "idle"
  BY DEF Init
<1>2. DOMAIN backups = {} /\ backups = [n \in DOMAIN backups |-> backups[n]]
  BY <1>1
<1>3. IsFiniteSet(DOMAIN backups)
  BY <1>2, FS_EmptySet
<1>. QED
  BY <1>1, <1>2, <1>3 DEF StoreInv, Prepared

LEMMA NameInvNext ==
  ASSUME TypeInv, LockInv, NameInv, Exclusive, NamesLeft,
         [Next /\ UNCHANGED deployed]_<<deployed, vars>>
  PROVE  NameInv'
<1>. SUFFICES ASSUME NEW t \in Threads, pc'[t] = "move"
              PROVE  hold'[t] \notin DOMAIN backups'
  BY DEF NameInv
<1>1. pc[t] = "move" => hold[t] \notin DOMAIN backups
  BY DEF NameInv
<1>2. CASE UNCHANGED <<deployed, vars>>
  BY <1>1, <1>2 DEF vars, local, store
<1>3. CASE Tick
  BY <1>1, <1>3 DEF Tick, local, store
<1>4. CASE \E p \in Processes : Die(p)
  BY <1>1, <1>4, DieFacts DEF TypeInv, store
<1>5. CASE \E u \in Threads : Aside(u)
  <2>1. PICK u \in Threads : Aside(u)
    BY <1>5
  <2>2. t # u /\ Others(u) /\ UNCHANGED store
    BY <2>1, AsideFacts DEF TypeInv
  <2>. QED
    BY <1>1, <2>2 DEF Others, store
<1>6. CASE \E u \in Threads : Works(u)
  <2>1. PICK u \in Threads : Works(u)
    BY <1>6
  <2>2. t = u
    BY <2>1, OthersOutside DEF Inside
  <2>3. ChooseName(t)
    BY <2>1, <2>2, CheckFacts, ListFacts, FailFacts, MoveFacts, UnlinkFacts, OpenFacts,
       WriteFacts, WriteFailsFacts
    DEF Works, Looks, TypeInv
  <2>4. /\ UNCHANGED store /\ pc[t] = "name"
        /\ (\E c \in 0 .. MaxCounter : Name(c) \notin DOMAIN backups)
              => hold'[t] \notin DOMAIN backups
    BY <2>3, ChooseNameFacts DEF TypeInv
  <2>. QED
    BY <2>4 DEF NamesLeft, store
<1>. QED
  BY <1>2, <1>3, <1>4, <1>5, <1>6, NextCases DEF Works
-----------------------------------------------------------------------------
(* Every step is one of SegmentLog, or changes no segment.                 *)

Sealed == [n \in DOMAIN backups |-> Segment(backups[n])]

LEMMA SegmentFacts ==
  ASSUME StoreTypes, NEW f \in DOMAIN files
  PROVE  /\ Segment(f) = files[f] /\ Segment(f) # NoFile
         /\ Segment(f).lines = Lines(f) /\ Segment(f).time = files[f].time
  BY FileFacts DEF Segment, Lines

LEMMA SegmentsSame ==
  ASSUME UNCHANGED store
  PROVE  Segment(current)' = Segment(current) /\ Sealed' = Sealed
  BY DEF store, Segment, Sealed

\* sealed segments are not changed by what is done to the open one
LEMMA SealedSame ==
  ASSUME StoreTypes, StoreTypes', backups' = backups,
         \A n \in DOMAIN backups : files'[backups[n]] = files[backups[n]]
  PROVE  Sealed' = Sealed
<1>1. \A n \in DOMAIN backups : Segment(backups[n])' = Segment(backups[n])
  BY DEF Segment
<1>. QED
  BY <1>1 DEF Sealed

LEMMA OpenSegments ==
  ASSUME TypeInv, TypeInv', NEW t \in Threads, Open(t)
  PROVE  \/ Log!Create
         \/ UNCHANGED <<Segment(current), Sealed>>
<1>1. UNCHANGED backups /\ (UNCHANGED store \/ Creates)
  BY OpenFacts DEF TypeInv
<1>2. CASE UNCHANGED store
  BY <1>2, SegmentsSame
<1>3. CASE Creates
  <2>1. /\ DOMAIN files' = DOMAIN files \cup {current'}
        /\ \A f \in DOMAIN files : files'[f] = files[f]
        /\ files'[current'] = [lines |-> << >>, time |-> now]
    BY <1>3, CreatesFacts DEF TypeInv
  <2>2. Segment(current) = NoFile
    BY <1>3 DEF Creates, Segment
  <2>3. current' # NoFile /\ files'[current'] # NoFile
    <3>1. current' \in DOMAIN files'
      BY <2>1
    <3>2. ASSUME NEW g \in DOMAIN files' PROVE files'[g] # NoFile /\ g # NoFile
      <4>1. files' \in Seq(File)
        BY DEF TypeInv, StoreTypes
      <4>2. files'[g] \in File /\ g \in Nat
        BY <4>1
      <4>. QED
        BY <4>2, LogAssumption
    <3>. QED
      BY <3>1, <3>2
  <2>4. Segment(current)' = files'[current']
    BY <2>3 DEF Segment
  <2>5. Segment(current)'.lines = << >>
    BY <2>1, <2>4
  <2>6. Sealed' = Sealed
    BY <1>1, <2>1, SealedSame DEF TypeInv, StoreTypes
  <2>. QED
    BY <2>2, <2>3, <2>4, <2>5, <2>6 DEF Log!Create, Sealed
<1>. QED
  BY <1>1, <1>2, <1>3

LEMMA WriteSegments ==
  ASSUME TypeInv, TypeInv', StoreInv, Exclusive, NEW t \in Threads, WriteChunk(t)
  PROVE  Log!Write
<1>1. UNCHANGED <<current, backups, now>> /\ pc[t] = "write"
  BY WriteFacts DEF TypeInv
<1>2. hold[t].file = current /\ \A n \in DOMAIN backups : backups[n] # current
  BY <1>1 DEF StoreInv, Prepared
<1>3. current \in DOMAIN files
  BY <1>2, ChunkFacts
<1>4. /\ DOMAIN files' = DOMAIN files
      /\ \A g \in DOMAIN files \ {current} : files'[g] = files[g]
      /\ files'[current].time = now
  BY <1>2, ChunkFile
<1>5. /\ Lines(current) \in Seq(Chunk)
      /\ files'[current].lines = Append(Lines(current), Added(t))
  BY <1>2, <1>3, ChunkFile, FileFacts DEF TypeInv
<1>6. /\ Segment(current) = files[current] /\ Segment(current) # NoFile
      /\ Segment(current).lines = Lines(current)
      /\ Segment(current).time = files[current].time
  BY <1>3, SegmentFacts DEF TypeInv
<1>7. Segment(current)' = files'[current] /\ Segment(current)' # NoFile
  <2>1. current' = current /\ current' # NoFile /\ current \in DOMAIN files'
    BY <1>1, <1>3, <1>4, FileFacts DEF TypeInv
  <2>2. Segment(current)' = files'[current]
    BY <2>1 DEF Segment
  <2>3. files'[current] \in File
    <3>1. files' \in Seq(File)
      BY DEF TypeInv, StoreTypes
    <3>. QED
      BY <2>1, <3>1
  <2>. QED
    BY <2>2, <2>3, LogAssumption
<1>8. Sealed' = Sealed
  <2>1. \A n \in DOMAIN backups : backups[n] \in DOMAIN files \ {current}
    BY <1>2 DEF TypeInv, StoreTypes
  <2>. QED
    BY <1>1, <1>4, <2>1, SealedSame DEF TypeInv
<1>9. Segment(current)'.time >= Segment(current).time
  <2>1. files[current].time <= now /\ files[current].time \in 0 .. MaxTime /\ now \in 0 .. MaxTime
    BY <1>3, FileFacts DEF StoreInv, TypeInv
  <2>. QED
    BY <1>4, <1>6, <1>7, <2>1
<1>. DEFINE before == Lines(current)
            after  == Append(before, Added(t))
<1>10. Len(after) = Len(before) + 1 /\ \A i \in DOMAIN before : after[i] = before[i]
  <2>1. Added(t) \in Chunk
    BY ChunkFacts
  <2>. HIDE DEF before
  <2>2. before \in Seq(Chunk)
    BY <1>5 DEF before
  <2>. QED
    BY <2>1, <2>2
<1>11. Segment(current)'.lines = after /\ Segment(current).lines = before
  BY <1>5, <1>6, <1>7
<1>. HIDE DEF before, after
<1>. QED
  BY <1>6, <1>7, <1>8, <1>9, <1>10, <1>11 DEF Log!Write, Sealed

LEMMA MoveSegments ==
  ASSUME TypeInv, TypeInv', NameInv, Exclusive, NEW t \in Threads, Move(t)
  PROVE  \/ Log!Seal
         \/ UNCHANGED <<Segment(current), Sealed>>
<1>1. /\ files' = files /\ pc[t] = "move"
      /\ \/ /\ current # NoFile /\ current' = NoFile
            /\ backups' = [n \in DOMAIN backups \cup {hold[t]} |->
                              IF n = hold[t] THEN current ELSE backups[n]]
         \/ UNCHANGED <<current, backups>>
  BY MoveFacts DEF TypeInv
<1>2. CASE UNCHANGED <<current, backups>>
  BY <1>1, <1>2, SegmentsSame DEF store
<1>3. CASE /\ current # NoFile /\ current' = NoFile
           /\ backups' = [n \in DOMAIN backups \cup {hold[t]} |->
                             IF n = hold[t] THEN current ELSE backups[n]]
  <2>. DEFINE n == hold[t]
  <2>1. n \notin DOMAIN backups
    BY <1>1 DEF NameInv
  <2>2. Segment(current)' = NoFile /\ Segment(current) # NoFile
    <3>1. current \in DOMAIN files
      BY <1>3 DEF TypeInv, StoreTypes
    <3>. QED
      BY <1>3, <3>1, SegmentFacts DEF Segment, TypeInv
  <2>3. \A f : Segment(f)' = Segment(f)
    BY <1>1 DEF Segment
  <2>4. DOMAIN backups' = DOMAIN backups \cup {n}
    BY <1>3
  <2>5. /\ backups'[n] = current
        /\ \A m \in DOMAIN backups : backups'[m] = backups[m]
    BY <1>3, <2>1
  <2>. HIDE DEF n
  <2>6. Sealed' = [m \in DOMAIN backups \cup {n} |-> Segment(backups'[m])]
    BY <2>3, <2>4 DEF Sealed
  <2>7. DOMAIN Sealed = DOMAIN backups /\ \A m \in DOMAIN backups : Sealed[m] = Segment(backups[m])
    BY DEF Sealed
  <2>8. \A m \in DOMAIN backups \cup {n} :
           Segment(backups'[m]) = IF m = n THEN Segment(current) ELSE Sealed[m]
    BY <2>1, <2>5, <2>7
  <2>9. /\ Sealed' = [m \in DOMAIN Sealed \cup {n} |->
                         IF m = n THEN Segment(current) ELSE Sealed[m]]
        /\ n \in DOMAIN Sealed' \ DOMAIN Sealed
    BY <2>1, <2>6, <2>7, <2>8
  <2>. QED
    BY <2>2, <2>9 DEF Log!Seal, Sealed
<1>. QED
  BY <1>1, <1>2, <1>3

\* SegmentLog counts as FiniteSets does
LEMMA SameCardinality == \A S : Log!Cardinality(S) = Cardinality(S)
  BY DEF Log!Cardinality, Cardinality

LEMMA UnlinkSegments ==
  ASSUME TypeInv, TypeInv', StoreInv, Exclusive, NEW t \in Threads, Unlink(t)
  PROVE  Log!Drop
<1>1. UNCHANGED <<current, files>> /\ pc[t] = "unlink"
  BY UnlinkFacts DEF TypeInv
<1>2. PICK n \in hold[t] :
         /\ n \in DOMAIN backups =>
               \A m \in hold[t] \cap DOMAIN backups : Time(n) <= Time(m)
         /\ backups' = [m \in DOMAIN backups \ {n} |-> backups[m]]
  BY UnlinkFacts DEF TypeInv
<1>3. /\ hold[t] \subseteq DOMAIN backups
      /\ Cardinality(DOMAIN backups \ hold[t]) >= Count
      /\ \A k \in hold[t], m \in DOMAIN backups \ hold[t] : Time(k) <= Time(m)
  BY <1>1 DEF StoreInv, Prepared
<1>4. n \in DOMAIN backups /\ \A m \in DOMAIN backups : Time(n) <= Time(m)
  BY <1>2, <1>3
<1>5. DOMAIN backups' = DOMAIN backups \ {n} /\ \A m \in DOMAIN backups' : backups'[m] = backups[m]
  BY <1>2
<1>6. Cardinality(DOMAIN backups') >= Count
  <2>1. IsFiniteSet(DOMAIN backups') /\ Cardinality(DOMAIN backups') \in Nat
    <3>1. IsFiniteSet(DOMAIN backups) /\ DOMAIN backups' \in SUBSET DOMAIN backups
      BY <1>5 DEF StoreInv
    <3>. QED
      BY <3>1, FS_Subset, FS_CardinalityType
  <2>2. DOMAIN backups \ hold[t] \in SUBSET DOMAIN backups'
    BY <1>2, <1>5
  <2>3. /\ Cardinality(DOMAIN backups \ hold[t]) <= Cardinality(DOMAIN backups')
        /\ Cardinality(DOMAIN backups \ hold[t]) \in Nat
    BY <2>1, <2>2, FS_Subset, FS_CardinalityType
  <2>4. Count \in Nat
    BY LogAssumption
  <2>. QED
    BY <1>3, <2>1, <2>3, <2>4
<1>7. Segment(current)' = Segment(current) /\ \A f : Segment(f)' = Segment(f)
  BY <1>1 DEF Segment
<1>8. DOMAIN Sealed = DOMAIN backups /\ \A m \in DOMAIN backups : Sealed[m] = Segment(backups[m])
  BY DEF Sealed
<1>9. Sealed' = [m \in DOMAIN backups \ {n} |-> Segment(backups'[m])]
  BY <1>5, <1>7 DEF Sealed
<1>10. Sealed' = [m \in DOMAIN Sealed \ {n} |-> Sealed[m]] /\ DOMAIN Sealed' = DOMAIN backups'
  BY <1>5, <1>8, <1>9
<1>11. \A m \in DOMAIN backups : Sealed[m].time = Time(m)
  BY <1>8, SegmentFacts DEF TypeInv, StoreTypes, Time
<1>12. /\ n \in DOMAIN Sealed
       /\ \A m \in DOMAIN Sealed' : Sealed[n].time <= Sealed[m].time
  BY <1>4, <1>5, <1>8, <1>10, <1>11
<1>13. \E k \in DOMAIN Sealed :
          /\ Sealed' = [m \in DOMAIN Sealed \ {k} |-> Sealed[m]]
          /\ \A m \in DOMAIN Sealed' : Sealed[k].time <= Sealed[m].time
  BY <1>10, <1>12
<1>14. Cardinality(DOMAIN Sealed') >= Count
  BY <1>6, <1>10
<1>15. Segment(current)' = Segment(current)
  BY <1>7
<1>. QED
  BY <1>13, <1>14, <1>15, SameCardinality DEF Log!Drop, Sealed

\* "Cross-process safe": while the lock works or one process logs, and a name
\* for a backup is left whenever one is chosen, what the threads do to the files
\* is what SegmentLog allows: the log only grows at its end, a backup never
\* changes and is removed only when Count later ones remain.  Without a name
\* left the plain name is used and the backup there is replaced.
THEOREM LogImplementsSegments == Spec /\ [](Exclusive /\ NamesLeft) => ImplementsSegments
<1>1. TypeInv /\ LockInv /\ StoreInv /\ NameInv /\ Exclusive /\ NamesLeft
      /\ [Next /\ UNCHANGED deployed]_<<deployed, vars>>
        => TypeInv' /\ LockInv' /\ StoreInv' /\ NameInv'
  <2>. SUFFICES ASSUME TypeInv, LockInv, StoreInv, NameInv, Exclusive, NamesLeft,
                       [Next /\ UNCHANGED deployed]_<<deployed, vars>>
                PROVE  TypeInv' /\ LockInv' /\ StoreInv' /\ NameInv'
    OBVIOUS
  <2>1. TypeInv' /\ LockInv' /\ StoreInv'
    BY TypeInvNext, LockInvNext, StoreInvNext
  <2>2. NameInv'
    BY NameInvNext
  <2>. QED
    BY <2>1, <2>2
<1>2. Init => /\ TypeInv /\ LockInv /\ StoreInv /\ NameInv
              /\ Log!SegmentInit
  <2>. SUFFICES ASSUME Init
                PROVE  /\ TypeInv /\ LockInv /\ StoreInv /\ NameInv
                       /\ Log!SegmentInit
    OBVIOUS
  <2>1. NameInv
    BY DEF Init, NameInv
  <2>2. Log!SegmentInit
    BY DEF Init, Log!SegmentInit, Segment
  <2>. QED
    BY <2>1, <2>2, TypeInvInit, LockInvInit, StoreInvInit
<1>3. TypeInv /\ TypeInv' /\ StoreInv /\ NameInv /\ Exclusive
      /\ [Next /\ UNCHANGED deployed]_<<deployed, vars>>
        => [Log!SegmentNext]_<<Segment(current), [n \in DOMAIN backups |-> Segment(backups[n])]>>
  <2>. SUFFICES ASSUME TypeInv, TypeInv', StoreInv, NameInv, Exclusive,
                       [Next /\ UNCHANGED deployed]_<<deployed, vars>>
                PROVE  [Log!SegmentNext]_<<Segment(current), [n \in DOMAIN backups |-> Segment(backups[n])]>>
    OBVIOUS
  <2>. SUFFICES Log!SegmentNext \/ UNCHANGED <<Segment(current), Sealed>>
    BY DEF Sealed
  <2>1. CASE UNCHANGED store
    BY <2>1, SegmentsSame
  <2>2. CASE \E t \in Threads : Move(t) \/ Unlink(t) \/ Open(t) \/ WriteChunk(t)
    BY <2>2, MoveSegments, UnlinkSegments, OpenSegments, WriteSegments DEF Log!SegmentNext
  <2>3. ASSUME Next
        PROVE  UNCHANGED store \/ \E t \in Threads : Move(t) \/ Unlink(t) \/ Open(t) \/ WriteChunk(t)
    <3>1. Tick => UNCHANGED store
      BY DEF Tick
    <3>2. \A p \in Processes : Die(p) => UNCHANGED store
      BY DEF Die
    <3>3. \A t \in Threads : Aside(t) \/ Looks(t) \/ WriteFails(t) => UNCHANGED store
      BY AsideFacts, LooksFacts, WriteFailsFacts DEF TypeInv
    <3>. QED
      BY <2>3, <3>1, <3>2, <3>3, NextCases
  <2>4. UNCHANGED vars => UNCHANGED store
    BY DEF vars
  <2>. QED
    BY <2>1, <2>2, <2>3, <2>4
<1>. QED
  BY <1>1, <1>2, <1>3, PTL DEF Spec, ImplementsSegments, Log!SegmentSpec
=============================================================================
