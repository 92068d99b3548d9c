------------------------- MODULE EventIndex_proofs -------------------------
(***************************************************************************)
(* The event index keeps what IndexView promises, and rebuilds only what   *)
(* is damaged: for any number of threads, processes, events and files.     *)
(***************************************************************************)
EXTENDS EventIndex, FiniteSetTheorems, TLAPS

Busy(t) == pc[t] \notin {"idle", "lock"}

\* Two files have been damaged.
Twice == \E f, g \in Damaged : f # g

\* The corrupt file a thread has met; from the unlink on it is off the path.
Met(t) ==
    /\ pc[t] \in {"drop", "unlink", "unlink log"} \/ job[t].tries > 0 \/ job[t].again
          => job[t].met \in Damaged
    /\ pc[t] \in {"drop", "unlink"} => job[t].met \notin rebuilt[Owner(t)]
    /\ pc[t] \in {"unlink", "unlink log"} => conn[Owner(t)] = None
    /\ pc[t] = "unlink log" => job[t].met \in rebuilt[Owner(t)]
    /\ pc[t] \in {"open", "test", "insert"} /\ (job[t].tries > 0 \/ job[t].again)
          => job[t].met \in rebuilt[Owner(t)]
    /\ job[t].tries = 2 => Twice

ThreadInv(t) ==
    /\ Busy(t) => mutex[Owner(t)] = t
    /\ pc[t] = "idle" => job[t] = Idle
    /\ pc[t] = "lock" => job[t].tries = 0 /\ ~job[t].again
    /\ pc[t] # "idle" => job[t].event \in Events
    /\ pc[t] = "insert" => conn[Owner(t)] # None \/ closer[Owner(t)].at = "done"
    /\ Met(t)

\* A process neither finds at the path nor has open a file it has rebuilt.
ProcessInv(p) ==
    /\ db \notin rebuilt[p] /\ conn[p] \notin rebuilt[p]
    /\ closer[p].at \in {"prune", "close", "reset"} => closer[p].on # None

GaveUpInv == gaveUp # {} => Twice

IndexInv ==
    /\ TypeOK /\ GaveUpInv
    /\ \A t \in Threads : ThreadInv(t)
    /\ \A p \in Processes : ProcessInv(p)
-----------------------------------------------------------------------------
(* The types in parts.                                                     *)

Row == [rows : SUBSET Events, sound : BOOLEAN]

Step1 == {"open", "test", "insert", "drop", "unlink", "unlink log"}

Job(known) == [event : {None} \cup Events, tries : 0 .. 2, again : BOOLEAN,
               met : {None} \cup known]

FilesType == files \in Seq(Row) /\ db \in {None} \cup DOMAIN files /\ cutoff \in {0} \cup Events

LocalType ==
    /\ conn \in [Processes -> {None} \cup DOMAIN files]
    /\ disabled \in [Processes -> BOOLEAN]
    /\ mutex \in [Processes -> Threads \cup {Nobody}]
    /\ rebuilt \in [Processes -> SUBSET DOMAIN files]

CloserType ==
    closer \in [Processes -> [at : {"no", "prune", "close", "reset", "done"},
                              on : {None} \cup DOMAIN files]]

WriteType ==
    /\ pc \in [Threads -> {"idle", "lock"} \cup Step1]
    /\ job \in [Threads -> Job(DOMAIN files)]
    /\ begun \in 0 .. MaxEvents /\ gaveUp \subseteq Events

LEMMA TypeParts == TypeOK <=> FilesType /\ LocalType /\ CloserType /\ WriteType
<1>1. {"idle", "lock", "open", "test", "insert", "drop", "unlink", "unlink log"}
        = {"idle", "lock"} \cup Step1
  BY DEF Step1
<1> QED
  BY <1>1 DEF TypeOK, FilesType, LocalType, CloserType, WriteType, Row, Job

LEMMA TypePartsNext == FilesType' /\ LocalType' /\ CloserType' /\ WriteType' => TypeOK'
  BY TypeParts, PTL

\* Files are only added, and those damaged stay so.
Grown ==
    /\ files' \in Seq(Row) /\ DOMAIN files \subseteq DOMAIN files'
    /\ Damaged \subseteq Damaged'

LEMMA UnchangedGrows == TypeOK /\ UNCHANGED files => Grown /\ (Damaged = Damaged')
  BY TypeParts DEF FilesType, Grown, Damaged

LEMMA AppendGrows ==
  ASSUME TypeOK, NEW row \in Row, files' = Append(files, row), row.sound
  PROVE  /\ Grown /\ Damaged' = Damaged
         /\ Len(files') = Len(files) + 1 /\ Len(files') \in DOMAIN files'
         /\ Len(files') \notin DOMAIN files /\ files'[Len(files')] = row
         /\ Len(files') # None
<1>1. files \in Seq(Row)
  BY TypeParts DEF FilesType
<1>2. /\ files' \in Seq(Row) /\ Len(files') = Len(files) + 1 /\ Len(files) \in Nat
      /\ DOMAIN files = 1 .. Len(files) /\ DOMAIN files' = 1 .. Len(files')
      /\ \A f \in 1 .. Len(files) : files'[f] = files[f]
      /\ files'[Len(files')] = row
  BY <1>1
<1>3. DOMAIN files' = DOMAIN files \cup {Len(files')} /\ Len(files') \notin DOMAIN files
      /\ Len(files') # None
  BY <1>2 DEF None
<1>4. Damaged' = Damaged
  BY <1>2, <1>3 DEF Damaged
<1> QED
  BY <1>2, <1>3, <1>4 DEF Grown

LEMMA UpdateGrows ==
  ASSUME TypeOK, NEW f \in DOMAIN files, NEW row \in Row, files' = [files EXCEPT ![f] = row],
         row.sound => files[f].sound
  PROVE  /\ Grown /\ DOMAIN files' = DOMAIN files /\ files'[f] = row
         /\ \A g \in DOMAIN files : g # f => files'[g] = files[g]
<1>1. files \in Seq(Row)
  BY TypeParts DEF FilesType
<1>2. /\ files' \in Seq(Row) /\ DOMAIN files' = DOMAIN files /\ files'[f] = row
      /\ \A g \in DOMAIN files : g # f => files'[g] = files[g]
  BY <1>1
<1> QED
  BY <1>2 DEF Grown, Damaged

LEMMA TwiceGrows == Damaged \subseteq Damaged' /\ Twice => Twice'
  BY DEF Twice
-----------------------------------------------------------------------------
(* What a step of one thread leaves to the others.                         *)

Others(t) == Threads \ {t}

LEMMA OwnerType == \A t \in Threads : Owner(t) \in Processes
  BY IndexAssumption DEF Owner

\* A thread that is outside the lock relies on nothing that changes; one of
\* another process, on nothing but the damage, which grows.
LEMMA OthersKeep ==
  ASSUME IndexInv, NEW t \in Threads, Damaged \subseteq Damaged', UNCHANGED closer,
         \A u \in Others(t) : pc'[u] = pc[u] /\ job'[u] = job[u],
         \A q \in Processes \ {Owner(t)} :
            conn'[q] = conn[q] /\ mutex'[q] = mutex[q] /\ rebuilt'[q] = rebuilt[q],
         \/ Busy(t)
         \/ UNCHANGED <<conn, rebuilt>> /\ (UNCHANGED mutex \/ mutex[Owner(t)] = Nobody),
         NEW u \in Others(t)
  PROVE  ThreadInv(u)'
<1>1. u \in Threads /\ u # t /\ pc'[u] = pc[u] /\ job'[u] = job[u] /\ ThreadInv(u)
      /\ Owner(u) \in Processes
  BY OwnerType DEF IndexInv, Others
<1>2. Twice => Twice'
  BY TwiceGrows
<1>3. CASE ~Busy(u)
  <2>1. job[u].tries = 0 /\ ~job[u].again /\ pc[u] \in {"idle", "lock"}
    BY <1>1, <1>3 DEF ThreadInv, Busy, Idle
  <2> QED
    <3>1. job'[u].tries = 0 /\ ~job'[u].again /\ pc'[u] \in {"idle", "lock"}
      BY <1>1, <2>1
    <3>2. ~(job'[u].tries > 0) /\ ~(job'[u].tries = 2)
      BY <3>1
    <3>3. pc'[u] \notin {"open", "test", "insert", "drop", "unlink", "unlink log"}
      BY <3>1
    <3>4. Met(u)'
      BY <3>1, <3>2, <3>3, Zenon DEF Met
    <3> QED
      BY <1>1, <3>1, <3>4 DEF ThreadInv, Busy
<1>4. CASE Busy(u)
  <2>1. mutex[Owner(u)] = u
    BY <1>1, <1>4 DEF ThreadInv
  <2>2. CASE Owner(u) # Owner(t)
    <3>1. /\ conn'[Owner(u)] = conn[Owner(u)] /\ mutex'[Owner(u)] = mutex[Owner(u)]
          /\ rebuilt'[Owner(u)] = rebuilt[Owner(u)]
      BY <1>1, <2>2
    <3> QED
      BY <1>1, <1>2, <3>1 DEF ThreadInv, Met, Busy
  <2>3. CASE Owner(u) = Owner(t)
    <3>1. mutex[Owner(t)] # Nobody /\ ~Busy(t)
      BY <1>1, <2>1, <2>3, IndexAssumption DEF IndexInv, ThreadInv
    <3>2. UNCHANGED <<conn, rebuilt, mutex>>
      BY <3>1
    <3> QED
      BY <1>1, <1>2, <3>2 DEF ThreadInv, Met, Busy
  <2> QED
    BY <2>2, <2>3
<1> QED
  BY <1>3, <1>4

\* A write that returns.
LEMMA ReturnKeeps ==
  ASSUME IndexInv, NEW t \in Threads, Busy(t), Return(t), Grown,
         DOMAIN files' = DOMAIN files, UNCHANGED <<db, cutoff, conn, closer, begun, rebuilt>>,
         disabled' \in [Processes -> BOOLEAN], gaveUp' \subseteq Events,
         gaveUp' = gaveUp \/ Twice
  PROVE  IndexInv'
<1> DEFINE p == Owner(t)
<1>1. FilesType /\ LocalType /\ CloserType /\ WriteType /\ p \in Processes
  BY TypeParts, OwnerType DEF IndexInv
<1>2. /\ pc' = [pc EXCEPT ![t] = "idle"] /\ job' = [job EXCEPT ![t] = Idle]
      /\ mutex' = [mutex EXCEPT ![p] = IF mutex[p] = t THEN Nobody ELSE mutex[p]]
  BY DEF Return, Goto
<1>3. Idle \in Job(DOMAIN files)
  BY DEF Idle, Job
<1>4. TypeOK'
  <2>1. FilesType'
    BY <1>1 DEF FilesType, Grown
  <2>2. LocalType'
    BY <1>1, <1>2 DEF LocalType
  <2>3. CloserType'
    BY <1>1 DEF CloserType
  <2>4. WriteType'
    BY <1>1, <1>2, <1>3 DEF WriteType
  <2> QED
    BY <2>1, <2>2, <2>3, <2>4, TypePartsNext
<1>5. ThreadInv(t)'
  <2>1. pc'[t] = "idle" /\ job'[t] = Idle
    BY <1>1, <1>2 DEF WriteType
  <2> QED
    BY <2>1 DEF ThreadInv, Met, Idle, Busy
<1>6. ASSUME NEW u \in Others(t) PROVE ThreadInv(u)'
  <2>1. \A x \in Others(t) : pc'[x] = pc[x] /\ job'[x] = job[x]
    BY <1>1, <1>2 DEF WriteType, Others
  <2>2. \A q \in Processes \ {p} : conn'[q] = conn[q] /\ mutex'[q] = mutex[q] /\ rebuilt'[q] = rebuilt[q]
    BY <1>1, <1>2 DEF LocalType
  <2> QED
    BY <2>1, <2>2, OthersKeep DEF Grown
<1>7. \A q \in Processes : ProcessInv(q)'
  BY DEF IndexInv, ProcessInv
<1>8. GaveUpInv'
  BY TwiceGrows DEF IndexInv, GaveUpInv, Grown
<1> QED
  BY <1>4, <1>5, <1>6, <1>7, <1>8 DEF IndexInv, Others

\* A write that goes on to the step a with the job j, and leaves its process
\* with the connection k and the rebuilt files r.
LEMMA StepKeeps ==
  ASSUME IndexInv, NEW t \in Threads, Busy(t) \/ (pc[t] = "lock" /\ mutex[Owner(t)] = Nobody),
         NEW a \in Step1, NEW j \in Job(DOMAIN files'), NEW k \in {None} \cup DOMAIN files',
         NEW r \in SUBSET DOMAIN files',
         Grown, db' \in {None} \cup DOMAIN files',
         UNCHANGED <<cutoff, disabled, closer, begun, gaveUp>>,
         pc' = [pc EXCEPT ![t] = a], job' = [job EXCEPT ![t] = j],
         conn' = [conn EXCEPT ![Owner(t)] = k], rebuilt' = [rebuilt EXCEPT ![Owner(t)] = r],
         mutex' = [mutex EXCEPT ![Owner(t)] = t],
         Busy(t) \/ UNCHANGED <<conn, rebuilt>>,
         j.event \in Events,
         a = "insert" => k # None \/ closer[Owner(t)].at = "done",
         a \in {"drop", "unlink", "unlink log"} \/ j.tries > 0 \/ j.again => j.met \in Damaged',
         a \in {"drop", "unlink"} => j.met \notin r,
         a \in {"unlink", "unlink log"} => k = None,
         a = "unlink log" => j.met \in r,
         a \in {"open", "test", "insert"} /\ (j.tries > 0 \/ j.again) => j.met \in r,
         j.tries = 2 => Twice',
         k \notin r, \A q \in Processes : db' \notin rebuilt'[q]
  PROVE  IndexInv'
<1> DEFINE p == Owner(t)
<1>1. FilesType /\ LocalType /\ CloserType /\ WriteType /\ p \in Processes
  BY TypeParts, OwnerType DEF IndexInv
<1>2. DOMAIN files \subseteq DOMAIN files'
  BY DEF Grown
<1>3. TypeOK'
  <2>1. FilesType'
    BY <1>1 DEF FilesType, Grown
  <2>2. LocalType'
    BY <1>1, <1>2 DEF LocalType
  <2>3. CloserType'
    <3>1. \A q \in Processes : closer[q] \in [at : {"no", "prune", "close", "reset", "done"},
                                              on : {None} \cup DOMAIN files']
      BY <1>1, <1>2 DEF CloserType
    <3> QED
      BY <1>1, <3>1 DEF CloserType
  <2>4. WriteType'
    <3>1. \A u \in Threads : job[u] \in Job(DOMAIN files')
      BY <1>1, <1>2 DEF WriteType, Job
    <3> QED
      BY <1>1, <3>1 DEF WriteType
  <2> QED
    BY <2>1, <2>2, <2>3, <2>4, TypePartsNext
<1>4. ThreadInv(t)'
  <2>1. pc'[t] = a /\ job'[t] = j /\ conn'[p] = k /\ rebuilt'[p] = r /\ mutex'[p] = t
    BY <1>1 DEF WriteType, LocalType
  <2>2. a # "idle" /\ a # "lock"
    BY DEF Step1
  <2>3. Met(t)'
    BY <2>1, <2>2 DEF Met
  <2> QED
    BY <2>1, <2>2, <2>3 DEF ThreadInv
<1>5. ASSUME NEW u \in Others(t) PROVE ThreadInv(u)'
  <2>1. \A x \in Others(t) : pc'[x] = pc[x] /\ job'[x] = job[x]
    BY <1>1 DEF WriteType, Others
  <2>2. \A q \in Processes \ {p} : conn'[q] = conn[q] /\ mutex'[q] = mutex[q] /\ rebuilt'[q] = rebuilt[q]
    BY <1>1 DEF LocalType
  <2>3. \/ Busy(t)
        \/ UNCHANGED <<conn, rebuilt>> /\ (UNCHANGED mutex \/ mutex[Owner(t)] = Nobody)
    OBVIOUS
  <2> QED
    BY <2>1, <2>2, <2>3, OthersKeep DEF Grown
<1>6. ASSUME NEW q \in Processes PROVE ProcessInv(q)'
  <2>1. conn'[q] \notin rebuilt'[q]
    BY <1>1 DEF LocalType, IndexInv, ProcessInv
  <2> QED
    BY <2>1 DEF IndexInv, ProcessInv
<1>7. GaveUpInv'
  BY TwiceGrows DEF IndexInv, GaveUpInv, Grown
<1> QED
  BY <1>3, <1>4, <1>5, <1>6, <1>7 DEF IndexInv, Others
-----------------------------------------------------------------------------
(* The steps of a thread.                                                  *)

LEMMA Facts ==
  ASSUME IndexInv, NEW t \in Threads
  PROVE  /\ FilesType /\ LocalType /\ CloserType /\ WriteType
         /\ Owner(t) \in Processes /\ ThreadInv(t) /\ ProcessInv(Owner(t))
         /\ conn[Owner(t)] \in {None} \cup DOMAIN files
         /\ rebuilt[Owner(t)] \subseteq DOMAIN files
         /\ job[t] \in Job(DOMAIN files)
         /\ conn = [conn EXCEPT ![Owner(t)] = conn[Owner(t)]]
         /\ rebuilt = [rebuilt EXCEPT ![Owner(t)] = rebuilt[Owner(t)]]
         /\ job = [job EXCEPT ![t] = job[t]]
         /\ Busy(t) => mutex = [mutex EXCEPT ![Owner(t)] = t]
<1>1. FilesType /\ LocalType /\ CloserType /\ WriteType /\ Owner(t) \in Processes
      /\ ThreadInv(t) /\ ProcessInv(Owner(t))
  BY TypeParts, OwnerType DEF IndexInv
<1>2. Busy(t) => mutex[Owner(t)] = t
  BY <1>1 DEF ThreadInv
<1> QED
  BY <1>1, <1>2 DEF LocalType, WriteType

\* A second corrupt file after one that has been rebuilt.
LEMMA SecondIsTwice ==
  ASSUME IndexInv, NEW t \in Threads, NEW f \in Damaged, f \notin rebuilt[Owner(t)],
         pc[t] \in {"open", "test", "insert"}, job[t].tries > 0 \/ job[t].again
  PROVE  Twice
<1>1. job[t].met \in Damaged /\ job[t].met \in rebuilt[Owner(t)]
  BY Facts DEF ThreadInv, Met
<1> QED
  BY <1>1 DEF Twice

\* The job of a thread that has met a corrupt file, in a write or at open.
MetInWrite(old, f) == [old EXCEPT !.met = f, !.again = TRUE, !.tries = 0]
MetAtOpen(old, f) == [old EXCEPT !.met = f, !.tries = @ + 1]

LEMMA JobUpdates ==
  ASSUME NEW known, NEW old \in Job(known), NEW f \in known
  PROVE  /\ MetInWrite(old, f) \in Job(known) /\ MetInWrite(old, f).met = f
         /\ MetInWrite(old, f).event = old.event /\ MetInWrite(old, f).tries = 0
         /\ old.tries < 2 => MetAtOpen(old, f) \in Job(known)
         /\ MetAtOpen(old, f).met = f /\ MetAtOpen(old, f).event = old.event
         /\ MetAtOpen(old, f).tries = old.tries + 1
<1>1. old.tries < 2 => old.tries + 1 \in 0 .. 2
  BY DEF Job
<1>2. MetInWrite(old, f) \in Job(known) /\ MetInWrite(old, f).met = f
      /\ MetInWrite(old, f).event = old.event /\ MetInWrite(old, f).tries = 0
  <2> DEFINE new == MetInWrite(old, f)
  <2>1. new.met = f /\ new.event = old.event /\ new.tries = 0 /\ new.again = TRUE
    BY DEF Job, MetInWrite
  <2>2. DOMAIN new = {"event", "tries", "again", "met"}
    BY DEF Job, MetInWrite
  <2>3. new = [x \in {"event", "tries", "again", "met"} |-> new[x]]
    BY <2>2 DEF MetInWrite
  <2>4. old.event \in {None} \cup Events
    BY DEF Job
  <2> HIDE DEF new
  <2>5. new = [event |-> new.event, tries |-> new.tries, again |-> new.again, met |-> new.met]
    BY <2>3
  <2>6. [event |-> old.event, tries |-> 0, again |-> TRUE, met |-> f] \in Job(known)
    BY <2>4 DEF Job
  <2>7. new = [event |-> old.event, tries |-> 0, again |-> TRUE, met |-> f]
    BY <2>1, <2>5
  <2> QED
    BY <2>1, <2>6, <2>7 DEF new
<1>3. /\ MetAtOpen(old, f).met = f /\ MetAtOpen(old, f).event = old.event
      /\ MetAtOpen(old, f).tries = old.tries + 1
  BY DEF Job, MetAtOpen
<1>4. old.tries < 2 => MetAtOpen(old, f) \in Job(known)
  BY <1>1 DEF Job, MetAtOpen
<1> QED
  BY <1>2, <1>3, <1>4

LEMMA ReturnsKeep ==
  ASSUME IndexInv, NEW t \in Threads,
         \/ OpenGivesUp(t) \/ InsertSkips(t) \/ InsertRaises(t) \/ UnlinkFails(t)
         \/ Test(t) /\ conn[Owner(t)] = None
         \/ InsertCorrupt(t) /\ job[t].again
  PROVE  IndexInv'
<1>1. Busy(t) /\ Return(t) /\ UNCHANGED <<db, files, cutoff, conn, closer, begun, rebuilt>>
  BY DEF OpenGivesUp, InsertSkips, InsertRaises, UnlinkFails, Test, InsertCorrupt, Usable, At, Busy,
         shared
<1>2. job[t].event \in Events /\ gaveUp \subseteq Events
  BY <1>1, Facts DEF ThreadInv, Busy, WriteType
<1>3. Grown /\ DOMAIN files' = DOMAIN files
  BY <1>1, UnchangedGrows DEF IndexInv
<1>4. gaveUp' = gaveUp \/ (gaveUp' = gaveUp \cup {job[t].event} /\ Twice)
  <2>1. CASE OpenGivesUp(t)
    BY <2>1, Facts DEF OpenGivesUp, ThreadInv, Met
  <2>2. CASE InsertCorrupt(t) /\ job[t].again
    <3>1. conn[Owner(t)] \in Damaged
      BY <2>2, Facts DEF InsertCorrupt, Usable, Damaged
    <3>2. conn[Owner(t)] \notin rebuilt[Owner(t)]
      BY Facts DEF ProcessInv
    <3>3. pc[t] = "insert"
      BY <2>2 DEF InsertCorrupt, Usable, At
    <3> QED
      BY <2>2, <3>1, <3>2, <3>3, SecondIsTwice DEF InsertCorrupt
  <2>3. CASE InsertSkips(t) \/ InsertRaises(t) \/ UnlinkFails(t) \/ (Test(t) /\ conn[Owner(t)] = None)
    BY <2>3 DEF InsertSkips, InsertRaises, UnlinkFails, Test
  <2> QED
    BY <2>1, <2>2, <2>3
<1>5. disabled' \in [Processes -> BOOLEAN]
  <2>1. CASE UnlinkFails(t)
    BY <2>1, Facts DEF UnlinkFails, LocalType
  <2>2. CASE ~UnlinkFails(t)
    BY <2>2, Facts DEF LocalType, OpenGivesUp, InsertSkips, InsertRaises, Test, InsertCorrupt, local
  <2> QED
    BY <2>1, <2>2
<1> QED
  BY <1>1, <1>2, <1>3, <1>4, <1>5, ReturnKeeps

LEMMA InsertKeeps ==
  ASSUME IndexInv, NEW t \in Threads, Insert(t)
  PROVE  IndexInv'
<1> DEFINE c == conn[Owner(t)]
           row == [files[c] EXCEPT !.rows = @ \cup {job[t].event}]
<1>1. /\ Busy(t) /\ Return(t) /\ files[c].sound /\ files' = [files EXCEPT ![c] = row]
      /\ UNCHANGED <<db, cutoff, conn, disabled, closer, begun, gaveUp, rebuilt>>
      /\ c # None
  BY DEF Insert, Usable, At, Busy
<1>2. c \in DOMAIN files /\ files[c] \in Row /\ job[t].event \in Events
  BY <1>1, Facts DEF FilesType, ThreadInv, Busy
<1>3. row \in Row
  BY <1>2 DEF Row
<1> HIDE DEF row, c
<1>4. Grown /\ DOMAIN files' = DOMAIN files
  BY <1>1, <1>2, <1>3, UpdateGrows DEF IndexInv
<1>5. disabled' \in [Processes -> BOOLEAN] /\ gaveUp' \subseteq Events
  BY <1>1, Facts DEF LocalType, WriteType
<1> QED
  BY <1>1, <1>4, <1>5, ReturnKeeps

\* Steps that touch neither the files nor the connection.
LEMMA QuietKeeps ==
  ASSUME IndexInv, NEW t \in Threads,
         \/ Lock(t) \/ OpenKept(t) \/ OpenCorrupt(t)
         \/ Test(t) /\ conn[Owner(t)] # None
         \/ InsertCorrupt(t) /\ ~job[t].again
  PROVE  IndexInv'
<1> DEFINE k == conn[Owner(t)]
           r == rebuilt[Owner(t)]
<1>1. UNCHANGED <<db, files, cutoff, conn, disabled, closer, begun, gaveUp, rebuilt>>
  BY DEF Lock, OpenKept, OpenCorrupt, Test, InsertCorrupt, shared, local
<1>2. Grown /\ Damaged' = Damaged /\ DOMAIN files' = DOMAIN files /\ (Twice => Twice')
  BY <1>1, UnchangedGrows, TwiceGrows DEF IndexInv
<1>3. /\ k \in {None} \cup DOMAIN files' /\ r \in SUBSET DOMAIN files'
      /\ conn' = [conn EXCEPT ![Owner(t)] = k] /\ rebuilt' = [rebuilt EXCEPT ![Owner(t)] = r]
      /\ k \notin r /\ db' \in {None} \cup DOMAIN files'
  BY <1>1, <1>2, Facts DEF ProcessInv, FilesType
<1>4. \A q \in Processes : db' \notin rebuilt'[q]
  BY <1>1 DEF IndexInv, ProcessInv
<1>5. /\ ThreadInv(t) /\ job[t] \in Job(DOMAIN files')
      /\ job = [job EXCEPT ![t] = job[t]]
      /\ Busy(t) => mutex = [mutex EXCEPT ![Owner(t)] = t]
  BY <1>2, Facts
<1> HIDE DEF k, r
<1>6. CASE Lock(t)
  <2>1. /\ pc[t] = "lock" /\ mutex[Owner(t)] = Nobody /\ mutex' = [mutex EXCEPT ![Owner(t)] = t]
        /\ pc' = [pc EXCEPT ![t] = "open"] /\ job' = job
    BY <1>6 DEF Lock, At, Goto
  <2>2. job[t].tries = 0 /\ ~job[t].again /\ job[t].event \in Events
    BY <1>5, <2>1 DEF ThreadInv
  <2>3. "open" \in Step1 /\ job' = [job EXCEPT ![t] = job[t]]
        /\ ~(job[t].tries > 0) /\ ~(job[t].tries = 2)
    BY <1>5, <2>1, <2>2 DEF Step1
  <2> QED
    BY <1>1, <1>2, <1>3, <1>4, <1>5, <2>1, <2>2, <2>3, StepKeeps
<1>7. CASE OpenKept(t)
  <2>1. pc[t] = "open" /\ Busy(t) /\ pc' = [pc EXCEPT ![t] = "test"] /\ UNCHANGED <<job, mutex>>
    BY <1>7 DEF OpenKept, At, Goto, local, Busy
  <2>2. "test" \in Step1 /\ job' = [job EXCEPT ![t] = job[t]]
        /\ mutex' = [mutex EXCEPT ![Owner(t)] = t]
    BY <1>5, <2>1 DEF Step1
  <2>3. /\ job[t].event \in Events
        /\ job[t].tries > 0 \/ job[t].again => job[t].met \in Damaged' /\ job[t].met \in r
        /\ job[t].tries = 2 => Twice'
    BY <1>2, <1>5, <2>1 DEF ThreadInv, Met, r
  <2> QED
    BY <1>1, <1>2, <1>3, <1>4, <1>5, <2>1, <2>2, <2>3, StepKeeps
<1>8. CASE Test(t) /\ conn[Owner(t)] # None
  <2>1. /\ pc[t] = "test" /\ Busy(t) /\ pc' = [pc EXCEPT ![t] = "insert"]
        /\ UNCHANGED <<job, mutex>> /\ k # None
    BY <1>8 DEF Test, At, Goto, Busy, k
  <2>2. "insert" \in Step1 /\ job' = [job EXCEPT ![t] = job[t]]
        /\ mutex' = [mutex EXCEPT ![Owner(t)] = t]
    BY <1>5, <2>1 DEF Step1
  <2>3. /\ job[t].event \in Events
        /\ job[t].tries > 0 \/ job[t].again => job[t].met \in Damaged' /\ job[t].met \in r
        /\ job[t].tries = 2 => Twice'
    BY <1>2, <1>5, <2>1 DEF ThreadInv, Met, r
  <2> QED
    BY <1>1, <1>2, <1>3, <1>4, <1>5, <2>1, <2>2, <2>3, StepKeeps
<1>9. CASE OpenCorrupt(t)
  <2> DEFINE j == MetAtOpen(job[t], db)
  <2>1. /\ pc[t] = "open" /\ Busy(t) /\ pc' = [pc EXCEPT ![t] = "drop"]
        /\ job' = [job EXCEPT ![t] = j] /\ UNCHANGED mutex
        /\ db # None /\ ~files[db].sound /\ job[t].tries < 2
    BY <1>9 DEF OpenCorrupt, At, Goto, Busy, local, MetAtOpen
  <2>2. db \in Damaged /\ db \notin r
    BY <2>1, Facts DEF FilesType, Damaged, ProcessInv, r
  <2>3. job[t].tries > 0 => Twice
    BY <2>1, <2>2, SecondIsTwice DEF r
  <2>4. db \in DOMAIN files'
    BY <1>2, <2>2 DEF Damaged
  <2>5. /\ j \in Job(DOMAIN files') /\ j.met = db /\ j.event = job[t].event
        /\ j.tries = job[t].tries + 1
    BY <1>5, <2>1, <2>4, JobUpdates
  <2>6. /\ "drop" \in Step1 /\ mutex' = [mutex EXCEPT ![Owner(t)] = t]
        /\ j.event \in Events /\ (j.tries = 2 => Twice')
    <3>1. j.event \in Events
      BY <1>5, <2>1, <2>5 DEF ThreadInv
    <3>2. job[t].tries \in 0 .. 2
      BY Facts DEF Job
    <3> QED
      BY <1>2, <1>5, <2>1, <2>3, <2>5, <3>1, <3>2 DEF Step1
  <2> HIDE DEF j
  <2> QED
    BY <1>1, <1>2, <1>3, <1>4, <2>1, <2>2, <2>5, <2>6, StepKeeps
<1>10. CASE InsertCorrupt(t) /\ ~job[t].again
  <2> DEFINE j == MetInWrite(job[t], k)
  <2>1. /\ pc[t] = "insert" /\ Busy(t) /\ pc' = [pc EXCEPT ![t] = "drop"]
        /\ job' = [job EXCEPT ![t] = j] /\ UNCHANGED mutex
        /\ k # None /\ ~files[k].sound
    BY <1>10 DEF InsertCorrupt, Usable, At, Goto, Busy, k, MetInWrite
  <2>2. k \in Damaged
    BY <1>2, <1>3, <2>1 DEF Damaged
  <2>3. k \in DOMAIN files'
    BY <1>3, <2>1
  <2>4. j \in Job(DOMAIN files') /\ j.met = k /\ j.event = job[t].event /\ j.tries = 0
    BY <1>5, <2>3, JobUpdates
  <2>5. /\ "drop" \in Step1 /\ mutex' = [mutex EXCEPT ![Owner(t)] = t] /\ j.event \in Events
    BY <1>5, <2>1, <2>4 DEF Step1, ThreadInv
  <2> HIDE DEF j
  <2> QED
    BY <1>1, <1>2, <1>3, <1>4, <2>1, <2>2, <2>4, <2>5, 0 # 2, StepKeeps
<1> QED
  BY <1>6, <1>7, <1>8, <1>9, <1>10

LEMMA NoneIsNoFile == IndexInv => None \notin DOMAIN files
<1>1. IndexInv => files \in Seq(Row)
  BY TypeParts DEF IndexInv, FilesType
<1> QED
  BY <1>1 DEF None

LEMMA OpenNewKeeps ==
  ASSUME IndexInv, NEW t \in Threads, OpenNew(t)
  PROVE  IndexInv'
<1>1. /\ pc[t] = "open" /\ Busy(t) /\ pc' = [pc EXCEPT ![t] = "test"]
      /\ UNCHANGED <<cutoff, disabled, mutex, closer, job, begun, gaveUp, rebuilt>>
      /\ conn' = [conn EXCEPT ![Owner(t)] = db']
  BY DEF OpenNew, At, Goto, Busy
<1>2. /\ Grown /\ db' \in DOMAIN files' /\ \A q \in Processes : db' \notin rebuilt[q]
  <2>1. \A q \in Processes : rebuilt[q] \subseteq DOMAIN files
    BY Facts DEF LocalType
  <2>2. CASE files' = Append(files, [rows |-> {}, sound |-> TRUE]) /\ db' = Len(files')
    <3>1. [rows |-> {}, sound |-> TRUE] \in Row /\ [rows |-> {}, sound |-> TRUE].sound
      BY DEF Row
    <3>2. Grown /\ Len(files') \in DOMAIN files' /\ Len(files') \notin DOMAIN files
      BY <2>2, <3>1, AppendGrows DEF IndexInv
    <3> QED
      BY <2>1, <2>2, <3>2
  <2>3. CASE db # None /\ UNCHANGED <<db, files>>
    BY <2>3, Facts, UnchangedGrows DEF IndexInv, FilesType, ProcessInv
  <2> QED
    BY <2>2, <2>3 DEF OpenNew
<1>3. /\ ThreadInv(t) /\ job[t] \in Job(DOMAIN files') /\ job' = [job EXCEPT ![t] = job[t]]
      /\ rebuilt' = [rebuilt EXCEPT ![Owner(t)] = rebuilt[Owner(t)]]
      /\ mutex' = [mutex EXCEPT ![Owner(t)] = t]
      /\ rebuilt[Owner(t)] \in SUBSET DOMAIN files' /\ Owner(t) \in Processes
  <2>1. DOMAIN files \subseteq DOMAIN files'
    BY <1>2 DEF Grown
  <2> QED
    BY <1>1, <2>1, Facts DEF Job
<1>4. /\ job[t].event \in Events /\ "test" \in Step1
      /\ job[t].tries > 0 \/ job[t].again =>
            job[t].met \in Damaged' /\ job[t].met \in rebuilt[Owner(t)]
      /\ job[t].tries = 2 => Twice'
  BY <1>1, <1>2, <1>3, TwiceGrows DEF ThreadInv, Met, Grown, Step1
<1> QED
  BY <1>1, <1>2, <1>3, <1>4, StepKeeps

LEMMA DropKeeps ==
  ASSUME IndexInv, NEW t \in Threads, Drop(t)
  PROVE  IndexInv'
<1>1. /\ pc[t] = "drop" /\ Busy(t) /\ pc' = [pc EXCEPT ![t] = "unlink"]
      /\ UNCHANGED <<db, files, cutoff, disabled, mutex, closer, job, begun, gaveUp, rebuilt>>
      /\ conn' = [conn EXCEPT ![Owner(t)] = None]
  BY DEF Drop, At, Goto, Busy, shared
<1>2. Grown /\ Damaged' = Damaged /\ DOMAIN files' = DOMAIN files
  BY <1>1, UnchangedGrows DEF IndexInv
<1>3. /\ ThreadInv(t) /\ job[t] \in Job(DOMAIN files') /\ job' = [job EXCEPT ![t] = job[t]]
      /\ rebuilt' = [rebuilt EXCEPT ![Owner(t)] = rebuilt[Owner(t)]]
      /\ mutex' = [mutex EXCEPT ![Owner(t)] = t]
      /\ rebuilt[Owner(t)] \in SUBSET DOMAIN files' /\ db' \in {None} \cup DOMAIN files'
      /\ None \notin rebuilt[Owner(t)] /\ \A q \in Processes : db' \notin rebuilt'[q]
  BY <1>1, <1>2, Facts, NoneIsNoFile DEF FilesType, IndexInv, ProcessInv
<1>4. /\ job[t].event \in Events /\ "unlink" \in Step1 /\ job[t].met \in Damaged'
      /\ job[t].met \notin rebuilt[Owner(t)] /\ (job[t].tries = 2 => Twice')
  BY <1>1, <1>2, <1>3, TwiceGrows DEF ThreadInv, Met, Step1
<1> QED
  BY <1>1, <1>2, <1>3, <1>4, StepKeeps

LEMMA UnlinkKeeps ==
  ASSUME IndexInv, NEW t \in Threads, Unlink(t)
  PROVE  IndexInv'
<1> DEFINE r == rebuilt[Owner(t)] \cup {job[t].met}
<1>1. /\ pc[t] = "unlink" /\ Busy(t) /\ pc' = [pc EXCEPT ![t] = "unlink log"] /\ db' = None
      /\ UNCHANGED <<files, cutoff, conn, disabled, mutex, closer, job, begun, gaveUp>>
      /\ rebuilt' = [rebuilt EXCEPT ![Owner(t)] = r]
  BY DEF Unlink, At, Goto, Busy, local
<1>2. Grown /\ Damaged' = Damaged /\ DOMAIN files' = DOMAIN files
  BY <1>1, UnchangedGrows DEF IndexInv
<1>3. /\ ThreadInv(t) /\ job[t] \in Job(DOMAIN files') /\ job' = [job EXCEPT ![t] = job[t]]
      /\ mutex' = [mutex EXCEPT ![Owner(t)] = t] /\ conn[Owner(t)] = None
  BY <1>1, <1>2, Facts DEF ThreadInv, Met
<1>4. /\ job[t].event \in Events /\ "unlink log" \in Step1 /\ job[t].met \in Damaged'
      /\ (job[t].tries = 2 => Twice')
  BY <1>1, <1>2, <1>3, TwiceGrows DEF ThreadInv, Met, Step1
<1>5. r \in SUBSET DOMAIN files' /\ None \notin r
  BY <1>2, <1>4, Facts, NoneIsNoFile DEF Damaged
<1>6. \A q \in Processes : db' \notin rebuilt'[q]
  BY <1>1, <1>2, <1>5, Facts, NoneIsNoFile DEF LocalType
<1>7. conn' = [conn EXCEPT ![Owner(t)] = None] /\ job[t].met \in r
  BY <1>1, <1>3, Facts
<1> HIDE DEF r
<1> QED
  BY <1>1, <1>2, <1>3, <1>4, <1>5, <1>6, <1>7, StepKeeps

LEMMA UnlinkLogKeeps ==
  ASSUME IndexInv, NEW t \in Threads, UnlinkLog(t)
  PROVE  IndexInv'
<1>1. /\ pc[t] = "unlink log" /\ Busy(t) /\ pc' = [pc EXCEPT ![t] = "open"]
      /\ UNCHANGED <<cutoff, conn, disabled, mutex, closer, job, begun, gaveUp, rebuilt>>
  BY DEF UnlinkLog, At, Goto, Busy, local
<1>2. /\ Grown /\ db' \in {None} \cup DOMAIN files' /\ \A q \in Processes : db' \notin rebuilt[q]
  <2>1. \A q \in Processes : rebuilt[q] \subseteq DOMAIN files
    BY Facts DEF LocalType
  <2>2. CASE UNCHANGED <<db, files>>
    BY <2>2, Facts, UnchangedGrows DEF IndexInv, FilesType, ProcessInv
  <2>3. CASE /\ db # None /\ files[db].sound /\ db' = Len(files')
             /\ \E left \in SUBSET files[db].rows :
                   files' = Append(files, [rows |-> left, sound |-> TRUE])
    <3>1. PICK left \in SUBSET files[db].rows :
                   files' = Append(files, [rows |-> left, sound |-> TRUE])
      BY <2>3
    <3>2. files[db] \in Row
      BY <2>3, Facts DEF FilesType
    <3>3. [rows |-> left, sound |-> TRUE] \in Row /\ [rows |-> left, sound |-> TRUE].sound
      BY <3>2 DEF Row
    <3>4. Grown /\ Len(files') \in DOMAIN files' /\ Len(files') \notin DOMAIN files
      BY <3>1, <3>3, AppendGrows DEF IndexInv
    <3> QED
      BY <2>1, <2>3, <3>4
  <2> QED
    BY <2>2, <2>3 DEF UnlinkLog
<1>3. /\ ThreadInv(t) /\ job[t] \in Job(DOMAIN files') /\ job' = [job EXCEPT ![t] = job[t]]
      /\ rebuilt' = [rebuilt EXCEPT ![Owner(t)] = rebuilt[Owner(t)]]
      /\ conn' = [conn EXCEPT ![Owner(t)] = None] /\ None \notin rebuilt[Owner(t)]
      /\ mutex' = [mutex EXCEPT ![Owner(t)] = t]
      /\ rebuilt[Owner(t)] \in SUBSET DOMAIN files'
  <2>1. DOMAIN files \subseteq DOMAIN files'
    BY <1>2 DEF Grown
  <2>2. conn[Owner(t)] = None
    BY <1>1, Facts DEF ThreadInv, Met
  <2> QED
    BY <1>1, <2>1, <2>2, Facts, NoneIsNoFile DEF Job
<1>4. /\ job[t].event \in Events /\ "open" \in Step1
      /\ job[t].met \in Damaged' /\ job[t].met \in rebuilt[Owner(t)]
      /\ job[t].tries = 2 => Twice'
  <2>1. job[t].event \in Events /\ Met(t)
    BY <1>1, <1>3 DEF ThreadInv
  <2>2. job[t].met \in Damaged /\ job[t].met \in rebuilt[Owner(t)]
    <3>1. pc[t] \in {"drop", "unlink", "unlink log"}
      BY <1>1
    <3>2. job[t].met \in Damaged
      BY <2>1, <3>1, Zenon DEF Met
    <3>3. pc[t] = "unlink log" => job[t].met \in rebuilt[Owner(t)]
      BY <2>1 DEF Met
    <3> QED
      BY <1>1, <3>2, <3>3
  <2>3. job[t].tries = 2 => Twice'
    BY <1>2, <2>1, TwiceGrows DEF Met, Grown
  <2> QED
    BY <1>2, <2>1, <2>2, <2>3 DEF Grown, Step1
<1> QED
  BY <1>1, <1>2, <1>3, <1>4, StepKeeps

LEMMA CallKeeps ==
  ASSUME IndexInv, NEW t \in Threads, Call(t)
  PROVE  IndexInv'
<1>1. /\ pc[t] = "idle" /\ begun < MaxEvents /\ begun' = begun + 1
      /\ UNCHANGED <<db, files, cutoff, conn, disabled, mutex, closer, gaveUp, rebuilt>>
  BY DEF Call, At, shared, local
<1>2. FilesType /\ LocalType /\ CloserType /\ WriteType /\ ThreadInv(t)
  BY Facts
<1>3. begun' \in 0 .. MaxEvents /\ begun' \in Events
  BY <1>1, <1>2, IndexAssumption DEF WriteType, Events
<1>4. Grown /\ Damaged' = Damaged
  BY <1>1, UnchangedGrows DEF IndexInv
<1>5. job[t] = Idle
  BY <1>1, <1>2 DEF ThreadInv
<1> DEFINE j == [job[t] EXCEPT !.event = begun']
<1>6. j \in Job(DOMAIN files) /\ j.event = begun' /\ j.tries = 0 /\ ~j.again
  <2>1. job[t] \in Job(DOMAIN files) /\ job[t].tries = 0 /\ ~job[t].again
    BY <1>5, Facts DEF Idle
  <2> QED
    BY <1>3, <2>1 DEF Job
<1> HIDE DEF j
<1>7. \/ pc' = [pc EXCEPT ![t] = "lock"] /\ job' = [job EXCEPT ![t] = j]
      \/ UNCHANGED <<pc, job>>
  BY DEF Call, Goto, j
<1>8. WriteType'
  BY <1>1, <1>2, <1>3, <1>6, <1>7 DEF WriteType
<1>9. TypeOK'
  <2>1. FilesType' /\ LocalType' /\ CloserType'
    BY <1>1, <1>2 DEF FilesType, LocalType, CloserType
  <2> QED
    BY <1>8, <2>1, TypePartsNext
<1>10. ThreadInv(t)'
  <2>1. CASE pc' = [pc EXCEPT ![t] = "lock"] /\ job' = [job EXCEPT ![t] = j]
    <3>1. pc'[t] = "lock" /\ job'[t] = j
      BY <1>2, <2>1 DEF WriteType
    <3>2. ~(job'[t].tries > 0) /\ ~(job'[t].tries = 2) /\ ~job'[t].again
      BY <1>6, <3>1
    <3>3. pc'[t] \notin {"open", "test", "insert", "drop", "unlink", "unlink log"}
      BY <3>1
    <3>4. Met(t)'
      BY <3>2, <3>3, Zenon DEF Met
    <3> QED
      BY <1>3, <1>6, <3>1, <3>4 DEF ThreadInv, Busy
  <2>2. CASE UNCHANGED <<pc, job>>
    BY <1>1, <1>2, <1>4, <2>2, TwiceGrows DEF ThreadInv, Met, Busy
  <2> QED
    BY <1>7, <2>1, <2>2
<1>11. ASSUME NEW u \in Others(t) PROVE ThreadInv(u)'
  <2>1. \A x \in Others(t) : pc'[x] = pc[x] /\ job'[x] = job[x]
    BY <1>2, <1>7 DEF WriteType, Others
  <2> QED
    BY <1>1, <1>4, <2>1, OthersKeep DEF Grown
<1>12. \A q \in Processes : ProcessInv(q)'
  BY <1>1 DEF IndexInv, ProcessInv
<1>13. GaveUpInv'
  BY <1>1, <1>4, TwiceGrows DEF IndexInv, GaveUpInv
<1> QED
  BY <1>9, <1>10, <1>11, <1>12, <1>13 DEF IndexInv, Others
-----------------------------------------------------------------------------
(* close() and the surroundings.                                           *)

\* Steps of no thread, that leave the connections and what was rebuilt.
LEMMA NobodysStepKeeps ==
  ASSUME IndexInv, Grown, DOMAIN files' = DOMAIN files, UNCHANGED <<db, local, write, rebuilt>>,
         cutoff' \in {0} \cup Events, CloserType',
         \A p \in Processes : /\ closer[p].at = "done" => closer'[p].at = "done"
                              /\ closer'[p].at \in {"prune", "close", "reset"} => closer'[p].on # None
  PROVE  IndexInv'
<1>1. FilesType /\ LocalType /\ WriteType
  BY TypeParts DEF IndexInv
<1>2. UNCHANGED <<conn, disabled, mutex, pc, job, begun, gaveUp>>
  BY DEF local, write
<1>3. TypeOK'
  <2>1. FilesType' /\ LocalType' /\ WriteType'
    BY <1>1, <1>2 DEF FilesType, LocalType, WriteType, Grown
  <2> QED
    BY <2>1, TypePartsNext
<1>4. ASSUME NEW u \in Threads PROVE ThreadInv(u)'
  <2>1. ThreadInv(u) /\ Owner(u) \in Processes /\ (Twice => Twice')
    BY OwnerType, TwiceGrows DEF IndexInv, Grown
  <2>2. Met(u)'
    BY <1>2, <2>1 DEF ThreadInv, Met, Grown
  <2> QED
    BY <1>2, <2>1, <2>2 DEF ThreadInv, Busy
<1>5. \A p \in Processes : ProcessInv(p)'
  BY <1>2 DEF IndexInv, ProcessInv
<1>6. GaveUpInv'
  BY <1>2, TwiceGrows DEF IndexInv, GaveUpInv, Grown
<1> QED
  BY <1>3, <1>4, <1>5, <1>6 DEF IndexInv

Closing == [at : {"no", "prune", "close", "reset", "done"}, on : {None} \cup DOMAIN files]

\* One process's close() goes on, and no further than the step it is at.
LEMMA CloserMoves ==
  ASSUME IndexInv, NEW p \in Processes, NEW new \in Closing, closer' = [closer EXCEPT ![p] = new],
         DOMAIN files' = DOMAIN files, closer[p].at # "done",
         new.at \in {"prune", "close", "reset"} => new.on # None
  PROVE  /\ CloserType'
         /\ \A q \in Processes :
               /\ closer[q].at = "done" => closer'[q].at = "done"
               /\ closer'[q].at \in {"prune", "close", "reset"} => closer'[q].on # None
<1>1. CloserType
  BY TypeParts DEF IndexInv
<1>2. CloserType'
  BY <1>1 DEF CloserType, Closing
<1>3. ASSUME NEW q \in Processes
      PROVE  /\ closer[q].at = "done" => closer'[q].at = "done"
             /\ closer'[q].at \in {"prune", "close", "reset"} => closer'[q].on # None
  <2>1. CASE q = p
    BY <1>1, <2>1 DEF CloserType
  <2>2. CASE q # p
    BY <1>1, <2>2 DEF CloserType, IndexInv, ProcessInv
  <2> QED
    BY <2>1, <2>2
<1> QED
  BY <1>2, <1>3

\* A step of close() that leaves its file.
LEMMA CloseStepMoves ==
  ASSUME IndexInv, NEW p \in Processes, NEW from, NEW to, CloseStep(p, from, to),
         DOMAIN files' = DOMAIN files, from \in {"prune", "close", "reset"},
         to \in {"close", "reset", "done"}
  PROVE  /\ CloserType' /\ closer[p].on \in DOMAIN files
         /\ \A q \in Processes :
               /\ closer[q].at = "done" => closer'[q].at = "done"
               /\ closer'[q].at \in {"prune", "close", "reset"} => closer'[q].on # None
<1> DEFINE new == [closer[p] EXCEPT !.at = to]
<1>1. closer[p].at = from /\ closer' = [closer EXCEPT ![p] = new]
  BY DEF CloseStep
<1>2. closer[p] \in Closing /\ closer[p].on # None
  BY <1>1, TypeParts DEF IndexInv, CloserType, Closing, ProcessInv
<1>3. new \in Closing /\ new.on = closer[p].on
  BY <1>2 DEF Closing
<1> HIDE DEF new
<1>4. closer[p].on \in DOMAIN files
  BY <1>2 DEF Closing
<1> QED
  BY <1>1, <1>2, <1>3, <1>4, CloserMoves

LEMMA CloseKeeps ==
  ASSUME IndexInv, NEW p \in Processes, Close(p)
  PROVE  IndexInv'
<1> DEFINE new == IF conn[p] = None THEN [at |-> "done", on |-> None]
                                    ELSE [at |-> "prune", on |-> conn[p]]
<1>1. closer[p].at = "no" /\ closer' = [closer EXCEPT ![p] = new]
      /\ UNCHANGED <<db, files, cutoff, local, write, rebuilt>>
  BY DEF Close, shared
<1>2. FilesType /\ LocalType
  BY TypeParts DEF IndexInv
<1>3. new \in Closing /\ (new.at \in {"prune", "close", "reset"} => new.on # None)
  BY <1>2 DEF LocalType, Closing
<1> HIDE DEF new
<1>4. Grown /\ cutoff' \in {0} \cup Events
  BY <1>1, <1>2, UnchangedGrows DEF IndexInv, FilesType
<1> QED
  BY <1>1, <1>3, <1>4, CloserMoves, NobodysStepKeeps

LEMMA PruneKeeps ==
  ASSUME IndexInv, NEW p \in Processes, Prune(p)
  PROVE  IndexInv' /\ closer[p].on \in DOMAIN files
<1> DEFINE f == closer[p].on
           row == [files[f] EXCEPT !.rows = {e \in @ : e > cutoff}]
<1>1. /\ CloseStep(p, "prune", "close") /\ UNCHANGED <<db, cutoff, local, write, rebuilt>>
      /\ UNCHANGED files \/ files' = [files EXCEPT ![f] = row]
  BY DEF Prune
<1>2. FilesType /\ CloserType /\ f \in {None} \cup DOMAIN files /\ f # None
  <2>1. closer[p] \in Closing /\ closer[p].at = "prune"
    BY <1>1, TypeParts DEF IndexInv, CloserType, Closing, CloseStep
  <2> QED
    BY <2>1, TypeParts DEF IndexInv, ProcessInv, Closing
<1>3. f \in DOMAIN files /\ files[f] \in Row
  BY <1>2 DEF FilesType
<1>4. row \in Row /\ row.sound = files[f].sound
  BY <1>3 DEF Row
<1> HIDE DEF row, f
<1>5. Grown /\ DOMAIN files' = DOMAIN files
  BY <1>1, <1>3, <1>4, UnchangedGrows, UpdateGrows DEF IndexInv
<1>6. cutoff' \in {0} \cup Events
  BY <1>1, <1>2 DEF FilesType
<1> QED
  BY <1>1, <1>3, <1>5, <1>6, CloseStepMoves, NobodysStepKeeps DEF f

LEMMA CloseHandleKeeps ==
  ASSUME IndexInv, NEW p \in Processes, CloseHandle(p)
  PROVE  IndexInv'
<1>1. CloseStep(p, "close", "reset") /\ UNCHANGED <<db, files, cutoff, local, write, rebuilt>>
  BY DEF CloseHandle, shared
<1>2. Grown /\ cutoff' \in {0} \cup Events
  BY <1>1, UnchangedGrows, TypeParts DEF IndexInv, FilesType
<1> QED
  BY <1>1, <1>2, CloseStepMoves, NobodysStepKeeps

LEMMA ResetKeeps ==
  ASSUME IndexInv, NEW p \in Processes, Reset(p)
  PROVE  IndexInv'
<1>1. /\ CloseStep(p, "reset", "done") /\ conn' = [conn EXCEPT ![p] = None]
      /\ UNCHANGED <<db, files, cutoff, disabled, mutex, write, rebuilt>>
  BY DEF Reset, shared
<1>2. UNCHANGED <<pc, job, begun, gaveUp>>
  BY <1>1 DEF write
<1>3. FilesType /\ LocalType /\ CloserType /\ WriteType
  BY TypeParts DEF IndexInv
<1>4. CloserType' /\ \A q \in Processes :
               /\ closer[q].at = "done" => closer'[q].at = "done"
               /\ closer'[q].at \in {"prune", "close", "reset"} => closer'[q].on # None
  BY <1>1, CloseStepMoves
<1>5. closer'[p].at = "done"
  BY <1>1, <1>3 DEF CloseStep, CloserType
<1>6. TypeOK'
  <2>1. FilesType' /\ LocalType' /\ WriteType'
    BY <1>1, <1>2, <1>3 DEF FilesType, LocalType, WriteType
  <2> QED
    BY <1>4, <2>1, TypePartsNext
<1>7. \A q \in Processes : conn'[q] = IF q = p THEN None ELSE conn[q]
  BY <1>1, <1>3 DEF LocalType
<1>8. Damaged' = Damaged /\ (Twice => Twice')
  BY <1>1, UnchangedGrows, TwiceGrows DEF IndexInv
<1>9. ASSUME NEW u \in Threads PROVE ThreadInv(u)'
  <2>1. ThreadInv(u) /\ Owner(u) \in Processes
    BY OwnerType DEF IndexInv
  <2>2. Met(u)'
    BY <1>1, <1>2, <1>7, <1>8, <2>1 DEF ThreadInv, Met
  <2>3. pc'[u] = "insert" => conn'[Owner(u)] # None \/ closer'[Owner(u)].at = "done"
    BY <1>2, <1>4, <1>5, <1>7, <2>1 DEF ThreadInv
  <2> QED
    BY <1>1, <1>2, <2>1, <2>2, <2>3 DEF ThreadInv, Busy
<1>10. ASSUME NEW q \in Processes PROVE ProcessInv(q)'
  <2>1. None \notin rebuilt[q]
    BY <1>3, NoneIsNoFile DEF LocalType
  <2> QED
    BY <1>1, <1>4, <1>7, <2>1 DEF IndexInv, ProcessInv
<1>11. GaveUpInv'
  BY <1>2, <1>8 DEF IndexInv, GaveUpInv
<1> QED
  BY <1>6, <1>9, <1>10, <1>11 DEF IndexInv

LEMMA DieKeeps ==
  ASSUME IndexInv, NEW p \in Processes, Die(p)
  PROVE  IndexInv'
<1> DEFINE new == [at |-> "no", on |-> None]
<1>1. /\ closer' = [closer EXCEPT ![p] = new] /\ conn' = [conn EXCEPT ![p] = None]
      /\ disabled' = [disabled EXCEPT ![p] = FALSE] /\ mutex' = [mutex EXCEPT ![p] = Nobody]
      /\ pc' = [t \in Threads |-> IF Owner(t) = p THEN "idle" ELSE pc[t]]
      /\ job' = [t \in Threads |-> IF Owner(t) = p THEN Idle ELSE job[t]]
      /\ rebuilt' = [rebuilt EXCEPT ![p] = {}]
      /\ UNCHANGED <<db, files, cutoff, begun, gaveUp>>
  BY DEF Die, shared
<1>2. FilesType /\ LocalType /\ CloserType /\ WriteType
  BY TypeParts DEF IndexInv
<1>3. Idle \in Job(DOMAIN files)
  BY DEF Idle, Job
<1>4. TypeOK'
  <2>1. FilesType' /\ CloserType'
    BY <1>1, <1>2 DEF FilesType, CloserType
  <2>2. LocalType'
    BY <1>1, <1>2 DEF LocalType
  <2>3. WriteType'
    BY <1>1, <1>2, <1>3 DEF WriteType
  <2> QED
    BY <2>1, <2>2, <2>3, TypePartsNext
<1>5. Damaged' = Damaged /\ (Twice => Twice')
  BY <1>1, UnchangedGrows, TwiceGrows DEF IndexInv
<1>6. ASSUME NEW u \in Threads PROVE ThreadInv(u)'
  <2>1. ThreadInv(u) /\ Owner(u) \in Processes
    BY OwnerType DEF IndexInv
  <2>2. CASE Owner(u) = p
    <3>1. pc'[u] = "idle" /\ job'[u] = Idle
      BY <1>1, <2>2
    <3> QED
      BY <3>1 DEF ThreadInv, Met, Idle, Busy
  <2>3. CASE Owner(u) # p
    <3>1. /\ pc'[u] = pc[u] /\ job'[u] = job[u] /\ conn'[Owner(u)] = conn[Owner(u)]
          /\ mutex'[Owner(u)] = mutex[Owner(u)] /\ rebuilt'[Owner(u)] = rebuilt[Owner(u)]
          /\ closer'[Owner(u)] = closer[Owner(u)]
      BY <1>1, <1>2, <2>1, <2>3 DEF LocalType, CloserType
    <3>2. Met(u)'
      BY <1>5, <2>1, <3>1 DEF ThreadInv, Met
    <3> QED
      BY <2>1, <3>1, <3>2 DEF ThreadInv, Busy
  <2> QED
    BY <2>2, <2>3
<1>7. ASSUME NEW q \in Processes PROVE ProcessInv(q)'
  <2>1. CASE q = p
    <3>1. rebuilt'[q] = {} /\ closer'[q].at = "no"
      BY <1>1, <1>2, <2>1 DEF LocalType, CloserType
    <3> QED
      BY <3>1 DEF ProcessInv
  <2>2. CASE q # p
    BY <1>1, <1>2, <2>2 DEF LocalType, CloserType, IndexInv, ProcessInv
  <2> QED
    BY <2>1, <2>2
<1>8. GaveUpInv'
  BY <1>1, <1>5 DEF IndexInv, GaveUpInv
<1> QED
  BY <1>4, <1>6, <1>7, <1>8 DEF IndexInv

LEMMA ExpireKeeps ==
  ASSUME IndexInv, Expire
  PROVE  IndexInv' /\ cutoff' \in Events /\ cutoff' > cutoff
<1>1. cutoff < begun /\ cutoff' = cutoff + 1 /\ UNCHANGED <<db, files, local, closer, write, rebuilt>>
  BY DEF Expire
<1>2. FilesType /\ CloserType /\ WriteType
  BY TypeParts DEF IndexInv
<1>3. cutoff' \in Events /\ cutoff' > cutoff
  BY <1>1, <1>2, IndexAssumption DEF FilesType, WriteType, Events
<1>4. Grown /\ DOMAIN files' = DOMAIN files /\ CloserType'
  BY <1>1, <1>2, UnchangedGrows DEF IndexInv, CloserType
<1>5. \A p \in Processes : /\ closer[p].at = "done" => closer'[p].at = "done"
                           /\ closer'[p].at \in {"prune", "close", "reset"} => closer'[p].on # None
  BY <1>1 DEF IndexInv, ProcessInv
<1> QED
  BY <1>1, <1>3, <1>4, <1>5, NobodysStepKeeps

LEMMA DamageKeeps ==
  ASSUME IndexInv, Damage
  PROVE  IndexInv' /\ Damaged' # {}
<1> DEFINE row == [files[db] EXCEPT !.sound = FALSE]
<1>1. /\ db # None /\ files[db].sound /\ files' = [files EXCEPT ![db] = row]
      /\ UNCHANGED <<db, cutoff, local, closer, write, rebuilt>>
  BY DEF Damage
<1>2. FilesType /\ CloserType
  BY TypeParts DEF IndexInv
<1>3. db \in DOMAIN files /\ files[db] \in Row
  BY <1>1, <1>2 DEF FilesType
<1>4. row \in Row /\ ~row.sound
  BY <1>3 DEF Row
<1> HIDE DEF row
<1>5. Grown /\ DOMAIN files' = DOMAIN files /\ files'[db] = row
  BY <1>1, <1>3, <1>4, UpdateGrows DEF IndexInv
<1>6. db \in Damaged'
  BY <1>1, <1>3, <1>4, <1>5 DEF Damaged
<1>7. cutoff' \in {0} \cup Events /\ CloserType'
  BY <1>1, <1>2, <1>5 DEF FilesType, CloserType
<1>8. \A p \in Processes : /\ closer[p].at = "done" => closer'[p].at = "done"
                           /\ closer'[p].at \in {"prune", "close", "reset"} => closer'[p].on # None
  BY <1>1 DEF IndexInv, ProcessInv
<1> QED
  BY <1>1, <1>5, <1>6, <1>7, <1>8, NobodysStepKeeps
-----------------------------------------------------------------------------
(* The theorems.                                                           *)

LEMMA InitIndex == Init => IndexInv
<1> SUFFICES ASSUME Init PROVE IndexInv
  OBVIOUS
<1>1. /\ db = None /\ files = <<>> /\ cutoff = 0
      /\ conn = [p \in Processes |-> None] /\ disabled = [p \in Processes |-> FALSE]
      /\ mutex = [p \in Processes |-> Nobody]
      /\ closer = [p \in Processes |-> [at |-> "no", on |-> None]]
      /\ pc = [t \in Threads |-> "idle"] /\ job = [t \in Threads |-> Idle]
      /\ begun = 0 /\ gaveUp = {} /\ rebuilt = [p \in Processes |-> {}]
  BY DEF Init
<1>2. Idle \in Job(DOMAIN files)
  BY DEF Idle, Job
<1>3. FilesType /\ LocalType /\ CloserType /\ WriteType
  BY <1>1, <1>2, IndexAssumption DEF FilesType, LocalType, CloserType, WriteType
<1>4. \A t \in Threads : ThreadInv(t)
  <2> TAKE t \in Threads
  <2>1. pc[t] = "idle" /\ job[t] = Idle
    BY <1>1
  <2> QED
    BY <2>1 DEF ThreadInv, Met, Idle, Busy
<1>5. \A p \in Processes : ProcessInv(p)
  BY <1>1 DEF ProcessInv
<1> QED
  BY <1>1, <1>3, <1>4, <1>5, TypeParts DEF IndexInv, GaveUpInv

LEMMA ThreadStepKeeps ==
  ASSUME IndexInv, NEW t \in Threads, Call(t) \/ Step(t)
  PROVE  IndexInv'
<1>1. CASE Call(t)
  BY <1>1, CallKeeps
<1>2. CASE Lock(t) \/ OpenKept(t) \/ OpenCorrupt(t)
  BY <1>2, QuietKeeps
<1>3. CASE OpenGivesUp(t) \/ InsertSkips(t) \/ InsertRaises(t) \/ UnlinkFails(t)
  BY <1>3, ReturnsKeep
<1>4. CASE Test(t)
  BY <1>4, QuietKeeps, ReturnsKeep
<1>5. CASE InsertCorrupt(t)
  BY <1>5, QuietKeeps, ReturnsKeep
<1>6. CASE OpenNew(t) \/ Insert(t) \/ Drop(t) \/ Unlink(t) \/ UnlinkLog(t)
  BY <1>6, OpenNewKeeps, InsertKeeps, DropKeeps, UnlinkKeeps, UnlinkLogKeeps
<1> QED
  BY <1>1, <1>2, <1>3, <1>4, <1>5, <1>6 DEF Step

LEMMA StutterKeeps == IndexInv /\ UNCHANGED vars => IndexInv'
<1> SUFFICES ASSUME IndexInv, UNCHANGED vars PROVE IndexInv'
  OBVIOUS
<1>1. UNCHANGED <<db, files, cutoff, local, write, closer, rebuilt>>
  BY DEF vars, shared
<1>2. Grown /\ CloserType' /\ cutoff' \in {0} \cup Events
  BY <1>1, UnchangedGrows, TypeParts DEF IndexInv, CloserType, FilesType
<1>3. \A p \in Processes : /\ closer[p].at = "done" => closer'[p].at = "done"
                           /\ closer'[p].at \in {"prune", "close", "reset"} => closer'[p].on # None
  BY <1>1 DEF IndexInv, ProcessInv
<1> QED
  BY <1>1, <1>2, <1>3, NobodysStepKeeps

\* The inductive invariant.
THEOREM IndexInvariant == Spec => []IndexInv
<1>1. IndexInv /\ [Next]_vars => IndexInv'
  <2> SUFFICES ASSUME IndexInv, [Next]_vars PROVE IndexInv'
    OBVIOUS
  <2>1. ASSUME NEW t \in Threads, Call(t) \/ Step(t) PROVE IndexInv'
    BY <2>1, ThreadStepKeeps
  <2>2. ASSUME NEW p \in Processes,
               Close(p) \/ Prune(p) \/ CloseHandle(p) \/ Reset(p) \/ Die(p)
        PROVE  IndexInv'
    BY <2>2, CloseKeeps, PruneKeeps, CloseHandleKeeps, ResetKeeps, DieKeeps
  <2>3. CASE Expire \/ Damage
    BY <2>3, ExpireKeeps, DamageKeeps
  <2>4. CASE UNCHANGED vars
    BY <2>4, StutterKeeps
  <2> QED
    BY <2>1, <2>2, <2>3, <2>4 DEF Next
<1> QED
  BY <1>1, InitIndex, PTL DEF Spec

\* Every variable keeps its type.
THEOREM IndexTypes == Spec => []TypeOK
<1>1. IndexInv => TypeOK
  BY DEF IndexInv
<1> QED
  BY <1>1, IndexInvariant, PTL

\* One damaged file never costs the event whose write finds it.
THEOREM SecondTryAlwaysEnough == Spec => []SecondTryIsEnough
<1>1. IndexInv => SecondTryIsEnough
  <2> SUFFICES ASSUME IndexInv, gaveUp # {} PROVE Cardinality(Damaged) > 1
    BY DEF SecondTryIsEnough
  <2>1. PICK f \in Damaged, g \in Damaged : f # g
    BY DEF IndexInv, GaveUpInv, Twice
  <2>2. files \in Seq(Row)
    BY TypeParts DEF IndexInv, FilesType
  <2>3. DOMAIN files = 1 .. Len(files) /\ Len(files) \in Nat
    BY <2>2
  <2>4. IsFiniteSet(DOMAIN files)
    BY <2>3, FS_Interval
  <2>5. IsFiniteSet(Damaged) /\ Cardinality(Damaged) \in Nat
    BY <2>4, FS_Subset, FS_CardinalityType DEF Damaged
  <2>6. Cardinality(Damaged) # 0
    BY <2>1, <2>5, FS_EmptySet
  <2>7. Cardinality(Damaged) # 1
    BY <2>1, <2>5, FS_Singleton
  <2> QED
    BY <2>5, <2>6, <2>7
<1> QED
  BY <1>1, IndexInvariant, PTL

\* No process unlinks twice for one damaged file.
THEOREM AlwaysOneRebuildEach == Spec => OneRebuildEach
<1>1. ASSUME IndexInv, NEW t \in Threads, Unlink(t) PROVE job[t].met \notin rebuilt[Owner(t)]
  <2>1. pc[t] = "unlink" /\ Met(t)
    BY <1>1 DEF Unlink, At, IndexInv, ThreadInv
  <2> QED
    BY <2>1 DEF Met
<1>2. IndexInv => [\A t \in Threads : Unlink(t) => job[t].met \notin rebuilt[Owner(t)]]_vars
  BY <1>1
<1> QED
  BY <1>2, IndexInvariant, PTL DEF OneRebuildEach

\* Only a process that met another, damaged, file unlinks a sound one.
LEMMA MetIsDamaged ==
  ASSUME IndexInv, NEW t \in Threads, pc[t] \in {"drop", "unlink", "unlink log"}
  PROVE  job[t].met \in Damaged
<1>1. Met(t)
  BY DEF IndexInv, ThreadInv
<1>2. pc[t] \in {"drop", "unlink", "unlink log"} \/ job[t].tries > 0 \/ job[t].again
        => job[t].met \in Damaged
  BY <1>1 DEF Met
<1> QED
  BY <1>2

THEOREM SoundAlwaysKeptByWitness == Spec => SoundKeptByWitness
<1>1. ASSUME IndexInv, NEW t \in Threads, Unlink(t), db # None, files[db].sound
      PROVE  job[t].met # db /\ ~files[job[t].met].sound
  <2>1. pc[t] \in {"drop", "unlink", "unlink log"}
    BY <1>1 DEF Unlink, At
  <2>2. job[t].met \in Damaged
    BY <1>1, <2>1, MetIsDamaged
  <2> QED
    BY <1>1, <2>2 DEF Damaged
<1>2. IndexInv => [\A t \in Threads : Unlink(t) /\ db # None /\ files[db].sound
                     => /\ job[t].met # db /\ ~files[job[t].met].sound]_vars
  BY <1>1
<1> QED
  BY <1>2, IndexInvariant, PTL DEF SoundKeptByWitness

\* A write that finds no connection after it had tested for one runs beside
\* the close() of its process.
THEOREM RaisesAlwaysAtExit == Spec => RaisesOnlyAtExit
<1>1. ASSUME IndexInv, NEW t \in Threads, InsertRaises(t) PROVE closer[Owner(t)].at = "done"
  BY <1>1 DEF InsertRaises, At, IndexInv, ThreadInv
<1>2. IndexInv => [\A t \in Threads : InsertRaises(t) => closer[Owner(t)].at = "done"]_vars
  BY <1>1
<1> QED
  BY <1>2, IndexInvariant, PTL DEF RaisesOnlyAtExit
-----------------------------------------------------------------------------
(* A lock is held by a write that will give it back.                       *)

\* the converse of the first part of ThreadInv
HeldInv ==
    \A p \in Processes : mutex[p] # Nobody => Owner(mutex[p]) = p /\ Busy(mutex[p])

\* A write is begun, takes the lock, goes on with it, or returns.
LEMMA LockSteps ==
  ASSUME NEW t \in Threads, Call(t) \/ Step(t)
  PROVE  \/ UNCHANGED mutex /\ ~Busy(t) /\ (UNCHANGED pc \/ Goto(t, "lock"))
         \/ Lock(t)
         \/ UNCHANGED mutex /\ \E s \in Step1 : Goto(t, s)
         \/ Busy(t) /\ Return(t)
<1>. USE DEF At, Busy
<1>1. /\ "test" \in Step1 /\ "drop" \in Step1 /\ "insert" \in Step1 /\ "unlink" \in Step1
      /\ "unlink log" \in Step1 /\ "open" \in Step1
  BY DEF Step1
<1>2. Call(t) => UNCHANGED mutex /\ ~Busy(t) /\ (UNCHANGED pc \/ Goto(t, "lock"))
  BY DEF Call, local
<1>3. OpenKept(t) => UNCHANGED mutex /\ Goto(t, "test")
  BY DEF OpenKept, local
<1>4. OpenNew(t) => UNCHANGED mutex /\ Goto(t, "test")
  BY DEF OpenNew
<1>5. OpenCorrupt(t) => UNCHANGED mutex /\ Goto(t, "drop")
  BY Zenon DEF OpenCorrupt, local
<1>6. Drop(t) => UNCHANGED mutex /\ Goto(t, "unlink")
  BY DEF Drop
<1>7. Unlink(t) => UNCHANGED mutex /\ Goto(t, "unlink log")
  BY Zenon DEF Unlink, local
<1>8. UnlinkLog(t) => UNCHANGED mutex /\ Goto(t, "open")
  BY Zenon DEF UnlinkLog, local
<1>9. Test(t) => (UNCHANGED mutex /\ Goto(t, "insert")) \/ (Busy(t) /\ Return(t))
  BY DEF Test
<1>10. InsertCorrupt(t) => (UNCHANGED mutex /\ Goto(t, "drop")) \/ (Busy(t) /\ Return(t))
  BY DEF InsertCorrupt, Usable
<1>11. OpenGivesUp(t) \/ Insert(t) \/ InsertSkips(t) \/ InsertRaises(t)
         => Busy(t) /\ Return(t)
  BY DEF OpenGivesUp, Insert, InsertSkips, InsertRaises, Usable
<1>12. UnlinkFails(t) => Busy(t) /\ Return(t)
  BY Zenon DEF UnlinkFails
<1>. HIDE DEF At, Busy
<1>. QED
  BY <1>1, <1>2, <1>3, <1>4, <1>5, <1>6, <1>7, <1>8, <1>9, <1>10, <1>11, <1>12, Zenon
  DEF Step

LEMMA ThreadStepHolds ==
  ASSUME IndexInv, HeldInv, NEW t \in Threads, Call(t) \/ Step(t)
  PROVE  HeldInv'
<1>1. /\ mutex \in [Processes -> Threads \cup {Nobody}] /\ Nobody \notin Threads
      /\ pc \in [Threads -> {"idle", "lock"} \cup Step1] /\ Owner(t) \in Processes
  BY OwnerType, TypeParts, IndexAssumption DEF IndexInv, LocalType, WriteType
<1>2. ASSUME NEW s, Goto(t, s)
      PROVE  pc'[t] = s /\ \A u \in Threads \ {t} : pc'[u] = pc[u]
  BY <1>1, <1>2 DEF Goto
<1>. SUFFICES ASSUME NEW p \in Processes, mutex'[p] # Nobody
              PROVE  Owner(mutex'[p]) = p /\ pc'[mutex'[p]] \notin {"idle", "lock"}
  BY DEF HeldInv, Owner, Busy
<1>3. mutex[p] # Nobody =>
        Owner(mutex[p]) = p /\ pc[mutex[p]] \notin {"idle", "lock"} /\ mutex[p] \in Threads
  BY <1>1 DEF HeldInv, Busy
<1>4. CASE UNCHANGED mutex /\ ~Busy(t) /\ (UNCHANGED pc \/ Goto(t, "lock"))
  BY <1>2, <1>3, <1>4 DEF Busy
<1>5. CASE Lock(t)
  <2>1. mutex' = [mutex EXCEPT ![Owner(t)] = t] /\ Goto(t, "open")
    BY <1>5 DEF Lock
  <2>2. pc'[t] = "open" /\ \A u \in Threads \ {t} : pc'[u] = pc[u]
    BY <1>2, <2>1
  <2>. QED
    BY <1>1, <1>3, <2>1, <2>2
<1>6. CASE UNCHANGED mutex /\ \E s \in Step1 : Goto(t, s)
  <2>1. pc'[t] \in Step1 /\ \A u \in Threads \ {t} : pc'[u] = pc[u]
    BY <1>2, <1>6
  <2>2. "idle" \notin Step1 /\ "lock" \notin Step1
    BY Zenon DEF Step1
  <2>. QED
    BY <1>3, <1>6, <2>1, <2>2
<1>7. CASE Busy(t) /\ Return(t)
  <2>1. mutex' = [mutex EXCEPT ![Owner(t)] = IF mutex[Owner(t)] = t THEN Nobody
                                             ELSE mutex[Owner(t)]]
        /\ Goto(t, "idle")
    BY <1>7 DEF Return
  <2>2. mutex'[p] = mutex[p] /\ mutex[p] # t
    BY <1>1, <1>3, <2>1
  <2>3. \A u \in Threads \ {t} : pc'[u] = pc[u]
    BY <1>2, <2>1
  <2>. QED
    BY <1>3, <2>2, <2>3
<1>. QED
  BY <1>4, <1>5, <1>6, <1>7, LockSteps

\* close() takes no lock, and the threads of a process die with it.
LEMMA ProcessStepHolds ==
  ASSUME IndexInv, HeldInv, NEW p \in Processes,
         Close(p) \/ Prune(p) \/ CloseHandle(p) \/ Reset(p) \/ Die(p)
  PROVE  HeldInv'
<1>1. CASE UNCHANGED <<mutex, pc>>
  BY <1>1 DEF HeldInv, Busy, Owner
<1>2. CASE Die(p)
  <2>1. /\ mutex' = [mutex EXCEPT ![p] = Nobody]
        /\ pc' = [t \in Threads |-> IF Owner(t) = p THEN "idle" ELSE pc[t]]
    BY <1>2 DEF Die
  <2>2. mutex \in [Processes -> Threads \cup {Nobody}]
    BY TypeParts DEF IndexInv, LocalType
  <2>. SUFFICES ASSUME NEW q \in Processes, mutex'[q] # Nobody
                PROVE  Owner(mutex'[q]) = q /\ pc'[mutex'[q]] \notin {"idle", "lock"}
    BY DEF HeldInv, Owner, Busy
  <2>3. q # p /\ mutex'[q] = mutex[q] /\ mutex[q] \in Threads
    BY <2>1, <2>2
  <2>4. Owner(mutex[q]) = q /\ pc[mutex[q]] \notin {"idle", "lock"}
    BY <2>3 DEF HeldInv, Busy
  <2>. QED
    BY <2>1, <2>3, <2>4
<1>. QED
  BY <1>1, <1>2 DEF Close, Prune, CloseHandle, Reset, local, write

\* No write leaves its lock behind, whichever way it returns or dies: a thread
\* that waits for the lock of its process waits for another thread of that
\* process, which is inside its write and waits for no lock.
THEOREM LockAlwaysGivenBack ==
  Spec => [](\A t \in Threads :
                pc[t] = "lock" /\ mutex[Owner(t)] # Nobody =>
                    \E u \in Threads \ {t} : Owner(u) = Owner(t) /\ Busy(u))
<1>1. IndexInv /\ HeldInv /\ [Next]_vars => HeldInv'
  <2>. SUFFICES ASSUME IndexInv, HeldInv, [Next]_vars PROVE HeldInv'
    OBVIOUS
  <2>1. ASSUME NEW t \in Threads, Call(t) \/ Step(t) PROVE HeldInv'
    BY <2>1, ThreadStepHolds
  <2>2. ASSUME NEW p \in Processes,
               Close(p) \/ Prune(p) \/ CloseHandle(p) \/ Reset(p) \/ Die(p)
        PROVE  HeldInv'
    BY <2>2, ProcessStepHolds
  <2>3. CASE UNCHANGED <<mutex, pc>>
    BY <2>3 DEF HeldInv, Busy, Owner
  <2>4. Expire \/ Damage \/ UNCHANGED vars => UNCHANGED <<mutex, pc>>
    BY DEF Expire, Damage, vars, local, write
  <2>. QED
    BY <2>1, <2>2, <2>3, <2>4 DEF Next
<1>2. Init => HeldInv
  BY DEF Init, HeldInv
<1>3. IndexInv /\ HeldInv =>
        \A t \in Threads :
            pc[t] = "lock" /\ mutex[Owner(t)] # Nobody =>
                \E u \in Threads \ {t} : Owner(u) = Owner(t) /\ Busy(u)
  <2>. SUFFICES ASSUME IndexInv, HeldInv, NEW t \in Threads,
                       pc[t] = "lock", mutex[Owner(t)] # Nobody
                PROVE  \E u \in Threads \ {t} : Owner(u) = Owner(t) /\ Busy(u)
    OBVIOUS
  <2>1. mutex \in [Processes -> Threads \cup {Nobody}] /\ Owner(t) \in Processes
    BY OwnerType, TypeParts DEF IndexInv, LocalType
  <2>2. Owner(mutex[Owner(t)]) = Owner(t) /\ Busy(mutex[Owner(t)])
    BY <2>1 DEF HeldInv
  <2>3. mutex[Owner(t)] \in Threads \ {t}
    BY <2>1, <2>2 DEF Busy
  <2>. QED
    BY <2>2, <2>3
<1>. QED
  BY <1>1, <1>2, <1>3, IndexInvariant, PTL DEF Spec
-----------------------------------------------------------------------------
(* The index implements its promise.                                       *)

Same == UNCHANGED <<View, cutoff, Damaged # {}>>

LEMMA NothingShown ==
  ASSUME IndexInv, UNCHANGED <<db, files, cutoff>>
  PROVE  Same
  BY DEF Same, View, Damaged

\* The rows of a sound file at the path are what is seen.
LEMMA OtherFile ==
  ASSUME IndexInv, NEW f \in DOMAIN files, NEW row \in Row, files' = [files EXCEPT ![f] = row],
         row.sound = files[f].sound, UNCHANGED <<db, cutoff>>
  PROVE  /\ (Damaged # {})' = (Damaged # {})
         /\ ~(db = f /\ row.sound) => View' = View
         /\ db = f /\ row.sound => View = files[f].rows /\ View' = row.rows
<1>1. /\ DOMAIN files' = DOMAIN files /\ files'[f] = row
      /\ \A g \in DOMAIN files : g # f => files'[g] = files[g]
  BY UpdateGrows DEF IndexInv
<1>2. Damaged' = Damaged
  BY <1>1 DEF Damaged
<1>3. f # None /\ db \in {None} \cup DOMAIN files
  BY NoneIsNoFile, TypeParts DEF IndexInv, FilesType
<1>4. CASE db = f
  BY <1>1, <1>2, <1>3, <1>4 DEF View
<1>5. CASE db # f
  BY <1>1, <1>2, <1>3, <1>5 DEF View
<1> QED
  BY <1>4, <1>5, <1>2

LEMMA InsertShows ==
  ASSUME IndexInv, NEW t \in Threads, Insert(t)
  PROVE  Promise!Add \/ Same
<1> DEFINE c == conn[Owner(t)]
           row == [files[c] EXCEPT !.rows = @ \cup {job[t].event}]
<1>1. /\ Busy(t) /\ files[c].sound /\ files' = [files EXCEPT ![c] = row]
      /\ UNCHANGED <<db, cutoff>> /\ c # None
  BY DEF Insert, Usable, At, Busy
<1>2. c \in DOMAIN files /\ files[c] \in Row /\ job[t].event \in Events
  BY <1>1, Facts DEF FilesType, ThreadInv, Busy
<1>3. row \in Row /\ row.sound = files[c].sound /\ row.rows = files[c].rows \cup {job[t].event}
  BY <1>2 DEF Row
<1> HIDE DEF row, c
<1>4. /\ (Damaged # {})' = (Damaged # {})
      /\ View' = View \/ View' = View \cup {job[t].event}
  BY <1>1, <1>2, <1>3, OtherFile
<1> QED
  BY <1>1, <1>2, <1>4 DEF Promise!Add, Same

LEMMA PruneShows ==
  ASSUME IndexInv, NEW p \in Processes, Prune(p)
  PROVE  Promise!Prune \/ Same
<1> DEFINE f == closer[p].on
           row == [files[f] EXCEPT !.rows = {e \in @ : e > cutoff}]
<1>1. UNCHANGED <<db, cutoff>> /\ (UNCHANGED files \/ files' = [files EXCEPT ![f] = row])
  BY DEF Prune
<1>2. f \in DOMAIN files /\ files[f] \in Row
  BY PruneKeeps, TypeParts DEF IndexInv, FilesType
<1>3. row \in Row /\ row.sound = files[f].sound /\ row.rows = {e \in files[f].rows : e > cutoff}
  BY <1>2 DEF Row
<1> HIDE DEF row, f
<1>4. CASE UNCHANGED files
  BY <1>1, <1>4, NothingShown
<1>5. CASE files' = [files EXCEPT ![f] = row]
  <2>1. /\ (Damaged # {})' = (Damaged # {})
        /\ View' = View \/ View' = {e \in View : e > cutoff}
    BY <1>1, <1>2, <1>3, <1>5, OtherFile
  <2> QED
    BY <1>1, <2>1 DEF Promise!Prune, Same
<1> QED
  BY <1>1, <1>4, <1>5

\* A new file is empty, or holds what is left of the one it stands for.
LEMMA OpenNewShows ==
  ASSUME IndexInv, NEW t \in Threads, OpenNew(t)
  PROVE  Same
<1>1. UNCHANGED cutoff
  BY DEF OpenNew
<1>2. CASE /\ db = None /\ db' = Len(files')
           /\ files' = Append(files, [rows |-> {}, sound |-> TRUE])
  <2> DEFINE row == [rows |-> {}, sound |-> TRUE]
  <2>1. row \in Row /\ row.sound /\ row.rows = {}
    BY DEF Row
  <2> HIDE DEF row
  <2>2. files' = Append(files, row)
    BY <1>2 DEF row
  <2>3. Damaged' = Damaged /\ files'[db'] = row /\ db' # None
    BY <1>2, <2>1, <2>2, AppendGrows DEF IndexInv
  <2>4. View = {} /\ View' = {}
    BY <1>2, <2>1, <2>3 DEF View
  <2> QED
    BY <1>1, <2>3, <2>4 DEF Same
<1>3. CASE UNCHANGED <<db, files>>
  BY <1>1, <1>3, NothingShown
<1> QED
  BY <1>2, <1>3 DEF OpenNew

LEMMA UnlinkShows ==
  ASSUME IndexInv, NEW t \in Threads, Unlink(t)
  PROVE  Promise!Rebuild
<1>1. db' = None /\ UNCHANGED <<files, cutoff>> /\ pc[t] \in {"drop", "unlink", "unlink log"}
  BY DEF Unlink, At
<1>2. Damaged # {} /\ Damaged' = Damaged
  BY <1>1, MetIsDamaged DEF Damaged
<1>3. View' = {}
  BY <1>1 DEF View
<1> QED
  BY <1>1, <1>2, <1>3 DEF Promise!Rebuild, Promise!Lose

LEMMA UnlinkLogShows ==
  ASSUME IndexInv, NEW t \in Threads, UnlinkLog(t)
  PROVE  Promise!Rebuild \/ Same
<1>1. UNCHANGED cutoff /\ pc[t] \in {"drop", "unlink", "unlink log"}
  BY DEF UnlinkLog, At
<1>2. Damaged # {}
  BY <1>1, MetIsDamaged
<1>3. CASE UNCHANGED <<db, files>>
  BY <1>1, <1>3, NothingShown
<1>4. CASE /\ db # None /\ files[db].sound /\ db' = Len(files')
           /\ \E left \in SUBSET files[db].rows :
                 files' = Append(files, [rows |-> left, sound |-> TRUE])
  <2>1. PICK left \in SUBSET files[db].rows :
                 files' = Append(files, [rows |-> left, sound |-> TRUE])
    BY <1>4
  <2> DEFINE row == [rows |-> left, sound |-> TRUE]
  <2>2. files[db] \in Row
    BY <1>4, Facts DEF FilesType
  <2>3. row \in Row /\ row.sound /\ row.rows = left
    BY <2>2 DEF Row
  <2> HIDE DEF row
  <2>4. files' = Append(files, row)
    BY <2>1 DEF row
  <2>5. Damaged' = Damaged /\ files'[db'] = row /\ db' # None
    BY <1>4, <2>3, <2>4, AppendGrows DEF IndexInv
  <2>6. View = files[db].rows /\ View' = left
    BY <1>4, <2>3, <2>5 DEF View
  <2> QED
    BY <1>1, <1>2, <2>5, <2>6 DEF Promise!Rebuild, Promise!Lose
<1> QED
  BY <1>3, <1>4 DEF UnlinkLog

LEMMA DamageShows ==
  ASSUME IndexInv, Damage
  PROVE  Promise!Damage
<1> DEFINE row == [files[db] EXCEPT !.sound = FALSE]
<1>1. db # None /\ files' = [files EXCEPT ![db] = row] /\ UNCHANGED <<db, cutoff>>
  BY DEF Damage
<1>2. db \in DOMAIN files /\ files[db] \in Row
  BY <1>1, TypeParts DEF IndexInv, FilesType
<1>3. row \in Row /\ ~row.sound
  BY <1>2 DEF Row
<1> HIDE DEF row
<1>4. files'[db] = row
  BY <1>1, <1>2, <1>3, UpdateGrows DEF IndexInv
<1>5. View' = {}
  BY <1>1, <1>3, <1>4 DEF View
<1>6. Damaged' # {}
  BY DamageKeeps
<1> QED
  BY <1>1, <1>5, <1>6 DEF Promise!Damage, Promise!Lose

LEMMA ThreadStepShows ==
  ASSUME IndexInv, NEW t \in Threads, Call(t) \/ Step(t)
  PROVE  Promise!ViewNext \/ Same
<1>1. CASE \/ Call(t) \/ Lock(t) \/ OpenKept(t) \/ OpenCorrupt(t) \/ OpenGivesUp(t)
           \/ Test(t) \/ InsertCorrupt(t) \/ InsertSkips(t) \/ InsertRaises(t)
           \/ Drop(t) \/ UnlinkFails(t)
  <2>1. UNCHANGED <<db, files, cutoff>>
    BY <1>1 DEF Call, Lock, OpenKept, OpenCorrupt, OpenGivesUp, Test, InsertCorrupt, InsertSkips,
                InsertRaises, Drop, UnlinkFails, shared
  <2> QED
    BY <2>1, NothingShown
<1>2. CASE OpenNew(t) \/ Insert(t) \/ Unlink(t) \/ UnlinkLog(t)
  BY <1>2, OpenNewShows, InsertShows, UnlinkShows, UnlinkLogShows DEF Promise!ViewNext
<1> QED
  BY <1>1, <1>2 DEF Step

\* Whatever processes do to each other, what queries see changes only as
\* IndexView allows: events enter, the expired leave, and nothing else does
\* unless the database has been damaged.
THEOREM IndexImplementsView == Spec => ImplementsView
<1>1. Init => Promise!ViewInit
  <2> SUFFICES ASSUME Init PROVE Promise!ViewInit
    OBVIOUS
  <2>1. db = None /\ files = <<>> /\ cutoff = 0
    BY DEF Init
  <2>2. Damaged = {}
    BY <2>1 DEF Damaged
  <2> QED
    BY <2>1, <2>2 DEF Promise!ViewInit, View
<1>2. IndexInv /\ [Next]_vars => [Promise!ViewNext]_<<View, cutoff, Damaged # {}>>
  <2> SUFFICES ASSUME IndexInv, [Next]_vars PROVE Promise!ViewNext \/ Same
    BY DEF Same
  <2>1. ASSUME NEW t \in Threads, Call(t) \/ Step(t) PROVE Promise!ViewNext \/ Same
    BY <2>1, ThreadStepShows
  <2>2. ASSUME NEW p \in Processes, Close(p) \/ CloseHandle(p) \/ Reset(p) \/ Die(p)
        PROVE  Same
    <3>1. UNCHANGED <<db, files, cutoff>>
      BY <2>2 DEF Close, CloseHandle, Reset, Die, shared
    <3> QED
      BY <3>1, NothingShown
  <2>3. ASSUME NEW p \in Processes, Prune(p) PROVE Promise!ViewNext \/ Same
    BY <2>3, PruneShows DEF Promise!ViewNext
  <2>4. CASE Expire
    <3>1. UNCHANGED <<View, Damaged # {}>>
      BY <2>4 DEF Expire, View, Damaged
    <3>2. cutoff' \in Events /\ cutoff' > cutoff
      BY <2>4, ExpireKeeps
    <3> QED
      BY <3>1, <3>2 DEF Promise!ViewNext, Promise!Expire
  <2>5. CASE Damage
    BY <2>5, DamageShows DEF Promise!ViewNext
  <2>6. CASE UNCHANGED vars
    <3>1. UNCHANGED <<db, files, cutoff>>
      BY <2>6 DEF vars, shared
    <3> QED
      BY <3>1, NothingShown
  <2> QED
    BY <2>1, <2>2, <2>3, <2>4, <2>5, <2>6 DEF Next
<1> QED
  BY <1>1, <1>2, IndexInvariant, PTL DEF Spec, ImplementsView, Promise!ViewSpec
=============================================================================
