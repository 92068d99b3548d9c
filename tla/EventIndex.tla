----------------------------- MODULE EventIndex -----------------------------
(***************************************************************************)
(* The SQLite index of security events (security_events/sqlite_writer.py,  *)
(* sqlite_reader.py), the second half of log_event.                        *)
(*                                                                         *)
(* Each process keeps one connection, opened by its first write.  A thread *)
(* holds the process's threading.Lock while it writes; close(), which runs *)
(* at exit beside daemon threads, does not.  A write that finds the file   *)
(* corrupt unlinks it and its write-ahead log, in two steps, and tries     *)
(* once more with a new one.  Other processes keep the file they opened.   *)
(* A database file is known by the number of its creation.                 *)
(***************************************************************************)
EXTENDS Integers, Sequences, FiniteSets

CONSTANTS
    Threads,
    Processes,
    ProcessOf,    \* the process of each thread
    MaxEvents,    \* bound: events written
    MaxFiles,     \* bound: database files made
    MaxDamage,    \* bound: files damaged on the disk
    Nobody        \* the holder of a free lock

VARIABLES
    db,           \* the file at the database's path, or None
    files,        \* every file made: its rows, and whether it is sound
    cutoff,       \* events up to this one are older than max_age_days
    conn,         \* _conn of each process
    disabled,     \* _disabled of each process
    mutex,        \* who holds _lock of each process
    closer,       \* how far close() of each process is, and on which file
    pc,           \* the next step of each thread
    job,          \* its event, retry state and the corrupt file it has met
    begun,        \* events given to log_event: event i is the i-th
    gaveUp,       \* history: events whose second try failed as well
    rebuilt       \* history: files for which each process has rebuilt

shared == <<db, files, cutoff>>
local  == <<conn, disabled, mutex>>
write  == <<pc, job, begun, gaveUp>>
vars   == <<shared, local, closer, write, rebuilt>>

None   == 0
Events == 1 .. MaxEvents

ASSUME IndexAssumption ==
    /\ ProcessOf \in [Threads -> Processes]
    /\ MaxEvents \in Nat /\ MaxFiles \in Nat /\ MaxDamage \in Nat
    /\ Nobody \notin Threads

TypeOK ==
    /\ files \in Seq([rows : SUBSET Events, sound : BOOLEAN])
    /\ db \in {None} \cup DOMAIN files
    /\ cutoff \in {0} \cup Events
    /\ conn \in [Processes -> {None} \cup DOMAIN files]
    /\ disabled \in [Processes -> BOOLEAN]
    /\ mutex \in [Processes -> Threads \cup {Nobody}]
    /\ closer \in [Processes -> [at : {"no", "prune", "close", "reset", "done"},
                                 on : {None} \cup DOMAIN files]]
    /\ pc \in [Threads -> {"idle", "lock", "open", "test", "insert", "drop",
                           "unlink", "unlink log"}]
    /\ job \in [Threads -> [event : {None} \cup Events, tries : 0 .. 2,
                            again : BOOLEAN, met : {None} \cup DOMAIN files]]
    /\ begun \in 0 .. MaxEvents /\ gaveUp \subseteq Events
    /\ rebuilt \in [Processes -> SUBSET DOMAIN files]

Idle == [event |-> None, tries |-> 0, again |-> FALSE, met |-> None]

Init ==
    /\ db = None /\ files = <<>> /\ cutoff = 0
    /\ conn = [p \in Processes |-> None]
    /\ disabled = [p \in Processes |-> FALSE]
    /\ mutex = [p \in Processes |-> Nobody]
    /\ closer = [p \in Processes |-> [at |-> "no", on |-> None]]
    /\ pc = [t \in Threads |-> "idle"]
    /\ job = [t \in Threads |-> Idle]
    /\ begun = 0 /\ gaveUp = {}
    /\ rebuilt = [p \in Processes |-> {}]
-----------------------------------------------------------------------------
\* What a query can return: the reader opens the path anew each time, a
\* missing file is an empty index, and a corrupt one raises.
View == IF db = None THEN {} ELSE IF files[db].sound THEN files[db].rows ELSE {}
-----------------------------------------------------------------------------
(* One write, by a thread.                                                 *)

Owner(t) == ProcessOf[t]
At(t, step) == pc[t] = step
Goto(t, step) == pc' = [pc EXCEPT ![t] = step]

\* The write returns, by whichever way, and with it the lock.
Return(t) ==
    /\ Goto(t, "idle")
    /\ job' = [job EXCEPT ![t] = Idle]
    /\ mutex' = [mutex EXCEPT ![Owner(t)] = IF @ = t THEN Nobody ELSE @]

\* log_event has written the line to the log, or failed to, and goes on.
Call(t) ==
    /\ At(t, "idle") /\ begun < MaxEvents
    /\ begun' = begun + 1
    /\ \/ /\ ~disabled[Owner(t)]
          /\ Goto(t, "lock")
          /\ job' = [job EXCEPT ![t].event = begun']
       \/ UNCHANGED <<pc, job>>        \* disabled, or the event cannot be stored
    /\ UNCHANGED <<shared, local, closer, gaveUp, rebuilt>>

Lock(t) ==
    /\ At(t, "lock") /\ mutex[Owner(t)] = Nobody
    /\ mutex' = [mutex EXCEPT ![Owner(t)] = t]
    /\ Goto(t, "open")
    /\ UNCHANGED <<shared, conn, disabled, closer, job, begun, gaveUp, rebuilt>>

\* _ensure_connection, up to a rebuild or its return.
OpenKept(t) ==
    /\ At(t, "open") /\ conn[Owner(t)] # None
    /\ Goto(t, "test")
    /\ UNCHANGED <<shared, local, closer, job, begun, gaveUp, rebuilt>>

OpenNew(t) ==
    /\ At(t, "open") /\ conn[Owner(t)] = None /\ job[t].tries < 2
    /\ \/ /\ db = None /\ Len(files) < MaxFiles
          /\ files' = Append(files, [rows |-> {}, sound |-> TRUE])
          /\ db' = Len(files')
       \/ db # None /\ UNCHANGED <<db, files>>
    /\ conn' = [conn EXCEPT ![Owner(t)] = db']
    /\ Goto(t, "test")
    /\ UNCHANGED <<cutoff, disabled, mutex, closer, job, begun, gaveUp, rebuilt>>

\* Mutant: one try to open instead of two.
OpenOnce(t) ==
    /\ At(t, "open") /\ conn[Owner(t)] = None /\ job[t].tries < 2
    /\ db # None /\ ~files[db].sound
    /\ Goto(t, "drop")
    /\ job' = [job EXCEPT ![t].met = db, ![t].tries = 2]
    /\ UNCHANGED <<shared, local, closer, begun, gaveUp, rebuilt>>

OpenCorrupt(t) ==
    /\ At(t, "open") /\ conn[Owner(t)] = None /\ job[t].tries < 2
    /\ db # None /\ ~files[db].sound
    /\ Goto(t, "drop")
    /\ job' = [job EXCEPT ![t].met = db, ![t].tries = @ + 1]
    /\ UNCHANGED <<shared, local, closer, begun, gaveUp, rebuilt>>

\* Mutant: a write goes on without a connection.
OpenGoesOn(t) ==
    /\ At(t, "open") /\ conn[Owner(t)] = None
    /\ Goto(t, "insert")
    /\ UNCHANGED <<shared, local, closer, job, begun, gaveUp, rebuilt>>

OpenGivesUp(t) ==
    /\ At(t, "open") /\ conn[Owner(t)] = None
    /\ gaveUp' = IF job[t].tries = 2 THEN gaveUp \cup {job[t].event} ELSE gaveUp
    /\ Return(t)
    /\ UNCHANGED <<shared, conn, disabled, closer, begun, rebuilt>>

\* "if self._conn is None: return", before the connection is used.
Test(t) ==
    /\ At(t, "test")
    /\ IF conn[Owner(t)] = None
       THEN Return(t)
       ELSE Goto(t, "insert") /\ UNCHANGED <<job, mutex>>
    /\ UNCHANGED <<shared, conn, disabled, closer, begun, gaveUp, rebuilt>>

\* close() has closed the connection that _conn still refers to.
HandleClosed(p) == closer[p].at = "reset" /\ closer[p].on = conn[p]

Usable(t) ==
    At(t, "insert") /\ conn[Owner(t)] # None /\ ~HandleClosed(Owner(t))

Insert(t) ==
    /\ Usable(t) /\ files[conn[Owner(t)]].sound
    /\ files' = [files EXCEPT ![conn[Owner(t)]].rows = @ \cup {job[t].event}]
    /\ Return(t)
    /\ UNCHANGED <<db, cutoff, conn, disabled, closer, begun, gaveUp, rebuilt>>

InsertCorrupt(t) ==
    /\ Usable(t) /\ ~files[conn[Owner(t)]].sound
    /\ IF job[t].again
       THEN Return(t) /\ gaveUp' = gaveUp \cup {job[t].event}
       ELSE /\ Goto(t, "drop")
            /\ job' = [job EXCEPT ![t].met = conn[Owner(t)], ![t].again = TRUE,
                                  ![t].tries = 0]
            /\ UNCHANGED <<gaveUp, mutex>>
    /\ UNCHANGED <<shared, conn, disabled, closer, begun, rebuilt>>

\* Mutant: any error of the database is taken for corruption.
BusyRebuilds(t) ==
    /\ At(t, "insert") /\ conn[Owner(t)] # None
    /\ Goto(t, "drop")
    /\ job' = [job EXCEPT ![t].met = conn[Owner(t)]]
    /\ UNCHANGED <<shared, local, closer, begun, gaveUp, rebuilt>>

\* The database is locked, full or read-only, or its handle was closed.  Left
\* out: an error that is not the database's own also drops the connection, and
\* the next write opens the file again.
InsertSkips(t) ==
    /\ At(t, "insert") /\ conn[Owner(t)] # None
    /\ Return(t)
    /\ UNCHANGED <<shared, conn, disabled, closer, begun, gaveUp, rebuilt>>

\* close() has set _conn to None since the test: the attribute lookup raises,
\* which only the second try catches.
InsertRaises(t) ==
    /\ At(t, "insert") /\ conn[Owner(t)] = None
    /\ Return(t)
    /\ UNCHANGED <<shared, conn, disabled, closer, begun, gaveUp, rebuilt>>

\* Mutant: the connection to the corrupt file is kept.
DropNothing(t) ==
    /\ At(t, "drop")
    /\ Goto(t, "unlink")
    /\ UNCHANGED <<shared, local, closer, job, begun, gaveUp, rebuilt>>

\* _handle_corruption: drop the connection, unlink the file, unlink its log.
Drop(t) ==
    /\ At(t, "drop")
    /\ conn' = [conn EXCEPT ![Owner(t)] = None]
    /\ Goto(t, "unlink")
    /\ UNCHANGED <<shared, disabled, mutex, closer, job, begun, gaveUp, rebuilt>>

Unlink(t) ==
    /\ At(t, "unlink")
    /\ db' = None
    /\ rebuilt' = [rebuilt EXCEPT ![Owner(t)] = @ \cup {job[t].met}]
    /\ Goto(t, "unlink log")
    /\ UNCHANGED <<files, cutoff, local, closer, job, begun, gaveUp>>

\* Another process may have made a new file since: its write-ahead log goes,
\* with any rows not yet in the file, and those who have it open are cut off.
UnlinkLog(t) ==
    /\ At(t, "unlink log")
    /\ \/ UNCHANGED <<db, files>>
       \/ /\ db # None /\ files[db].sound /\ Len(files) < MaxFiles
          /\ \E left \in SUBSET files[db].rows :
                files' = Append(files, [rows |-> left, sound |-> TRUE])
          /\ db' = Len(files')
    /\ Goto(t, "open")
    /\ UNCHANGED <<cutoff, local, closer, job, begun, gaveUp, rebuilt>>

UnlinkFails(t) ==
    /\ pc[t] \in {"unlink", "unlink log"}
    /\ disabled' = [disabled EXCEPT ![Owner(t)] = TRUE]
    /\ Return(t)
    /\ UNCHANGED <<shared, conn, closer, begun, gaveUp, rebuilt>>

Step(t) ==
    \/ Lock(t) \/ OpenKept(t) \/ OpenNew(t) \/ OpenCorrupt(t) \/ OpenGivesUp(t)
    \/ Test(t) \/ Insert(t) \/ InsertCorrupt(t) \/ InsertSkips(t) \/ InsertRaises(t)
    \/ Drop(t) \/ Unlink(t) \/ UnlinkLog(t) \/ UnlinkFails(t)
-----------------------------------------------------------------------------
(* close(), registered with atexit: it works on the connection it found.   *)

CloseStep(p, from, to) ==
    /\ closer[p].at = from
    /\ closer' = [closer EXCEPT ![p].at = to]

Close(p) ==
    /\ closer[p].at = "no"
    /\ closer' = [closer EXCEPT ![p] =
                     IF conn[p] = None THEN [at |-> "done", on |-> None]
                                       ELSE [at |-> "prune", on |-> conn[p]]]
    /\ UNCHANGED <<shared, local, write, rebuilt>>

Prune(p) ==
    /\ CloseStep(p, "prune", "close")
    /\ \/ files[closer[p].on].sound /\
          files' = [files EXCEPT ![closer[p].on].rows = {e \in @ : e > cutoff}]
       \/ UNCHANGED files          \* the statement failed
    /\ UNCHANGED <<db, cutoff, local, write, rebuilt>>

CloseHandle(p) ==
    /\ CloseStep(p, "close", "reset")
    /\ UNCHANGED <<shared, local, write, rebuilt>>

Reset(p) ==
    /\ CloseStep(p, "reset", "done")
    /\ conn' = [conn EXCEPT ![p] = None]
    /\ UNCHANGED <<shared, disabled, mutex, write, rebuilt>>

\* The process ends, at its exit or before, and a new command takes its place.
Die(p) ==
    /\ closer' = [closer EXCEPT ![p] = [at |-> "no", on |-> None]]
    /\ conn' = [conn EXCEPT ![p] = None]
    /\ disabled' = [disabled EXCEPT ![p] = FALSE]
    /\ mutex' = [mutex EXCEPT ![p] = Nobody]
    /\ pc' = [t \in Threads |-> IF Owner(t) = p THEN "idle" ELSE pc[t]]
    /\ job' = [t \in Threads |-> IF Owner(t) = p THEN Idle ELSE job[t]]
    /\ rebuilt' = [rebuilt EXCEPT ![p] = {}]
    /\ UNCHANGED <<shared, begun, gaveUp>>

-----------------------------------------------------------------------------
(* The surroundings.                                                       *)

Expire ==
    /\ cutoff < begun
    /\ cutoff' = cutoff + 1
    /\ UNCHANGED <<db, files, local, closer, write, rebuilt>>

Damaged == {f \in DOMAIN files : ~files[f].sound}

Damage ==
    /\ db # None /\ files[db].sound /\ Cardinality(Damaged) < MaxDamage
    /\ files' = [files EXCEPT ![db].sound = FALSE]
    /\ UNCHANGED <<db, cutoff, local, closer, write, rebuilt>>

Next ==
    \/ \E t \in Threads : Call(t) \/ Step(t)
    \/ \E p \in Processes : Close(p) \/ Prune(p) \/ CloseHandle(p) \/ Reset(p) \/ Die(p)
    \/ Expire \/ Damage

Spec == Init /\ [][Next]_vars
-----------------------------------------------------------------------------
(* Properties.                                                             *)

\* An index that was never damaged loses nothing but what is too old, no
\* matter how many processes write, close, fail or die: a locked or full
\* database is never rebuilt (the index promises no more than IndexView).
Promise == INSTANCE IndexView WITH view <- View, damaged <- Damaged # {}
ImplementsView == Promise!ViewSpec

\* Each process rebuilds at most once for a damaged file, so that one damage
\* cannot keep emptying the index (_handle_corruption drops the connection
\* before it unlinks).
OneRebuildEach ==
    [][\A t \in Threads : Unlink(t) => job[t].met \notin rebuilt[Owner(t)]]_vars

\* A sound database loses its name only to a process that met another file
\* which is damaged: the false-positive rebuilds that the comment on
\* _CORRUPTION_MARKERS warns of need a race of two rebuilders.
SoundKeptByWitness ==
    [][\A t \in Threads : Unlink(t) /\ db # None /\ files[db].sound
           => /\ job[t].met # db /\ ~files[job[t].met].sound]_vars

\* "So the current write is not lost": no write ends by finding the database
\* damaged on both tries, unless two files were.  The event is still lost if
\* the damaged file cannot be unlinked, or if the second try finds the database
\* locked.
SecondTryIsEnough == gaveUp # {} => Cardinality(Damaged) > 1

\* A write raises only in a process whose close() has run beside it, and
\* then log_event swallows it.
RaisesOnlyAtExit ==
    [][\A t \in Threads : InsertRaises(t) => closer[Owner(t)].at = "done"]_vars
=============================================================================
