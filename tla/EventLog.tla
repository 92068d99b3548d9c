------------------------------ MODULE EventLog ------------------------------
(***************************************************************************)
(* The JSONL log of security events (security_events/writer.py): threads   *)
(* of several processes append lines to one file, which is renamed to a    *)
(* backup when it would grow past its limit.                               *)
(*                                                                         *)
(*   security-events.jsonl              current                            *)
(*   security-events.jsonl.<time>[.n]   backups                            *)
(*   security-events.jsonl.lock         flock                              *)
(*                                                                         *)
(* A thread holds its process's threading.Lock for the whole call, and the *)
(* flock from before the size is looked at until the line is written.      *)
(* When the flock cannot be taken the call goes on without it.  A file is  *)
(* known by the number of its creation, since a descriptor follows it when *)
(* it is renamed.  A line is written in one or more chunks, one write each.*)
(***************************************************************************)
EXTENDS Integers, Sequences, FiniteSets

CONSTANTS
    Threads,
    Processes,
    Deployments,  \* whose threads log, and whether their lock works
    Limit,        \* max_bytes, in chunks
    Count,        \* backup_count
    MaxCounter,   \* counters tried for a backup's name (999 in the code)
    LineSizes,    \* bound: the sizes of lines, in chunks
    MaxEvents,    \* bound: lines begun in one behaviour
    MaxTime,      \* bound: the clock
    NoFile,       \* a file that does not exist; nothing in hand
    Nobody        \* the holder of a free lock

VARIABLES
    deployed,     \* the deployment of this behaviour, which no step changes
    current,      \* the file at the log's path
    backups,      \* the files at the backups' paths
    files,        \* every file created: its chunks and modification time
    now,          \* the clock
    mutex,        \* who holds the threading.Lock of each process
    flock,        \* who holds the lock file
    sizes,        \* the sizes of the lines begun so far: line i is event i
    pc,           \* the next step of each thread
    line,         \* the size of the line it is to write
    hold,         \* what else it has in hand
    acked,        \* history: events whose line was written to its end
    torn,         \* history: lines begun and not written to their end
    stuck         \* history: a rotation could not rename the log

store == <<current, backups, files>>
locks == <<mutex, flock>>
ghost == <<acked, torn, stuck>>
local == <<pc, line, hold>>
vars  == <<store, now, locks, sizes, local, ghost>>

ProcessOf(t) == deployed.processOf[t]
\* open or flock of the lock file can fail
LockMayFail  == deployed.lockMayFail
-----------------------------------------------------------------------------
Names == [time : 0 .. MaxTime, counter : 0 .. MaxCounter]
Chunk == [event : 1 .. MaxEvents, part : Nat]
File  == [lines : Seq(Chunk), time : 0 .. MaxTime]
Steps == {"idle", "mutex", "flock", "check", "name", "move", "list", "unlink",
          "open", "write", "unlock", "release"}

ASSUME LogAssumption ==
    /\ Deployments \subseteq [processOf : [Threads -> Processes], lockMayFail : BOOLEAN]
    /\ Limit \in Nat /\ Count \in Nat /\ MaxCounter \in Nat
    /\ LineSizes \subseteq Nat \ {0} /\ MaxEvents \in Nat /\ MaxTime \in Nat
    /\ IsFiniteSet(Threads) /\ Nobody \notin Threads
    /\ NoFile \notin Nat /\ NoFile \notin File

TypeOK ==
    /\ deployed \in Deployments
    /\ files \in Seq(File)
    /\ current \in DOMAIN files \cup {NoFile}
    /\ DOMAIN backups \subseteq Names
    /\ \A n \in DOMAIN backups : backups[n] \in DOMAIN files
    /\ now \in 0 .. MaxTime
    /\ mutex \in [Processes -> Threads \cup {Nobody}]
    /\ flock \in Threads \cup {Nobody}
    /\ sizes \in Seq(LineSizes) /\ Len(sizes) <= MaxEvents
    /\ pc \in [Threads -> Steps]
    /\ line \in [Threads -> {0} \cup LineSizes]
    /\ acked \subseteq DOMAIN sizes /\ torn \in Nat /\ stuck \in BOOLEAN

Init ==
    /\ deployed \in Deployments
    /\ current = NoFile
    /\ backups = [n \in {} |-> NoFile]
    /\ files = << >>
    /\ now = 0
    /\ mutex = [p \in Processes |-> Nobody]
    /\ flock = Nobody
    /\ sizes = << >>
    /\ pc = [t \in Threads |-> "idle"]
    /\ line = [t \in Threads |-> 0]
    /\ hold = [t \in Threads |-> NoFile]
    /\ acked = {} /\ torn = 0 /\ stuck = FALSE

Goto(t, step, value) ==
    /\ pc' = [pc EXCEPT ![t] = step]
    /\ hold' = [hold EXCEPT ![t] = value]
    /\ UNCHANGED line
-----------------------------------------------------------------------------
(* write: the two locks                                                    *)

\* a thread logs an event; a line is kept for each call under way (bound)
Call(t) ==
    /\ pc[t] = "idle"
    /\ Len(sizes) + Cardinality({u \in Threads : pc[u] # "idle"}) < MaxEvents
    /\ \E k \in LineSizes : line' = [line EXCEPT ![t] = k]
    /\ pc' = [pc EXCEPT ![t] = "mutex"]
    /\ UNCHANGED <<store, now, locks, sizes, hold, ghost>>

\* with self._lock
TakeMutex(t) ==
    /\ pc[t] = "mutex"
    /\ mutex[ProcessOf(t)] = Nobody
    /\ mutex' = [mutex EXCEPT ![ProcessOf(t)] = t]
    /\ Goto(t, "flock", NoFile)
    /\ UNCHANGED <<store, now, flock, sizes, ghost>>

\* mutant: the lock is tried, and not waited for
TakeFlockOrNot(t) ==
    /\ pc[t] = "flock"
    /\ flock' = IF flock = Nobody THEN t ELSE flock
    /\ Goto(t, "check", NoFile)
    /\ UNCHANGED <<store, now, mutex, sizes, ghost>>

\* the event has no JSON form: nothing is written
NotSerialised(t) ==
    /\ pc[t] = "flock"
    /\ Goto(t, "release", NoFile)
    /\ UNCHANGED <<store, now, locks, sizes, ghost>>

\* fcntl.flock(LOCK_EX) waits
TakeFlock(t) ==
    /\ pc[t] = "flock"
    /\ flock = Nobody
    /\ flock' = t
    /\ Goto(t, "check", NoFile)
    /\ UNCHANGED <<store, now, mutex, sizes, ghost>>

\* open or flock raises OSError: go on without
FlockFails(t) ==
    /\ pc[t] = "flock"
    /\ LockMayFail
    /\ Goto(t, "check", NoFile)
    /\ UNCHANGED <<store, now, locks, sizes, ghost>>

\* mutant: released only after a line that was written
UnlockAfterSuccess(t) ==
    /\ pc[t] = "unlock"
    /\ flock' = IF flock = t /\ hold[t] # NoFile THEN Nobody ELSE flock
    /\ Goto(t, "release", NoFile)
    /\ UNCHANGED <<store, now, mutex, sizes, ghost>>

\* the finally clause: LOCK_UN and close
Unlock(t) ==
    /\ pc[t] = "unlock"
    /\ flock' = IF flock = t THEN Nobody ELSE flock
    /\ Goto(t, "release", NoFile)
    /\ UNCHANGED <<store, now, mutex, sizes, ghost>>

Release(t) ==
    /\ pc[t] = "release"
    /\ mutex' = [mutex EXCEPT ![ProcessOf(t)] = Nobody]
    /\ pc' = [pc EXCEPT ![t] = "idle"]
    /\ line' = [line EXCEPT ![t] = 0]
    /\ UNCHANGED <<store, now, flock, sizes, hold, ghost>>
-----------------------------------------------------------------------------
(* Rotation                                                                *)

\* mutant: the size of the new line is left out
CheckOldSize(t) ==
    /\ pc[t] = "check"
    /\ Goto(t, IF current # NoFile /\ Len(files[current].lines) >= Limit
               THEN "name" ELSE "open", NoFile)
    /\ UNCHANGED <<store, now, locks, sizes, ghost>>

\* _needs_rotation; a log that is not there needs none
Check(t) ==
    /\ pc[t] = "check"
    /\ Goto(t, IF /\ current # NoFile
                  /\ Len(files[current].lines) + line[t] >= Limit
               THEN "name" ELSE "open", NoFile)
    /\ UNCHANGED <<store, now, locks, sizes, ghost>>

Name(c) == [time |-> now, counter |-> c]

\* mutant: no guard against collisions
PlainName(t) ==
    /\ pc[t] = "name"
    /\ Goto(t, "move", Name(0))
    /\ UNCHANGED <<store, now, locks, sizes, ghost>>

\* mutant: the counter ends one too late
CounterOffByOne(t) ==
    /\ pc[t] = "name"
    /\ LET taken == {c \in 0 .. MaxCounter : Name(c) \in DOMAIN backups}
       IN  Goto(t, "move", Name(IF taken = {} THEN 0 ELSE MaxCounter + 1))
    /\ UNCHANGED <<store, now, locks, sizes, ghost>>

\* the backup's name: the first one free, the plain one if none is
ChooseName(t) ==
    /\ pc[t] = "name"
    /\ LET free == {c \in 0 .. MaxCounter : Name(c) \notin DOMAIN backups}
       IN  Goto(t, "move",
                Name(IF free = {} THEN 0
                     ELSE CHOOSE c \in free : \A d \in free : c <= d))
    /\ UNCHANGED <<store, now, locks, sizes, ghost>>

\* rename replaces a file of that name; it fails if the log is gone
Move(t) ==
    /\ pc[t] = "move"
    /\ \/ /\ current # NoFile
          /\ backups' = [n \in DOMAIN backups \cup {hold[t]} |->
                            IF n = hold[t] THEN current ELSE backups[n]]
          /\ current' = NoFile
          /\ Goto(t, "list", NoFile)
       \/ /\ current = NoFile
          /\ Goto(t, "open", NoFile)
          /\ UNCHANGED <<current, backups>>
    /\ UNCHANGED <<files, now, locks, sizes, ghost>>

\* any other failure leaves the log where it is
MoveFails(t) ==
    /\ pc[t] = "move"
    /\ Goto(t, "open", NoFile)
    /\ stuck' = TRUE
    /\ UNCHANGED <<store, now, locks, sizes, acked, torn>>

Time(n) == files[backups[n]].time

\* _cleanup_old_backups: the oldest by modification time are too many
List(t) ==
    /\ pc[t] = "list"
    /\ \E old \in SUBSET DOMAIN backups :
          /\ Cardinality(DOMAIN backups \ old) <= Count
          /\ old # {} => Cardinality(DOMAIN backups \ old) = Count
          /\ \A n \in old, m \in DOMAIN backups \ old : Time(n) <= Time(m)
          /\ Goto(t, IF old = {} THEN "open" ELSE "unlink", old)
    /\ UNCHANGED <<store, now, locks, sizes, ghost>>

\* unlink the oldest of them; one that is gone is passed over
Unlink(t) ==
    /\ pc[t] = "unlink"
    /\ \E n \in hold[t] :
          /\ n \in DOMAIN backups =>
                \A m \in hold[t] \cap DOMAIN backups : Time(n) <= Time(m)
          /\ backups' = [m \in DOMAIN backups \ {n} |-> backups[m]]
          /\ Goto(t, IF hold[t] = {n} THEN "open" ELSE "unlink", hold[t] \ {n})
    /\ UNCHANGED <<current, files, now, locks, sizes, ghost>>

\* the directory cannot be read, or allows no unlink
CleanupFails(t) ==
    /\ pc[t] \in {"list", "unlink"}
    /\ Goto(t, "open", NoFile)
    /\ UNCHANGED <<store, now, locks, sizes, ghost>>
-----------------------------------------------------------------------------
(* The line                                                                *)

\* open("a") creates the log if it is not there
Open(t) ==
    /\ pc[t] = "open"
    /\ \/ /\ current # NoFile
          /\ Goto(t, "write", [file |-> current, event |-> 0, part |-> 0])
          /\ UNCHANGED store
       \/ /\ current = NoFile
          /\ files' = Append(files, [lines |-> << >>, time |-> now])
          /\ current' = Len(files) + 1
          /\ Goto(t, "write", [file |-> Len(files) + 1, event |-> 0, part |-> 0])
          /\ UNCHANGED backups
    /\ UNCHANGED <<now, locks, sizes, ghost>>

\* one write at the end of the file, wherever it has been moved to
WriteChunk(t) ==
    /\ pc[t] = "write"
    /\ LET f     == hold[t].file
           begin == hold[t].part = 0
           event == IF begin THEN Len(sizes) + 1 ELSE hold[t].event
           part  == hold[t].part + 1
           last  == part = line[t]
       IN  /\ sizes' = IF begin THEN Append(sizes, line[t]) ELSE sizes
           /\ files' = [files EXCEPT ![f] =
                  [lines |-> Append(@.lines, [event |-> event, part |-> part]),
                   time |-> now]]
           /\ Goto(t, IF last THEN "unlock" ELSE "write",
                      [file |-> f, event |-> event, part |-> part])
           /\ acked' = IF last THEN acked \cup {event} ELSE acked
    /\ UNCHANGED <<current, backups, now, locks, torn, stuck>>

\* an error of open or write, a full disk for example; write swallows it
WriteFails(t) ==
    /\ pc[t] \in {"open", "write"}
    /\ torn' = IF pc[t] = "write" /\ hold[t].part > 0 THEN torn + 1 ELSE torn
    /\ Goto(t, "unlock", NoFile)
    /\ UNCHANGED <<store, now, locks, sizes, acked, stuck>>
-----------------------------------------------------------------------------
\* a process is killed: the system releases its locks, it may start again
Die(p) ==
    LET dead == {t \in Threads : ProcessOf(t) = p}
        half == {t \in dead : pc[t] = "write" /\ hold[t].part > 0}
    IN  /\ \E t \in dead : pc[t] # "idle"
        /\ pc' = [t \in Threads |-> IF t \in dead THEN "idle" ELSE pc[t]]
        /\ line' = [t \in Threads |-> IF t \in dead THEN 0 ELSE line[t]]
        /\ hold' = [t \in Threads |-> IF t \in dead THEN NoFile ELSE hold[t]]
        /\ mutex' = [mutex EXCEPT ![p] = Nobody]
        /\ flock' = IF flock \in dead THEN Nobody ELSE flock
        /\ torn' = torn + Cardinality(half)
        /\ UNCHANGED <<store, now, sizes, acked, stuck>>

Tick ==
    /\ now < MaxTime
    /\ now' = now + 1
    /\ UNCHANGED <<store, locks, sizes, local, ghost>>

\* what a thread does without waiting for another
Run(t) ==
    \/ Check(t) \/ ChooseName(t) \/ Move(t) \/ List(t) \/ Unlink(t) \/ Open(t)
    \/ WriteChunk(t) \/ Unlock(t) \/ Release(t)

Fail(t) ==
    \/ NotSerialised(t) \/ FlockFails(t) \/ MoveFails(t) \/ CleanupFails(t)
    \/ WriteFails(t)

Step(t) == TakeMutex(t) \/ TakeFlock(t) \/ Run(t) \/ Fail(t)

Next ==
    \/ Tick
    \/ \E p \in Processes : Die(p)
    \/ \E t \in Threads : Call(t) \/ Step(t)

\* A thread that can go on does.  Whoever waits for a lock that is released
\* again and again gets it once: the system does not pass a waiter over for
\* ever.
Fairness ==
    \A t \in Threads :
        WF_vars(Run(t)) /\ SF_vars(TakeMutex(t)) /\ SF_vars(TakeFlock(t))

Spec == Init /\ [][Next /\ UNCHANGED deployed]_<<deployed, vars>>
FairSpec == Spec /\ Fairness
-----------------------------------------------------------------------------
(* Properties                                                              *)

\* an open or a sealed segment
Segment(f) == IF f = NoFile THEN NoFile ELSE files[f]

Log == INSTANCE SegmentLog WITH
           open <- Segment(current),
           sealed <- [n \in DOMAIN backups |-> Segment(backups[n])]

\* "Cross-process safe" (writer.py:33), as a promise about the files: while
\* the lock works, or only one process logs, nothing is written to a backup
\* and no backup is replaced; the log is never dropped, and a backup only by
\* a clean-up that leaves Count of them, all written later.
ImplementsSegments == Log!SegmentSpec

Files == (IF current = NoFile THEN {} ELSE {current})
         \cup {backups[n] : n \in DOMAIN backups}

\* a reader finds the line of e in file f: all its chunks in order, after
\* the end of another line
Readable(e, f) ==
    LET lines == files[f].lines
        size  == sizes[e]
    IN  \E i \in 0 .. Len(lines) - size :
          /\ \A k \in 1 .. size : lines[i + k] = [event |-> e, part |-> k]
          /\ i > 0 => lines[i].part = sizes[lines[i].event]

Unreadable ==
    {e \in acked : \E f \in Files :
        /\ \E i \in DOMAIN files[f].lines : files[f].lines[i].event = e
        /\ ~Readable(e, f)}

\* "Append a single JSONL line": an event is lost in a line that another
\* call has not finished, and every such line costs one event at most.
TornLinesBounded == Cardinality(Unreadable) <= torn

\* A file stays below its limit, unless one line is as long as that or the
\* log could not be renamed: the size is looked at and the line written
\* without another line in between.
LimitKept ==
    ~stuck =>
        \A f \in Files :
            LET lines == files[f].lines
            IN  \/ Len(lines) < Limit
                \/ \A i \in DOMAIN lines : lines[i].event = lines[1].event

\* log_event is called on the way of every command: write always returns,
\* also after errors, and no death of another process blocks it.
EveryWriteReturns == \A t \in Threads : pc[t] # "idle" ~> pc[t] = "idle"
=============================================================================
