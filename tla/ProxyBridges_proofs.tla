------------------------ MODULE ProxyBridges_proofs ------------------------
(***************************************************************************)
(* Proofs about ProxyBridges, for any number of launchers, process ids,    *)
(* names and endpoints.                                                    *)
(***************************************************************************)
EXTENDS ProxyBridges, FiniteSetTheorems, TLAPS

-----------------------------------------------------------------------------
(* The inductive invariant.                                                *)

\* A launcher whose path has its final value: its directory, if it has made it.
Settled == {"fork", "await", "bwrap", "command", "dead"}

\* k has made a directory at p, which may have gone since.
Had(k, p) ==
    /\ launch[k].at \in Settled
    /\ launch[k].path = p /\ launch[k].pid = p[1] /\ p \in Paths

\* Launchers start in order, and the id of one that runs is not given again.
Order ==
    \A i, k \in Launches :
        /\ IF launch[i].at = "not yet" THEN launch[i] = NotYet
           ELSE launch[i].pid \in Pids /\ launch[i].env \in AllEnvironments
        /\ i < k /\ launch[k].at # "not yet" =>
              /\ launch[i].at # "not yet"
              /\ Alive(i) => launch[i].pid # launch[k].pid

\* Every directory, and every one that a clean-up has seen, was made by the
\* launcher that it is named for; the owner of one about to be removed is dead.
Made ==
    /\ \A p \in Paths : dirs[p] # 0 => Had(dirs[p], p)
    /\ \A j \in Launches :
          /\ \A p \in launch[j].left : \E k \in Launches : Had(k, p)
          /\ launch[j].at = "remove" =>
                \E k \in Launches : Had(k, PathOf(j)) /\ launch[k].at = "dead"

\* Other launchers that run look at their own paths, and a bridge or a worker
\* has the directory that its launcher has made.
Named ==
    \A i \in Launches :
        /\ launch[i].at \notin {"not yet", "remove", "dead"} => launch[i].path[1] = launch[i].pid
        /\ launch[i].at \in {"clean", "fork", "await", "bwrap", "command"} => PathOf(i) \in Paths
        /\ worker[i] # "none" =>
              /\ launch[i].at \in {"bwrap", "command", "dead"}
              /\ Had(i, PathOf(i))
        /\ \A e \in Endpoints : bridge[i][e] # "none" =>
              /\ Had(i, PathOf(i))
              /\ e \in Used(launch[i].env)

\* Bridges start one after the other, each when the one before has reported.
Pending == {"forked", "armed", "bound"}

InTurn ==
    \A i \in Launches :
        /\ \A e \in Endpoints : Alive(i) /\ bridge[i][e] \in Pending =>
              /\ launch[i].at = "await"
              /\ \A f \in Endpoints \ {e} : bridge[i][f] \notin Pending
        /\ launch[i].at \in {"bwrap", "command"} =>
              \A e \in Used(launch[i].env) : bridge[i][e] # "none"
        /\ worker[i] = "removing" => \A e \in Endpoints : bridge[i][e] \in {"none", "gone"}

\* Reused, but by a launcher whose path is final.
Replaced(i) ==
    \E k \in 1 .. i - 1 : launch[k].at \in Settled /\ PathOf(k) = PathOf(i)

\* The directory and the sockets of a launcher that runs are its own.
Kept ==
    \A i \in Launches :
        launch[i].at \in Settled \ {"dead"} /\ ~Replaced(i) =>
            /\ \/ Owns(i)
               \/ /\ launch[i].at \in {"bwrap", "command"}
                  /\ \A e \in Used(launch[i].env) : bridge[i][e] = "gone"
            /\ \A e \in Endpoints : bridge[i][e] \in {"bound", "serving"} =>
                  sockets[PathOf(i)][SocketOf(launch[i].env, e)] = <<i, e>>

BridgesInv == TypeOK /\ Order /\ Made /\ Named /\ InTurn /\ NoOrphanServes

-----------------------------------------------------------------------------
(* The plan of a launcher: no two endpoints share a socket.                *)

\* a set of variables has a first one
LEMMA FirstOf ==
    ASSUME NEW T, T \subseteq Nat, T # {}
    PROVE  \E v \in T : \A u \in T : v <= u
<1>1. PICK v \in T : \A u \in T : ~ (<<u, v>> \in OpToRel(<, Nat))
  BY NatLessThanWellFounded, WFMin, Zenon
<1>2. \A u \in T : ~ (u < v)
  BY <1>1 DEF OpToRel
<1>. QED
  BY <1>2

LEMMA FirstUseFacts ==
    ASSUME NEW env \in AllEnvironments, NEW e \in Used(env)
    PROVE  FirstUse(env, e) \in Planned(env) /\ env[FirstUse(env, e)] = e
<1>. DEFINE T == {v \in Planned(env) : env[v] = e}
<1>1. T \subseteq Nat /\ T # {}
  BY ProxyAssumption DEF Planned, Used
<1>2. PICK v \in T : \A u \in T : v <= u
  BY <1>1, FirstOf
<1>3. \E v1 \in Planned(env) :
          env[v1] = e /\ \A u \in Planned(env) : env[u] = e => v1 <= u
  BY <1>2
<1>. QED
  BY <1>3 DEF FirstUse

LEMMA UsedFinite ==
    ASSUME NEW env \in AllEnvironments
    PROVE  Used(env) \subseteq Endpoints /\ IsFiniteSet(Used(env))
<1>1. Used(env) \subseteq Endpoints
  BY DEF Used, Planned
<1>. QED
  BY <1>1, ProxyAssumption, FS_Subset

\* the socket of an endpoint used first comes before those used later
LEMMA SocketsOrdered ==
    ASSUME NEW env \in AllEnvironments, NEW e \in Used(env), NEW f \in Used(env),
           FirstUse(env, e) < FirstUse(env, f)
    PROVE  SocketOf(env, e) < SocketOf(env, f)
<1>. DEFINE B(g) == {h \in Used(env) : FirstUse(env, h) < FirstUse(env, g)}
<1>1. \A h \in Used(env) : FirstUse(env, h) \in Nat
  BY FirstUseFacts, ProxyAssumption DEF Planned
<1>2. B(e) \in SUBSET B(f) /\ e \in B(f) /\ e \notin B(e)
  BY <1>1
<1>3. IsFiniteSet(B(f))
  BY UsedFinite, FS_Subset, B(f) \in SUBSET Used(env)
<1>4. /\ IsFiniteSet(B(e)) /\ Cardinality(B(e)) <= Cardinality(B(f))
      /\ Cardinality(B(f)) # Cardinality(B(e))
  BY <1>2, <1>3, FS_Subset
<1>5. Cardinality(B(e)) \in Nat /\ Cardinality(B(f)) \in Nat
  BY <1>3, <1>4, FS_CardinalityType
<1>. QED
  BY <1>4, <1>5 DEF SocketOf

LEMMA SocketsDiffer ==
    ASSUME NEW env \in AllEnvironments, NEW e \in Used(env), NEW f \in Used(env), e # f
    PROVE  SocketOf(env, e) # SocketOf(env, f)
<1>1. /\ FirstUse(env, e) \in Nat /\ FirstUse(env, f) \in Nat
      /\ FirstUse(env, e) # FirstUse(env, f)
  BY FirstUseFacts, ProxyAssumption DEF Planned
<1>2. SocketOf(env, e) \in Nat /\ SocketOf(env, f) \in Nat
  <2>. SUFFICES ASSUME NEW g PROVE SocketOf(env, g) \in Nat
    OBVIOUS
  <2>1. {h \in Used(env) : FirstUse(env, h) < FirstUse(env, g)} \in SUBSET Used(env)
    OBVIOUS
  <2>. QED
    BY <2>1, UsedFinite, FS_Subset, FS_CardinalityType DEF SocketOf
<1>3. CASE FirstUse(env, e) < FirstUse(env, f)
  BY <1>2, <1>3, SocketsOrdered
<1>4. CASE FirstUse(env, f) < FirstUse(env, e)
  BY <1>2, <1>4, SocketsOrdered
<1>. QED
  BY <1>1, <1>3, <1>4

\* there are at most as many sockets as endpoints
LEMMA SocketInRange ==
    ASSUME NEW env \in AllEnvironments, NEW e \in Used(env)
    PROVE  SocketOf(env, e) \in 0 .. Cardinality(Endpoints) - 1
<1>. DEFINE B == {h \in Used(env) : FirstUse(env, h) < FirstUse(env, e)}
<1>1. B \in SUBSET Endpoints /\ e \in Endpoints /\ e \notin B
  BY UsedFinite, FirstUseFacts, ProxyAssumption DEF Planned
<1>2. /\ IsFiniteSet(B) /\ Cardinality(B) <= Cardinality(Endpoints)
      /\ Cardinality(Endpoints) # Cardinality(B)
  BY <1>1, ProxyAssumption, FS_Subset
<1>3. Cardinality(B) \in Nat /\ Cardinality(Endpoints) \in Nat
  BY <1>2, ProxyAssumption, FS_CardinalityType
<1>. QED
  BY <1>2, <1>3 DEF SocketOf
-----------------------------------------------------------------------------
(* Types.                                                                  *)

LEMMA Numbers ==
    /\ Launches \subseteq Nat /\ 0 \notin Launches
    /\ \A p \in Paths : p \in Pids \X (0 .. MaxAttempts) /\ p = <<p[1], p[2]>>
    /\ \A pid \in Pids : <<pid, 0>> \in Paths
  BY ProxyAssumption DEF Launches, Paths

\* the conjuncts of TypeOK
PathValues    == {<<0, 0>>} \cup (Pids \X (0 .. MaxAttempts))
Stages        == {"not yet", "clean", "remove", "create", "fork", "await", "bwrap",
                  "command", "dead"}
EnvValues     == {<<>>} \cup AllEnvironments
LaunchRecords == [pid : {0} \cup Pids, env : EnvValues, left : SUBSET Paths,
                  at : Stages, path : PathValues]
SocketValues  == [0 .. Cardinality(Endpoints) - 1 -> {Nobody} \cup (Launches \X Endpoints)]
BridgeValues  == [Endpoints -> {"none", "forked", "armed", "bound", "serving", "gone"}]
WorkerValues  == {"none", "waiting", "removing", "done", "killed", "failed"}

DirsOK    == dirs \in [Paths -> {0} \cup Launches]
SocketsOK == sockets \in [Paths -> SocketValues]
LaunchOK  == launch \in [Launches -> LaunchRecords]
BridgeOK  == bridge \in [Launches -> BridgeValues]
WorkerOK  == worker \in [Launches -> WorkerValues]

LEMMA TypeParts ==
    /\ TypeOK <=> DirsOK /\ SocketsOK /\ LaunchOK /\ BridgeOK /\ WorkerOK
    /\ TypeOK' <=> DirsOK' /\ SocketsOK' /\ LaunchOK' /\ BridgeOK' /\ WorkerOK'
  BY DEF TypeOK, DirsOK, SocketsOK, LaunchOK, BridgeOK, WorkerOK, PathValues, Stages,
         EnvValues, LaunchRecords, SocketValues, BridgeValues, WorkerValues

LEMMA TypesInit == Init => TypeOK
<1>1. NotYet \in LaunchRecords
  BY DEF NotYet, LaunchRecords, PathValues, EnvValues, Stages
<1>2. [k \in 0 .. Cardinality(Endpoints) - 1 |-> Nobody] \in SocketValues
  BY DEF SocketValues
<1>. SUFFICES ASSUME Init PROVE DirsOK /\ SocketsOK /\ LaunchOK /\ BridgeOK /\ WorkerOK
  BY TypeParts
<1>. QED
  BY <1>1, <1>2 DEF Init, DirsOK, SocketsOK, LaunchOK, BridgeOK, WorkerOK, BridgeValues,
     WorkerValues

\* what the removal of a directory changes
LEMMA RemoveDirFacts ==
    ASSUME DirsOK, SocketsOK, NEW p \in Paths, RemoveDir(p)
    PROVE  /\ DirsOK' /\ SocketsOK'
           /\ dirs'[p] = 0
           /\ \A q \in Paths \ {p} : dirs'[q] = dirs[q] /\ sockets'[q] = sockets[q]
<1>1. [k \in DOMAIN sockets[p] |-> Nobody] \in SocketValues
  BY DEF SocketsOK, SocketValues
<1>. QED
  BY <1>1 DEF RemoveDir, DirsOK, SocketsOK

LEMMA LaunchOKStep ==
    ASSUME LaunchOK, NEW i \in Launches, NEW r \in LaunchRecords,
           launch' = [launch EXCEPT ![i] = r]
    PROVE  LaunchOK'
  BY DEF LaunchOK

LEMMA BridgeOKStep ==
    ASSUME BridgeOK, NEW i \in Launches, NEW e \in Endpoints,
           NEW s \in {"none", "forked", "armed", "bound", "serving", "gone"}, Becomes(i, e, s)
    PROVE  /\ BridgeOK'
           /\ bridge'[i][e] = s
           /\ \A k \in Launches, f \in Endpoints :
                 k # i \/ f # e => bridge'[k][f] = bridge[k][f]
  BY DEF BridgeOK, BridgeValues, Becomes

\* the record of launcher i becomes r
Sets(i, r) ==
    /\ r \in LaunchRecords /\ launch'[i] = r
    /\ \A k \in Launches \ {i} : launch'[k] = launch[k]

LEMMA SetsFacts ==
    ASSUME LaunchOK, NEW i \in Launches, NEW r \in LaunchRecords,
           launch' = [launch EXCEPT ![i] = r]
    PROVE  LaunchOK' /\ Sets(i, r)
  BY DEF LaunchOK, Sets

\* ... its pid and env are never changed after its launch
Moved(i, at, path, left) ==
    /\ \A k \in Launches \ {i} : launch'[k] = launch[k]
    /\ launch'[i].pid = launch[i].pid /\ launch'[i].env = launch[i].env
    /\ launch'[i].at = at /\ launch'[i].path = path /\ launch'[i].left = left

LEMMA MovedFacts ==
    ASSUME LaunchOK, NEW i \in Launches
    PROVE  /\ \A at \in Stages :
                 Sets(i, [launch[i] EXCEPT !.at = at])
                    => Moved(i, at, launch[i].path, launch[i].left)
           /\ \A at \in Stages, path \in PathValues :
                 Sets(i, [launch[i] EXCEPT !.at = at, !.path = path])
                    => Moved(i, at, path, launch[i].left)
           /\ \A at \in Stages, left \in SUBSET Paths :
                 Sets(i, [launch[i] EXCEPT !.at = at, !.left = left])
                    => Moved(i, at, launch[i].path, left)
           /\ \A path \in PathValues :
                 Sets(i, [launch[i] EXCEPT !.left = @ \ {path}])
                    => Moved(i, launch[i].at, launch[i].path, launch[i].left \ {path})
           /\ \A path \in PathValues :
                 Sets(i, [launch[i] EXCEPT !.left = @ \ {path}, !.path = path, !.at = "remove"])
                    => Moved(i, "remove", path, launch[i].left \ {path})
  BY DEF Moved, Sets, LaunchOK, LaunchRecords

LEMMA AtFacts ==
    ASSUME LaunchOK, NEW i \in Launches, NEW at \in Stages, Goto(i, at)
    PROVE  LaunchOK' /\ Moved(i, at, launch[i].path, launch[i].left)
<1>1. launch' = [launch EXCEPT ![i] = [launch[i] EXCEPT !.at = at]]
  BY DEF LaunchOK, Goto
<1>2. [launch[i] EXCEPT !.at = at] \in LaunchRecords
  BY DEF LaunchOK, LaunchRecords
<1>. QED
  BY <1>1, <1>2, SetsFacts, MovedFacts

LEMMA LaunchFacts ==
    ASSUME TypeOK, NEW i \in Launches, Launch(i)
    PROVE  /\ TypeOK'
           /\ \E pid \in Pids, env \in AllEnvironments :
                 Sets(i, [pid |-> pid, env |-> env, at |-> "clean", path |-> <<pid, 0>>,
                          left |-> {p \in Paths : dirs[p] # 0}])
<1>1. PICK pid \in Pids, env \in Environments[i] :
         launch' = [launch EXCEPT ![i] =
                [pid |-> pid, env |-> env, at |-> "clean", path |-> <<pid, 0>>,
                 left |-> {p \in Paths : dirs[p] # 0}]]
  BY DEF Launch
<1>2. env \in AllEnvironments
  BY DEF AllEnvironments
<1>3. [pid |-> pid, env |-> env, at |-> "clean", path |-> <<pid, 0>>,
                 left |-> {p \in Paths : dirs[p] # 0}] \in LaunchRecords
  BY <1>2, ProxyAssumption DEF LaunchRecords, PathValues, EnvValues, Stages
<1>4. LaunchOK'
  BY <1>1, <1>3, TypeParts, SetsFacts
<1>5. DirsOK' /\ SocketsOK' /\ BridgeOK' /\ WorkerOK'
  BY TypeParts DEF Launch, DirsOK, SocketsOK, BridgeOK, WorkerOK
<1>6. TypeOK'
  BY <1>4, <1>5, TypeParts
<1>. QED
  BY <1>1, <1>2, <1>3, <1>6, TypeParts, SetsFacts
LEMMA TestFacts ==
    ASSUME TypeOK, NEW i \in Launches, TestOwner(i)
    PROVE  /\ TypeOK'
           /\ launch[i].at = "clean"
           /\ \E p \in launch[i].left :
                 \/ /\ \A j \in Launches : Alive(j) => launch[j].pid # p[1]
                    /\ Moved(i, "remove", p, launch[i].left \ {p})
                 \/ Moved(i, "clean", launch[i].path, launch[i].left \ {p})
<1>1. PICK p \in launch[i].left :
          \/ /\ \A j \in Launches : Alive(j) => launch[j].pid # p[1]
             /\ launch' = [launch EXCEPT ![i] =
                   [launch[i] EXCEPT !.left = @ \ {p}, !.path = p, !.at = "remove"]]
          \/ launch' = [launch EXCEPT ![i] = [launch[i] EXCEPT !.left = @ \ {p}]]
  BY TypeParts DEF TestOwner, LaunchOK
<1>2. p \in PathValues
  BY <1>1, Numbers, TypeParts DEF LaunchOK, LaunchRecords, PathValues
<1>3. /\ [launch[i] EXCEPT !.left = @ \ {p}, !.path = p, !.at = "remove"] \in LaunchRecords
      /\ [launch[i] EXCEPT !.left = @ \ {p}] \in LaunchRecords
  BY <1>2, TypeParts DEF LaunchOK, LaunchRecords, Stages
<1>4. LaunchOK'
  BY <1>1, <1>3, TypeParts, SetsFacts
<1>5. DirsOK' /\ SocketsOK' /\ BridgeOK' /\ WorkerOK'
  BY TypeParts DEF TestOwner, DirsOK, SocketsOK, BridgeOK, WorkerOK
<1>6. \/ /\ \A j \in Launches : Alive(j) => launch[j].pid # p[1]
         /\ Moved(i, "remove", p, launch[i].left \ {p})
      \/ Moved(i, "clean", launch[i].path, launch[i].left \ {p})
  <2>1. CASE launch' = [launch EXCEPT ![i] = [launch[i] EXCEPT !.left = @ \ {p}]]
    BY <1>2, <1>3, <2>1, TypeParts, SetsFacts, MovedFacts DEF TestOwner
  <2>2. CASE /\ \A j \in Launches : Alive(j) => launch[j].pid # p[1]
             /\ launch' = [launch EXCEPT ![i] =
                   [launch[i] EXCEPT !.left = @ \ {p}, !.path = p, !.at = "remove"]]
    BY <1>2, <1>3, <2>2, TypeParts, SetsFacts, MovedFacts
  <2>. QED
    BY <1>1, <2>1, <2>2
<1>. QED
  BY <1>4, <1>5, <1>6, TypeParts DEF TestOwner

LEMMA StaleFacts ==
    ASSUME TypeOK, NEW i \in Launches, RemoveStale(i), PathOf(i) \in Paths,
           launch[i].pid \in Pids
    PROVE  /\ TypeOK'
           /\ launch[i].at = "remove"
           /\ Moved(i, "clean", <<launch[i].pid, 0>>, launch[i].left)
           /\ UNCHANGED <<bridge, worker>>
           /\ \A p \in Paths \ {PathOf(i)} : dirs'[p] = dirs[p] /\ sockets'[p] = sockets[p]
           /\ dirs'[PathOf(i)] \in {0, dirs[PathOf(i)]}
<1>1. launch' = [launch EXCEPT ![i] =
                   [launch[i] EXCEPT !.at = "clean", !.path = <<launch[i].pid, 0>>]]
  BY TypeParts DEF RemoveStale, LaunchOK
<1>2. [launch[i] EXCEPT !.at = "clean", !.path = <<launch[i].pid, 0>>] \in LaunchRecords
  <2>1. <<launch[i].pid, 0>> \in PathValues
    BY ProxyAssumption DEF PathValues
  <2>. QED
    BY <2>1, TypeParts DEF LaunchOK, LaunchRecords, Stages
<1>3. LaunchOK' /\ Moved(i, "clean", <<launch[i].pid, 0>>, launch[i].left)
  <2>1. <<launch[i].pid, 0>> \in PathValues /\ "clean" \in Stages
    BY ProxyAssumption DEF PathValues, Stages
  <2>. QED
    BY <1>1, <1>2, <2>1, TypeParts, SetsFacts, MovedFacts
<1>4. BridgeOK' /\ WorkerOK'
  BY TypeParts DEF RemoveStale, BridgeOK, WorkerOK
<1>5. CASE RemoveDir(PathOf(i))
  BY <1>3, <1>4, <1>5, RemoveDirFacts, TypeParts DEF RemoveStale
<1>6. CASE UNCHANGED <<dirs, sockets>>
  <2>1. DirsOK' /\ SocketsOK'
    BY <1>6, TypeParts DEF DirsOK, SocketsOK
  <2>. QED
    BY <1>3, <1>4, <1>6, <2>1, TypeParts DEF RemoveStale
<1>. QED
  BY <1>5, <1>6 DEF RemoveStale

LEMMA CreateFacts ==
    ASSUME TypeOK, NEW i \in Launches, CreateDir(i), PathOf(i) \in Paths
    PROVE  /\ TypeOK'
           /\ launch[i].at \in {"clean", "create"}
           /\ UNCHANGED <<sockets, bridge, worker>>
           /\ \/ /\ dirs[PathOf(i)] = 0 /\ dirs' = [dirs EXCEPT ![PathOf(i)] = i]
                 /\ Moved(i, "fork", launch[i].path, launch[i].left)
              \/ /\ Moved(i, "create", <<launch[i].path[1], launch[i].path[2] + 1>>,
                          launch[i].left)
                 /\ UNCHANGED dirs
<1>1. LaunchOK /\ launch[i] \in LaunchRecords /\ launch[i].at \in {"clean", "create"}
  BY TypeParts DEF LaunchOK, CreateDir
<1>2. SocketsOK' /\ BridgeOK' /\ WorkerOK'
  BY TypeParts DEF CreateDir, SocketsOK, BridgeOK, WorkerOK
<1>3. CASE dirs[PathOf(i)] = 0
  <2>1. /\ dirs' = [dirs EXCEPT ![PathOf(i)] = i]
        /\ launch' = [launch EXCEPT ![i] = [launch[i] EXCEPT !.at = "fork"]]
    BY <1>1, <1>3 DEF CreateDir, Goto, LaunchOK
  <2>2. DirsOK'
    BY <2>1, TypeParts DEF DirsOK
  <2>3. [launch[i] EXCEPT !.at = "fork"] \in LaunchRecords
    BY <1>1 DEF LaunchRecords, Stages
  <2>. QED
    BY <1>1, <1>2, <1>3, <2>1, <2>2, <2>3, SetsFacts, MovedFacts, TypeParts
    DEF CreateDir, Stages
<1>4. CASE dirs[PathOf(i)] # 0
  <2>. DEFINE next == <<launch[i].path[1], launch[i].path[2] + 1>>
              r    == [launch[i] EXCEPT !.at = "create", !.path = next]
  <2>1. launch[i].path \in Pids \X (0 .. MaxAttempts - 1)
    BY DEF PathOf, Paths
  <2>2. [launch[i].path EXCEPT ![2] = launch[i].path[2] + 1]
          = next
    BY <2>1
  <2>3. launch' = [launch EXCEPT ![i] = [[launch[i] EXCEPT !.at = "create"] EXCEPT
                      !.path = [launch[i].path EXCEPT ![2] = launch[i].path[2] + 1]]]
    BY <1>1, <1>4 DEF CreateDir, LaunchOK, LaunchRecords
  <2>4. launch' = [launch EXCEPT ![i] = r]
    BY <1>1, <2>2, <2>3 DEF LaunchRecords
  <2>5. next \in PathValues
    BY <2>1, ProxyAssumption DEF PathValues
  <2>6. r \in LaunchRecords
    BY <1>1, <2>5 DEF LaunchRecords, Stages
  <2>. HIDE DEF next
  <2>7. LaunchOK' /\ Moved(i, "create", next, launch[i].left) /\ UNCHANGED dirs
    BY <1>1, <1>4, <2>4, <2>5, <2>6, SetsFacts, MovedFacts DEF CreateDir, Stages
  <2>8. DirsOK'
    BY <2>7, TypeParts DEF DirsOK
  <2>. QED
    BY <1>1, <1>2, <2>7, <2>8, TypeParts DEF CreateDir, next
<1>. QED
  BY <1>3, <1>4
LEMMA ForkFacts ==
    ASSUME TypeOK, NEW i \in Launches, launch[i].env \in AllEnvironments, ForkBridge(i)
    PROVE  /\ TypeOK'
           /\ Moved(i, "await", launch[i].path, launch[i].left)
           /\ \E e \in Endpoints :
                 e \in Used(launch[i].env) /\ bridge[i][e] = "none" /\ Becomes(i, e, "forked")
<1>1. PICK e \in Used(launch[i].env) : bridge[i][e] = "none" /\ Becomes(i, e, "forked")
  BY DEF ForkBridge, Becomes
<1>2. e \in Endpoints
  BY UsedFinite
<1>3. BridgeOK'
  BY <1>1, <1>2, TypeParts, BridgeOKStep
<1>4. LaunchOK' /\ Moved(i, "await", launch[i].path, launch[i].left)
  BY TypeParts, AtFacts DEF ForkBridge, Stages
<1>5. DirsOK' /\ SocketsOK' /\ WorkerOK'
  BY TypeParts DEF ForkBridge, DirsOK, SocketsOK, WorkerOK
<1>. QED
  BY <1>1, <1>2, <1>3, <1>4, <1>5, TypeParts

LEMMA ForkWorkerFacts ==
    ASSUME TypeOK, NEW i \in Launches, ForkWorker(i)
    PROVE  TypeOK' /\ Moved(i, "bwrap", launch[i].path, launch[i].left)
<1>1. LaunchOK' /\ Moved(i, "bwrap", launch[i].path, launch[i].left)
  BY TypeParts, AtFacts DEF ForkWorker, Stages
<1>2. DirsOK' /\ SocketsOK' /\ BridgeOK'
  BY TypeParts DEF ForkWorker, DirsOK, SocketsOK, BridgeOK
<1>3. WorkerOK'
  BY TypeParts DEF ForkWorker, WorkerOK, WorkerValues
<1>. QED
  BY <1>1, <1>2, <1>3, TypeParts

LEMMA ActivateFacts ==
    ASSUME TypeOK, NEW i \in Launches, Activate(i)
    PROVE  TypeOK' /\ Moved(i, "command", launch[i].path, launch[i].left)
<1>1. LaunchOK' /\ Moved(i, "command", launch[i].path, launch[i].left)
  BY TypeParts, AtFacts DEF Activate, Stages
<1>2. DirsOK' /\ SocketsOK' /\ BridgeOK' /\ WorkerOK'
  BY TypeParts DEF Activate, DirsOK, SocketsOK, BridgeOK, WorkerOK
<1>. QED
  BY <1>1, <1>2, TypeParts

LEMMA DieFacts ==
    ASSUME TypeOK, NEW i \in Launches, Die(i)
    PROVE  /\ TypeOK'
           /\ Moved(i, "dead", launch[i].path, {})
           /\ \A k \in Launches, e \in Endpoints :
                 bridge'[k][e] = IF k = i /\ bridge[i][e] \in {"armed", "bound", "serving"}
                                 THEN "gone" ELSE bridge[k][e]
<1>1. launch' = [launch EXCEPT ![i] = [launch[i] EXCEPT !.at = "dead", !.left = {}]]
  BY TypeParts DEF Die, LaunchOK
<1>2. [launch[i] EXCEPT !.at = "dead", !.left = {}] \in LaunchRecords
  BY TypeParts DEF LaunchOK, LaunchRecords, Stages
<1>3. LaunchOK' /\ Moved(i, "dead", launch[i].path, {})
  BY <1>1, <1>2, TypeParts, SetsFacts, MovedFacts DEF Stages
<1>4. /\ BridgeOK'
      /\ \A k \in Launches, e \in Endpoints :
            bridge'[k][e] = IF k = i /\ bridge[i][e] \in {"armed", "bound", "serving"}
                            THEN "gone" ELSE bridge[k][e]
  BY TypeParts DEF Die, BridgeOK, BridgeValues
<1>5. DirsOK' /\ SocketsOK' /\ WorkerOK'
  BY TypeParts DEF Die, DirsOK, SocketsOK, WorkerOK
<1>. QED
  BY <1>3, <1>4, <1>5, TypeParts

\* The steps of a bridge.  s is its new state.
LEMMA BridgeFacts ==
    ASSUME TypeOK, NEW i \in Launches, NEW e \in Endpoints,
           bridge[i][e] # "none" =>
               launch[i].env \in AllEnvironments /\ e \in Used(launch[i].env)
                   /\ PathOf(i) \in Paths,
           BridgeStep(i, e) \/ Fail(i, e)
    PROVE  /\ TypeOK'
           /\ UNCHANGED <<dirs, worker>>
           /\ \E s \in {"armed", "bound", "serving", "gone"} :
                 /\ Becomes(i, e, s)
                 /\ bridge[i][e] \notin {"none", "gone"}
                 /\ s \in Pending => bridge[i][e] \in Pending
                 /\ IF s = "bound"
                    THEN sockets' = [sockets EXCEPT
                            ![PathOf(i)][SocketOf(launch[i].env, e)] = <<i, e>>]
                    ELSE UNCHANGED sockets
                 /\ IF s = "serving"
                    THEN /\ Alive(i) /\ bridge[i][e] = "bound"
                         /\ Moved(i, "fork", launch[i].path, launch[i].left)
                    ELSE UNCHANGED launch
<1>. DEFINE Values == {"none", "forked", "armed", "bound", "serving", "gone"}
<1>0. DirsOK' /\ WorkerOK' /\ UNCHANGED <<dirs, worker>>
  BY TypeParts DEF BridgeStep, Arm, Bind, TellReady, Fail, DirsOK, WorkerOK
<1>1. CASE Arm(i, e) \/ Fail(i, e)
  <2>1. PICK s \in {"armed", "gone"} : Becomes(i, e, s)
    BY <1>1 DEF Arm, Fail
  <2>2. UNCHANGED <<sockets, launch>> /\ SocketsOK' /\ LaunchOK'
    BY <1>1, TypeParts DEF Arm, Fail, SocketsOK, LaunchOK
  <2>3. BridgeOK'
    BY <2>1, TypeParts, BridgeOKStep
  <2>4. bridge[i][e] \notin {"none", "gone"} /\ (s \in Pending => bridge[i][e] \in Pending)
    BY <1>1, <2>1, <2>3, TypeParts DEF Arm, Fail, Pending, Becomes, BridgeOK, BridgeValues
  <2>. QED
    BY <1>0, <2>1, <2>2, <2>3, <2>4, TypeParts
<1>2. CASE Bind(i, e)
  <2>1. CASE dirs[PathOf(i)] = 0
    <3>1. Becomes(i, e, "gone") /\ UNCHANGED <<sockets, launch>>
      BY <1>2, <2>1 DEF Bind
    <3>2. BridgeOK' /\ SocketsOK' /\ LaunchOK'
      BY <3>1, TypeParts, BridgeOKStep DEF SocketsOK, LaunchOK
    <3>. QED
      BY <1>0, <1>2, <3>1, <3>2, TypeParts DEF Bind, Pending
  <2>2. CASE dirs[PathOf(i)] # 0
    <3>. DEFINE n == SocketOf(launch[i].env, e)
    <3>1. /\ Becomes(i, e, "bound") /\ UNCHANGED launch
          /\ sockets' = [sockets EXCEPT ![PathOf(i)][n] = <<i, e>>]
      BY <1>2, <2>2 DEF Bind
    <3>2. n \in 0 .. Cardinality(Endpoints) - 1 /\ PathOf(i) \in Paths
      BY <1>2, SocketInRange DEF Bind
    <3>. HIDE DEF n
    <3>3. SocketsOK'
      BY <3>1, <3>2, TypeParts DEF SocketsOK, SocketValues
    <3>4. BridgeOK' /\ LaunchOK'
      BY <3>1, TypeParts, BridgeOKStep DEF LaunchOK
    <3>. QED
      BY <1>0, <1>2, <3>1, <3>3, <3>4, TypeParts DEF Bind, Pending, n
  <2>. QED
    BY <2>1, <2>2
<1>3. CASE TellReady(i, e)
  <2>1. UNCHANGED sockets /\ SocketsOK' /\ bridge[i][e] = "bound"
    BY <1>3, TypeParts DEF TellReady, SocketsOK
  <2>2. CASE Alive(i)
    <3>1. Becomes(i, e, "serving") /\ Goto(i, "fork")
      BY <1>3, <2>2 DEF TellReady
    <3>2. BridgeOK' /\ LaunchOK' /\ Moved(i, "fork", launch[i].path, launch[i].left)
      BY <3>1, TypeParts, BridgeOKStep, AtFacts DEF Stages
    <3>. QED
      BY <1>0, <2>1, <2>2, <3>1, <3>2, TypeParts DEF Pending
  <2>3. CASE ~Alive(i)
    <3>1. Becomes(i, e, "gone") /\ UNCHANGED launch
      BY <1>3, <2>3 DEF TellReady
    <3>2. BridgeOK' /\ LaunchOK'
      BY <3>1, TypeParts, BridgeOKStep DEF LaunchOK
    <3>. QED
      BY <1>0, <2>1, <3>1, <3>2, TypeParts DEF Pending
  <2>. QED
    BY <2>2, <2>3
<1>. QED
  BY <1>1, <1>2, <1>3 DEF BridgeStep
(* The invariant is kept.                                                  *)

\* what the launch of i has is what it had, but where it is about to go
Follows(i) ==
    /\ \A k \in Launches \ {i} : launch'[k] = launch[k]
    /\ launch[i].at # "not yet" /\ launch'[i].at # "not yet"
    /\ launch'[i].pid = launch[i].pid /\ launch'[i].env = launch[i].env
    /\ launch'[i].left \subseteq launch[i].left
    /\ launch[i].at \in Settled =>
          launch'[i].at \in Settled /\ launch'[i].path = launch[i].path
    /\ launch[i].at = "dead" => launch'[i].at = "dead"
    /\ launch'[i].at = "remove" => launch'[i] = launch[i] \/ TestOwner(i)

Step(i) ==
    \/ TestOwner(i) \/ RemoveStale(i) \/ CreateDir(i) \/ ForkBridge(i)
    \/ ForkWorker(i) \/ Activate(i) \/ Die(i)
    \/ \E e \in Endpoints : BridgeStep(i, e) \/ Fail(i, e)
    \/ SeesAllGone(i) \/ RemoveOwn(i) \/ KillWorker(i)

\* a launcher that has started has an id and an environment
\* a launcher that has started has an id and an environment
LEMMA StartedFacts ==
    ASSUME TypeOK, Order, Made, Named, NEW i \in Launches, launch[i].at # "not yet"
    PROVE  /\ launch[i].pid \in Pids /\ launch[i].env \in AllEnvironments
           /\ launch[i].at = "remove" => PathOf(i) \in Paths
           /\ launch[i] \in LaunchRecords
<1>1. launch[i] \in LaunchRecords
  BY TypeParts DEF LaunchOK
<1>2. launch[i].at = "remove" => PathOf(i) \in Paths
  BY DEF Made, Had
<1>. QED
  BY <1>1, <1>2 DEF Order

\* where the steps of a launcher start and go
LEMMA StepFollows ==
    ASSUME TypeOK, Order, Made, Named, NEW i \in Launches, Step(i)
    PROVE  TypeOK' /\ Follows(i)
<1>. USE DEF Follows, Moved, Settled
<1>1. CASE TestOwner(i)
  BY <1>1, TestFacts
<1>2. CASE RemoveStale(i)
  BY <1>2, StaleFacts, StartedFacts DEF RemoveStale
<1>3. CASE CreateDir(i)
  <2>1. PathOf(i) \in Paths
    BY <1>3, StartedFacts DEF CreateDir, PathOf, Named
  <2>. QED
    BY <1>3, <2>1, CreateFacts
<1>4. CASE ForkBridge(i)
  BY <1>4, ForkFacts, StartedFacts DEF ForkBridge
<1>5. CASE ForkWorker(i)
  BY <1>5, ForkWorkerFacts DEF ForkWorker
<1>6. CASE Activate(i)
  BY <1>6, ActivateFacts DEF Activate
<1>7. CASE Die(i)
  BY <1>7, DieFacts DEF Die, Alive
<1>8. ASSUME NEW e \in Endpoints, BridgeStep(i, e) \/ Fail(i, e)
      PROVE  TypeOK' /\ Follows(i)
  <2>1. bridge[i][e] # "none" =>
               launch[i].env \in AllEnvironments /\ e \in Used(launch[i].env)
                   /\ PathOf(i) \in Paths /\ launch[i].at \in Settled
    BY StartedFacts DEF Named, Had
  <2>. QED
    BY <1>8, <2>1, BridgeFacts DEF Alive, Named
<1>9. CASE SeesAllGone(i) \/ KillWorker(i)
  <2>1. WorkerOK' /\ UNCHANGED <<dirs, sockets, launch, bridge>> /\ worker[i] # "none"
    BY <1>9, TypeParts DEF SeesAllGone, KillWorker, WorkerOK, WorkerValues
  <2>2. DirsOK' /\ SocketsOK' /\ LaunchOK' /\ BridgeOK'
    BY <2>1, TypeParts DEF DirsOK, SocketsOK, LaunchOK, BridgeOK
  <2>. QED
    BY <2>1, <2>2, TypeParts DEF Named
<1>10. CASE RemoveOwn(i)
  <2>1. WorkerOK' /\ UNCHANGED <<launch, bridge>> /\ worker[i] # "none"
    BY <1>10, TypeParts DEF RemoveOwn, WorkerOK, WorkerValues
  <2>2. DirsOK' /\ SocketsOK'
    <3>1. CASE RemoveDir(PathOf(i))
      BY <2>1, <3>1, RemoveDirFacts, TypeParts DEF Named, Had
    <3>2. CASE UNCHANGED <<dirs, sockets>>
      BY <3>2, TypeParts DEF DirsOK, SocketsOK
    <3>. QED
      BY <1>10, <3>1, <3>2 DEF RemoveOwn
  <2>3. LaunchOK' /\ BridgeOK'
    BY <2>1, TypeParts DEF LaunchOK, BridgeOK
  <2>. QED
    BY <2>1, <2>2, <2>3, TypeParts DEF Named
<1>. QED
  BY <1>1, <1>2, <1>3, <1>4, <1>5, <1>6, <1>7, <1>8, <1>9, <1>10 DEF Step

LEMMA OrderFollows ==
    ASSUME Order, NEW i \in Launches, Follows(i)
    PROVE  Order'
<1>1. ASSUME NEW k \in Launches
      PROVE  /\ launch'[k].at = "not yet" <=> launch[k].at = "not yet"
             /\ launch'[k].at = "not yet" => launch'[k] = launch[k]
             /\ launch'[k].pid = launch[k].pid /\ launch'[k].env = launch[k].env
             /\ Alive(k)' => Alive(k)
  BY DEF Follows, Alive
<1>2. ASSUME NEW k \in Launches
      PROVE  IF launch'[k].at = "not yet" THEN launch'[k] = NotYet
             ELSE launch'[k].pid \in Pids /\ launch'[k].env \in AllEnvironments
  BY <1>1 DEF Order
<1>3. ASSUME NEW j \in Launches, NEW k \in Launches, j < k, launch'[k].at # "not yet"
      PROVE  /\ launch'[j].at # "not yet"
             /\ Alive(j)' => launch'[j].pid # launch'[k].pid
  BY <1>1, <1>3 DEF Order
<1>. QED
  BY <1>2, <1>3 DEF Order

LEMMA HadFollows ==
    ASSUME NEW i \in Launches, Follows(i), NEW k \in Launches, NEW p, Had(k, p)
    PROVE  Had(k, p)' /\ (launch[k].at = "dead" => launch'[k].at = "dead")
  BY DEF Follows, Had

\* which directories can go, and which can come
LEMMA DirsStep ==
    ASSUME TypeOK, Order, Made, Named, NEW i \in Launches, Step(i)
    PROVE  \/ CreateDir(i) /\ dirs[PathOf(i)] = 0
           \/ \A p \in Paths : dirs'[p] = dirs[p] \/ dirs'[p] = 0
<1>1. CASE RemoveStale(i)
  BY <1>1, StaleFacts, StartedFacts DEF RemoveStale
<1>2. CASE RemoveOwn(i)
  <2>1. CASE RemoveDir(PathOf(i))
    BY <1>2, <2>1, RemoveDirFacts, TypeParts DEF Named, Had, RemoveOwn
  <2>2. CASE UNCHANGED <<dirs, sockets>>
    BY <2>2
  <2>. QED
    BY <1>2, <2>1, <2>2 DEF RemoveOwn
<1>3. CASE CreateDir(i)
  BY <1>3 DEF CreateDir
<1>4. CASE ~RemoveStale(i) /\ ~RemoveOwn(i) /\ ~CreateDir(i)
  BY <1>4 DEF Step, TestOwner, ForkBridge, ForkWorker, Activate, Die, BridgeStep, Arm, Bind,
     TellReady, Fail, SeesAllGone, KillWorker
<1>. QED
  BY <1>1, <1>2, <1>3, <1>4

LEMMA MadeStep ==
    ASSUME TypeOK, Order, Made, Named, NEW i \in Launches, Step(i)
    PROVE  Made'
<1>1. TypeOK' /\ Follows(i)
  BY StepFollows
<1>2. ASSUME NEW p \in Paths, NEW k \in Launches, dirs'[p] = k PROVE Had(k, p)'
  <2>0. k # 0
    BY Numbers
  <2>1. CASE dirs'[p] = dirs[p]
    <3>1. Had(k, p)
      BY <1>2, <2>0, <2>1 DEF Made
    <3>. QED
      BY <1>1, <3>1, HadFollows
  <2>2. CASE dirs'[p] # dirs[p]
    <3>1. CreateDir(i) /\ dirs[PathOf(i)] = 0
      BY <1>2, <2>0, <2>2, DirsStep
    <3>2. PathOf(i) \in Paths /\ launch[i].at \in {"clean", "create"}
      BY <3>1, StartedFacts DEF CreateDir, PathOf, Named
    <3>3. /\ dirs' = [dirs EXCEPT ![PathOf(i)] = i]
          /\ Moved(i, "fork", launch[i].path, launch[i].left)
      <4>1. \/ /\ dirs' = [dirs EXCEPT ![PathOf(i)] = i]
               /\ Moved(i, "fork", launch[i].path, launch[i].left)
            \/ UNCHANGED dirs
        BY <3>1, <3>2, CreateFacts
      <4>. QED
        BY <2>2, <4>1
    <3>4. p = PathOf(i) /\ k = i
      BY <1>2, <2>2, <3>2, <3>3, TypeParts DEF DirsOK
    <3>5. launch[i].path[1] = launch[i].pid
      BY <3>2 DEF Named
    <3>. QED
      BY <3>2, <3>3, <3>4, <3>5 DEF Had, Moved, Settled, PathOf
  <2>. QED
    BY <2>1, <2>2
<1>3. ASSUME NEW j \in Launches, NEW p \in launch'[j].left
      PROVE  \E k \in Launches : Had(k, p)'
  <2>1. p \in launch[j].left
    BY <1>1, <1>3 DEF Follows
  <2>2. PICK k \in Launches : Had(k, p)
    BY <2>1 DEF Made
  <2>. QED
    BY <1>1, <2>2, HadFollows
<1>4. ASSUME NEW j \in Launches, launch'[j].at = "remove", NEW q, launch'[j].path = q
      PROVE  \E k \in Launches : Had(k, q)' /\ launch'[k].at = "dead"
  <2>1. CASE launch'[j] = launch[j]
    <3>1. PICK k \in Launches : Had(k, q) /\ launch[k].at = "dead"
      BY <1>4, <2>1 DEF Made, PathOf
    <3>. QED
      BY <1>1, <3>1, HadFollows
  <2>2. CASE launch'[j] # launch[j]
    <3>1. j = i
      BY <1>1, <2>2 DEF Follows
    <3>2. TestOwner(i)
      BY <1>1, <1>4, <2>2, <3>1 DEF Follows
    <3>3. PICK p \in launch[i].left :
             /\ \A k \in Launches : Alive(k) => launch[k].pid # p[1]
             /\ Moved(i, "remove", p, launch[i].left \ {p})
      BY <1>4, <3>1, <3>2, TestFacts DEF Moved
    <3>4. PICK k \in Launches : Had(k, p)
      BY <3>3 DEF Made
    <3>5. launch[k].at = "dead"
      BY <3>3, <3>4 DEF Had, Alive, Settled
    <3>6. p = q
      BY <1>4, <3>1, <3>3 DEF Moved
    <3>. QED
      BY <1>1, <3>4, <3>5, <3>6, HadFollows
  <2>. QED
    BY <2>1, <2>2
<1>5. \A p \in Paths : dirs'[p] # 0 => dirs'[p] \in Launches
  BY <1>1, TypeParts DEF DirsOK
<1>. QED
  BY <1>2, <1>3, <1>4, <1>5 DEF Made, PathOf, Had

\* only the steps that fork start a bridge or a worker
LEMMA BridgesStart ==
    ASSUME TypeOK, Order, Made, Named, NEW i \in Launches, Step(i),
           NEW k \in Launches, NEW e \in Endpoints,
           bridge[k][e] = "none", bridge'[k][e] # "none"
    PROVE  ForkBridge(i) /\ k = i /\ e \in Used(launch[i].env)
<1>1. CASE ForkBridge(i)
  <2>1. PICK f \in Endpoints :
            f \in Used(launch[i].env) /\ bridge[i][f] = "none" /\ Becomes(i, f, "forked")
    BY <1>1, ForkFacts, StartedFacts DEF ForkBridge
  <2>2. k = i /\ e = f
    BY <2>1, TypeParts, BridgeOKStep
  <2>. QED
    BY <1>1, <2>1, <2>2
<1>2. CASE Die(i)
  BY <1>2, DieFacts
<1>3. ASSUME NEW f \in Endpoints, BridgeStep(i, f) \/ Fail(i, f) PROVE FALSE
  <2>1. PICK s \in {"armed", "bound", "serving", "gone"} :
            Becomes(i, f, s) /\ bridge[i][f] \notin {"none", "gone"}
    BY <1>3, BridgeFacts, StartedFacts DEF Named, Had, Settled
  <2>. QED
    BY <2>1, TypeParts, BridgeOKStep
<1>4. CASE UNCHANGED bridge
  BY <1>4
<1>. QED
  BY <1>1, <1>2, <1>3, <1>4
  DEF Step, TestOwner, RemoveStale, CreateDir, ForkWorker, Activate, SeesAllGone,
      RemoveOwn, KillWorker

LEMMA WorkersStart ==
    ASSUME TypeOK, NEW i \in Launches, Step(i), NEW k \in Launches,
           worker'[k] # worker[k]
    PROVE  /\ k = i
           /\ \/ ForkWorker(i) /\ worker'[i] = "waiting"
              \/ worker[i] # "none" /\ UNCHANGED launch
<1>1. CASE ForkWorker(i)
  BY <1>1, TypeParts DEF ForkWorker, WorkerOK
<1>2. CASE SeesAllGone(i) \/ RemoveOwn(i) \/ KillWorker(i)
  BY <1>2, TypeParts DEF SeesAllGone, RemoveOwn, KillWorker, WorkerOK
<1>3. CASE UNCHANGED worker
  BY <1>3
<1>. QED
  BY <1>1, <1>2, <1>3
  DEF Step, TestOwner, RemoveStale, CreateDir, ForkBridge, Activate, Die, BridgeStep, Arm,
      Bind, TellReady, Fail

\* A launcher goes back to fork only from await; once it has a worker it goes
\* on to the command.
LEMMA StagesStep ==
    ASSUME TypeOK, Order, Made, Named, InTurn, NEW i \in Launches, Step(i)
    PROVE  \/ UNCHANGED launch
           \/ /\ launch[i].at \in {"clean", "create"}
              /\ launch'[i].at \in {"clean", "remove"} /\ TestOwner(i)
           \/ launch[i].at = "remove" /\ launch'[i].at = "clean" /\ RemoveStale(i)
           \/ launch[i].at \in {"clean", "create"} /\ launch'[i].at = "fork" /\ CreateDir(i)
           \/ launch[i].at \in {"clean", "create"} /\ launch'[i].at = "create" /\ CreateDir(i)
           \/ launch[i].at = "fork" /\ launch'[i].at = "await" /\ ForkBridge(i)
           \/ launch[i].at = "await" /\ launch'[i].at = "fork" /\ UNCHANGED worker
           \/ launch[i].at = "fork" /\ launch'[i].at = "bwrap" /\ ForkWorker(i)
           \/ launch[i].at = "bwrap" /\ launch'[i].at = "command" /\ UNCHANGED <<worker, bridge>>
           \/ launch'[i].at = "dead" /\ Alive(i) /\ Die(i)
<1>1. CASE TestOwner(i)
  BY <1>1, TestFacts DEF Moved
<1>2. CASE RemoveStale(i)
  BY <1>2, StaleFacts, StartedFacts DEF RemoveStale, Moved
<1>3. CASE CreateDir(i)
  <2>1. PathOf(i) \in Paths
    BY <1>3, StartedFacts DEF CreateDir, PathOf, Named
  <2>. QED
    BY <1>3, <2>1, CreateFacts DEF Moved
<1>4. CASE ForkBridge(i)
  BY <1>4, ForkFacts, StartedFacts DEF ForkBridge, Moved
<1>5. CASE ForkWorker(i)
  BY <1>5, ForkWorkerFacts DEF ForkWorker, Moved
<1>6. CASE Activate(i)
  BY <1>6, ActivateFacts DEF Activate, Moved
<1>7. CASE Die(i)
  BY <1>7, DieFacts DEF Die, Moved
<1>8. ASSUME NEW e \in Endpoints, BridgeStep(i, e) \/ Fail(i, e)
      PROVE  \/ UNCHANGED launch
             \/ launch[i].at = "await" /\ launch'[i].at = "fork" /\ UNCHANGED worker
  <2>1. bridge[i][e] # "none" =>
               launch[i].env \in AllEnvironments /\ e \in Used(launch[i].env)
                   /\ PathOf(i) \in Paths /\ launch[i].at \in Settled
    BY StartedFacts DEF Named, Had, Settled
  <2>2. /\ UNCHANGED worker
        /\ \/ UNCHANGED launch
           \/ Alive(i) /\ bridge[i][e] = "bound" /\ Moved(i, "fork", launch[i].path, launch[i].left)
    BY <1>8, <2>1, BridgeFacts
  <2>3. Alive(i) /\ bridge[i][e] = "bound" => launch[i].at = "await"
    BY DEF InTurn, Pending
  <2>. QED
    BY <2>2, <2>3 DEF Moved
<1>9. CASE SeesAllGone(i) \/ KillWorker(i) \/ RemoveOwn(i)
  BY <1>9 DEF SeesAllGone, KillWorker, RemoveOwn
<1>. QED
  BY <1>1, <1>2, <1>3, <1>4, <1>5, <1>6, <1>7, <1>8, <1>9 DEF Step

LEMMA NamedStep ==
    ASSUME TypeOK, Order, Made, Named, InTurn, NEW i \in Launches, Step(i)
    PROVE  Named'
<1>1. TypeOK' /\ Follows(i)
  BY StepFollows
<1>2. /\ launch'[i].at \notin {"not yet", "remove", "dead"}
            => launch'[i].path[1] = launch'[i].pid
      /\ launch'[i].at \in {"clean", "fork", "await", "bwrap", "command"}
            => launch'[i].path \in Paths
  <2>1. CASE TestOwner(i)
    BY <2>1, TestFacts DEF Moved, Named, PathOf
  <2>2. CASE RemoveStale(i)
    <3>1. Moved(i, "clean", <<launch[i].pid, 0>>, launch[i].left) /\ launch[i].pid \in Pids
      BY <2>2, StaleFacts, StartedFacts DEF RemoveStale
    <3>. QED
      BY <3>1, Numbers DEF Moved
  <2>3. CASE CreateDir(i)
    <3>1. PathOf(i) \in Paths /\ launch[i].path[1] = launch[i].pid
      BY <2>3, StartedFacts DEF CreateDir, PathOf, Named
    <3>2. \/ Moved(i, "fork", launch[i].path, launch[i].left)
          \/ Moved(i, "create", <<launch[i].path[1], launch[i].path[2] + 1>>, launch[i].left)
      BY <2>3, <3>1, CreateFacts
    <3>3. \A n, m : <<n, m>>[1] = n
      OBVIOUS
    <3>4. launch'[i].path[1] = launch[i].path[1] /\ launch'[i].pid = launch[i].pid
      BY <3>2, <3>3 DEF Moved
    <3>5. launch'[i].at = "create" \/ launch'[i].path = launch[i].path
      BY <3>2 DEF Moved
    <3>. QED
      BY <3>1, <3>4, <3>5 DEF PathOf
  <2>4. CASE launch[i].at \in Settled /\ launch'[i].at \in Settled
    BY <1>1, <2>4 DEF Follows, Named, Settled, PathOf
  <2>5. CASE UNCHANGED launch \/ launch'[i].at = "dead"
    BY <2>5 DEF Named, PathOf
  <2>. QED
    BY <2>1, <2>2, <2>3, <2>4, <2>5, StagesStep DEF Settled
<1>3. ASSUME NEW k \in Launches, NEW p, p = launch[k].path, Had(k, p)
      PROVE  launch'[k].path = p /\ Had(k, p)'
  BY <1>1, <1>3, HadFollows DEF Follows, Had
<1>4. ASSUME NEW k \in Launches, worker'[k] # "none"
      PROVE  /\ launch'[k].at \in {"bwrap", "command", "dead"}
             /\ Had(k, PathOf(k))'
  <2>1. CASE worker[k] # "none"
    <3>1. Had(k, PathOf(k)) /\ launch[k].at \in {"bwrap", "command", "dead"}
      BY <2>1 DEF Named
    <3>2. Had(k, PathOf(k))'
      BY <1>3, <3>1 DEF PathOf, Had
    <3>3. launch'[k].at \in {"bwrap", "command", "dead"}
      <4>1. CASE launch'[k] = launch[k]
        BY <3>1, <4>1
      <4>2. CASE k = i
        BY <3>1, <4>2, StagesStep
      <4>. QED
        BY <1>1, <4>1, <4>2 DEF Follows
    <3>. QED
      BY <3>2, <3>3
  <2>2. CASE worker[k] = "none"
    <3>1. k = i /\ ForkWorker(i) /\ launch[i].at = "fork"
      BY <1>4, <2>2, WorkersStart DEF ForkWorker
    <3>2. Moved(i, "bwrap", launch[i].path, launch[i].left)
      BY <3>1, ForkWorkerFacts
    <3>. QED
      BY <3>1, <3>2 DEF Moved, Named, Had, PathOf, Settled
  <2>. QED
    BY <2>1, <2>2
<1>5. ASSUME NEW k \in Launches, NEW e \in Endpoints, bridge'[k][e] # "none"
      PROVE  Had(k, PathOf(k))' /\ e \in Used(launch'[k].env)
  <2>0. launch'[k].env = launch[k].env
    BY <1>1 DEF Follows
  <2>1. CASE bridge[k][e] # "none"
    <3>1. Had(k, PathOf(k)) /\ e \in Used(launch[k].env)
      BY <2>1 DEF Named
    <3>. QED
      BY <1>3, <2>0, <3>1 DEF PathOf, Had
  <2>2. CASE bridge[k][e] = "none"
    <3>1. k = i /\ ForkBridge(i) /\ launch[i].at = "fork" /\ e \in Used(launch[i].env)
      BY <1>5, <2>2, BridgesStart DEF ForkBridge
    <3>2. Moved(i, "await", launch[i].path, launch[i].left)
      BY <3>1, ForkFacts, StartedFacts
    <3>. QED
      BY <2>0, <3>1, <3>2 DEF Moved, Named, Had, PathOf, Settled
  <2>. QED
    BY <2>1, <2>2
<1>6. ASSUME NEW k \in Launches
      PROVE  /\ launch'[k].at \notin {"not yet", "remove", "dead"}
                   => launch'[k].path[1] = launch'[k].pid
             /\ launch'[k].at \in {"clean", "fork", "await", "bwrap", "command"}
                   => launch'[k].path \in Paths
  BY <1>1, <1>2 DEF Follows, Named, PathOf
<1>. QED
  BY <1>4, <1>5, <1>6 DEF Named, PathOf

\* how the state of one bridge changes
LEMMA BridgeChange ==
    ASSUME TypeOK, Order, Made, Named, NEW i \in Launches, Step(i),
           NEW k \in Launches, NEW e \in Endpoints, bridge'[k][e] # bridge[k][e]
    PROVE  /\ k = i
           /\ bridge[i][e] # "gone"
           /\ bridge'[i][e] # "none"
           /\ \/ bridge'[i][e] = "gone"
              \/ ForkBridge(i) /\ bridge[i][e] = "none" /\ bridge'[i][e] = "forked"
              \/ UNCHANGED launch /\ bridge[i][e] \in Pending /\ bridge'[i][e] \in Pending
              \/ /\ Alive(i) /\ bridge[i][e] = "bound" /\ bridge'[i][e] = "serving"
                 /\ launch'[i].at = "fork"
<1>0. BridgeOK
  BY TypeParts
<1>1. CASE ForkBridge(i)
  <2>1. PICK f \in Endpoints :
            f \in Used(launch[i].env) /\ bridge[i][f] = "none" /\ Becomes(i, f, "forked")
    BY <1>1, ForkFacts, StartedFacts DEF ForkBridge
  <2>2. k = i /\ e = f /\ bridge'[i][f] = "forked"
    BY <2>1, TypeParts, BridgeOKStep
  <2>. QED
    BY <1>1, <2>1, <2>2
<1>2. CASE Die(i)
  BY <1>2, DieFacts
<1>3. ASSUME NEW f \in Endpoints, BridgeStep(i, f) \/ Fail(i, f)
      PROVE  /\ k = i /\ bridge[i][e] # "gone" /\ bridge'[i][e] # "none"
             /\ \/ bridge'[i][e] = "gone"
                \/ UNCHANGED launch /\ bridge[i][e] \in Pending /\ bridge'[i][e] \in Pending
                \/ /\ Alive(i) /\ bridge[i][e] = "bound" /\ bridge'[i][e] = "serving"
                   /\ launch'[i].at = "fork"
  <2>1. PICK s \in {"armed", "bound", "serving", "gone"} :
            /\ Becomes(i, f, s) /\ bridge[i][f] \notin {"none", "gone"}
            /\ s \in Pending => bridge[i][f] \in Pending
            /\ IF s = "serving"
               THEN /\ Alive(i) /\ bridge[i][f] = "bound"
                    /\ Moved(i, "fork", launch[i].path, launch[i].left)
               ELSE UNCHANGED launch
    BY <1>3, BridgeFacts, StartedFacts DEF Named, Had, Settled
  <2>2. k = i /\ e = f /\ bridge'[i][f] = s
    BY <2>1, TypeParts, BridgeOKStep
  <2>. QED
    BY <2>1, <2>2 DEF Moved, Pending
<1>4. CASE UNCHANGED bridge
  BY <1>4
<1>. QED
  BY <1>1, <1>2, <1>3, <1>4
  DEF Step, TestOwner, RemoveStale, CreateDir, ForkWorker, Activate, SeesAllGone,
      RemoveOwn, KillWorker

\* a launcher goes from await to fork by the report of a bridge
LEMMA BackToFork ==
    ASSUME TypeOK, Order, Made, Named, NEW i \in Launches, Step(i),
           launch[i].at = "await", launch'[i].at = "fork"
    PROVE  \E f \in Endpoints : bridge[i][f] = "bound" /\ bridge'[i][f] = "serving"
<1>1. ASSUME ~\E f \in Endpoints : TellReady(i, f) /\ Alive(i) PROVE FALSE
  <2>1. \/ UNCHANGED launch
        \/ Die(i)
    BY <1>1
    DEF Step, TestOwner, RemoveStale, CreateDir, ForkBridge, ForkWorker, Activate,
        BridgeStep, Arm, Bind, TellReady, Fail, SeesAllGone, RemoveOwn, KillWorker
  <2>. QED
    BY <2>1, DieFacts DEF Moved
<1>2. PICK f \in Endpoints : TellReady(i, f) /\ Alive(i)
  BY <1>1
<1>. QED
  BY <1>2, TypeParts, BridgeOKStep DEF TellReady

LEMMA DeadByDeath ==
    ASSUME TypeOK, Order, Made, Named, NEW i \in Launches, Step(i),
           launch[i].at # "dead", launch'[i].at = "dead"
    PROVE  Die(i)
<1>1. CASE TestOwner(i)
  BY <1>1, TestFacts DEF Moved
<1>2. CASE RemoveStale(i)
  BY <1>2, StaleFacts, StartedFacts DEF RemoveStale, Moved
<1>3. CASE CreateDir(i)
  BY <1>3, CreateFacts, StartedFacts DEF CreateDir, PathOf, Named, Moved
<1>4. CASE ForkBridge(i)
  BY <1>4, ForkFacts, StartedFacts DEF ForkBridge, Moved
<1>5. CASE ForkWorker(i)
  BY <1>5, ForkWorkerFacts DEF Moved
<1>6. CASE Activate(i)
  BY <1>6, ActivateFacts DEF Moved
<1>7. ASSUME NEW e \in Endpoints, BridgeStep(i, e) \/ Fail(i, e) PROVE FALSE
  BY <1>7, BridgeFacts, StartedFacts DEF Named, Had, Settled, Moved
<1>8. CASE SeesAllGone(i) \/ KillWorker(i) \/ RemoveOwn(i)
  BY <1>8 DEF SeesAllGone, KillWorker, RemoveOwn
<1>. QED
  BY <1>1, <1>2, <1>3, <1>4, <1>5, <1>6, <1>7, <1>8 DEF Step

LEMMA OrphansStep ==
    ASSUME TypeOK, Order, Made, Named, NoOrphanServes, NEW i \in Launches, Step(i)
    PROVE  NoOrphanServes'
<1>. SUFFICES ASSUME NEW k \in Launches, NEW e \in Endpoints, bridge'[k][e] = "serving"
              PROVE  Alive(k)'
  BY DEF NoOrphanServes
<1>1. TypeOK' /\ Follows(i)
  BY StepFollows
<1>2. CASE bridge[k][e] = "serving"
  <2>1. Alive(k)
    BY <1>2 DEF NoOrphanServes
  <2>2. CASE Die(i)
    BY <1>1, <1>2, <2>1, <2>2, DieFacts DEF Follows, Alive
  <2>3. CASE ~Die(i) /\ k = i
    BY <1>1, <2>1, <2>3, DeadByDeath DEF Follows, Alive
  <2>4. CASE k # i
    BY <1>1, <2>1, <2>4 DEF Follows, Alive
  <2>. QED
    BY <2>2, <2>3, <2>4
<1>3. CASE bridge[k][e] # "serving"
  <2>1. k = i /\ launch'[i].at = "fork"
    BY <1>3, BridgeChange DEF Pending
  <2>. QED
    BY <2>1 DEF Alive
<1>. QED
  BY <1>2, <1>3

LEMMA InTurnStep ==
    ASSUME TypeOK, Order, Made, Named, InTurn, NEW i \in Launches, Step(i)
    PROVE  InTurn'
<1>1. TypeOK' /\ Follows(i)
  BY StepFollows
<1>2. ASSUME NEW k \in Launches, k # i
      PROVE  /\ launch'[k] = launch[k] /\ worker'[k] = worker[k]
             /\ \A e \in Endpoints : bridge'[k][e] = bridge[k][e]
  <2>1. launch'[k] = launch[k]
    BY <1>1, <1>2 DEF Follows
  <2>2. worker'[k] = worker[k]
    BY <1>2, WorkersStart
  <2>3. \A e \in Endpoints : bridge'[k][e] = bridge[k][e]
    BY <1>2, BridgeChange
  <2>. QED
    BY <2>1, <2>2, <2>3
\* while one bridge of i is pending, i waits for it
<1>3. ASSUME NEW e \in Endpoints, Alive(i)', bridge'[i][e] \in Pending
      PROVE  /\ launch'[i].at = "await"
             /\ \A f \in Endpoints \ {e} : bridge'[i][f] \notin Pending
  <2>1. CASE ForkBridge(i)
    <3>1. launch'[i].at = "await" /\ launch[i].at = "fork"
      BY <2>1, ForkFacts, StartedFacts DEF ForkBridge, Moved
    <3>2. \A f \in Endpoints : bridge[i][f] \notin Pending
      BY <3>1 DEF InTurn, Alive
    <3>3. PICK f \in Endpoints : Becomes(i, f, "forked")
      BY <2>1, ForkFacts, StartedFacts DEF ForkBridge
    <3>4. \A g \in Endpoints \ {f} : bridge'[i][g] = bridge[i][g]
      BY <3>3, TypeParts, BridgeOKStep
    <3>5. e = f
      BY <1>3, <3>2, <3>4
    <3>. QED
      BY <3>1, <3>2, <3>4, <3>5
  <2>2. CASE ~ForkBridge(i)
    <3>1. Alive(i)
      BY <1>1, <1>3 DEF Alive, Follows
    <3>2. bridge[i][e] \in Pending
      BY <1>3, <2>2, BridgeChange DEF Pending
    <3>3. /\ launch[i].at = "await"
          /\ \A f \in Endpoints \ {e} : bridge[i][f] \notin Pending
      BY <3>1, <3>2 DEF InTurn
    <3>4. \A f \in Endpoints \ {e} : bridge'[i][f] \notin Pending
      BY <2>2, <3>3, BridgeChange DEF Pending
    <3>5. CASE launch'[i].at = "await"
      BY <3>4, <3>5
    <3>6. CASE launch'[i].at # "await"
      <4>1. launch'[i].at = "fork"
        BY <1>3, <3>3, <3>6, StagesStep DEF Alive
      <4>2. \E f \in Endpoints : bridge[i][f] = "bound" /\ bridge'[i][f] = "serving"
        BY <3>3, <4>1, BackToFork
      <4>. QED
        BY <1>3, <3>3, <4>2 DEF Pending
    <3>. QED
      BY <3>5, <3>6
  <2>. QED
    BY <2>1, <2>2
<1>4. ASSUME launch'[i].at \in {"bwrap", "command"}, NEW e \in Used(launch'[i].env)
      PROVE  bridge'[i][e] # "none"
  <2>1. e \in Used(launch[i].env) /\ e \in Endpoints
    <3>1. launch'[i].env = launch[i].env /\ launch[i].env \in AllEnvironments
      BY <1>1, StartedFacts DEF Follows
    <3>. QED
      BY <1>4, <3>1, UsedFinite
  <2>2. bridge[i][e] # "none"
    <3>1. CASE launch[i].at \in {"bwrap", "command"}
      BY <2>1, <3>1 DEF InTurn
    <3>2. CASE ForkWorker(i)
      BY <2>1, <3>2 DEF ForkWorker
    <3>. QED
      BY <1>4, <3>1, <3>2, StagesStep
  <2>. QED
    BY <2>1, <2>2, BridgeChange
<1>5. ASSUME worker'[i] = "removing", NEW e \in Endpoints
      PROVE  bridge'[i][e] \in {"none", "gone"}
  <2>0. worker[i] # "none" \/ ForkWorker(i)
    BY <1>5, WorkersStart
  <2>1. bridge[i][e] \in {"none", "gone"}
    <3>1. CASE worker[i] = "removing"
      BY <3>1 DEF InTurn
    <3>2. CASE SeesAllGone(i)
      BY <3>2 DEF SeesAllGone, Named
    <3>3. CASE worker[i] # "removing" /\ ~SeesAllGone(i)
      BY <1>5, <3>3, TypeParts
      DEF Step, TestOwner, RemoveStale, CreateDir, ForkBridge, ForkWorker, Activate, Die,
          BridgeStep, Arm, Bind, TellReady, Fail, RemoveOwn, KillWorker, WorkerOK
    <3>. QED
      BY <3>1, <3>2, <3>3
  <2>2. ~ForkBridge(i)
    BY <1>5, TypeParts DEF ForkBridge, Named, WorkerOK
  <2>. QED
    BY <2>1, <2>2, BridgeChange DEF Pending
<1>6. ASSUME NEW k \in Launches
      PROVE  /\ \A e \in Endpoints : Alive(k)' /\ bridge'[k][e] \in Pending =>
                   /\ launch'[k].at = "await"
                   /\ \A f \in Endpoints \ {e} : bridge'[k][f] \notin Pending
             /\ launch'[k].at \in {"bwrap", "command"} =>
                   \A e \in Used(launch'[k].env) : bridge'[k][e] # "none"
             /\ worker'[k] = "removing" =>
                   \A e \in Endpoints : bridge'[k][e] \in {"none", "gone"}
  <2>1. CASE k = i
    BY <1>3, <1>4, <1>5, <2>1
  <2>2. CASE k # i
    <3>1. Alive(k)' <=> Alive(k)
      BY <1>2, <2>2 DEF Alive
    <3>2. launch[k].at \in {"bwrap", "command"} => Used(launch[k].env) \subseteq Endpoints
      BY StartedFacts, UsedFinite
    <3>. QED
      BY <1>2, <2>2, <3>1, <3>2 DEF InTurn
  <2>. QED
    BY <2>1, <2>2
<1>. QED
  BY <1>6 DEF InTurn

\* a new launcher has an id that nobody has, and no bridge or worker yet
LEMMA LaunchKeeps ==
    ASSUME BridgesInv, NEW i \in Launches, Launch(i)
    PROVE  BridgesInv'
<1>. USE DEF BridgesInv
<1>1. PICK pid \in Pids, env \in AllEnvironments :
          /\ pid \notin {launch[j].pid : j \in {j \in Launches : Alive(j)}}
          /\ Sets(i, [pid |-> pid, env |-> env, at |-> "clean", path |-> <<pid, 0>>,
                      left |-> {p \in Paths : dirs[p] # 0}])
  <2>1. PICK pid \in Pids \ {launch[j].pid : j \in {j \in Launches : Alive(j)}},
             env \in Environments[i] :
                 launch' = [launch EXCEPT ![i] =
                    [pid |-> pid, env |-> env, at |-> "clean", path |-> <<pid, 0>>,
                     left |-> {p \in Paths : dirs[p] # 0}]]
    BY DEF Launch
  <2>2. env \in AllEnvironments
    BY DEF AllEnvironments
  <2>3. [pid |-> pid, env |-> env, at |-> "clean", path |-> <<pid, 0>>,
         left |-> {p \in Paths : dirs[p] # 0}] \in LaunchRecords
    BY <2>2, ProxyAssumption DEF LaunchRecords, PathValues, EnvValues, Stages
  <2>. QED
    BY <2>1, <2>2, <2>3, TypeParts, SetsFacts
<1>2. /\ launch'[i].pid = pid /\ launch'[i].env = env /\ launch'[i].at = "clean"
      /\ launch'[i].path = <<pid, 0>> /\ launch'[i].left = {p \in Paths : dirs[p] # 0}
      /\ \A k \in Launches \ {i} : launch'[k] = launch[k]
  BY <1>1 DEF Sets
<1>3. /\ launch[i].at = "not yet" /\ launch[i] = NotYet
      /\ \A j \in 1 .. i - 1 : launch[j] # NotYet
      /\ UNCHANGED <<dirs, sockets, bridge, worker>>
  <2>1. NotYet.at = "not yet"
    BY DEF NotYet
  <2>. QED
    BY <2>1 DEF Launch
<1>4. TypeOK'
  BY LaunchFacts
<1>5. Order'
  <2>1. ASSUME NEW j \in Launches, j < i
        PROVE  launch'[j].at # "not yet" /\ (Alive(j)' => launch'[j].pid # pid)
    <3>1. j \in 1 .. i - 1 /\ j # i
      BY <2>1 DEF Launches
    <3>2. launch'[j] = launch[j] /\ launch[j] # NotYet
      BY <1>2, <1>3, <3>1
    <3>3. launch[j].at # "not yet"
      BY <3>2 DEF Order
    <3>4. Alive(j) => launch[j].pid # pid
      BY <1>1
    <3>. QED
      BY <3>2, <3>3, <3>4 DEF Alive
  <2>2. ASSUME NEW k \in Launches, i < k PROVE launch'[k].at = "not yet"
    <3>1. launch'[k] = launch[k]
      BY <1>2, <2>2, Numbers
    <3>. QED
      BY <1>3, <2>2, <3>1 DEF Order
  <2>3. ASSUME NEW k \in Launches
        PROVE  IF launch'[k].at = "not yet" THEN launch'[k] = NotYet
               ELSE launch'[k].pid \in Pids /\ launch'[k].env \in AllEnvironments
    BY <1>2 DEF Order
  <2>4. ASSUME NEW j \in Launches, NEW k \in Launches, j < k, launch'[k].at # "not yet"
        PROVE  launch'[j].at # "not yet" /\ (Alive(j)' => launch'[j].pid # launch'[k].pid)
    <3>1. CASE k = i
      BY <1>2, <2>1, <2>4, <3>1
    <3>2. CASE j = i
      BY <2>2, <2>4, <3>2
    <3>3. CASE j # i /\ k # i
      BY <1>2, <2>4, <3>3 DEF Order, Alive
    <3>. QED
      BY <3>1, <3>2, <3>3
  <2>. QED
    BY <2>3, <2>4 DEF Order
<1>6. \A k \in Launches : \A p : Had(k, p) => Had(k, p)' /\ launch'[k].at = launch[k].at
  BY <1>2, <1>3 DEF Had, Settled
<1>7. Made'
  <2>1. \A p \in Paths, k \in Launches : dirs[p] = k /\ dirs[p] # 0 => Had(k, p)'
    BY <1>6 DEF Made
  <2>2. \A p \in Paths : dirs'[p] = dirs[p] /\ (dirs[p] # 0 => dirs[p] \in Launches)
    BY <1>3, TypeParts DEF DirsOK
  <2>3. ASSUME NEW j \in Launches, NEW p \in launch'[j].left
        PROVE  \E k \in Launches : Had(k, p)'
    BY <1>2, <1>6, <2>2, <2>3 DEF Made
  <2>4. ASSUME NEW j \in Launches, launch'[j].at = "remove", NEW q, launch'[j].path = q
        PROVE  \E k \in Launches : Had(k, q)' /\ launch'[k].at = "dead"
    <3>1. launch[j].at = "remove" /\ launch[j].path = q
      BY <1>2, <2>4
    <3>2. PICK k \in Launches : Had(k, q) /\ launch[k].at = "dead"
      BY <3>1 DEF Made, PathOf
    <3>. QED
      BY <1>6, <3>2
  <2>. QED
    BY <2>1, <2>2, <2>3, <2>4 DEF Made, PathOf, Had
<1>8. \A k \in Launches, e \in Endpoints : bridge[k][e] # "none" => k # i
  BY <1>3 DEF Named, Had, Settled
<1>9. \A k \in Launches : worker[k] # "none" => k # i
  BY <1>3 DEF Named
<1>10. Named'
  <2>1. launch'[i].path[1] = launch'[i].pid /\ launch'[i].path \in Paths
    BY <1>2, Numbers
  <2>2. ASSUME NEW k \in Launches, worker[k] # "none"
        PROVE  launch'[k].at \in {"bwrap", "command", "dead"} /\ Had(k, PathOf(k))'
    BY <1>2, <1>9, <2>2 DEF Named, Had, PathOf
  <2>3. ASSUME NEW k \in Launches, NEW e \in Endpoints, bridge[k][e] # "none"
        PROVE  Had(k, PathOf(k))' /\ e \in Used(launch'[k].env)
    BY <1>2, <1>8, <2>3 DEF Named, Had, PathOf
  <2>4. ASSUME NEW k \in Launches
        PROVE  /\ launch'[k].at \notin {"not yet", "remove", "dead"}
                     => launch'[k].path[1] = launch'[k].pid
               /\ launch'[k].at \in {"clean", "fork", "await", "bwrap", "command"}
                     => launch'[k].path \in Paths
    BY <1>2, <2>1 DEF Named, PathOf
  <2>. QED
    BY <1>3, <2>2, <2>3, <2>4 DEF Named, PathOf
<1>11. InTurn'
  <2>1. ASSUME NEW k \in Launches
        PROVE  /\ \A e \in Endpoints : Alive(k)' /\ bridge[k][e] \in Pending =>
                     /\ launch'[k].at = "await"
                     /\ \A f \in Endpoints \ {e} : bridge[k][f] \notin Pending
               /\ launch'[k].at \in {"bwrap", "command"} =>
                     \A e \in Used(launch'[k].env) : bridge[k][e] # "none"
               /\ worker[k] = "removing" =>
                     \A e \in Endpoints : bridge[k][e] \in {"none", "gone"}
    <3>1. CASE k = i
      BY <1>2, <1>8, <1>9, <3>1 DEF Pending
    <3>2. CASE k # i
      BY <1>2, <3>2 DEF InTurn, Alive
    <3>. QED
      BY <3>1, <3>2
  <2>. QED
    BY <1>3, <2>1 DEF InTurn
<1>12. NoOrphanServes'
  BY <1>2, <1>3, <1>8 DEF NoOrphanServes, Alive
<1>. QED
  BY <1>4, <1>5, <1>7, <1>10, <1>11, <1>12

LEMMA BridgesInvInit == Init => BridgesInv
<1>. SUFFICES ASSUME Init PROVE Order /\ Made /\ Named /\ InTurn /\ NoOrphanServes
  BY TypesInit DEF BridgesInv
<1>1. /\ \A i \in Launches :
            /\ launch[i] = NotYet /\ launch[i].at = "not yet" /\ launch[i].left = {}
            /\ worker[i] = "none" /\ \A e \in Endpoints : bridge[i][e] = "none"
      /\ \A p \in Paths : dirs[p] = 0
  BY DEF Init, NotYet
<1>. QED
  BY <1>1 DEF Order, Made, Named, InTurn, NoOrphanServes, Pending

LEMMA BridgesInvStep == BridgesInv /\ [Next]_vars => BridgesInv'
<1>. SUFFICES ASSUME BridgesInv, [Next]_vars PROVE BridgesInv'
  OBVIOUS
<1>1. CASE UNCHANGED vars
  <2>. USE DEF vars, Alive, Had, PathOf
  <2>1. TypeOK'
    BY <1>1, TypeParts DEF BridgesInv, DirsOK, SocketsOK, LaunchOK, BridgeOK, WorkerOK
  <2>2. Order'
    BY <1>1 DEF BridgesInv, Order
  <2>3. Made'
    BY <1>1 DEF BridgesInv, Made
  <2>4. Named'
    BY <1>1 DEF BridgesInv, Named
  <2>5. InTurn'
    BY <1>1 DEF BridgesInv, InTurn
  <2>6. NoOrphanServes'
    BY <1>1 DEF BridgesInv, NoOrphanServes
  <2>. QED
    BY <2>1, <2>2, <2>3, <2>4, <2>5, <2>6 DEF BridgesInv
<1>2. ASSUME NEW i \in Launches, Launch(i) PROVE BridgesInv'
  BY <1>2, LaunchKeeps
<1>3. ASSUME NEW i \in Launches, Step(i) PROVE BridgesInv'
  BY <1>3, StepFollows, OrderFollows, MadeStep, NamedStep, InTurnStep, OrphansStep
  DEF BridgesInv
<1>. QED
  BY <1>1, <1>2, <1>3 DEF Next, Step

\* The inductive invariant: who made which directory, and how far each launcher
\* has come with its bridges and its worker (proxy.rs).
THEOREM BridgesInvariant == Spec => []BridgesInv
  BY BridgesInvInit, BridgesInvStep, PTL DEF Spec

\* Types, for any number of launchers, process ids, names and endpoints.
THEOREM BridgesTypes == Spec => []TypeOK
<1>1. BridgesInv => TypeOK
  BY DEF BridgesInv
<1>. QED
  BY <1>1, BridgesInvariant, PTL

\* No bridge serves without its launcher (set_parent_death_signal, and the ready
\* byte that nobody reads).
THEOREM OrphansNeverServe == Spec => []NoOrphanServes
<1>1. BridgesInv => NoOrphanServes
  BY DEF BridgesInv
<1>. QED
  BY <1>1, BridgesInvariant, PTL
(* A launcher keeps its directory and its sockets.                         *)

\* while launcher i has its directory, nobody else has had one of that name,
\* unless an earlier launcher had
LEMMA NoOtherHad ==
    ASSUME BridgesInv, NEW i \in Launches, Alive(i), Had(i, PathOf(i)), ~Replaced(i),
           NEW k \in Launches, Had(k, PathOf(i))
    PROVE  k = i
<1>1. launch[k].pid = launch[i].pid /\ PathOf(k) = PathOf(i) /\ launch[k].at \in Settled
  BY DEF Had, PathOf
<1>2. ~(k < i)
  <2>. SUFFICES ASSUME k < i PROVE k \in 1 .. i - 1
    BY <1>1 DEF Replaced
  <2>. QED
    BY DEF Launches
<1>3. ~(i < k)
  <2>1. launch[k].at # "not yet"
    BY <1>1 DEF Settled
  <2>. QED
    BY <1>1, <2>1 DEF BridgesInv, Order
<1>. QED
  BY <1>2, <1>3, Numbers

LEMMA RunningHad ==
    ASSUME BridgesInv, NEW i \in Launches, Alive(i), launch[i].at \in Settled
    PROVE  Had(i, PathOf(i)) /\ PathOf(i) \in Paths
  BY DEF BridgesInv, Named, Had, PathOf, Settled, Alive

LEMMA OwnerHad ==
    ASSUME BridgesInv, NEW i \in Launches, Owns(i)
    PROVE  Had(i, PathOf(i)) /\ PathOf(i) \in Paths
  BY Numbers DEF BridgesInv, Made, Owns

\* a name that an earlier launcher had is found as such, whatever is being
\* removed meanwhile
LEMMA ReusedIsReplaced ==
    ASSUME BridgesInv, NEW i \in Launches, Alive(i), Had(i, PathOf(i))
    PROVE  Replaced(i) <=> Reused(i)
<1>1. 1 .. i - 1 \subseteq Launches /\ \A k \in 1 .. i - 1 : k < i
  BY ProxyAssumption DEF Launches
<1>2. ASSUME NEW k \in 1 .. i - 1, PathOf(k) = PathOf(i), ~Replaced(i) PROVE FALSE
  <2>0. k \in Launches /\ k < i
    BY <1>1
  <2>1. launch[k].at \notin Settled
    BY <1>2 DEF Replaced
  <2>2. launch[i].at # "not yet" /\ launch[i].pid = PathOf(i)[1]
    BY DEF Alive, Had
  <2>3. launch[k].at # "not yet"
    BY <2>0, <2>2 DEF BridgesInv, Order
  <2>4. CASE launch[k].at = "remove"
    <3>1. PICK m \in Launches : Had(m, PathOf(i)) /\ launch[m].at = "dead"
      BY <1>2, <2>0, <2>4 DEF BridgesInv, Made
    <3>2. m # i
      BY <3>1 DEF Alive
    <3>. QED
      BY <1>2, <3>1, <3>2, NoOtherHad
  <2>5. CASE launch[k].at # "remove"
    <3>1. launch[k].at \notin {"not yet", "remove", "dead"}
      BY <2>1, <2>3, <2>5 DEF Settled
    <3>2. launch[k].path[1] = launch[k].pid /\ Alive(k)
      BY <2>0, <3>1 DEF BridgesInv, Named, Alive
    <3>3. launch[k].pid = launch[i].pid
      BY <1>2, <2>2, <3>2 DEF PathOf
    <3>. QED
      BY <2>0, <2>2, <3>2, <3>3 DEF BridgesInv, Order
  <2>. QED
    BY <2>4, <2>5
<1>. QED
  BY <1>2 DEF Replaced, Reused

\* only the worker of launcher i removes the directory of i
LEMMA WhoRemoves ==
    ASSUME BridgesInv, NEW i \in Launches, Alive(i), Owns(i), ~Replaced(i),
           NEW j \in Launches, Step(j), dirs'[PathOf(i)] # i
    PROVE  j = i /\ RemoveOwn(i)
<1>1. TypeOK /\ Order /\ Made /\ Named /\ InTurn
  BY DEF BridgesInv
<1>2. Had(i, PathOf(i)) /\ PathOf(i) \in Paths /\ dirs[PathOf(i)] = i
  BY OwnerHad DEF Owns
<1>3. CASE RemoveStale(j)
  <2>1. PathOf(j) \in Paths /\ launch[j].pid \in Pids /\ launch[j].at = "remove"
    BY <1>1, <1>3, StartedFacts DEF RemoveStale
  <2>2. PathOf(j) = PathOf(i)
    BY <1>1, <1>2, <1>3, <2>1, StaleFacts
  <2>3. PICK m \in Launches : Had(m, PathOf(i)) /\ launch[m].at = "dead"
    BY <1>1, <2>1, <2>2 DEF Made
  <2>. QED
    BY <1>2, <2>3, NoOtherHad DEF Alive
<1>4. CASE RemoveOwn(j)
  <2>1. Had(j, PathOf(j)) /\ PathOf(j) \in Paths
    BY <1>1, <1>4 DEF RemoveOwn, Named, Had
  <2>2. PathOf(j) = PathOf(i)
    BY <1>1, <1>2, <1>4, <2>1, RemoveDirFacts, TypeParts DEF RemoveOwn
  <2>. QED
    BY <1>2, <1>4, <2>1, <2>2, NoOtherHad
<1>5. CASE CreateDir(j)
  BY <1>1, <1>2, <1>5, Numbers, TypeParts DEF CreateDir, DirsOK
<1>6. CASE ~RemoveStale(j) /\ ~RemoveOwn(j) /\ ~CreateDir(j)
  BY <1>2, <1>6 DEF Step, TestOwner, ForkBridge, ForkWorker, Activate, Die, BridgeStep, Arm, Bind,
     TellReady, Fail, SeesAllGone, KillWorker
<1>. QED
  BY <1>3, <1>4, <1>5, <1>6

\* A launcher keeps its directory as long as one of its bridges may serve, for
\* any number of launchers that clean up beside it and process ids that come
\* again (cleanup_stale_proxy_socket_dirs_in, spawn_proxy_socket_dir_cleanup_worker).
THEOREM LiveDirAlwaysKept == Spec => LiveDirKept
<1>1. BridgesInv /\ [Next]_vars =>
        [\A i \in Launches :
            /\ Alive(i) /\ Owns(i) /\ ~Owns(i)' /\ ~Reused(i)
            => worker[i] = "removing" /\ \A e \in Endpoints : bridge[i][e] \in {"none", "gone"}]_vars
  <2>. SUFFICES ASSUME BridgesInv, Next, NEW i \in Launches,
                       Alive(i), Owns(i), ~Owns(i)', ~Reused(i)
                PROVE  /\ worker[i] = "removing"
                       /\ \A e \in Endpoints : bridge[i][e] \in {"none", "gone"}
    OBVIOUS
  <2>1. Had(i, PathOf(i)) /\ PathOf(i) \in Paths /\ ~Replaced(i)
    BY OwnerHad, ReusedIsReplaced
  <2>2. PICK j \in Launches : Launch(j) \/ Step(j)
    BY DEF Next, Step
  <2>3. launch'[i].path = launch[i].path
    <3>1. CASE Launch(j)
      <4>1. launch[i].at # "not yet" /\ launch[j].at = "not yet"
        BY <3>1, NotYet.at = "not yet" DEF Alive, Launch, NotYet
      <4>. QED
        BY <3>1, <4>1, LaunchFacts DEF BridgesInv, Sets
    <3>2. CASE Step(j)
      BY <2>1, <3>2, StepFollows DEF BridgesInv, Follows, Had
    <3>. QED
      BY <2>2, <3>1, <3>2
  <2>4. dirs'[PathOf(i)] # i
    BY <2>1, <2>3 DEF Owns, PathOf
  <2>5. ~Launch(j)
    BY <2>4 DEF Launch, Owns
  <2>6. worker[i] = "removing"
    BY <2>1, <2>2, <2>4, <2>5, WhoRemoves DEF RemoveOwn
  <2>. QED
    BY <2>6 DEF BridgesInv, InTurn
<1>. QED
  BY <1>1, BridgesInvariant, PTL DEF Spec, LiveDirKept
-----------------------------------------------------------------------------
(* What the variables lead to.                                             *)

\* which steps change who listens on a socket
LEMMA SocketsStep ==
    ASSUME BridgesInv, NEW j \in Launches, Step(j), NEW p \in Paths,
           NEW n \in 0 .. Cardinality(Endpoints) - 1, sockets'[p][n] # sockets[p][n]
    PROVE  /\ p = PathOf(j)
           /\ \/ RemoveStale(j) \/ RemoveOwn(j)
              \/ \E f \in Endpoints :
                    /\ Bind(j, f) /\ n = SocketOf(launch[j].env, f)
                    /\ sockets'[p][n] = <<j, f>>
<1>1. TypeOK /\ Order /\ Made /\ Named /\ InTurn /\ SocketsOK
  BY TypeParts DEF BridgesInv
<1>2. CASE RemoveStale(j)
  BY <1>1, <1>2, StaleFacts, StartedFacts DEF RemoveStale
<1>3. CASE RemoveOwn(j)
  <2>1. PathOf(j) \in Paths
    BY <1>1, <1>3 DEF RemoveOwn, Named, Had
  <2>. QED
    BY <1>1, <1>3, <2>1, RemoveDirFacts, TypeParts DEF RemoveOwn
<1>4. ASSUME NEW f \in Endpoints, Bind(j, f)
      PROVE  p = PathOf(j) /\ n = SocketOf(launch[j].env, f) /\ sockets'[p][n] = <<j, f>>
  <2>. DEFINE m == SocketOf(launch[j].env, f)
  <2>1. /\ PathOf(j) \in Paths /\ f \in Used(launch[j].env)
        /\ launch[j].env \in AllEnvironments
    BY <1>1, <1>4, StartedFacts DEF Bind, Named, Had, Settled
  <2>2. m \in 0 .. Cardinality(Endpoints) - 1
    BY <2>1, SocketInRange
  <2>. HIDE DEF m
  <2>3. sockets' = [sockets EXCEPT ![PathOf(j)][m] = <<j, f>>]
    BY <1>4 DEF Bind, m
  <2>4. p = PathOf(j) /\ n = m /\ sockets'[p][n] = <<j, f>>
    BY <1>1, <2>1, <2>2, <2>3 DEF SocketsOK, SocketValues
  <2>. QED
    BY <2>4 DEF m
<1>5. CASE UNCHANGED sockets
  BY <1>5
<1>. QED
  BY <1>2, <1>3, <1>4, <1>5
  DEF Step, TestOwner, CreateDir, ForkBridge, ForkWorker, Activate, Die, BridgeStep, Arm,
      TellReady, Fail, SeesAllGone, KillWorker

\* a launcher whose path is final has made its directory just now, or had a
\* final path before
LEMMA RunsOn ==
    ASSUME BridgesInv, NEW j \in Launches, Step(j), NEW i \in Launches,
           launch'[i].at \in Settled \ {"dead"}, ~Replaced(i)'
    PROVE  \/ /\ i = j /\ CreateDir(i) /\ dirs'[PathOf(i)] = i
              /\ launch'[i].at = "fork" /\ launch'[i].path = launch[i].path
              /\ PathOf(i) \in Paths
           \/ launch[i].at \in Settled \ {"dead"} /\ ~Replaced(i)
<1>1. TypeOK /\ Order /\ Made /\ Named /\ InTurn /\ Follows(j)
  BY StepFollows DEF BridgesInv
<1>2. CASE launch[i].at \in Settled \ {"dead"}
  <2>1. launch'[i].path = launch[i].path
    BY <1>1, <1>2 DEF Follows
  <2>2. ASSUME NEW k \in 1 .. i - 1, launch[k].at \in Settled, launch[k].path = launch[i].path
        PROVE  launch'[k].at \in Settled /\ launch'[k].path = launch'[i].path
    <3>1. k \in Launches
      BY ProxyAssumption DEF Launches
    <3>. QED
      BY <1>1, <2>1, <2>2, <3>1 DEF Follows
  <2>. QED
    BY <1>2, <2>2 DEF Replaced, PathOf
<1>3. CASE launch[i].at \notin Settled \ {"dead"}
  <2>1. i = j
    BY <1>1, <1>3 DEF Follows
  <2>2. CreateDir(i) /\ launch'[i].at = "fork"
    BY <1>1, <1>3, <2>1, StagesStep DEF Settled
  <2>3. PathOf(i) \in Paths
    BY <1>1, <2>2, StartedFacts DEF CreateDir, PathOf, Named
  <2>4. /\ dirs' = [dirs EXCEPT ![PathOf(i)] = i]
        /\ Moved(i, "fork", launch[i].path, launch[i].left)
    BY <1>1, <2>2, <2>3, CreateFacts DEF Moved
  <2>. QED
    BY <1>1, <2>1, <2>2, <2>3, <2>4, TypeParts DEF DirsOK, Moved
<1>. QED
  BY <1>2, <1>3

LEMMA NewlyBound ==
    ASSUME TypeOK, Order, Made, Named, NEW j \in Launches, Step(j), NEW i \in Launches,
           NEW e \in Endpoints, bridge'[i][e] \in {"bound", "serving"},
           bridge[i][e] \notin {"bound", "serving"}
    PROVE  j = i /\ Bind(i, e) /\ dirs[PathOf(i)] # 0
<1>1. /\ i = j
      /\ UNCHANGED launch /\ bridge[i][e] \in Pending /\ bridge'[i][e] \in Pending
  BY BridgeChange DEF Pending
<1>2. ~ForkBridge(i) /\ ~Die(i)
  <2>1. ~ForkBridge(i)
    BY <1>1, ForkFacts, StartedFacts DEF ForkBridge, Moved
  <2>. QED
    BY <1>1, <2>1, DieFacts DEF Moved, Die, Alive
<1>3. ASSUME NEW f \in Endpoints, Arm(i, f) \/ TellReady(i, f) \/ Fail(i, f) PROVE FALSE
  <2>1. CASE Arm(i, f) \/ Fail(i, f)
    <3>1. PICK s \in {"armed", "gone"} : Becomes(i, f, s)
      BY <2>1 DEF Arm, Fail
    <3>. QED
      BY <3>1, TypeParts, BridgeOKStep
  <2>2. CASE TellReady(i, f)
    <3>1. PICK s \in {"serving", "gone"} : Becomes(i, f, s) /\ bridge[i][f] = "bound"
      BY <2>2 DEF TellReady
    <3>. QED
      BY <3>1, TypeParts, BridgeOKStep
  <2>. QED
    BY <1>3, <2>1, <2>2
<1>4. ASSUME NEW f \in Endpoints, Bind(i, f) PROVE f = e /\ dirs[PathOf(i)] # 0
  <2>1. PICK s \in {"bound", "gone"} :
           Becomes(i, f, s) /\ (s = "gone" <=> dirs[PathOf(i)] = 0)
    BY <1>4 DEF Bind
  <2>. QED
    BY <1>1, <2>1, TypeParts, BridgeOKStep
<1>. QED
  BY <1>1, <1>2, <1>3, <1>4
  DEF Step, TestOwner, RemoveStale, CreateDir, ForkWorker, Activate, BridgeStep,
      SeesAllGone, RemoveOwn, KillWorker

LEMMA SocketsKept ==
    ASSUME BridgesInv, Kept, NEW j \in Launches, Step(j), NEW i \in Launches,
           launch[i].at \in Settled \ {"dead"}, ~Replaced(i),
           NEW e \in Endpoints, bridge'[i][e] \in {"bound", "serving"}
    PROVE  sockets'[PathOf(i)][SocketOf(launch[i].env, e)] = <<i, e>>
<1>. DEFINE n == SocketOf(launch[i].env, e)
<1>0. TypeOK /\ Order /\ Made /\ Named /\ InTurn
  BY DEF BridgesInv
<1>1. Alive(i) /\ Had(i, PathOf(i)) /\ PathOf(i) \in Paths
  BY RunningHad DEF Alive, Settled
<1>2. bridge[i][e] # "none" /\ bridge[i][e] # "gone"
  BY <1>0, BridgeChange DEF Pending
<1>3. launch[i].env \in AllEnvironments /\ e \in Used(launch[i].env)
  BY <1>0, <1>1, <1>2, StartedFacts DEF Named, Alive
<1>4. n \in 0 .. Cardinality(Endpoints) - 1
  BY <1>3, SocketInRange
<1>5. CASE bridge[i][e] \in {"bound", "serving"}
  <2>1. sockets[PathOf(i)][n] = <<i, e>>
    BY <1>5 DEF Kept
  <2>. SUFFICES ASSUME sockets'[PathOf(i)][n] # sockets[PathOf(i)][n] PROVE FALSE
    BY <2>1
  <2>. HIDE DEF n
  <2>2. /\ PathOf(j) = PathOf(i)
        /\ \/ RemoveStale(j) \/ RemoveOwn(j)
           \/ \E f \in Endpoints : Bind(j, f) /\ n = SocketOf(launch[j].env, f)
    BY <1>1, <1>4, SocketsStep
  <2>3. CASE RemoveStale(j)
    <3>1. PICK m \in Launches : Had(m, PathOf(i)) /\ launch[m].at = "dead"
      BY <1>0, <2>2, <2>3 DEF RemoveStale, Made
    <3>. QED
      BY <1>1, <3>1, NoOtherHad DEF Alive
  <2>4. CASE RemoveOwn(j)
    <3>1. Had(j, PathOf(i))
      BY <1>0, <2>2, <2>4 DEF RemoveOwn, Named
    <3>2. j = i
      BY <1>1, <3>1, NoOtherHad
    <3>. QED
      BY <1>0, <1>5, <2>4, <3>2 DEF RemoveOwn, InTurn
  <2>5. ASSUME NEW f \in Endpoints, Bind(j, f), n = SocketOf(launch[j].env, f) PROVE FALSE
    <3>1. Had(j, PathOf(i)) /\ f \in Used(launch[j].env)
      BY <1>0, <2>2, <2>5 DEF Bind, Named
    <3>2. j = i
      BY <1>1, <3>1, NoOtherHad
    <3>3. f # e
      BY <1>5, <2>5, <3>2 DEF Bind
    <3>. QED
      BY <1>3, <2>5, <3>1, <3>2, <3>3, SocketsDiffer DEF n
  <2>. QED
    BY <2>2, <2>3, <2>4, <2>5
<1>6. CASE bridge[i][e] \notin {"bound", "serving"}
  <2>1. j = i /\ Bind(i, e) /\ dirs[PathOf(i)] # 0
    BY <1>0, <1>6, NewlyBound
  <2>2. sockets' = [sockets EXCEPT ![PathOf(i)][n] = <<i, e>>]
    BY <2>1 DEF Bind
  <2>. HIDE DEF n
  <2>3. sockets'[PathOf(i)][n] = <<i, e>>
    BY <1>0, <1>1, <1>4, <2>2, TypeParts DEF SocketsOK, SocketValues
  <2>. QED
    BY <2>3 DEF n
<1>. QED
  BY <1>5, <1>6

LEMMA KeptStep ==
    ASSUME BridgesInv, Kept, NEW j \in Launches, Step(j)
    PROVE  Kept'
<1>0. TypeOK /\ Order /\ Made /\ Named /\ InTurn /\ Follows(j)
  BY StepFollows DEF BridgesInv
<1>. SUFFICES ASSUME NEW i \in Launches, launch'[i].at \in Settled \ {"dead"}, ~Replaced(i)'
              PROVE  /\ \/ Owns(i)'
                        \/ /\ launch'[i].at \in {"bwrap", "command"}
                           /\ \A e \in Used(launch'[i].env) : bridge'[i][e] = "gone"
                     /\ \A e \in Endpoints : bridge'[i][e] \in {"bound", "serving"} =>
                           sockets'[launch'[i].path][SocketOf(launch'[i].env, e)] = <<i, e>>
  BY DEF Kept, PathOf
<1>1. CASE /\ i = j /\ CreateDir(i) /\ dirs'[PathOf(i)] = i
           /\ launch'[i].at = "fork" /\ launch'[i].path = launch[i].path
           /\ PathOf(i) \in Paths
  <2>1. Owns(i)'
    BY <1>1 DEF Owns, PathOf
  <2>2. \A e \in Endpoints : bridge'[i][e] = "none"
    BY <1>0, <1>1 DEF CreateDir, Named, Had, Settled
  <2>. QED
    BY <2>1, <2>2
<1>2. CASE launch[i].at \in Settled \ {"dead"} /\ ~Replaced(i)
  <2>1. launch'[i].path = launch[i].path /\ launch'[i].env = launch[i].env
    BY <1>0, <1>2 DEF Follows
  <2>2. Alive(i) /\ Had(i, PathOf(i)) /\ PathOf(i) \in Paths
    BY <1>2, RunningHad DEF Alive, Settled
  <2>3. launch[i].env \in AllEnvironments /\ Used(launch[i].env) \subseteq Endpoints
    BY <1>0, <2>2, StartedFacts, UsedFinite DEF Alive
  <2>4. CASE launch[i].at \in {"bwrap", "command"}
              /\ \A e \in Used(launch[i].env) : bridge[i][e] = "gone"
    <3>1. launch'[i].at \in {"bwrap", "command"}
      <4>1. CASE launch'[i] = launch[i]
        BY <2>4, <4>1
      <4>2. CASE i = j
        BY <1>0, <2>4, <4>2, StagesStep DEF Settled
      <4>. QED
        BY <1>0, <4>1, <4>2 DEF Follows
    <3>2. \A e \in Used(launch[i].env) : bridge'[i][e] = "gone"
      BY <1>0, <2>3, <2>4, BridgeChange
    <3>. QED
      BY <2>1, <3>1, <3>2, <1>2, <2>2, SocketsKept DEF PathOf
  <2>5. CASE Owns(i) /\ dirs'[PathOf(i)] = i
    <3>1. Owns(i)'
      BY <2>1, <2>2, <2>5 DEF Owns, PathOf
    <3>. QED
      BY <2>1, <3>1, <1>2, SocketsKept DEF PathOf
  <2>6. CASE Owns(i) /\ dirs'[PathOf(i)] # i
    <3>1. j = i /\ RemoveOwn(i)
      BY <1>2, <2>2, <2>6, WhoRemoves
    <3>2. launch[i].at \in {"bwrap", "command"} /\ UNCHANGED <<launch, bridge>>
      BY <1>0, <1>2, <3>1 DEF RemoveOwn, Named
    <3>3. \A e \in Used(launch[i].env) : bridge[i][e] = "gone"
      BY <1>0, <2>3, <3>1, <3>2 DEF RemoveOwn, InTurn
    <3>. QED
      BY <2>1, <3>2, <3>3, <1>2, SocketsKept DEF PathOf
  <2>. QED
    BY <1>2, <2>4, <2>5, <2>6 DEF Kept
<1>. QED
  BY <1>1, <1>2, RunsOn

LEMMA KeptLaunch ==
    ASSUME BridgesInv, Kept, NEW j \in Launches, Launch(j)
    PROVE  Kept'
<1>1. launch[j].at = "not yet"
  BY NotYet.at = "not yet" DEF Launch, NotYet
<1>2. /\ UNCHANGED <<dirs, sockets, bridge, worker>>
      /\ launch'[j].at = "clean"
      /\ \A k \in Launches \ {j} : launch'[k] = launch[k]
  <2>1. TypeOK
    BY DEF BridgesInv
  <2>2. PICK pid \in Pids, env \in AllEnvironments :
            Sets(j, [pid |-> pid, env |-> env, at |-> "clean", path |-> <<pid, 0>>,
                     left |-> {p \in Paths : dirs[p] # 0}])
    BY <2>1, LaunchFacts
  <2>3. launch'[j].at = "clean" /\ \A k \in Launches \ {j} : launch'[k] = launch[k]
    BY <2>2 DEF Sets
  <2>. QED
    BY <2>3 DEF Launch
<1>3. ASSUME NEW i \in Launches, launch'[i].at \in Settled
      PROVE  launch'[i] = launch[i]
  BY <1>2, <1>3 DEF Settled
<1>4. ASSUME NEW i \in Launches, launch'[i].at \in Settled, ~Replaced(i)'
      PROVE  ~Replaced(i)
  <2>1. 1 .. i - 1 \subseteq Launches
    BY ProxyAssumption DEF Launches
  <2>2. \A k \in 1 .. i - 1 : launch[k].at \in Settled => launch'[k] = launch[k]
    BY <1>1, <1>2, <2>1 DEF Settled
  <2>. QED
    BY <1>3, <1>4, <2>2 DEF Replaced, PathOf
<1>5. ASSUME NEW i \in Launches, launch'[i].at \in Settled \ {"dead"}, ~Replaced(i)'
      PROVE  /\ \/ Owns(i)'
                \/ /\ launch'[i].at \in {"bwrap", "command"}
                   /\ \A e \in Used(launch'[i].env) : bridge'[i][e] = "gone"
             /\ \A e \in Endpoints : bridge'[i][e] \in {"bound", "serving"} =>
                   sockets'[launch'[i].path][SocketOf(launch'[i].env, e)] = <<i, e>>
  <2>1. launch'[i] = launch[i] /\ ~Replaced(i)
    BY <1>3, <1>4, <1>5
  <2>. QED
    BY <1>2, <1>5, <2>1 DEF Kept, Owns, PathOf
<1>. QED
  BY <1>5 DEF Kept, PathOf

\* In the sandbox every proxy variable leads to the bridge of its own endpoint,
\* for any environment: the sockets are numbered as plan_proxy_routes does, and
\* bridges start in the order of the endpoints.
THEOREM RoutesAlwaysLead == Spec => []RoutesLead
<1>1. Init => Kept
  <2>1. NotYet.at \notin Settled
    BY DEF NotYet, Settled
  <2>. QED
    BY <2>1 DEF Init, Kept
<1>2. BridgesInv /\ Kept /\ [Next]_vars => Kept'
  <2>1. CASE UNCHANGED vars
    BY <2>1 DEF vars, Kept, Owns, PathOf, Replaced
  <2>2. CASE Next
    BY <2>2, KeptStep, KeptLaunch DEF Next, Step
  <2>. QED
    BY <2>1, <2>2
<1>3. BridgesInv /\ Kept => RoutesLead
  <2>. SUFFICES ASSUME BridgesInv, Kept, NEW i \in Launches, launch[i].at = "command",
                       ~Reused(i), NEW v \in Planned(launch[i].env),
                       bridge[i][launch[i].env[v]] # "gone"
                PROVE  /\ Owns(i)
                       /\ sockets[PathOf(i)][Routes(launch[i].env)[v]] = <<i, launch[i].env[v]>>
    BY DEF RoutesLead
  <2>. DEFINE e == launch[i].env[v]
  <2>1. Alive(i) /\ launch[i].at \in Settled \ {"dead"}
    BY DEF Alive, Settled
  <2>2. Had(i, PathOf(i)) /\ ~Replaced(i)
    BY <2>1, RunningHad, ReusedIsReplaced
  <2>3. e \in Used(launch[i].env) /\ e \in Endpoints
    BY DEF Used, Planned
  <2>4. bridge[i][e] \in {"bound", "serving"}
    <3>1. bridge[i][e] # "none"
      BY <2>3 DEF BridgesInv, InTurn
    <3>2. bridge[i][e] \notin Pending
      BY <2>1, <2>3 DEF BridgesInv, InTurn
    <3>. QED
      BY <2>3, <3>1, <3>2, TypeParts DEF BridgesInv, BridgeOK, BridgeValues, Pending
  <2>5. Owns(i)
    BY <2>1, <2>2, <2>3 DEF Kept
  <2>6. sockets[PathOf(i)][SocketOf(launch[i].env, e)] = <<i, e>>
    BY <2>1, <2>2, <2>3, <2>4 DEF Kept
  <2>. QED
    BY <2>5, <2>6 DEF Routes
<1>. QED
  BY <1>1, <1>2, <1>3, BridgesInvariant, PTL DEF Spec
=============================================================================
