---------------------------- MODULE ProxyBridges ----------------------------
(***************************************************************************)
(* Managed proxy mode of linux-sandbox (linux-sandbox/src/proxy.rs).  A    *)
(* launcher makes a directory named for its process id, forks a bridge     *)
(* for each proxy endpoint, which listens on a socket in that directory,   *)
(* and a worker that removes the directory when the bridges have ended;    *)
(* then it becomes bwrap.  Every launcher first removes the directories of *)
(* dead launchers.  Processes end at any time, and process ids are reused. *)
(***************************************************************************)
EXTENDS Naturals, FiniteSets

CONSTANTS
    Pids,             \* ids that launchers can get
    Environments,     \* of each launcher: the endpoints its proxy variables name
    MaxLaunches,      \* bound: launchers, numbered as they start
    MaxAttempts       \* names tried for a directory (128)

VARIABLES
    dirs,             \* at each path, the launcher whose directory it is, or 0
    sockets,          \* and who listens on the sockets in it
    launch,           \* the launchers
    bridge,           \* their bridges, by endpoint
    worker            \* their workers

vars == <<dirs, sockets, launch, bridge, worker>>

Launches == 1 .. MaxLaunches
Paths    == Pids \X (0 .. MaxAttempts - 1)

\* The endpoints that parse_loopback_proxy_endpoint finds on this host, in
\* their order; 0 is a variable that is empty or names a remote proxy.
AllEnvironments == UNION {Environments[i] : i \in Launches}
Endpoints == UNION {{env[v] : v \in DOMAIN env} : env \in AllEnvironments} \ {0}
Nobody    == <<0, 0>>

\* Variables and endpoints are numbers, and there are finitely many endpoints.
ASSUME ProxyAssumption ==
    /\ MaxLaunches \in Nat /\ MaxAttempts \in Nat \ {0}
    /\ Endpoints \subseteq Nat /\ IsFiniteSet(Endpoints)
    /\ \A env \in AllEnvironments : DOMAIN env \subseteq Nat

NotYet == [pid |-> 0, env |-> <<>>, at |-> "not yet", left |-> {}, path |-> <<0, 0>>]

TypeOK ==
    /\ dirs \in [Paths -> {0} \cup Launches]
    /\ sockets \in [Paths -> [0 .. Cardinality(Endpoints) - 1 -> {Nobody} \cup (Launches \X Endpoints)]]
    /\ launch \in [Launches ->
          [pid : {0} \cup Pids, env : {<<>>} \cup AllEnvironments, left : SUBSET Paths,
           at : {"not yet", "clean", "remove", "create", "fork", "await", "bwrap", "command", "dead"},
           path : {<<0, 0>>} \cup (Pids \X (0 .. MaxAttempts))]]
    /\ bridge \in [Launches -> [Endpoints -> {"none", "forked", "armed", "bound", "serving", "gone"}]]
    /\ worker \in [Launches -> {"none", "waiting", "removing", "done", "killed", "failed"}]

Init ==
    /\ dirs = [p \in Paths |-> 0]
    /\ sockets = [p \in Paths |-> [k \in 0 .. Cardinality(Endpoints) - 1 |-> Nobody]]
    /\ launch = [i \in Launches |-> NotYet]
    /\ bridge = [i \in Launches |-> [e \in Endpoints |-> "none"]]
    /\ worker = [i \in Launches |-> "none"]
-----------------------------------------------------------------------------
(* The plan of a launcher.                                                 *)

\* plan_proxy_routes: the variables that name an endpoint on this host.
Planned(env) == {v \in DOMAIN env : env[v] \in Endpoints}

Used(env) == {env[v] : v \in Planned(env)}

\* Sockets are numbered as their endpoints first appear among the variables,
\* and bridges are forked in the order of the endpoints.
FirstUse(env, e) == CHOOSE v \in Planned(env) :
                        env[v] = e /\ \A u \in Planned(env) : env[u] = e => v <= u
SocketOf(env, e) == Cardinality({f \in Used(env) : FirstUse(env, f) < FirstUse(env, e)})

\* Mutant: a variable leads to the socket of its own number.
RoutesByNumber(env) ==
    [v \in Planned(env) |-> Cardinality({u \in Planned(env) : u < v})]

\* ProxyRouteSpec, and what the variables become in the sandbox: each leads
\* to a local port whose bridge connects to this socket.
Routes(env) == [v \in Planned(env) |-> SocketOf(env, env[v])]
-----------------------------------------------------------------------------
(* prepare_host_proxy_route_spec.                                          *)

Alive(i) == launch[i].at \notin {"not yet", "dead"}
PathOf(i) == launch[i].path
Goto(i, at) == launch' = [launch EXCEPT ![i].at = at]

\* Removing a directory that is not there succeeds too.
RemoveDir(path) ==
    /\ dirs' = [dirs EXCEPT ![path] = 0]
    /\ sockets' = [sockets EXCEPT ![path] = [k \in DOMAIN @ |-> Nobody]]

\* A launcher without any route ends at once.  Its process id is one that no
\* running launcher has.
Launch(i) ==
    /\ launch[i] = NotYet /\ \A j \in 1 .. i - 1 : launch[j] # NotYet
    /\ \E pid \in Pids \ {launch[j].pid : j \in {j \in Launches : Alive(j)}}, env \in Environments[i] :
          /\ Planned(env) # {}
          /\ launch' = [launch EXCEPT ![i] =
                [pid |-> pid, env |-> env, at |-> "clean", path |-> <<pid, 0>>,
                 left |-> {p \in Paths : dirs[p] # 0}]]
    /\ UNCHANGED <<dirs, sockets, bridge, worker>>

\* cleanup_stale_proxy_socket_dirs_in: is_pid_alive.  The id of a dead
\* launcher may be that of any other process by now.
TestOwner(i) ==
    /\ launch[i].at = "clean"
    /\ \E p \in launch[i].left :
          \/ /\ \A j \in Launches : Alive(j) => launch[j].pid # p[1]
             /\ launch' = [launch EXCEPT ![i].left = @ \ {p}, ![i].path = p, ![i].at = "remove"]
          \/ launch' = [launch EXCEPT ![i].left = @ \ {p}]
    /\ UNCHANGED <<dirs, sockets, bridge, worker>>

RemoveStale(i) ==
    /\ launch[i].at = "remove"
    /\ RemoveDir(PathOf(i)) \/ UNCHANGED <<dirs, sockets>>
    /\ launch' = [launch EXCEPT ![i].at = "clean", ![i].path = <<launch[i].pid, 0>>]
    /\ UNCHANGED <<bridge, worker>>

\* create_proxy_socket_dir, one name after the other.
CreateDir(i) ==
    /\ \/ launch[i].at = "clean" /\ launch[i].left = {}
       \/ launch[i].at = "create" /\ PathOf(i) \in Paths
    /\ IF dirs[PathOf(i)] = 0
       THEN dirs' = [dirs EXCEPT ![PathOf(i)] = i] /\ Goto(i, "fork")
       ELSE /\ launch' = [launch EXCEPT ![i].at = "create", ![i].path[2] = @ + 1]
            /\ UNCHANGED dirs
    /\ UNCHANGED <<sockets, bridge, worker>>

\* spawn_host_bridge, and its wait for the byte that says ready.
ForkBridge(i) ==
    /\ launch[i].at = "fork"
    /\ \E e \in Used(launch[i].env) :
          /\ bridge[i][e] = "none"
          /\ \A f \in Used(launch[i].env) : f < e => bridge[i][f] # "none"
          /\ bridge' = [bridge EXCEPT ![i][e] = "forked"]
    /\ Goto(i, "await")
    /\ UNCHANGED <<dirs, sockets, worker>>

\* spawn_proxy_socket_dir_cleanup_worker; then the launcher becomes bwrap.
ForkWorker(i) ==
    /\ launch[i].at = "fork" /\ \A e \in Used(launch[i].env) : bridge[i][e] # "none"
    /\ worker' = [worker EXCEPT ![i] = "waiting"]
    /\ Goto(i, "bwrap")
    /\ UNCHANGED <<dirs, sockets, bridge>>

\* activate_proxy_routes_in_netns, by a child of bwrap, which then becomes
\* the command.
Activate(i) ==
    /\ launch[i].at = "bwrap"
    /\ Goto(i, "command")
    /\ UNCHANGED <<dirs, sockets, bridge, worker>>

\* Mutant: bridges get no signal when their launcher ends.
DieUnnoticed(i) ==
    /\ Alive(i)
    /\ launch' = [launch EXCEPT ![i].at = "dead", ![i].left = {}]
    /\ UNCHANGED <<dirs, sockets, bridge, worker>>

\* A launcher ends: an error of one of the calls, no name left for the
\* directory, a bridge that ended before it was ready, the end of the command,
\* or a kill.  Bridges that have armed themselves get SIGTERM.
Die(i) ==
    /\ Alive(i)
    /\ launch' = [launch EXCEPT ![i].at = "dead", ![i].left = {}]
    /\ bridge' = [bridge EXCEPT ![i] =
          [e \in Endpoints |-> IF @[e] \in {"armed", "bound", "serving"} THEN "gone" ELSE @[e]]]
    /\ UNCHANGED <<dirs, sockets, worker>>
-----------------------------------------------------------------------------
(* run_host_bridge.                                                        *)

Becomes(i, e, state) == bridge' = [bridge EXCEPT ![i][e] = state]

\* set_parent_death_signal.  The orphan of a dead launcher ends, unless a
\* process other than 1 has adopted it.
Arm(i, e) ==
    /\ bridge[i][e] = "forked"
    /\ Becomes(i, e, "armed") \/ (~Alive(i) /\ Becomes(i, e, "gone"))
    /\ UNCHANGED <<dirs, sockets, launch, worker>>

\* A socket that is there already is replaced, whoever listens on it.
Bind(i, e) ==
    /\ bridge[i][e] = "armed"
    /\ IF dirs[PathOf(i)] = 0
       THEN Becomes(i, e, "gone") /\ UNCHANGED sockets
       ELSE /\ Becomes(i, e, "bound")
            /\ sockets' = [sockets EXCEPT ![PathOf(i)][SocketOf(launch[i].env, e)] = <<i, e>>]
    /\ UNCHANGED <<dirs, launch, worker>>

\* Mutant: a launcher that has gone is not noticed.
TellAnyway(i, e) ==
    /\ bridge[i][e] = "bound"
    /\ Becomes(i, e, "serving")
    /\ IF Alive(i) THEN Goto(i, "fork") ELSE UNCHANGED launch
    /\ UNCHANGED <<dirs, sockets, worker>>

\* The byte for the launcher, which reads it; without a reader, an error.
TellReady(i, e) ==
    /\ bridge[i][e] = "bound"
    /\ IF Alive(i)
       THEN Becomes(i, e, "serving") /\ Goto(i, "fork")
       ELSE Becomes(i, e, "gone") /\ UNCHANGED launch
    /\ UNCHANGED <<dirs, sockets, worker>>

\* The bridge is killed, or one of its calls fails.
Fail(i, e) ==
    /\ bridge[i][e] \notin {"none", "gone"}
    /\ Becomes(i, e, "gone")
    /\ UNCHANGED <<dirs, sockets, launch, worker>>
-----------------------------------------------------------------------------
(* The worker.                                                             *)

\* Mutant: one bridge that has ended is enough.
SeesOneGone(i) ==
    /\ worker[i] = "waiting" /\ \E e \in Used(launch[i].env) : bridge[i][e] = "gone"
    /\ worker' = [worker EXCEPT ![i] = "removing"]
    /\ UNCHANGED <<dirs, sockets, launch, bridge>>

SeesAllGone(i) ==
    /\ worker[i] = "waiting" /\ \A e \in Used(launch[i].env) : bridge[i][e] = "gone"
    /\ worker' = [worker EXCEPT ![i] = "removing"]
    /\ UNCHANGED <<dirs, sockets, launch, bridge>>

\* cleanup_proxy_socket_dir: done, or 21 tries have failed.
RemoveOwn(i) ==
    /\ worker[i] = "removing"
    /\ \/ RemoveDir(PathOf(i)) /\ worker' = [worker EXCEPT ![i] = "done"]
       \/ UNCHANGED <<dirs, sockets>> /\ worker' = [worker EXCEPT ![i] = "failed"]
    /\ UNCHANGED <<launch, bridge>>

KillWorker(i) ==
    /\ worker[i] \in {"waiting", "removing"}
    /\ worker' = [worker EXCEPT ![i] = "killed"]
    /\ UNCHANGED <<dirs, sockets, launch, bridge>>

BridgeStep(i, e) == Arm(i, e) \/ Bind(i, e) \/ TellReady(i, e)

Next ==
    \E i \in Launches :
        \/ Launch(i) \/ TestOwner(i) \/ RemoveStale(i) \/ CreateDir(i) \/ ForkBridge(i)
        \/ ForkWorker(i) \/ Activate(i) \/ Die(i)
        \/ \E e \in Endpoints : BridgeStep(i, e) \/ Fail(i, e)
        \/ SeesAllGone(i) \/ RemoveOwn(i) \/ KillWorker(i)

Spec == Init /\ [][Next]_vars

\* The scheduler lets bridges and workers go on.
Fairness ==
    \A i \in Launches :
        /\ \A e \in Endpoints : WF_vars(BridgeStep(i, e))
        /\ WF_vars(SeesAllGone(i)) /\ WF_vars(RemoveOwn(i))

FairSpec == Spec /\ Fairness
-----------------------------------------------------------------------------
(* Properties.                                                             *)

Owns(i) == PathOf(i) \in Paths /\ dirs[PathOf(i)] = i

\* An earlier launcher had the same process id and came to the same name,
\* whether it made that directory or not.
Reused(i) == \E k \in 1 .. i - 1 : PathOf(k) = PathOf(i)

\* A launcher keeps its directory as long as one of its bridges may serve,
\* whatever is cleaned up beside it.  Only if an earlier launcher had that
\* name, it may go in place of that one's, by a worker or a launcher that
\* found the other's owner dead.
LiveDirKept ==
    [][\A i \in Launches :
          /\ Alive(i) /\ Owns(i) /\ ~Owns(i)' /\ ~Reused(i)
          => worker[i] = "removing" /\ \A e \in Endpoints : bridge[i][e] \in {"none", "gone"}]_vars

\* No bridge serves without its launcher: one that was not yet armed when
\* the launcher ended fails to report that it is ready.
NoOrphanServes ==
    \A i \in Launches, e \in Endpoints : bridge[i][e] = "serving" => Alive(i)

\* In the sandbox every proxy variable that named an endpoint of this host
\* leads to the bridge of that same endpoint, until that bridge fails: several
\* variables may share one, and sockets are not numbered in the order in which
\* bridges start.
RoutesLead ==
    \A i \in Launches : launch[i].at = "command" /\ ~Reused(i) =>
        \A v \in Planned(launch[i].env) :
            LET e == launch[i].env[v]
            IN  \/ bridge[i][e] = "gone"
                \/ Owns(i) /\ sockets[PathOf(i)][Routes(launch[i].env)[v]] = <<i, e>>

\* The directory of a launcher that has ended goes, if its worker was started,
\* is not killed and can remove it.
DirGoes ==
    \A i \in Launches :
        launch[i].at = "dead" /\ worker[i] = "waiting"
            ~> ~Owns(i) \/ worker[i] \in {"killed", "failed"}
=============================================================================
