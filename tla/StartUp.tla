------------------------------ MODULE StartUp ------------------------------
(***************************************************************************)
(* How an MPI program starts and stops the daemons of its nodes.  The      *)
(* first rank of a node is its launcher: MPI_Init forks a daemon and       *)
(* perhaps a client and pauses after each until a signal says that it is   *)
(* ready.  main of the daemon makes a thread for each of its components,   *)
(* one at a time, under a mutex that the thread releases.  MPI_Finalize    *)
(* kills the client, waits for the other ranks and kills the daemon.       *)
(***************************************************************************)
EXTENDS Integers, Sequences

CONSTANTS
    RankTable,    \* the hosts of the ranks: sequences of [id, width]
    NodesPerBoard,
    MaxTries      \* a connection is tried so often, a second apart (60 in the code)

StartUpAssumption ==
    /\ NodesPerBoard \in Nat \ {0} /\ MaxTries \in Nat
    /\ \A ranks \in RankTable : \A r \in DOMAIN ranks :
           ranks[r].id \in 0 .. 99 /\ ranks[r].width \in 1 .. 2

VARIABLES
    ranks,        \* where the ranks run: the number in the name of the host, and its digits
    client,       \* POWERRT_CLIENT: not set ("none"); GetApps of exec.py "fails" if it is;
                  \* that of another POWERRT_SCRIPT "starts" a client
    oneShot,      \* sa_flags, which is not initialized, has SA_RESETHAND
    launcher,     \* what the launcher of each node does
    app,          \* the applications it has forked
    daemon,       \* its daemon: "none", "up" or "ended"
    clientOf,     \* its client
    thread,       \* the threads of the daemon, in the order they were made
    mutex,        \* the mutex of the daemon is locked
    tries,        \* attempts of the thread that connects
    ready,        \* main has told the launcher
    handled,      \* the signals the launcher has got, if their handlers are reset then
    missed        \* history: the launchers that got one when they did not pause

vars == <<ranks, client, oneShot, launcher, app, daemon, clientOf, thread, mutex,
          tries, ready, handled, missed>>
-----------------------------------------------------------------------------
\* createNidList

\* launcherRank of rank r, if the ranks run on these hosts
LauncherRank(hosts, r) == CHOOSE i \in DOMAIN hosts :
    /\ hosts[i].id = hosts[r].id
    /\ \A j \in 1 .. i - 1 : hosts[j].id # hosts[r].id

\* The launchers; the n-th of them has myNid n - 1.
LauncherRanks(hosts) ==
    SelectSeq([r \in DOMAIN hosts |-> r], LAMBDA r : LauncherRank(hosts, r) = r)
Launchers == LauncherRanks(ranks)
NumNodes == Len(Launchers)
Node == 0 .. NumNodes - 1
Host(n) == ranks[Launchers[n + 1]]

\* A mutant: numbers are written as they are.
Unpadded(n) == FALSE

\* nameLen == procName.size(): no rank before the launcher has a longer or
\* shorter name.
Padded(n) == \A i \in 1 .. Launchers[n + 1] - 1 : ranks[i].width = Host(n).width

Digits(id) == IF id < 10 THEN 1 ELSE 2

\* The list the launcher of node n makes, and createNidMap takes apart again.
NidList(n) ==
    [k \in 1 .. NumNodes |->
        LET id == Host(k - 1).id
            setw == IF Padded(n) /\ Host(n).width > Digits(id) THEN Host(n).width
                    ELSE Digits(id)
        IN  [id |-> id, width |-> setw]]
-----------------------------------------------------------------------------
\* What GetApps has a node run.
RootNode == (IF NumNodes < NodesPerBoard THEN NumNodes ELSE NodesPerBoard) - 1
BoardHost(n) == (n \div NodesPerBoard) * NodesPerBoard
ImARtr(n) == n = RootNode \/ n = BoardHost(n)

\* findArgs: the router, the servers and the logger of the daemon.
Components(n) ==
    (IF ImARtr(n) THEN <<"rtr">> ELSE <<>>) \o <<"srvr">>
        \o (IF n = BoardHost(n) THEN <<"srvr0">> ELSE <<>>)
        \o (IF n = RootNode /\ client = "none" THEN <<"lgr">> ELSE <<>>)
ClientNode(n) == n = NumNodes - 1
NumApps(n) == IF client = "starts" /\ ClientNode(n) THEN 2 ELSE 1

\* initClient is sys.exit: GetApps returns no list.
GetAppsFails(n) == client = "fails" /\ ClientNode(n)

Init ==
    /\ ranks \in RankTable /\ client \in {"none", "fails", "starts"} /\ oneShot \in BOOLEAN
    /\ launcher = [n \in Node |-> "fork"] /\ app = [n \in Node |-> 0]
    /\ daemon = [n \in Node |-> "none"] /\ clientOf = [n \in Node |-> "none"]
    /\ thread = [n \in Node |-> <<>>] /\ mutex = [n \in Node |-> FALSE]
    /\ tries = [n \in Node |-> 0] /\ ready = [n \in Node |-> FALSE]
    /\ handled = [n \in Node |-> {}] /\ missed = {}

setUp == <<ranks, client, oneShot>>
inDaemon == <<thread, mutex, tries, ready>>
signals == <<handled, missed>>

\* The assertion on the list fails, before anything is forked.  What MPI does to the
\* other ranks is not modelled: they go on, to a barrier they do not pass.
Abort(n) ==
    /\ launcher[n] = "fork" /\ GetAppsFails(n)
    /\ launcher' = [launcher EXCEPT ![n] = "aborted"]
    /\ UNCHANGED <<setUp, app, daemon, clientOf, inDaemon, signals>>

\* fork and execve of the next application, the daemon first.
Fork(n) ==
    /\ launcher[n] = "fork" /\ ~GetAppsFails(n)
    /\ launcher' = [launcher EXCEPT ![n] = "forked"]
    /\ app' = [app EXCEPT ![n] = @ + 1]
    /\ IF app[n] = 0
       THEN daemon' = [daemon EXCEPT ![n] = "up"] /\ UNCHANGED clientOf
       ELSE clientOf' = [clientOf EXCEPT ![n] = "up"] /\ UNCHANGED daemon
    /\ UNCHANGED <<setUp, inDaemon, signals>>

\* pause
Pause(n) ==
    /\ launcher[n] = "forked"
    /\ launcher' = [launcher EXCEPT ![n] = "pause"]
    /\ UNCHANGED <<setUp, app, daemon, clientOf, inDaemon, signals>>

\* A signal to the launcher of node n ends its pause, whichever it is; one that
\* comes before the pause does not.  A handler that was reset is not called again.
Signal(n, sig) ==
    LET heard == sig \notin handled[n]
    IN  /\ handled' = IF oneShot THEN [handled EXCEPT ![n] = @ \cup {sig}] ELSE handled
        /\ IF launcher[n] = "pause" /\ heard
           THEN /\ launcher' = [launcher EXCEPT
                        ![n] = IF app[n] < NumApps(n) THEN "fork" ELSE "run"]
                /\ UNCHANGED missed
           ELSE /\ missed' = IF launcher[n] \in {"forked", "pause"}
                             THEN missed \cup {n} ELSE missed
                /\ UNCHANGED launcher

\* The end of the daemon, with its threads.
End(n) ==
    /\ daemon' = [daemon EXCEPT ![n] = "ended"]
    /\ thread' = [thread EXCEPT ![n] = <<>>]
    /\ mutex' = [mutex EXCEPT ![n] = FALSE]
    /\ tries' = [tries EXCEPT ![n] = 0]
    /\ ready' = [ready EXCEPT ![n] = FALSE]

\* The daemon ends of itself.
DaemonEnds(n) == End(n) /\ Signal(n, "SIGCHLD") /\ UNCHANGED <<setUp, app, clientOf>>

\* execve fails.
ExecFails(n) ==
    /\ daemon[n] = "up" /\ thread[n] = <<>>
    /\ DaemonEnds(n)

\* The client ends; it does not signal that it is ready.
ClientEnds(n) ==
    /\ clientOf[n] = "up"
    /\ clientOf' = [clientOf EXCEPT ![n] = "ended"]
    /\ Signal(n, "SIGCHLD")
    /\ UNCHANGED <<setUp, app, daemon, inDaemon>>
-----------------------------------------------------------------------------
\* The daemon.
InMain(n) == daemon[n] = "up"
AllMade(n) == Len(thread[n]) = Len(Components(n))

\* main locks the mutex and makes the next thread.
Create(n) ==
    /\ InMain(n) /\ ~mutex[n] /\ ~AllMade(n)
    /\ mutex' = [mutex EXCEPT ![n] = TRUE]
    /\ thread' = [thread EXCEPT ![n] = Append(@, "building")]
    /\ UNCHANGED <<setUp, launcher, app, daemon, clientOf, tries, ready, signals>>

IsServer(n, k) == Components(n)[k] \in {"srvr", "srvr0"}

\* The ports of a router are open from its constructor on.
Listens(n) ==
    /\ daemon[n] = "up"
    /\ \E k \in DOMAIN thread[n] :
           Components(n)[k] = "rtr" /\ thread[n][k] = "working"

\* A mutant: the thread goes to work with the mutex locked.
StillLocked(n) == mutex

Unlocked(n) == [mutex EXCEPT ![n] = FALSE]

\* The constructor is done, of a server when it is connected; the thread unlocks
\* the mutex and goes to work.
Construct(n, k) ==
    /\ InMain(n) /\ thread[n][k] = "building"
    /\ IsServer(n, k) => Listens(BoardHost(n))
    /\ thread' = [thread EXCEPT ![n][k] = "working"]
    /\ mutex' = Unlocked(n)
    /\ tries' = [tries EXCEPT ![n] = 0]
    /\ UNCHANGED <<setUp, launcher, app, daemon, clientOf, ready, signals>>

\* The constructor fails: the router cannot read the route file, the logger its
\* arguments, or no context is made.  An assertion or exit ends the daemon.
ConstructFails(n, k) ==
    /\ InMain(n) /\ thread[n][k] = "building"
    /\ DaemonEnds(n)

\* The host of the router refuses: a second later the server tries again ...
Refused(n, k) ==
    /\ InMain(n) /\ thread[n][k] = "building"
    /\ IsServer(n, k) /\ ~Listens(BoardHost(n))

Retry(n, k) ==
    /\ Refused(n, k) /\ tries[n] < MaxTries
    /\ tries' = [tries EXCEPT ![n] = @ + 1]
    /\ UNCHANGED <<setUp, launcher, app, daemon, clientOf, thread, mutex, ready, signals>>

\* ... and in the end the write to descriptor -1 fails an assertion.
GiveUp(n, k) ==
    /\ Refused(n, k) /\ tries[n] = MaxTries
    /\ DaemonEnds(n)

\* A mutant: main does not lock the mutex before it signals.
NoLock(n) == TRUE

\* The last lock of main waits for the last thread.
LastLock(n) == ~mutex[n]

\* kill(getppid(), SIGUSR1), for which POWERRT_SIGNAL is set in every daemon.
Ready(n) ==
    /\ InMain(n) /\ AllMade(n) /\ ~ready[n] /\ LastLock(n)
    /\ mutex' = [mutex EXCEPT ![n] = TRUE]
    /\ ready' = [ready EXCEPT ![n] = TRUE]
    /\ Signal(n, "SIGUSR1")
    /\ UNCHANGED <<setUp, app, daemon, clientOf, thread, tries>>

\* The connection of a server to its router is broken: its thread returns.
ServerEnds(n, k) ==
    /\ InMain(n) /\ IsServer(n, k) /\ thread[n][k] = "working"
    /\ daemon[BoardHost(n)] = "ended"
    /\ thread' = [thread EXCEPT ![n][k] = "ended"]
    /\ UNCHANGED <<setUp, launcher, app, daemon, clientOf, mutex, tries, ready, signals>>

\* main has joined the servers; a router never returns.
MainEnds(n) ==
    /\ InMain(n) /\ ready[n]
    /\ \A k \in DOMAIN thread[n] :
           Components(n)[k] # "rtr" /\ (IsServer(n, k) => thread[n][k] = "ended")
    /\ DaemonEnds(n)
-----------------------------------------------------------------------------
\* MPI_Finalize

\* kill and waitpid of the client
KillClient(n) ==
    /\ launcher[n] = "run"
    /\ launcher' = [launcher EXCEPT ![n] = "barrier"]
    /\ clientOf' = [clientOf EXCEPT ![n] = IF @ = "up" THEN "ended" ELSE @]
    /\ UNCHANGED <<setUp, app, daemon, inDaemon, signals>>

\* A mutant: nobody waits.
NoBarrier == TRUE

\* MPI_Barrier: all launchers have come to it.
Barrier == \A m \in Node : launcher[m] \in {"barrier", "done"}

\* kill and waitpid of the daemon
KillDaemon(n) ==
    /\ launcher[n] = "barrier" /\ Barrier
    /\ launcher' = [launcher EXCEPT ![n] = "done"]
    /\ End(n)
    /\ UNCHANGED <<setUp, app, clientOf, signals>>

DaemonStep(n) ==
    \/ Create(n) \/ Ready(n) \/ MainEnds(n)
    \/ \E k \in DOMAIN thread[n] :
           Construct(n, k) \/ Retry(n, k) \/ GiveUp(n, k) \/ ServerEnds(n, k)

LauncherStep(n) == Abort(n) \/ Fork(n) \/ Pause(n)

Next ==
    \E n \in Node :
        \/ LauncherStep(n) \/ DaemonStep(n)
        \/ ExecFails(n) \/ ClientEnds(n)
        \/ \E k \in DOMAIN thread[n] : ConstructFails(n, k)
        \/ KillClient(n) \/ KillDaemon(n)

Spec == Init /\ [][Next]_vars
-----------------------------------------------------------------------------
\* If the names of all hosts are equally long, the launchers of all nodes make the
\* same list, the true names of the hosts in the order of their ids
\* (powerrt.cc:342-399).  Else a host 9 is 09 in the list of a launcher on host 10
\* whose rank is the first.
ListsNameHosts ==
    (\A i, j \in DOMAIN ranks : ranks[i].width = ranks[j].width) =>
        \A n \in Node : NidList(n) = [k \in 1 .. NumNodes |-> Host(k - 1)]

\* One thread at a time is in a constructor, where all use getopt and the
\* environment; and when MPI_Init has returned (powerrt.cc:257, pwrdaemon.cc:100)
\* all of the daemon is at work, unless it is no more.
ReadyIsServing ==
    \A n \in Node :
        /\ \A k \in DOMAIN thread[n] : thread[n][k] = "building" => k = Len(thread[n])
        /\ launcher[n] \in {"run", "barrier", "done"} =>
               \/ daemon[n] = "ended"
               \/ AllMade(n) /\ \A k \in DOMAIN thread[n] : thread[n][k] # "building"

\* No daemon is killed while a client of any node is there that may be waiting for
\* it (powerrt.cc:282-296).
NoneCutOff ==
    \A n, m \in Node :
        launcher[n] = "barrier" /\ launcher'[n] = "done" => clientOf[m] # "up"

\* A launcher has come to the end of MPI_Init or of its process.  Not so one that got a
\* signal when it did not pause yet, which waits for ever, nor one whose client neither
\* signals nor ends (powerrt.cc:184, 237-258).
Launched(n) ==
    \/ launcher[n] \in {"run", "barrier", "done", "aborted"}
    \/ n \in missed \/ clientOf[n] = "up"
=============================================================================
