---------------------------- MODULE InstanceLock ----------------------------
(***************************************************************************)
(* One daemon at a time: the instance lock of src/daemon/lock.rs, the life *)
(* of a daemon process in src/main.rs and the restart of                   *)
(* src/supervisor/handlers, over the lock file and the IPC socket they     *)
(* share.  A process is one pid and is used once.                          *)
(***************************************************************************)
EXTENDS Naturals, FiniteSets

CONSTANTS
    Procs,      \* the processes that may be started, in any order
    Nobody,
    Overlap     \* may a process start while another is still starting?

ASSUME InstanceAssumption ==
    /\ Nobody \notin Procs /\ IsFiniteSet(Procs)
    /\ Overlap \in BOOLEAN

VARIABLES
    pc,        \* where each process is
    fd,        \* the inode its lock file handle refers to
    tries,     \* retries_left
    seen,      \* the pid it read
    path,      \* the inode the lock file's name refers to, 0 without a file
    pidIn,     \* the pid written in each inode
    socket     \* who bound the IPC socket's name, Nobody without one

vars == <<pc, fd, tries, seen, path, pidIn, socket>>

Inodes == 1..(2 * Cardinality(Procs))   \* two opens each may create a file

Starting == {"open", "lock", "read", "judge", "remove", "write"}
Holding == {"write", "serve", "bound", "restarting", "leaving", "returning"}
Live == Starting \cup Holding \cup {"dropping"}
Pcs == Live \cup {"new", "refused", "gone", "crashed"}

\* kill(pid, 0)
IsProcessRunning(p) == p \in Procs /\ pc[p] \in Live

\* flock: the lock belongs to the open file, and ends with it.
Locked(i) == \E p \in Procs : pc[p] \in Holding /\ fd[p] = i

Goto(p, l) == pc' = [pc EXCEPT ![p] = l]

----------------------------------------------------------------------------
(* Start *)

Launch(p) ==
    /\ pc[p] = "new"
    /\ Overlap \/ \A q \in Procs : pc[q] \notin Starting
    /\ Goto(p, "open")
    /\ UNCHANGED <<fd, tries, seen, path, pidIn, socket>>

\* open(), which creates a missing file.
Open(p) ==
    /\ pc[p] = "open"
    /\ path' = IF path # 0 THEN path
               ELSE CHOOSE i \in Inodes : \A q \in Procs : fd[q] # i /\ pidIn[i] = Nobody
    /\ fd' = [fd EXCEPT ![p] = path']
    /\ Goto(p, "lock")
    /\ UNCHANGED <<tries, seen, pidIn, socket>>

\* flock(LOCK_EX | LOCK_NB)
Lock(p) ==
    /\ pc[p] = "lock"
    /\ Goto(p, IF Locked(fd[p]) THEN "read" ELSE "write")
    /\ UNCHANGED <<fd, tries, seen, path, pidIn, socket>>

\* The file is read by its name.
Read(p) ==
    /\ pc[p] = "read"
    /\ seen' = [seen EXCEPT ![p] = IF path = 0 THEN Nobody ELSE pidIn[path]]
    /\ Goto(p, "judge")
    /\ UNCHANGED <<fd, tries, path, pidIn, socket>>

\* Mutant of Judge: a lock that is held is always a reason to give up.
JudgeStrict(p) ==
    /\ pc[p] = "judge"
    /\ Goto(p, "refused")
    /\ UNCHANGED <<fd, tries, seen, path, pidIn, socket>>

\* No pid, a live one, or no retry left: refused.  A dead one: a stale lock.
Judge(p) ==
    /\ pc[p] = "judge"
    /\ IF seen[p] = Nobody \/ IsProcessRunning(seen[p]) \/ tries[p] = 0
       THEN Goto(p, "refused")
       ELSE Goto(p, "remove")
    /\ UNCHANGED <<fd, tries, seen, path, pidIn, socket>>

\* The stale file is removed by its name, and the start tried once more.
Remove(p) ==
    /\ pc[p] = "remove"
    /\ path' = 0
    /\ tries' = [tries EXCEPT ![p] = @ - 1]
    /\ Goto(p, IF path = 0 THEN "refused" ELSE "open")
    /\ UNCHANGED <<fd, seen, pidIn, socket>>

\* ftruncate and write, through the handle (a reader that finds the file empty
\* in between is refused, as it is with a new file).
Write(p) ==
    /\ pc[p] = "write"
    /\ pidIn' = [pidIn EXCEPT ![fd[p]] = p]
    /\ Goto(p, "serve")
    /\ UNCHANGED <<fd, tries, seen, path, socket>>

\* IpcServer::run removes a stale socket and binds.
Bind(p) ==
    /\ pc[p] = "serve"
    /\ socket' = p
    /\ Goto(p, "bound")
    /\ UNCHANGED <<fd, tries, seen, path, pidIn>>

----------------------------------------------------------------------------
(* Stop *)

\* Mutant of Quit: release_instance_lock removes the file.
QuitRemoves(p) ==
    /\ pc[p] = "bound"
    /\ socket' = Nobody /\ path' = 0
    /\ Goto(p, "leaving")
    /\ UNCHANGED <<fd, tries, seen, pidIn>>

\* handle_quit removes the socket's name and asks the loop to end.
Quit(p) ==
    /\ pc[p] = "bound"
    /\ socket' = Nobody
    /\ Goto(p, "leaving")
    /\ UNCHANGED <<fd, tries, seen, path, pidIn>>

\* handle_restart spawns the new daemon, removes the socket's name, sleeps.
Restart(p, q) ==
    /\ pc[p] = "bound" /\ pc[q] = "new"
    /\ Overlap \/ \A r \in Procs : pc[r] \notin Starting
    /\ pc' = [pc EXCEPT ![p] = "restarting", ![q] = "open"]
    /\ socket' = Nobody
    /\ UNCHANGED <<fd, tries, seen, path, pidIn>>

SleepEnds(p) ==
    /\ pc[p] = "restarting"
    /\ Goto(p, "leaving")
    /\ UNCHANGED <<fd, tries, seen, path, pidIn, socket>>

\* graceful_shutdown
Shutdown(p) ==
    /\ pc[p] = "leaving"
    /\ socket' = Nobody
    /\ Goto(p, "returning")
    /\ UNCHANGED <<fd, tries, seen, path, pidIn>>

\* run_daemon_mode returns: its lock file handle is closed.
Unlock(p) ==
    /\ pc[p] = "returning"
    /\ Goto(p, "dropping")
    /\ UNCHANGED <<fd, tries, seen, path, pidIn, socket>>

\* main returns and the runtime drops its tasks, the IpcServer among them, which
\* has bound the socket and removes its name.
DropServer(p) ==
    /\ pc[p] = "dropping"
    /\ socket' = Nobody
    /\ Goto(p, "gone")
    /\ UNCHANGED <<fd, tries, seen, path, pidIn>>

\* The supervisor task panics: the hook removes the socket's name, and
\* run_daemon_mode, which waits for the task, goes on.
Panic(p) ==
    /\ pc[p] = "bound"
    /\ socket' = Nobody
    /\ Goto(p, "returning")
    /\ UNCHANGED <<fd, tries, seen, path, pidIn>>

\* Killed, at any time.
Crash(p) ==
    /\ pc[p] \in Live
    /\ Goto(p, "crashed")
    /\ UNCHANGED <<fd, tries, seen, path, pidIn, socket>>

----------------------------------------------------------------------------
Init ==
    /\ pc = [p \in Procs |-> "new"]
    /\ fd = [p \in Procs |-> 0]
    /\ tries = [p \in Procs |-> 1]
    /\ seen = [p \in Procs |-> Nobody]
    /\ path = 0
    /\ pidIn = [i \in Inodes |-> Nobody]
    /\ socket = Nobody

\* What a process does by itself once it runs.
Step(p) == \/ Open(p) \/ Lock(p) \/ Read(p) \/ Judge(p) \/ Remove(p) \/ Write(p)
           \/ Bind(p) \/ SleepEnds(p) \/ Shutdown(p) \/ Unlock(p) \/ DropServer(p)

Next == \E p \in Procs :
            \/ Launch(p) \/ Step(p) \/ Quit(p) \/ Panic(p) \/ Crash(p)
            \/ \E q \in Procs : Restart(p, q)

Spec == Init /\ [][Next]_vars

\* The operating system runs every process.
FairSpec == Spec /\ \A p \in Procs : WF_vars(Step(p))

----------------------------------------------------------------------------
(* The type invariant. *)
TypeOK ==
    /\ pc \in [Procs -> Pcs]
    /\ fd \in [Procs -> {0} \cup Inodes]
    /\ tries \in [Procs -> {0, 1}]
    /\ seen \in [Procs -> Procs \cup {Nobody}]
    /\ path \in {0} \cup Inodes
    /\ pidIn \in [Inodes -> Procs \cup {Nobody}]
    /\ socket \in Procs \cup {Nobody}

\* lock.rs, "ensure only one Shroud daemon runs at a time": at most one process
\* has passed acquire_instance_lock and not ended, through crashes, restarts and
\* stale files.  (Two daemons would edit the same firewall rules.)
OneDaemon ==
    \A p, q \in Procs : pc[p] \in Holding /\ pc[q] \in Holding => p = q

\* A daemon is turned away only by a live one: a process that dies while another
\* one examines its lock does not keep that one out.
RefusedByTheLiving ==
    [][\A p \in Procs : pc[p] = "judge" /\ pc'[p] = "refused" =>
          \E q \in Procs \ {p} : pc[q] \in Live]_vars

\* server.rs, Drop, "Only the instance that bound the socket may unlink it": no
\* other process removes a serving daemon's socket.
SocketStays ==
    [][\A p \in Procs : socket = p /\ pc[p] = "bound" /\ pc'[p] = "bound" =>
          socket' = p]_vars

\* handle_restart, "The child will block on acquiring the lock until we exit": a
\* restart ends with a daemon that serves, unless something crashes.
RestartServes ==
    \A p \in Procs : pc[p] = "restarting" ~>
        \E q \in Procs : pc[q] = "crashed" \/ (q # p /\ pc[q] = "bound")
=============================================================================
