------------------------- MODULE InstanceLockProofs -------------------------
(***************************************************************************)
(* Proofs about InstanceLock, for every set of processes, where no process *)
(* starts while another is still starting: one daemon at a time, and a     *)
(* process that is turned away is turned away by a live one.               *)
(***************************************************************************)
EXTENDS InstanceLock, FiniteSetTheorems, TLAPS

Idlers == {"new"} \cup Starting   \* those that have written no pid yet

NoHolder == \A q \in Procs : pc[q] \notin Holding

OneStarter ==
    \A p, q \in Procs : pc[p] \in Starting /\ pc[q] \in Starting => p = q

\* The lock file's name refers to the file the holder has locked, and the pid in
\* it is the holder's once it is written.
HolderIsNamed ==
    /\ \A p \in Procs : pc[p] \in Holding \cup {"lock"} => path # 0 /\ fd[p] = path
    /\ \A p \in Procs : pc[p] \in Holding \ {"write"} => pidIn[path] = p

\* What the process that starts knows at each step of acquire_instance_lock.
StarterKnows(p) ==
    /\ pc[p] \in Idlers => \A i \in Inodes : pidIn[i] # p
    /\ pc[p] = "read" => path # 0 /\ pidIn[path] # Nobody
    /\ pc[p] = "judge" =>
           /\ path # 0
           /\ seen[p] \in Procs \ {p}
           /\ \A q \in Procs : pc[q] \in Holding => q = seen[p]
    /\ pc[p] = "remove" => path # 0 /\ NoHolder
    /\ pc[p] \in {"new", "read", "judge", "remove"} => tries[p] = 1
    /\ pc[p] \in {"open", "lock"} => tries[p] = 1 \/ NoHolder

\* A file with a pid in it is the one that process has open.
WrittenIsOpen == \A i \in Inodes : pidIn[i] # Nobody => fd[pidIn[i]] = i

LockInv ==
    /\ TypeOK /\ OneStarter /\ OneDaemon /\ HolderIsNamed /\ WrittenIsOpen
    /\ \A p \in Procs : StarterKnows(p)

----------------------------------------------------------------------------
(* Inodes *)

\* There are more inodes than processes.
LEMMA InodeCount ==
    ASSUME Procs # {}
    PROVE  /\ IsFiniteSet(Inodes) /\ Cardinality(Procs) \in Nat
           /\ Cardinality(Inodes) > Cardinality(Procs) /\ 0 \notin Inodes
<1>1. Cardinality(Procs) \in Nat /\ Cardinality(Procs) # 0
  BY FS_CardinalityType, FS_EmptySet, InstanceAssumption
<1>2. 2 * Cardinality(Procs) \in Nat /\ 2 * Cardinality(Procs) > Cardinality(Procs)
  BY <1>1
<1>3. IsFiniteSet(Inodes) /\ Cardinality(Inodes) = 2 * Cardinality(Procs)
  BY <1>1, <1>2, FS_Interval DEF Inodes
<1> QED BY <1>1, <1>2, <1>3 DEF Inodes

\* open() finds an inode for a file it creates: one that no process has open, and
\* so one without a pid.
LEMMA FreshInode ==
    ASSUME TypeOK, WrittenIsOpen, Procs # {}
    PROVE  \E i \in Inodes : \A q \in Procs : fd[q] # i /\ pidIn[i] = Nobody
<1> DEFINE Used == {fd[q] : q \in Procs}
<1>1. fd \in Surjection(Procs, Used)
  BY DEF Surjection, TypeOK
<1>2. IsFiniteSet(Used) /\ Cardinality(Used) <= Cardinality(Procs)
  BY <1>1, FS_Surjection, InstanceAssumption DEF ExistsSurjection
<1>3. ~(Inodes \subseteq Used)
  <2> SUFFICES ASSUME Inodes \subseteq Used
               PROVE  FALSE
    OBVIOUS
  <2>1. Cardinality(Inodes) <= Cardinality(Used)
    BY <1>2, FS_Subset
  <2>2. Cardinality(Used) \in Nat /\ Cardinality(Inodes) \in Nat
    BY <1>2, InodeCount, FS_CardinalityType
  <2> QED BY <1>2, <2>1, <2>2, InodeCount
<1>4. PICK i \in Inodes : i \notin Used
  BY <1>3
<1>5. pidIn[i] = Nobody
  BY <1>4, InstanceAssumption DEF WrittenIsOpen, TypeOK
<1> QED BY <1>4, <1>5
----------------------------------------------------------------------------
(* The invariant *)

\* acquire_instance_lock and the end of a daemon keep the invariant, whatever
\* other processes crash, end or read meanwhile.
LEMMA LockStep ==
    ASSUME ~Overlap, LockInv, [Next]_vars
    PROVE  LockInv'
<1> USE DEF LockInv, TypeOK, OneStarter, OneDaemon, HolderIsNamed, WrittenIsOpen,
            StarterKnows, NoHolder, Idlers, Starting, Holding, Live, Pcs, Goto
<1> USE InstanceAssumption
<1>1. ASSUME NEW p \in Procs, Open(p)
      PROVE  LockInv'
  <2>1. path' \in Inodes /\ path' # 0 /\ (path # 0 => path' = path)
    BY <1>1, FreshInode, InodeCount DEF Open
  <2>2. fd' = [fd EXCEPT ![p] = path'] /\ pc' = [pc EXCEPT ![p] = "lock"] /\ pc[p] = "open"
    BY <1>1 DEF Open
  <2>3. UNCHANGED <<tries, seen, pidIn, socket>>
    BY <1>1 DEF Open
  <2>4. TypeOK' /\ OneStarter' /\ OneDaemon' /\ WrittenIsOpen'
    BY <2>1, <2>2, <2>3
  <2>5. HolderIsNamed'
    BY <2>1, <2>2, <2>3
  <2>6. \A q \in Procs : StarterKnows(q)'
    BY <2>1, <2>2, <2>3
  <2> QED BY <2>4, <2>5, <2>6
<1>2. ASSUME NEW p \in Procs, Lock(p)
      PROVE  LockInv'
  <2>1. CASE Locked(fd[p])
    <3>1. PICK h \in Procs : pc[h] \in Holding \ {"write"} /\ fd[h] = fd[p]
      BY <1>2, <2>1 DEF Lock, Locked
    <3> QED BY <1>2, <2>1, <3>1 DEF Lock
  <2>2. CASE ~Locked(fd[p])
    <3>1. NoHolder
      BY <1>2, <2>2 DEF Lock, Locked
    <3> QED BY <1>2, <2>2, <3>1 DEF Lock
  <2> QED BY <2>1, <2>2
<1>3. ASSUME NEW p \in Procs, Read(p)
      PROVE  LockInv'
  BY <1>3 DEF Read
<1>4. ASSUME NEW p \in Procs, Judge(p)
      PROVE  LockInv'
  <2>1. CASE IsProcessRunning(seen[p])
    BY <1>4, <2>1 DEF Judge
  <2>2. CASE ~IsProcessRunning(seen[p])
    <3>1. NoHolder
      BY <1>4, <2>2 DEF Judge, IsProcessRunning
    <3> QED BY <1>4, <2>2, <3>1 DEF Judge
  <2> QED BY <2>1, <2>2
<1>5. ASSUME NEW p \in Procs, Remove(p)
      PROVE  LockInv'
  BY <1>5 DEF Remove
<1>6. ASSUME NEW p \in Procs, Write(p)
      PROVE  LockInv'
  BY <1>6 DEF Write
<1>7. ASSUME NEW p \in Procs, Bind(p)
      PROVE  LockInv'
  BY <1>7 DEF Bind
<1>8. ASSUME NEW p \in Procs, SleepEnds(p)
      PROVE  LockInv'
  BY <1>8 DEF SleepEnds
<1>9. ASSUME NEW p \in Procs, Shutdown(p)
      PROVE  LockInv'
  BY <1>9 DEF Shutdown
<1>10. ASSUME NEW p \in Procs, Unlock(p)
      PROVE  LockInv'
  BY <1>10 DEF Unlock
<1>11. ASSUME NEW p \in Procs, DropServer(p)
      PROVE  LockInv'
  BY <1>11 DEF DropServer
<1>12. ASSUME NEW p \in Procs, Quit(p)
      PROVE  LockInv'
  BY <1>12 DEF Quit
<1>13. ASSUME NEW p \in Procs, Panic(p)
      PROVE  LockInv'
  BY <1>13 DEF Panic
<1>14. ASSUME NEW p \in Procs, Crash(p)
      PROVE  LockInv'
  BY <1>14 DEF Crash
<1>15. ASSUME NEW p \in Procs, Launch(p)
      PROVE  LockInv'
  BY <1>15 DEF Launch
<1>16. ASSUME NEW p \in Procs, NEW q \in Procs, Restart(p, q)
      PROVE  LockInv'
  BY <1>16 DEF Restart
<1>17. CASE UNCHANGED vars
  BY <1>17 DEF vars
<1> QED BY <1>1, <1>2, <1>3, <1>4, <1>5, <1>6, <1>7, <1>8, <1>9, <1>10, <1>11, <1>12,
           <1>13, <1>14, <1>15, <1>16, <1>17 DEF Next, Step

\* The invariant holds before the first process starts, hence always.
LEMMA LockAlways == ASSUME ~Overlap PROVE Spec => []LockInv
<1>1. Init => LockInv
  BY InstanceAssumption
     DEF Init, LockInv, TypeOK, OneStarter, OneDaemon, HolderIsNamed, WrittenIsOpen,
         StarterKnows, NoHolder, Idlers, Starting, Holding, Live, Pcs
<1>2. LockInv /\ [Next]_vars => LockInv'
  BY LockStep
<1> QED BY <1>1, <1>2, PTL DEF Spec

\* lock.rs: at most one process has passed acquire_instance_lock and not ended,
\* whatever crashes, restarts and stale files come before, however many processes
\* are started one after another.
THEOREM OneDaemonHolds == ASSUME ~Overlap PROVE Spec => []OneDaemon
<1>1. LockInv => OneDaemon
  BY DEF LockInv
<1> QED BY <1>1, LockAlways, PTL

\* acquire_instance_lock turns a process away only because of another that lives:
\* the empty file and the used-up retry are never the reason.
THEOREM RefusedByTheLivingHolds == ASSUME ~Overlap PROVE Spec => RefusedByTheLiving
<1> DEFINE ByTheLiving ==
       \A p \in Procs : pc[p] = "judge" /\ pc'[p] = "refused" =>
          \E q \in Procs \ {p} : pc[q] \in Live
<1>1. LockInv /\ [Next]_vars => [ByTheLiving]_vars
  <2> SUFFICES ASSUME LockInv, Next, NEW p \in Procs, pc[p] = "judge", pc'[p] = "refused"
               PROVE  \E q \in Procs \ {p} : pc[q] \in Live
    OBVIOUS
  <2>1. Judge(p)
    BY DEF Next, Step, Launch, Open, Lock, Read, Judge, Remove, Write, Bind, SleepEnds,
           Shutdown, Unlock, DropServer, Quit, Panic, Crash, Restart, Goto, LockInv, TypeOK,
           Live, Starting, Holding
  <2>2. seen[p] \in Procs \ {p} /\ tries[p] = 1
    BY DEF LockInv, StarterKnows
  <2>3. IsProcessRunning(seen[p])
    BY <2>1, <2>2, InstanceAssumption DEF Judge, Goto, LockInv, TypeOK
  <2> QED BY <2>2, <2>3 DEF IsProcessRunning
<1> QED BY <1>1, LockAlways, PTL DEF Spec, RefusedByTheLiving
=============================================================================
