---------------------------- MODULE RunLock_proofs ----------------------------
(***************************************************************************)
(* Proofs about RunLock, for any number of starts and signals: what the    *)
(* lock excludes, and what it never does.                                  *)
(***************************************************************************)
EXTENDS RunLock, TLAPS

\* Every variable keeps its type, and the file is only ever in an existing directory.
THEOREM LockType == Spec => []TypeOK
<1>1. Init => TypeOK
  <2> SUFFICES ASSUME Init PROVE TypeOK
    OBVIOUS
  <2>1. old \in [Runs -> Pids \cup {None}] /\ pid \in Pids \cup {None}
    BY DEF Init
  <2>2. 0 \in 0..MaxFaults
    BY RunAssumption
  <2>3. QED
    BY <2>1, <2>2 DEF Init, TypeOK
<1>2. TypeOK /\ [Next]_vars => TypeOK'
  <2> SUFFICES ASSUME TypeOK, [Next]_vars PROVE TypeOK'
    OBVIOUS
  <2> USE RunAssumption DEF TypeOK, Goto, Pids, lockVars, Fault, Refuse
  <2>1. ASSUME NEW r \in Runs, Start(r) PROVE TypeOK'
    BY <2>1 DEF Start
  <2>2. ASSUME NEW r \in Runs, MakeDir(r) PROVE TypeOK'
    BY <2>2 DEF MakeDir
  <2>3. ASSUME NEW r \in Runs, Read(r) PROVE TypeOK'
    BY <2>3 DEF Read
  <2>4. ASSUME NEW r \in Runs, Probe(r) PROVE TypeOK'
    BY <2>4 DEF Probe
  <2>5. ASSUME NEW r \in Runs, Unlink(r) PROVE TypeOK'
    BY <2>5 DEF Unlink
  <2>6. ASSUME NEW r \in Runs, RemoveStale(r) PROVE TypeOK'
    BY <2>6 DEF RemoveStale
  <2>7. ASSUME NEW r \in Runs, Retry(r) PROVE TypeOK'
    BY <2>7 DEF Retry
  <2>8. ASSUME NEW r \in Runs, Name(r) PROVE TypeOK'
    BY <2>8 DEF Name
  <2>9. ASSUME NEW r \in Runs, Launch(r) \/ Remember(r) PROVE TypeOK'
    BY <2>9 DEF Launch, Remember
  <2>10. ASSUME NEW r \in Runs, Tell(r) PROVE TypeOK'
    BY <2>10 DEF Tell
  <2>11. ASSUME NEW r \in Runs, Waited(r) \/ StopEdge(r) \/ EdgeEnds(r) PROVE TypeOK'
    BY <2>11 DEF Waited, StopEdge, EdgeEnds
  <2>12. ASSUME NEW r \in Runs, RemoveDir(r) PROVE TypeOK'
    BY <2>12 DEF RemoveDir
  <2>13. ASSUME NEW r \in Runs, Terminate(r) PROVE TypeOK'
    BY <2>13 DEF Terminate
  <2>14. ASSUME NEW r \in Runs, Kill(r) PROVE TypeOK'
    BY <2>14 DEF Kill
  <2>15. CASE UNCHANGED vars
    BY <2>15 DEF vars
  <2>16. QED
    BY <2>1, <2>2, <2>3, <2>4, <2>5, <2>6, <2>7, <2>8, <2>9, <2>10, <2>11, <2>12, <2>13,
       <2>14, <2>15 DEF Next
<1>3. QED
  BY <1>1, <1>2, PTL DEF Spec

-----------------------------------------------------------------------------
(* One edge, unless raced *)

\* What the lock is, as long as no two starts have raced: whoever runs is alone with it.
LockInv ==
    /\ \A r, s \in Runs : Running(r) /\ Running(s) => r = s
    /\ \A r \in Runs : edge[r] = "up" => pid = <<"edge", r>> \/ pc[r] \in {"remember", "tell"}
    /\ \A r \in Runs : pc[r] \in {"unlink", "rmdir", "again", "name", "launch", "clean", "leave"} =>
         \A s \in Runs : edge[s] # "up"
    /\ \A r, s \in Runs : pc[r] \in {"remember", "tell"} /\ edge[s] = "up" => r = s
    /\ \A r \in Runs : pc[r] = "probe" => old[r] = pid
    /\ \A r \in Runs : pc[r] \in {"wait", "stop"} => pid = <<"edge", r>>
    /\ \A r \in Runs : pc[r] \in {"read", "probe", "unlink", "rmdir", "name", "launch", "remember", "tell"} => dir
    /\ \A r \in Runs : pc[r] = "rmdir" => pid = None
    /\ \A r \in Runs : pc[r] = "again" => ~dir
    /\ refused = {}

\* Only the shell that runs touches the lock, and it decides by what the lock says.
LEMMA LockInductive == TypeOK /\ (raced \/ LockInv) /\ [Next]_vars => (raced \/ LockInv)'
<1> SUFFICES ASSUME TypeOK, LockInv, [Next]_vars, ~raced' PROVE LockInv'
  BY DEF Next, vars, Start, MakeDir, Read, Probe, Unlink, RemoveStale, Retry, Name, Launch, Remember,
         Tell, Waited, StopEdge, RemoveDir, Terminate, Kill, EdgeEnds
<1> USE DEF TypeOK, LockInv, Running, Goto
<1>1. ASSUME NEW r \in Runs, Start(r) PROVE LockInv'
  BY <1>1 DEF Start, lockVars
<1>2. ASSUME NEW r \in Runs, MakeDir(r) PROVE LockInv'
  <2>1. CASE dir
    BY <1>2, <2>1 DEF MakeDir, lockVars
  <2>2. CASE ~dir
    \* No lock, hence no file, hence no edge that is named, and nobody else to start one.
    <3>1. pid = None /\ \A s \in Runs : <<"edge", s>> # None
      BY <2>2 DEF None
    <3>2. \A s \in Runs : edge[s] # "up"
      BY <1>2, <3>1 DEF MakeDir
    <3>3. QED
      BY <1>2, <2>2, <3>2 DEF MakeDir, lockVars
  <2>3. QED
    BY <2>1, <2>2
<1>3. ASSUME NEW r \in Runs, Read(r) PROVE LockInv'
  BY <1>3 DEF Read, lockVars
<1>4. ASSUME NEW r \in Runs, Probe(r) PROVE LockInv'
  <2>1. CASE Alive(old[r])
    BY <1>4, <2>1 DEF Probe, lockVars
  <2>2. CASE ~Alive(old[r])
    \* An edge that is up would be the one named, and alive.
    <3>1. \A s \in Runs : edge[s] = "up" => pid = <<"edge", s>>
      BY <1>4 DEF Probe
    <3>2. \A s \in Runs : edge[s] = "up" => Alive(<<"edge", s>>)
      BY DEF Alive, None
    <3>3. \A s \in Runs : edge[s] # "up"
      BY <1>4, <2>2, <3>1, <3>2 DEF Probe
    <3>4. QED
      BY <1>4, <2>2, <3>3 DEF Probe, lockVars
  <2>3. QED
    BY <2>1, <2>2
<1>5. ASSUME NEW r \in Runs, Unlink(r) PROVE LockInv'
  BY <1>5 DEF Unlink, lockVars
<1>6. ASSUME NEW r \in Runs, RemoveStale(r) PROVE LockInv'
  BY <1>6 DEF RemoveStale, Refuse, lockVars
<1>7. ASSUME NEW r \in Runs, Retry(r) PROVE LockInv'
  BY <1>7 DEF Retry, Refuse, lockVars
<1>8. ASSUME NEW r \in Runs, Name(r) PROVE LockInv'
  BY <1>8 DEF Name, Refuse, lockVars
<1>9. ASSUME NEW r \in Runs, Launch(r) PROVE LockInv'
  BY <1>9 DEF Launch, lockVars
<1>10. ASSUME NEW r \in Runs, Remember(r) PROVE LockInv'
  BY <1>10 DEF Remember, lockVars
<1>11. ASSUME NEW r \in Runs, Tell(r) PROVE LockInv'
  BY <1>11 DEF Tell, lockVars
<1>12. ASSUME NEW r \in Runs, Waited(r) PROVE LockInv'
  BY <1>12 DEF Waited, lockVars
<1>13. ASSUME NEW r \in Runs, StopEdge(r) PROVE LockInv'
  BY <1>13 DEF StopEdge, lockVars
<1>14. ASSUME NEW r \in Runs, RemoveDir(r) PROVE LockInv'
  BY <1>14 DEF RemoveDir, lockVars
<1>15. ASSUME NEW r \in Runs, Terminate(r) PROVE LockInv'
  BY <1>15 DEF Terminate, Fault, Starting, lockVars
<1>16. ASSUME NEW r \in Runs, Kill(r) PROVE LockInv'
  BY <1>16 DEF Kill, Fault, Starting, lockVars
<1>17. ASSUME NEW r \in Runs, EdgeEnds(r) PROVE LockInv'
  BY <1>17 DEF EdgeEnds, lockVars
<1>18. CASE UNCHANGED vars
  BY <1>18 DEF vars, lockVars
<1>19. QED
  BY <1>1, <1>2, <1>3, <1>4, <1>5, <1>6, <1>7, <1>8, <1>9, <1>10, <1>11, <1>12, <1>13, <1>14, <1>15, <1>16, <1>17, <1>18 DEF Next

LEMMA LockInvariant == Spec => [](raced \/ LockInv)
<1>1. Init => LockInv
  BY DEF Init, LockInv, Running
<1>2. QED
  BY <1>1, LockInductive, LockType, PTL DEF Spec

\* As long as no two shells run at once and no signal comes between the start of an edge and
\* its name in the lock, no edge is started beside another (run-poc.sh, lines 19-72).
THEOREM OneEdgeAtATime == Spec => []OneEdgeUnlessRaced
<1>1. LockInv => OneEdge
  BY DEF LockInv, OneEdge
<1>2. raced \/ LockInv => OneEdgeUnlessRaced
  BY <1>1 DEF OneEdgeUnlessRaced
<1>3. QED
  BY <1>2, LockInvariant, PTL

\* A lock left behind never keeps a start out that runs alone (run-poc.sh, lines 22-38).
THEOREM LeftLockYields == Spec => []StaleLockYields
<1>1. raced \/ LockInv => StaleLockYields
  BY DEF LockInv, StaleLockYields
<1>2. QED
  BY <1>1, LockInvariant, PTL

\* Whatever runs beside it and whatever signals come, a lock that names a live edge is neither
\* taken nor removed before that edge ends.
THEOREM HeldLockKept == Spec => HeldLockStands
<1>1. ASSUME TypeOK, [Next]_vars, NEW r \in Runs, Held(r) PROVE Held(r)' \/ edge'[r] = "gone"
  <2>1. dir /\ Alive(<<"edge", r>>)
    BY <1>1 DEF TypeOK, Held, Alive, None
  <2> USE <1>1, <2>1 DEF TypeOK, Held, Goto, lockVars
  <2>2. CASE UNCHANGED vars
    BY <2>2 DEF vars
  <2>3. ASSUME NEW s \in Runs,
               \/ Start(s) \/ MakeDir(s) \/ Read(s) \/ Probe(s) \/ Unlink(s) \/ RemoveStale(s) \/ Retry(s)
        PROVE  Held(r)'
    BY <2>3 DEF Start, MakeDir, Read, Probe, Unlink, RemoveStale, Retry
  <2>4. ASSUME NEW s \in Runs, Name(s) \/ Launch(s) \/ Remember(s) \/ Tell(s) \/ RemoveDir(s)
        PROVE  Held(r)'
    BY <2>4 DEF Name, Launch, Remember, Tell, RemoveDir
  <2>5. ASSUME NEW s \in Runs, Waited(s) \/ StopEdge(s) \/ EdgeEnds(s)
        PROVE  Held(r)' \/ edge'[r] = "gone"
    BY <2>5 DEF Waited, StopEdge, EdgeEnds
  <2>6. ASSUME NEW s \in Runs, Terminate(s) \/ Kill(s)
        PROVE  Held(r)'
    BY <2>6 DEF Terminate, Kill, Running, Fault
  <2>7. QED
    BY <2>2, <2>3, <2>4, <2>5, <2>6 DEF Next
<1>2. TypeOK /\ [Next]_vars => [\A r \in Runs : Held(r) => Held(r)' \/ edge'[r] = "gone"]_vars
  BY <1>1
<1>3. QED
  BY <1>2, LockType, PTL DEF Spec, HeldLockStands

=============================================================================
