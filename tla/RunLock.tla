-------------------------------- MODULE RunLock --------------------------------
(***************************************************************************)
(* The start of the edge on the Pi: run-poc.sh takes a lock, a directory   *)
(* with a file that names a process, starts the edge and removes the lock  *)
(* when that ends; watchdog.sh runs it again and again, and anybody may    *)
(* run it beside.  One step is one command of the shell.                   *)
(*                                                                         *)
(* A run is one execution of the script; its shell and its edge are        *)
(* processes of their own.  Process ids are not used again, and the file   *)
(* is written in one step: a reader meeting it truncated would take the    *)
(* lock for stale, as it does before the first write.                      *)
(***************************************************************************)
EXTENDS Naturals

CONSTANTS
    Runs,        \* executions of the script
    MaxFaults    \* bound: signals to a shell

ASSUME RunAssumption == MaxFaults \in Nat

VARIABLES
    pc,          \* per run, what its shell does next
    edge,        \* per run, its edge: "none", "up" or "gone"
    old,         \* per run, OLD_PID as it was read
    dir,         \* LOCK_DIR exists
    pid,         \* what the file in it says, None without a file
    refused,     \* history: runs that failed to acquire the lock
    raced,       \* history: two shells ran at once, or a signal came as one started its edge
    faults

lockVars == <<dir, pid>>
vars     == <<pc, edge, old, lockVars, refused, raced, faults>>

Pids == {"shell", "edge"} \X Runs
None == << >>

Init ==
    /\ pc   = [r \in Runs |-> "idle"]
    /\ edge = [r \in Runs |-> "none"]
    /\ old  = [r \in Runs |-> None]
    /\ dir = FALSE /\ pid = None
    /\ refused = {} /\ raced = FALSE
    /\ faults = 0

Goto(r, next) == pc' = [pc EXCEPT ![r] = next]

Running(r) == pc[r] \notin {"idle", "over"}

\* Variant: the file is only believed if it names a shell.
AliveShell(p) == p # None /\ p[1] = "shell" /\ Running(p[2])

\* kill -0: the process named is there; an edge that has ended is, until its shell has
\* waited for it.
Alive(p) ==
    /\ p # None
    /\ CASE p[1] = "shell" -> Running(p[2])
         [] p[1] = "edge"  -> \/ edge[p[2]] = "up"
                              \/ edge[p[2]] = "gone" /\ pc[p[2]] \in {"remember", "tell", "wait", "stop"}

-----------------------------------------------------------------------------
(* Taking the lock *)

\* The watchdog, or somebody at a terminal, runs the script.
Start(r) ==
    /\ pc[r] = "idle"
    /\ Goto(r, "mkdir")
    /\ raced' = (raced \/ \E s \in Runs : Running(s))
    /\ UNCHANGED <<edge, old, lockVars, refused, faults>>

MakeDir(r) ==
    /\ pc[r] = "mkdir"
    /\ dir' = TRUE
    /\ Goto(r, IF dir THEN "read" ELSE "name")
    /\ UNCHANGED <<edge, old, pid, refused, raced, faults>>

Read(r) ==
    /\ pc[r] = "read"
    /\ old' = [old EXCEPT ![r] = pid]
    /\ Goto(r, "probe")
    /\ UNCHANGED <<edge, lockVars, refused, raced, faults>>

\* A live process keeps the lock; any other lock is stale.
Probe(r) ==
    /\ pc[r] = "probe"
    /\ Goto(r, IF Alive(old[r]) THEN "over" ELSE "unlink")
    /\ UNCHANGED <<edge, old, lockVars, refused, raced, faults>>

\* Variant: a stale directory is removed with the file in it.
UnlinkForgotten(r) ==
    /\ pc[r] \in {"unlink", "clean"}
    /\ Goto(r, IF pc[r] = "unlink" THEN "rmdir" ELSE "leave")
    /\ pid' = IF pc[r] = "unlink" THEN pid ELSE None
    /\ UNCHANGED <<edge, old, dir, refused, raced, faults>>

\* rm -f of the file, whoever wrote it.
Unlink(r) ==
    /\ pc[r] \in {"unlink", "clean"}
    /\ Goto(r, IF pc[r] = "unlink" THEN "rmdir" ELSE "leave")
    /\ pid' = None
    /\ UNCHANGED <<edge, old, dir, refused, raced, faults>>

Refuse(r, refuses) == refused' = IF refuses THEN refused \cup {r} ELSE refused

\* rmdir of a stale lock: only an existing, empty directory can be removed.
RemoveStale(r) ==
    LET fails == ~dir \/ pid # None
    IN /\ pc[r] = "rmdir"
       /\ dir' = (dir /\ fails)
       /\ Goto(r, IF fails THEN "over" ELSE "again")
       /\ Refuse(r, fails)
       /\ UNCHANGED <<edge, old, pid, raced, faults>>

Retry(r) ==
    /\ pc[r] = "again"
    /\ dir' = TRUE
    /\ Goto(r, IF dir THEN "over" ELSE "name")
    /\ Refuse(r, dir)
    /\ UNCHANGED <<edge, old, pid, raced, faults>>

\* The lock names the shell; if the directory is gone, the script ends (set -e).
Name(r) ==
    /\ pc[r] = "name"
    /\ pid' = IF dir THEN <<"shell", r>> ELSE pid
    /\ Goto(r, IF dir THEN "launch" ELSE "over")
    /\ Refuse(r, ~dir)
    /\ UNCHANGED <<edge, old, dir, raced, faults>>

-----------------------------------------------------------------------------
(* The edge *)

\* The edge runs in the background; CHILD_PID is set by the next command.
Launch(r) ==
    /\ pc[r] = "launch"
    /\ edge' = [edge EXCEPT ![r] = "up"]
    /\ Goto(r, "remember")
    /\ UNCHANGED <<old, lockVars, refused, raced, faults>>

Remember(r) ==
    /\ pc[r] = "remember"
    /\ Goto(r, "tell")
    /\ UNCHANGED <<edge, old, lockVars, refused, raced, faults>>

\* Variant: the lock goes on naming the shell.
TellNothing(r) ==
    /\ pc[r] = "tell"
    /\ Goto(r, IF dir THEN "wait" ELSE "stop")
    /\ UNCHANGED <<edge, old, lockVars, refused, raced, faults>>

\* The lock names the edge; without a directory the script ends, and its trap runs.
Tell(r) ==
    /\ pc[r] = "tell"
    /\ pid' = IF dir THEN <<"edge", r>> ELSE pid
    /\ Goto(r, IF dir THEN "wait" ELSE "stop")
    /\ UNCHANGED <<edge, old, dir, refused, raced, faults>>

Waited(r) ==
    /\ pc[r] = "wait" /\ edge[r] = "gone"
    /\ Goto(r, "clean")
    /\ UNCHANGED <<edge, old, lockVars, refused, raced, faults>>

\* cleanup() ends the edge it knows of, and waits for it.
StopEdge(r) ==
    /\ pc[r] = "stop"
    /\ edge' = [edge EXCEPT ![r] = "gone"]
    /\ Goto(r, "clean")
    /\ UNCHANGED <<old, lockVars, refused, raced, faults>>

\* rmdir at the end; another run's file keeps the directory.
RemoveDir(r) ==
    /\ pc[r] = "leave"
    /\ dir' = (dir /\ pid # None)
    /\ Goto(r, "over")
    /\ UNCHANGED <<edge, old, pid, refused, raced, faults>>

Fault == faults < MaxFaults /\ faults' = faults + 1

\* The edge is started and the lock does not name it yet.
Starting(r) == pc[r] \in {"remember", "tell"}

\* A signal the script traps: cleanup() runs, with CHILD_PID as it is.
Terminate(r) ==
    /\ Fault
    /\ \/ pc[r] \in {"launch", "remember"} /\ Goto(r, "clean")
       \/ pc[r] \in {"tell", "wait"} /\ Goto(r, "stop")
    /\ raced' = (raced \/ Starting(r))
    /\ UNCHANGED <<edge, old, lockVars, refused>>

\* A signal that it does not, or not any more or not yet: the shell alone ends.
Kill(r) ==
    /\ Fault
    /\ Running(r) /\ Goto(r, "over")
    /\ raced' = (raced \/ Starting(r))
    /\ UNCHANGED <<edge, old, lockVars, refused>>

\* The edge ends by itself.
EdgeEnds(r) ==
    /\ edge[r] = "up"
    /\ edge' = [edge EXCEPT ![r] = "gone"]
    /\ UNCHANGED <<pc, old, lockVars, refused, raced, faults>>

Next ==
    \E r \in Runs :
        \/ Start(r) \/ MakeDir(r) \/ Read(r) \/ Probe(r) \/ Unlink(r) \/ RemoveStale(r) \/ Retry(r)
        \/ Name(r) \/ Launch(r) \/ Remember(r) \/ Tell(r) \/ Waited(r)
        \/ StopEdge(r) \/ RemoveDir(r)
        \/ Terminate(r) \/ Kill(r) \/ EdgeEnds(r)

Spec == Init /\ [][Next]_vars

-----------------------------------------------------------------------------
(* Properties *)

\* Every variable has its type, and only an existing directory holds the file.
TypeOK ==
    /\ pc \in [Runs -> {"idle", "mkdir", "read", "probe", "unlink", "rmdir", "again", "name", "launch",
                        "remember", "tell", "wait", "stop", "clean", "leave", "over"}]
    /\ edge \in [Runs -> {"none", "up", "gone"}]
    /\ old \in [Runs -> Pids \cup {None}]
    /\ dir \in BOOLEAN /\ pid \in Pids \cup {None}
    /\ pid # None => dir
    /\ refused \subseteq Runs /\ raced \in BOOLEAN /\ faults \in 0..MaxFaults

\* "duplicate edge/camera processes cannot start" (docs/POC_HANDOFF.md:104): more than the
\* lock can give, since taking it and naming its holder are two commands.
OneEdge == \A r, s \in Runs : edge[r] = "up" /\ edge[s] = "up" => r = s

\* What the lock does give: as long as no two shells run at once and no signal falls between
\* the start of an edge and its name in the lock, there is one edge, also when a shell was
\* killed and its edge, or its lock, left behind (the lock is renamed to the edge).
OneEdgeUnlessRaced == raced \/ OneEdge

\* The lock names a live edge and nobody has decided otherwise.
Held(r) ==
    /\ edge[r] = "up" /\ pid = <<"edge", r>>
    /\ \A s \in Runs \ {r} :
         pc[s] \in {"idle", "mkdir", "read", "over"} \/ (pc[s] = "probe" /\ old[s] = pid)
    /\ pc[r] \in {"wait", "stop", "over"}

\* A lock that names a live edge holds until that edge ends: no start, however many there are
\* at once, takes it or starts an edge beside it.
HeldLockStands == [][\A r \in Runs : Held(r) => Held(r)' \/ edge'[r] = "gone"]_vars

\* A lock that was left behind, with or without a file, never keeps a lone start out.
StaleLockYields == raced \/ refused = {}
=============================================================================
