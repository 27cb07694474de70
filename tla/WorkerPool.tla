------------------------------ MODULE WorkerPool -------------------------------
(***************************************************************************)
(* WorkerPool (src/consumers/worker-pool.js): the threads of a             *)
(* subscribeParallel consumer.  A worker is <<id, n>>: the n-th respawn of *)
(* workerId id.  A step is one turn of the event loop, the promise         *)
(* continuations it triggers included.                                     *)
(***************************************************************************)
EXTENDS Naturals, Sequences, SequencesExt

CONSTANTS
    WorkerIds,     \* 0 .. workerCount - 1
    Jobs,          \* calls of run()
    None,          \* no worker
    maxRespawns    \* maxRespawns

ASSUME WorkerAssumption == WorkerIds # {} /\ IsFiniteSet(WorkerIds) /\ maxRespawns \in Nat

VARIABLES
    workers,       \* workers: the live workers
    idleWorkers,   \* idleWorkers
    waiters,       \* waiters: the jobs waiting for a worker
    respawnCounts, \* respawnCounts
    terminated,    \* terminated
    dying,         \* workers that have raised 'error' and not yet 'exit'
    job,           \* where each run() is
    on             \* the worker it was given

pool == <<workers, idleWorkers, waiters, respawnCounts, terminated>>
vars == <<pool, dying, job, on>>

Workers == WorkerIds \X (0 .. maxRespawns)

TypeOK ==
    /\ workers \in SUBSET Workers
    /\ idleWorkers \in Seq(Workers)
    /\ waiters \in Seq(Jobs)
    /\ respawnCounts \in [WorkerIds -> 0 .. maxRespawns]
    /\ terminated \in BOOLEAN
    /\ dying \in SUBSET workers
    /\ job \in [Jobs -> {"new", "waiting", "running", "resolved", "rejected"}]
    /\ on \in [Jobs -> Workers \cup {None}]

\* The constructor spawns and releases one worker per id.
Init ==
    /\ workers = WorkerIds \X {0}
    /\ idleWorkers = SetToSeq(workers)
    /\ waiters = <<>>
    /\ respawnCounts = [i \in WorkerIds |-> 0]
    /\ terminated = FALSE
    /\ dying = {}
    /\ job = [j \in Jobs |-> "new"]
    /\ on = [j \in Jobs |-> None]

-----------------------------------------------------------------------------
\* The jobs running on w.
RunningOn(w) == {j \in Jobs : job[j] = "running" /\ on[j] = w}

\* Mutant of Releasable: a worker is handed out again whether or not it is alive.
ReleasableAlways(w, alive) == TRUE

\* #release() does nothing for a worker that has left the pool.
Releasable(w, alive) == w \in alive

\* #release(w), with `jobs`, `idle` and `alive` as the caller leaves them: the worker
\* goes to the first waiter, or back to the idle ones.
Release(w, jobs, idle, alive) ==
    \/ /\ ~Releasable(w, alive)
       /\ job' = jobs /\ idleWorkers' = idle
       /\ UNCHANGED <<waiters, on>>
    \/ /\ Releasable(w, alive) /\ waiters # <<>>
       /\ job' = [jobs EXCEPT ![Head(waiters)] = "running"]
       /\ on' = [on EXCEPT ![Head(waiters)] = w]
       /\ waiters' = Tail(waiters)
       /\ idleWorkers' = idle
    \/ /\ Releasable(w, alive) /\ waiters = <<>>
       /\ job' = jobs /\ idleWorkers' = Append(idle, w)
       /\ UNCHANGED <<waiters, on>>

\* Jobs are interchangeable: they are named in the order of their run() calls.
NextJob == CHOOSE j \in Jobs : job[j] = "new"

\* run(): #acquire() rejects in a terminated or empty pool, takes the first idle
\* worker that is alive (dropping those before it that are not), or waits.
Run(j) ==
    LET i == SelectInSeq(idleWorkers, LAMBDA w : w \in workers)
    IN  /\ job[j] = "new" /\ j = NextJob
        /\ \/ /\ terminated
              /\ job' = [job EXCEPT ![j] = "rejected"]
              /\ UNCHANGED <<idleWorkers, waiters, on>>
           \/ /\ ~terminated /\ i # 0
              /\ job' = [job EXCEPT ![j] = "running"]
              /\ on' = [on EXCEPT ![j] = idleWorkers[i]]
              /\ idleWorkers' = SubSeq(idleWorkers, i + 1, Len(idleWorkers))
              /\ UNCHANGED waiters
           \/ /\ ~terminated /\ i = 0 /\ workers = {}
              /\ job' = [job EXCEPT ![j] = "rejected"]
              /\ idleWorkers' = <<>>
              /\ UNCHANGED <<waiters, on>>
           \/ /\ ~terminated /\ i = 0 /\ workers # {}
              /\ job' = [job EXCEPT ![j] = "waiting"]
              /\ waiters' = Append(waiters, j)
              /\ idleWorkers' = <<>>
              /\ UNCHANGED on
        /\ UNCHANGED <<workers, respawnCounts, terminated, dying>>

\* onMessage: the worker posts its result.
Message(j) ==
    /\ job[j] = "running" /\ on[j] \in workers \ dying
    /\ Release(on[j], [job EXCEPT ![j] = "resolved"], idleWorkers, workers)
    /\ UNCHANGED <<workers, respawnCounts, terminated, dying>>

\* The worker raises 'error'.  The run() it had rejects and releases it, although
\* its 'exit' is still to come.
Error(w) ==
    /\ w \in workers \ dying
    /\ dying' = dying \cup {w}
    /\ \/ /\ RunningOn(w) = {}
          /\ UNCHANGED <<job, on, idleWorkers, waiters>>
       \/ \E j \in RunningOn(w) :
             Release(w, [job EXCEPT ![j] = "rejected"], idleWorkers, workers)
    /\ UNCHANGED <<workers, respawnCounts, terminated>>

MayRespawn(i) == respawnCounts[i] < maxRespawns

\* Mutant of Abandons: the waiters are left to themselves.
AbandonsNever(alive) == FALSE

\* The last worker is gone and will not come back.
Abandons(alive) == alive = {}

\* The jobs after an exit of w: its own rejects (onExit).
AfterExit(w) == [j \in Jobs |-> IF j \in RunningOn(w) THEN "rejected" ELSE job[j]]

\* The 'exit' event of w, after an error or by itself: it leaves the pool, and is
\* respawned within its budget; when the last one is gone the waiters are rejected.
\* The run() it had rejects and releases it, which by then changes nothing.
Exit(w) ==
    LET i == w[1]
        alive == workers \ {w}
        idle == RemoveFirst(idleWorkers, w)
        fresh == <<i, respawnCounts[i] + 1>>
    IN  /\ w \in workers
        /\ dying' = dying \ {w}
        /\ \/ /\ terminated
              /\ workers' = alive
              /\ Release(w, AfterExit(w), idle, alive)
              /\ UNCHANGED respawnCounts
           \/ /\ ~terminated /\ MayRespawn(i)
              /\ workers' = alive \cup {fresh}
              /\ respawnCounts' = [respawnCounts EXCEPT ![i] = @ + 1]
              /\ Release(fresh, AfterExit(w), idle, workers')
           \/ /\ ~terminated /\ ~MayRespawn(i) /\ Abandons(alive)
              /\ workers' = alive
              /\ job' = [j \in Jobs |-> IF job[j] = "waiting" THEN "rejected" ELSE AfterExit(w)[j]]
              /\ waiters' = <<>>
              /\ idleWorkers' = idle
              /\ UNCHANGED <<respawnCounts, on>>
           \/ /\ ~terminated /\ ~MayRespawn(i) /\ ~Abandons(alive)
              /\ workers' = alive
              /\ Release(w, AfterExit(w), idle, alive)
              /\ UNCHANGED respawnCounts
        /\ UNCHANGED terminated

\* terminate(): waiters are rejected and every worker is told to stop.  It clears the
\* pool once they have exited, which by then each exit has done.
Terminate ==
    /\ ~terminated
    /\ terminated' = TRUE
    /\ job' = [j \in Jobs |-> IF job[j] = "waiting" THEN "rejected" ELSE job[j]]
    /\ waiters' = <<>>
    /\ UNCHANGED <<workers, idleWorkers, respawnCounts, dying, on>>

Next ==
    \/ \E j \in Jobs : Run(j) \/ Message(j)
    \/ \E w \in Workers : Error(w) \/ Exit(w)
    \/ Terminate

Spec == Init /\ [][Next]_vars

\* A worker that has a message answers it or dies; one that has raised 'error', or
\* was told to stop, exits.
FairSpec ==
    /\ Spec
    /\ \A j \in Jobs : WF_vars(Message(j))
    /\ \A w \in Workers : WF_vars((terminated \/ w \in dying) /\ Exit(w))

-----------------------------------------------------------------------------
(* What the pool promises. *)

\* A worker runs one job at a time, is alive while it does and is not idle then,
\* however its message, error and exit events and the respawns interleave.
OneJobPerWorker ==
    /\ \A j, k \in Jobs : (job[j] = "running" /\ job[k] = "running" /\ j # k) => on[j] # on[k]
    /\ \A j \in Jobs : job[j] = "running" => /\ on[j] \in workers
                                             /\ on[j] \notin ToSet(idleWorkers)

\* Every run() settles: "queued work is rejected instead of hanging".
EveryRunSettles ==
    \A j \in Jobs : (job[j] # "new") ~> (job[j] \in {"resolved", "rejected"})
=============================================================================
