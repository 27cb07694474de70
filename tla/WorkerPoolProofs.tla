---------------------------- MODULE WorkerPoolProofs ----------------------------
(***************************************************************************)
(* Proofs about WorkerPool, for any number of workers and jobs and every   *)
(* respawn budget.                                                         *)
(***************************************************************************)
EXTENDS WorkerPool, FiniteSetTheorems, SequenceTheorems, TLAPS

\* No element twice.
Distinct(s) == \A i, j \in 1 .. Len(s) : s[i] = s[j] => i = j

\* Where the jobs, the idle and the live workers and the queue of waiters stand, also in
\* the middle of a step: workers with a job and idle ones are alive and apart, and the
\* queue holds jobs that wait, each once.
Placed(jobs, place, idle, alive, queue) ==
    /\ \A j, k \in Jobs : jobs[j] = "running" /\ jobs[k] = "running" /\ j # k => place[j] # place[k]
    /\ \A j \in Jobs : jobs[j] = "running" =>
         place[j] \in alive /\ \A i \in 1 .. Len(idle) : idle[i] # place[j]
    /\ Distinct(idle) /\ \A i \in 1 .. Len(idle) : idle[i] \in alive
    /\ Distinct(queue) /\ \A i \in 1 .. Len(queue) : jobs[queue[i]] = "waiting"

JobStates == {"new", "waiting", "running", "resolved", "rejected"}

\* A respawn takes a number that no live worker has.
Numbered == \A w \in workers : w[2] <= respawnCounts[w[1]]

\* The inductive invariant.
IInv ==
    /\ TypeOK
    /\ Placed(job, on, idleWorkers, workers, waiters)
    /\ Numbered

-----------------------------------------------------------------------------
\* What a queue is after its first element has been taken, or one has been added.
LEMMA QueueSteps ==
    ASSUME NEW S, NEW s \in Seq(S), Distinct(s)
    PROVE  /\ s # <<>> => /\ Head(s) = s[1] /\ 1 \in 1 .. Len(s) /\ Head(s) \in S
                          /\ Tail(s) \in Seq(S) /\ Distinct(Tail(s))
                          /\ \A i \in 1 .. Len(Tail(s)) :
                               \E k \in 2 .. Len(s) : Tail(s)[i] = s[k]
           /\ \A x \in S : /\ Append(s, x) \in Seq(S)
                           /\ \A i \in 1 .. Len(Append(s, x)) :
                                Append(s, x)[i] = x \/ \E k \in 1 .. Len(s) : Append(s, x)[i] = s[k]
                           /\ (\A i \in 1 .. Len(s) : s[i] # x) => Distinct(Append(s, x))
BY DEF Distinct

\* A nonempty set of natural numbers has a minimum.
LEMMA MinExists ==
    ASSUME NEW I \in SUBSET Nat, I # {}
    PROVE  Min(I) \in I /\ \A y \in I : Min(I) <= y
<1> DEFINE R == OpToRel(<, Nat)
<1>1. IsWellFoundedOn(R, Nat)
  BY NatLessThanWellFounded
<1>2. \A x, y \in Nat : x < y => <<x, y>> \in R
  BY DEF OpToRel
<1> HIDE DEF R
<1>3. PICK x \in I : \A y \in I : ~ (<<y, x>> \in R)
  BY <1>1, WFMin, Zenon
<1>4. \A y \in I : ~(y < x)
  BY <1>2, <1>3
<1>5. \A y \in I : x <= y
  BY <1>4
<1> QED
  BY <1>5 DEF Min

\* The first live worker of the idle ones.
LEMMA FirstLive ==
    ASSUME NEW S, NEW s \in Seq(S), NEW T
    PROVE  LET i == SelectInSeq(s, LAMBDA w : w \in T) IN
           /\ i # 0 => i \in 1 .. Len(s) /\ s[i] \in T
           /\ i = 0 => \A k \in 1 .. Len(s) : s[k] \notin T
<1> DEFINE I == {i \in 1 .. Len(s) : s[i] \in T}
<1>1. SelectInSeq(s, LAMBDA w : w \in T) = IF I # {} THEN Min(I) ELSE 0
  BY Zenon DEF SelectInSeq
<1>2. I # {} => Min(I) \in I
  <2>1. I \in SUBSET Nat
    OBVIOUS
  <2> HIDE DEF I
  <2> QED
    BY <2>1, MinExists
<1>3. I # {} => Min(I) # 0
  BY <1>2
<1> QED
  BY <1>1, <1>2, <1>3

\* splice() at indexOf(): the worker is gone, the others are still there once.
LEMMA RemoveFirstSteps ==
    ASSUME NEW S, NEW s \in Seq(S), Distinct(s), NEW w
    PROVE  LET t == RemoveFirst(s, w) IN
           /\ t \in Seq(S) /\ Distinct(t)
           /\ \A i \in 1 .. Len(t) : t[i] # w /\ \E k \in 1 .. Len(s) : t[i] = s[k]
<1> DEFINE I == {i \in 1 .. Len(s) : s[i] = w}
           n == SelectInSeq(s, LAMBDA v : v = w)
<1>1. n = IF I # {} THEN Min(I) ELSE 0
  BY Zenon DEF SelectInSeq
<1>2. RemoveFirst(s, w) = IF \E i \in 1 .. Len(s) : s[i] = w
                            THEN SubSeq(s, 1, n - 1) \o SubSeq(s, n + 1, Len(s)) ELSE s
  BY Zenon DEF RemoveFirst, RemoveAt
<1> HIDE DEF n
<1>3. CASE I = {}
  BY <1>2, <1>3
<1>4. CASE I # {}
  <2>1. n \in 1 .. Len(s) /\ s[n] = w
    <3>1. I \in SUBSET Nat
      OBVIOUS
    <3>2. n \in I
      <4> HIDE DEF I
      <4> QED
        BY <1>1, <1>4, <3>1, MinExists
    <3> QED
      BY <3>2
  <2> DEFINE t == SubSeq(s, 1, n - 1) \o SubSeq(s, n + 1, Len(s))
  <2>2. RemoveFirst(s, w) = t
    BY <1>2, <1>4
  <2>3. /\ t \in Seq(S) /\ Len(t) = Len(s) - 1
        /\ \A i \in 1 .. Len(t) : t[i] = IF i < n THEN s[i] ELSE s[i + 1]
    <3> DEFINE a == SubSeq(s, 1, n - 1)
               b == SubSeq(s, n + 1, Len(s))
    <3>1. a \in Seq(S) /\ Len(a) = n - 1 /\ \A i \in 1 .. n - 1 : a[i] = s[i]
      BY <2>1
    <3>2. b \in Seq(S) /\ Len(b) = Len(s) - n /\ \A i \in 1 .. Len(s) - n : b[i] = s[i + n]
      BY <2>1
    <3> HIDE DEF a, b
    <3>3. /\ a \o b \in Seq(S) /\ Len(a \o b) = Len(a) + Len(b)
          /\ \A i \in 1 .. Len(a) + Len(b) :
               (a \o b)[i] = IF i <= Len(a) THEN a[i] ELSE b[i - Len(a)]
      BY <3>1, <3>2, ConcatProperties, Zenon
    <3>4. t = a \o b
      BY DEF a, b
    <3> HIDE DEF t
    <3>5. t \in Seq(S) /\ Len(t) = Len(s) - 1
      <4>1. t \in Seq(S) /\ Len(t) = Len(a) + Len(b)
        BY <3>3, <3>4, Zenon
      <4>2. Len(a) + Len(b) = Len(s) - 1
        BY <2>1, <3>1, <3>2
      <4> QED
        BY <4>1, <4>2
    <3>6. ASSUME NEW i \in 1 .. Len(t) PROVE t[i] = IF i < n THEN s[i] ELSE s[i + 1]
      <4>1. i \in 1 .. Len(a) + Len(b) /\ i \in Int /\ n \in Int
        BY <2>1, <3>1, <3>2, <3>5
      <4>2. CASE i < n
        BY <2>1, <3>1, <3>3, <3>4, <4>1, <4>2
      <4>3. CASE ~(i < n)
        <5>1. i - Len(a) \in 1 .. Len(s) - n /\ (i - Len(a)) + n = i + 1
          BY <2>1, <3>1, <3>2, <4>1, <4>3
        <5> QED
          BY <3>1, <3>2, <3>3, <3>4, <4>1, <4>3, <5>1
      <4> QED
        BY <4>2, <4>3
    <3> QED
      BY <3>5, <3>6
  <2> HIDE DEF t
  <2>4. Distinct(t)
    BY <2>1, <2>3 DEF Distinct
  <2>5. \A i \in 1 .. Len(t) : t[i] # w /\ \E k \in 1 .. Len(s) : t[i] = s[k]
    BY <2>1, <2>3 DEF Distinct
  <2> QED
    BY <2>2, <2>3, <2>4, <2>5
<1> QED
  BY <1>3, <1>4

-----------------------------------------------------------------------------
\* Whoever #release()s a worker that has no job and is not idle, alive or not, leaves every
\* worker with one place.
LEMMA ReleasePlaces ==
    ASSUME TypeOK, NEW w \in Workers, NEW jobs \in [Jobs -> JobStates], NEW idle \in Seq(Workers),
           NEW alive, Placed(jobs, on, idle, alive, waiters),
           \A j \in Jobs : jobs[j] = "running" => on[j] # w,
           \A i \in 1 .. Len(idle) : idle[i] # w,
           Release(w, jobs, idle, alive)
    PROVE  /\ Placed(job', on', idleWorkers', alive, waiters')
           /\ job' \in [Jobs -> JobStates] /\ on' \in [Jobs -> Workers \cup {None}]
           /\ idleWorkers' \in Seq(Workers) /\ waiters' \in Seq(Jobs)
<1> USE DEF TypeOK, JobStates
<1>1. CASE ~Releasable(w, alive)
  BY <1>1 DEF Release
<1>2. CASE Releasable(w, alive) /\ waiters # <<>>
  <2> DEFINE h == Head(waiters)
             q == Tail(waiters)
  <2>1. /\ job' = [jobs EXCEPT ![h] = "running"] /\ on' = [on EXCEPT ![h] = w]
        /\ waiters' = q /\ idleWorkers' = idle
    BY <1>2 DEF Release
  <2>2. /\ h \in Jobs /\ h = waiters[1] /\ 1 \in 1 .. Len(waiters)
        /\ q \in Seq(Jobs) /\ Distinct(q)
        /\ \A i \in 1 .. Len(q) : \E k \in 2 .. Len(waiters) : q[i] = waiters[k]
    BY <1>2, QueueSteps DEF Placed
  <2> HIDE DEF h, q
  <2>3. \A i \in 1 .. Len(q) : q[i] # h /\ q[i] \in Jobs /\ jobs[q[i]] = "waiting"
    <3>1. ASSUME NEW i \in 1 .. Len(q), NEW k \in 2 .. Len(waiters), q[i] = waiters[k]
          PROVE  q[i] # h /\ q[i] \in Jobs /\ jobs[q[i]] = "waiting"
      <4>1. k \in 1 .. Len(waiters) /\ k # 1
        BY <3>1
      <4> QED
        BY <2>2, <3>1, <4>1 DEF Placed, Distinct
    <3> QED
      BY <2>2, <3>1
  <2>4. jobs[h] = "waiting"
    BY <2>2 DEF Placed
  <2>5. w \in alive
    BY <1>2 DEF Releasable
  <2> QED
    BY <2>1, <2>2, <2>3, <2>4, <2>5 DEF Placed
<1>3. CASE Releasable(w, alive) /\ waiters = <<>>
  <2> DEFINE q == Append(idle, w)
  <2>1. job' = jobs /\ idleWorkers' = q /\ UNCHANGED <<waiters, on>>
    BY <1>3 DEF Release
  <2>2. /\ q \in Seq(Workers) /\ Distinct(q)
        /\ \A i \in 1 .. Len(q) : q[i] = w \/ \E k \in 1 .. Len(idle) : q[i] = idle[k]
    BY QueueSteps DEF Placed
  <2> HIDE DEF q
  <2>3. w \in alive
    BY <1>3 DEF Releasable
  <2>4. ASSUME NEW i \in 1 .. Len(q)
        PROVE  q[i] \in alive /\ \A j \in Jobs : jobs[j] = "running" => q[i] # on[j]
    <3>1. CASE q[i] = w
      BY <2>3, <3>1
    <3>2. ASSUME NEW k \in 1 .. Len(idle), q[i] = idle[k]
          PROVE  q[i] \in alive /\ \A j \in Jobs : jobs[j] = "running" => q[i] # on[j]
      BY <3>2 DEF Placed
    <3> QED
      BY <2>2, <3>1, <3>2
  <2>5. Placed(jobs, on, q, alive, waiters)
    BY <2>2, <2>4 DEF Placed
  <2> QED
    BY <2>1, <2>2, <2>5
<1> QED
  BY <1>1, <1>2, <1>3

-----------------------------------------------------------------------------
\* The constructor's pool.
LEMMA IInvInit == Init => IInv
<1> SUFFICES ASSUME Init PROVE IInv
  OBVIOUS
<1> DEFINE n == Cardinality(workers)
<1>1. workers \in SUBSET Workers /\ IsFiniteSet(workers)
  <2>1. IsFiniteSet(WorkerIds \X {0})
    BY FS_Singleton, FS_Product, WorkerAssumption
  <2> QED
    BY <2>1, WorkerAssumption DEF Init, Workers
<1>2. n \in Nat /\ \E f \in [1 .. n -> workers] : IsInjective(f)
  BY <1>1, FS_CardinalityType DEF ExistsBijection, Bijection, Injection
<1>3. idleWorkers \in [1 .. n -> workers] /\ IsInjective(idleWorkers)
  BY <1>2, Zenon DEF Init, SetToSeq
<1> HIDE DEF n
<1>4. idleWorkers \in Seq(workers) /\ Len(idleWorkers) = n
  BY <1>2, <1>3
<1>5. idleWorkers \in Seq(Workers)
  BY <1>1, <1>4
<1>6. Distinct(idleWorkers) /\ \A i \in 1 .. Len(idleWorkers) : idleWorkers[i] \in workers
  BY <1>3, <1>4 DEF Distinct, IsInjective
<1>7. TypeOK
  <2>1. respawnCounts \in [WorkerIds -> 0 .. maxRespawns]
    <3>1. 0 \in 0 .. maxRespawns
      BY WorkerAssumption
    <3> QED
      BY <3>1, Zenon DEF Init
  <2>2. waiters \in Seq(Jobs)
    BY Zenon, EmptySeq DEF Init
  <2>3. /\ terminated \in BOOLEAN /\ dying \in SUBSET workers
        /\ job \in [Jobs -> {"new", "waiting", "running", "resolved", "rejected"}]
        /\ on \in [Jobs -> Workers \cup {None}]
    BY Zenon DEF Init
  <2> QED
    BY <1>1, <1>5, <2>1, <2>2, <2>3, Zenon DEF TypeOK
<1>8. Placed(job, on, idleWorkers, workers, waiters)
  <2>1. (\A j \in Jobs : job[j] = "new") /\ Len(waiters) = 0
    BY DEF Init
  <2> QED
    BY <1>6, <2>1 DEF Placed, Distinct
<1>9. Numbered
  BY DEF Init, Numbered
<1> QED
  BY <1>7, <1>8, <1>9 DEF IInv

\* The worker that answers, errs or exits had one job and was not idle: once that job has
\* ended, in `jobs`, it is free.
LEMMA FreedByEnd ==
    ASSUME IInv, NEW j \in Jobs, job[j] = "running", NEW v \in {"resolved", "rejected"}
    PROVE  LET jobs == [job EXCEPT ![j] = v] IN
           /\ jobs \in [Jobs -> JobStates] /\ on[j] \in workers
           /\ Placed(jobs, on, idleWorkers, workers, waiters)
           /\ \A k \in Jobs : jobs[k] = "running" => on[k] # on[j]
           /\ \A i \in 1 .. Len(idleWorkers) : idleWorkers[i] # on[j]
<1> DEFINE jobs == [job EXCEPT ![j] = v]
<1>1. jobs \in [Jobs -> JobStates]
  BY DEF IInv, TypeOK, JobStates
<1>2. \A k \in Jobs : jobs[k] = IF k = j THEN v ELSE job[k]
  BY DEF IInv, TypeOK
<1> HIDE DEF jobs
<1>3. \A i \in 1 .. Len(waiters) : waiters[i] \in Jobs /\ job[waiters[i]] = "waiting"
  BY DEF IInv, TypeOK, Placed
<1>4. Placed(jobs, on, idleWorkers, workers, waiters)
  BY <1>2, <1>3 DEF IInv, Placed
<1> QED
  BY <1>1, <1>2, <1>4 DEF IInv, Placed, jobs

\* #acquire() drops the idle workers up to the one it takes.
LEMMA TakeIdle ==
    ASSUME idleWorkers \in Seq(Workers), Distinct(idleWorkers), NEW n \in 1 .. Len(idleWorkers),
           idleWorkers' = SubSeq(idleWorkers, n + 1, Len(idleWorkers))
    PROVE  /\ idleWorkers' \in Seq(Workers) /\ Distinct(idleWorkers')
           /\ \A k \in 1 .. Len(idleWorkers') :
                /\ idleWorkers'[k] # idleWorkers[n]
                /\ \E m \in 1 .. Len(idleWorkers) : idleWorkers'[k] = idleWorkers[m]
BY DEF Distinct

\* run().
LEMMA RunStep ==
    ASSUME IInv, NEW j \in Jobs, Run(j)
    PROVE  IInv'
<1> USE DEF IInv, TypeOK, JobStates
<1> DEFINE i == SelectInSeq(idleWorkers, LAMBDA w : w \in workers)
<1>0. UNCHANGED <<workers, respawnCounts, terminated, dying>> /\ job[j] = "new"
  BY DEF Run
<1>1. \A k \in 1 .. Len(waiters) : waiters[k] \in Jobs /\ waiters[k] # j
  BY <1>0 DEF Placed
<1>2. CASE job' = [job EXCEPT ![j] = "rejected"] /\ UNCHANGED <<waiters, on>>
           /\ idleWorkers' \in {idleWorkers, <<>>}
  <2>1. idleWorkers' \in Seq(Workers) /\ Distinct(idleWorkers')
        /\ \A k \in 1 .. Len(idleWorkers') :
             \E m \in 1 .. Len(idleWorkers) : idleWorkers'[k] = idleWorkers[m]
    <3>1. idleWorkers \in Seq(Workers) /\ Distinct(idleWorkers)
      BY DEF Placed
    <3>2. CASE idleWorkers' = idleWorkers
      BY <3>1, <3>2, Zenon
    <3>3. CASE idleWorkers' = <<>>
      <4>1. Len(idleWorkers') = 0 /\ idleWorkers' \in Seq(Workers)
        BY <3>3
      <4> QED
        BY <4>1 DEF Distinct
    <3> QED
      BY <1>2, <3>2, <3>3
  <2>2. TypeOK'
    BY <1>0, <1>2, <2>1
  <2>3. \A k \in Jobs : job'[k] = "running" => job[k] = "running"
    BY <1>2
  <2>4. \A k \in 1 .. Len(waiters) : job'[waiters[k]] = job[waiters[k]]
    BY <1>1, <1>2
  <2>5. Placed(job', on', idleWorkers', workers', waiters')
    <3> HIDE DEF IInv, TypeOK
    <3>1. Placed(job, on, idleWorkers, workers, waiters)
      BY DEF IInv
    <3>2. \A k \in 1 .. Len(idleWorkers') :
            /\ idleWorkers'[k] \in workers
            /\ \A l \in Jobs : job[l] = "running" => idleWorkers'[k] # on[l]
      BY <2>1, <3>1 DEF Placed
    <3> QED
      BY <1>0, <1>2, <2>1, <2>3, <2>4, <3>1, <3>2 DEF Placed
  <2> QED
    BY <1>0, <2>2, <2>5 DEF Numbered
<1>3. CASE /\ i # 0
           /\ job' = [job EXCEPT ![j] = "running"]
           /\ on' = [on EXCEPT ![j] = idleWorkers[i]]
           /\ idleWorkers' = SubSeq(idleWorkers, i + 1, Len(idleWorkers))
           /\ UNCHANGED waiters
  <2>1. i \in 1 .. Len(idleWorkers) /\ idleWorkers[i] \in workers
    BY <1>3, FirstLive
  <2> HIDE DEF i
  <2>2. PICK n \in 1 .. Len(idleWorkers) :
          /\ idleWorkers[n] \in workers
          /\ job' = [job EXCEPT ![j] = "running"]
          /\ on' = [on EXCEPT ![j] = idleWorkers[n]]
          /\ idleWorkers' = SubSeq(idleWorkers, n + 1, Len(idleWorkers))
          /\ UNCHANGED waiters
    BY <1>3, <2>1, Zenon
  <2>3. /\ idleWorkers' \in Seq(Workers) /\ Distinct(idleWorkers')
        /\ \A k \in 1 .. Len(idleWorkers') :
             /\ idleWorkers'[k] # idleWorkers[n]
             /\ \E m \in 1 .. Len(idleWorkers) : idleWorkers'[k] = idleWorkers[m]
    <3>1. idleWorkers \in Seq(Workers) /\ Distinct(idleWorkers)
      BY DEF Placed
    <3>2. idleWorkers' = SubSeq(idleWorkers, n + 1, Len(idleWorkers))
      BY <2>2
    <3> HIDE DEF IInv, TypeOK, JobStates
    <3> QED
      BY <3>1, <3>2, TakeIdle
  <2>4. idleWorkers[n] \in Workers
    BY <2>2
  <2>5. TypeOK'
    BY <1>0, <2>2, <2>3, <2>4
  <2>6. \A k \in 1 .. Len(idleWorkers') :
          /\ idleWorkers'[k] \in workers
          /\ \A l \in Jobs : job[l] = "running" => idleWorkers'[k] # on[l]
    BY <2>3 DEF Placed
  <2>7. Placed(job', on', idleWorkers', workers', waiters')
    <3>1. \A k \in 1 .. Len(idleWorkers) : \A l \in Jobs : job[l] = "running" => idleWorkers[k] # on[l]
      BY DEF Placed
    <3>2. \A l \in Jobs : /\ l # j => job'[l] = job[l] /\ on'[l] = on[l]
                          /\ l = j => job'[l] = "running" /\ on'[l] = idleWorkers[n]
      BY <2>2
    <3>3. Placed(job, on, idleWorkers, workers, waiters) /\ UNCHANGED <<workers, waiters>>
      BY <1>0, <2>2
    <3>4. idleWorkers[n] \in workers
      BY <2>2
    <3> HIDE DEF IInv, TypeOK
    <3> QED
      BY <1>1, <2>3, <2>6, <3>1, <3>2, <3>3, <3>4 DEF Placed
  <2> QED
    BY <1>0, <2>5, <2>7 DEF Numbered
<1>4. CASE /\ job' = [job EXCEPT ![j] = "waiting"]
           /\ waiters' = Append(waiters, j)
           /\ idleWorkers' = <<>>
           /\ UNCHANGED on
  <2>1. /\ waiters' \in Seq(Jobs) /\ Distinct(waiters')
        /\ \A k \in 1 .. Len(waiters') :
             waiters'[k] = j \/ \E m \in 1 .. Len(waiters) : waiters'[k] = waiters[m]
    BY <1>1, <1>4, QueueSteps DEF Placed
  <2>2. \A k \in 1 .. Len(waiters') : job'[waiters'[k]] = "waiting"
    BY <1>1, <1>4, <2>1 DEF Placed
  <2>3. TypeOK'
    BY <1>0, <1>4, <2>1
  <2>4. Placed(job', on', idleWorkers', workers', waiters')
    BY <1>0, <1>4, <2>1, <2>2 DEF Placed, Distinct
  <2> QED
    BY <1>0, <2>3, <2>4 DEF Numbered
<1> QED
  BY <1>2, <1>3, <1>4 DEF Run

\* A result or an 'error': the job ends and its worker is released.
LEMMA EndStep ==
    ASSUME IInv, NEW j \in Jobs, job[j] = "running", NEW v \in {"resolved", "rejected"},
           Release(on[j], [job EXCEPT ![j] = v], idleWorkers, workers),
           UNCHANGED <<workers, respawnCounts, terminated>>, dying' \subseteq workers
    PROVE  IInv'
<1> DEFINE jobs == [job EXCEPT ![j] = v]
           w == on[j]
<1>1. /\ jobs \in [Jobs -> JobStates] /\ w \in workers
      /\ Placed(jobs, on, idleWorkers, workers, waiters)
      /\ \A k \in Jobs : jobs[k] = "running" => on[k] # w
      /\ \A i \in 1 .. Len(idleWorkers) : idleWorkers[i] # w
  BY FreedByEnd
<1>2. Release(w, jobs, idleWorkers, workers)
  OBVIOUS
<1>3. TypeOK /\ w \in Workers /\ idleWorkers \in Seq(Workers)
  BY <1>1 DEF IInv, TypeOK
<1> HIDE DEF jobs, w
<1>4. /\ Placed(job', on', idleWorkers', workers, waiters')
      /\ job' \in [Jobs -> JobStates] /\ on' \in [Jobs -> Workers \cup {None}]
      /\ idleWorkers' \in Seq(Workers) /\ waiters' \in Seq(Jobs)
  BY <1>1, <1>2, <1>3, ReleasePlaces
<1> QED
  BY <1>4 DEF IInv, TypeOK, JobStates, Numbered

\* The 'exit' of w has taken it out of the pool and ended its job.
LEMMA FreedByExit ==
    ASSUME IInv, NEW w \in workers
    PROVE  /\ AfterExit(w) \in [Jobs -> JobStates]
           /\ RemoveFirst(idleWorkers, w) \in Seq(Workers)
           /\ Placed(AfterExit(w), on, RemoveFirst(idleWorkers, w), workers \ {w}, waiters)
<1> DEFINE jobs == AfterExit(w)
           idle == RemoveFirst(idleWorkers, w)
<1>1. jobs \in [Jobs -> JobStates]
  BY DEF IInv, TypeOK, JobStates, AfterExit
<1>2. \A k \in Jobs : /\ jobs[k] = "running" => job[k] = "running" /\ on[k] # w
                      /\ job[k] = "waiting" => jobs[k] = "waiting"
  BY DEF AfterExit, RunningOn
<1>3. idleWorkers \in Seq(Workers) /\ Distinct(idleWorkers)
  BY DEF IInv, TypeOK, Placed
<1>4. /\ idle \in Seq(Workers) /\ Distinct(idle)
      /\ \A i \in 1 .. Len(idle) : idle[i] # w /\ \E k \in 1 .. Len(idleWorkers) : idle[i] = idleWorkers[k]
  BY <1>3, RemoveFirstSteps
<1>5. \A i \in 1 .. Len(waiters) : waiters[i] \in Jobs
  BY DEF IInv, TypeOK
<1>6. Placed(job, on, idleWorkers, workers, waiters)
  BY DEF IInv
<1> HIDE DEF jobs, idle
<1>7. \A i \in 1 .. Len(idle) : /\ idle[i] \in workers \ {w}
                                /\ \A j \in Jobs : job[j] = "running" => idle[i] # on[j]
  BY <1>4, <1>6 DEF Placed
<1>8. Placed(jobs, on, idle, workers \ {w}, waiters)
  BY <1>2, <1>4, <1>5, <1>6, <1>7 DEF Placed
<1> QED
  BY <1>1, <1>4, <1>8 DEF jobs, idle

\* An 'exit', with or without a respawn.
LEMMA ExitStep ==
    ASSUME IInv, NEW w \in Workers, Exit(w)
    PROVE  IInv'
<1> DEFINE i == w[1]
           alive == workers \ {w}
           jobs == AfterExit(w)
           idle == RemoveFirst(idleWorkers, w)
           fresh == <<i, respawnCounts[i] + 1>>
<1>0. w \in workers /\ UNCHANGED terminated /\ dying' = dying \ {w} /\ i \in WorkerIds
  BY DEF Exit, Workers
<1>1. /\ jobs \in [Jobs -> JobStates] /\ idle \in Seq(Workers)
      /\ Placed(jobs, on, idle, alive, waiters)
  BY <1>0, FreedByExit
<1>2. TypeOK /\ Numbered
  BY DEF IInv
<1>3. \A k \in Jobs : jobs[k] = "running" => on[k] \in alive
  BY <1>1 DEF Placed
<1>4. \A k \in 1 .. Len(idle) : idle[k] \in alive
  BY <1>1 DEF Placed
<1>5. CASE workers' = alive /\ Release(w, jobs, idle, alive) /\ UNCHANGED respawnCounts
  <2>1. /\ \A k \in Jobs : jobs[k] = "running" => on[k] # w
        /\ \A k \in 1 .. Len(idle) : idle[k] # w
    BY <1>3, <1>4
  <2> HIDE DEF jobs, idle, alive
  <2>2. /\ Placed(job', on', idleWorkers', alive, waiters')
        /\ job' \in [Jobs -> JobStates] /\ on' \in [Jobs -> Workers \cup {None}]
        /\ idleWorkers' \in Seq(Workers) /\ waiters' \in Seq(Jobs)
    BY <1>1, <1>2, <1>5, <2>1, ReleasePlaces
  <2> QED
    BY <1>0, <1>2, <1>5, <2>2 DEF IInv, TypeOK, JobStates, Numbered, alive
<1>6. CASE /\ MayRespawn(i)
           /\ workers' = alive \cup {fresh}
           /\ respawnCounts' = [respawnCounts EXCEPT ![i] = @ + 1]
           /\ Release(fresh, jobs, idle, workers')
  <2>1. fresh \in Workers /\ fresh \notin workers
    <3>1. respawnCounts[i] \in 0 .. maxRespawns /\ respawnCounts[i] < maxRespawns
      BY <1>0, <1>2, <1>6 DEF TypeOK, MayRespawn
    <3>2. respawnCounts[i] + 1 \in 0 .. maxRespawns /\ ~(respawnCounts[i] + 1 <= respawnCounts[i])
      BY <3>1, WorkerAssumption
    <3>3. fresh[1] = i /\ fresh[2] = respawnCounts[i] + 1
      OBVIOUS
    <3> QED
      BY <1>0, <1>2, <3>2, <3>3 DEF Workers, Numbered
  <2>2. /\ \A k \in Jobs : jobs[k] = "running" => on[k] # fresh
        /\ \A k \in 1 .. Len(idle) : idle[k] # fresh
    BY <1>3, <1>4, <2>1
  <2>3. Placed(jobs, on, idle, workers', waiters)
    BY <1>1, <1>6 DEF Placed
  <2>4. Numbered'
    BY <1>0, <1>2, <1>6 DEF Numbered, TypeOK, Workers
  <2>5. respawnCounts' \in [WorkerIds -> 0 .. maxRespawns]
    BY <1>0, <1>2, <1>6, WorkerAssumption DEF TypeOK, MayRespawn
  <2>6. workers' \in SUBSET Workers /\ dying' \in SUBSET workers'
    BY <1>0, <1>2, <1>6, <2>1 DEF TypeOK
  <2>7. Release(fresh, jobs, idle, workers')
    BY <1>6
  <2> HIDE DEF jobs, idle, alive, fresh
  <2>8. /\ Placed(job', on', idleWorkers', workers', waiters')
        /\ job' \in [Jobs -> JobStates] /\ on' \in [Jobs -> Workers \cup {None}]
        /\ idleWorkers' \in Seq(Workers) /\ waiters' \in Seq(Jobs)
    BY <1>1, <1>2, <2>1, <2>2, <2>3, <2>7, ReleasePlaces
  <2> QED
    BY <1>0, <1>2, <2>4, <2>5, <2>6, <2>8 DEF IInv, TypeOK, JobStates
<1>7. CASE /\ workers' = alive
           /\ job' = [j \in Jobs |-> IF job[j] = "waiting" THEN "rejected" ELSE jobs[j]]
           /\ waiters' = <<>>
           /\ idleWorkers' = idle
           /\ UNCHANGED <<respawnCounts, on>>
  <2> HIDE DEF jobs, idle
  <2>1. TypeOK'
    BY <1>0, <1>1, <1>2, <1>7 DEF TypeOK, JobStates
  <2>2. Placed(job', on', idleWorkers', workers', waiters')
    <3>1. Len(waiters') = 0
      BY <1>7
    <3>2. \A j \in Jobs : job'[j] = "running" => jobs[j] = "running"
      BY <1>7
    <3> QED
      BY <1>1, <1>7, <3>1, <3>2 DEF Placed, Distinct
  <2> QED
    BY <1>2, <1>7, <2>1, <2>2 DEF IInv, Numbered
<1> QED
  BY <1>5, <1>6, <1>7 DEF Exit

\* terminate() rejects the waiters and touches no worker.
LEMMA TerminateStep ==
    ASSUME IInv, Terminate
    PROVE  IInv'
<1>1. TypeOK /\ Numbered /\ Placed(job, on, idleWorkers, workers, waiters)
  BY DEF IInv
<1>2. TypeOK'
  BY <1>1 DEF TypeOK, Terminate
<1>3. Len(waiters') = 0 /\ \A j \in Jobs : job'[j] = "running" => job[j] = "running"
  BY DEF Terminate
<1>4. UNCHANGED <<workers, idleWorkers, respawnCounts, on>>
  BY DEF Terminate
<1>5. Placed(job', on', idleWorkers', workers', waiters')
  BY <1>1, <1>3, <1>4 DEF Placed, Distinct
<1> QED
  BY <1>1, <1>2, <1>4, <1>5 DEF IInv, Numbered

\* One step.
LEMMA IInvStep == IInv /\ [Next]_vars => IInv'
<1> SUFFICES ASSUME IInv, [Next]_vars PROVE IInv'
  OBVIOUS
<1>0. dying \subseteq workers
  BY DEF IInv, TypeOK
<1>1. ASSUME NEW j \in Jobs, Run(j) PROVE IInv'
  BY <1>1, RunStep
<1>2. ASSUME NEW j \in Jobs, Message(j) PROVE IInv'
  <2>1. /\ job[j] = "running" /\ UNCHANGED <<workers, respawnCounts, terminated, dying>>
        /\ Release(on[j], [job EXCEPT ![j] = "resolved"], idleWorkers, workers)
    BY <1>2 DEF Message
  <2> QED
    BY <1>0, <2>1, EndStep
<1>3. ASSUME NEW w \in Workers, Error(w) PROVE IInv'
  <2>1. w \in workers /\ dying' = dying \cup {w} /\ UNCHANGED <<workers, respawnCounts, terminated>>
    BY <1>3 DEF Error
  <2>2. CASE UNCHANGED <<job, on, idleWorkers, waiters>>
    BY <2>1, <2>2 DEF IInv, TypeOK, Numbered
  <2>3. ASSUME NEW j \in RunningOn(w),
               Release(w, [job EXCEPT ![j] = "rejected"], idleWorkers, workers)
        PROVE  IInv'
    <3>1. j \in Jobs /\ job[j] = "running" /\ on[j] = w
      BY <2>3 DEF RunningOn
    <3>2. Release(on[j], [job EXCEPT ![j] = "rejected"], idleWorkers, workers)
      BY <2>3, <3>1
    <3> QED
      BY <1>0, <2>1, <3>1, <3>2, EndStep
  <2> QED
    BY <1>3, <2>2, <2>3 DEF Error
<1>4. ASSUME NEW w \in Workers, Exit(w) PROVE IInv'
  BY <1>4, ExitStep
<1>5. CASE Terminate
  BY <1>5, TerminateStep
<1>6. CASE UNCHANGED vars
  BY <1>6 DEF vars, pool, IInv, TypeOK, Numbered
<1> QED
  BY <1>1, <1>2, <1>3, <1>4, <1>5, <1>6 DEF Next

\* Every worker has one place, whatever its events and the respawns interleave with.
THEOREM Invariance == Spec => []IInv
BY IInvInit, IInvStep, PTL DEF Spec

\* The types of the pool.
THEOREM TypeCorrect == Spec => []TypeOK
<1>1. IInv => TypeOK
  BY DEF IInv
<1> QED
  BY <1>1, Invariance, PTL

\* A worker runs one job at a time, is alive while it does and is not idle then, for any
\* number of workers, jobs and respawns: a worker that errs, is released with its 'exit'
\* still to come, and is handed to the next waiter, included.
THEOREM OneJobHolds == Spec => []OneJobPerWorker
<1>1. IInv => OneJobPerWorker
  <2> SUFFICES ASSUME IInv PROVE OneJobPerWorker
    OBVIOUS
  <2>1. ToSet(idleWorkers) = {idleWorkers[i] : i \in 1 .. Len(idleWorkers)}
    BY DEF ToSet, IInv, TypeOK
  <2> QED
    BY <2>1 DEF IInv, Placed, OneJobPerWorker
<1> QED
  BY <1>1, Invariance, PTL
===============================================================================
