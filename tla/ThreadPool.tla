----------------------------- MODULE ThreadPool -----------------------------
(***************************************************************************)
(* xx::ThreadPool: workers that sleep on a condition variable, Add from    *)
(* other threads or from inside a job, and a destructor that drains the    *)
(* queue and joins. A critical section of the mutex is one action; the     *)
(* notifications come after the mutex is released and are actions of their *)
(* own.                                                                    *)
(***************************************************************************)
EXTENDS Naturals, Sequences, FiniteSets, Functions

CONSTANTS
  Workers,  \* the threads of the pool
  Callers,  \* other threads that call Add
  Jobs,     \* the jobs that can be added, each once
  NoJob

ASSUME WorkersAssumption == IsFiniteSet(Workers) /\ Workers # {}
ASSUME CallersAssumption == IsFiniteSet(Callers)
ASSUME NoJobAssumption == NoJob \notin Jobs

VARIABLES
  jobs,      \* ThreadPool::jobs
  stop,      \* ThreadPool::stop
  pc,        \* per worker: "lock" wants the mutex, "wait" sleeps on cond,
             \* "run" is in its job, "notify" is in Add called by its job,
             \* "exit" has left the loop
  job,       \* the job a worker has taken
  cpc,       \* per caller: "idle", or "notify" between unlock and notify_one
  dtor,      \* ~ThreadPool: "no", "stopped", "joining", "gone"
  accepted,  \* history: the jobs Add took, in order
  started,   \* history: the jobs workers took, in order
  finished   \* history: the jobs that have returned

tpVars == <<jobs, stop, pc, job, cpc, dtor, accepted, started, finished>>

In(state) == {w \in Workers : pc[w] = state}
Adding == {c \in Callers : cpc[c] = "notify"}
Running == In("run") \cup In("notify")

TpInit ==
  /\ jobs = <<>>
  /\ stop = FALSE
  /\ pc = [w \in Workers |-> "lock"]
  /\ job = [w \in Workers |-> NoJob]
  /\ cpc = [c \in Callers |-> "idle"]
  /\ dtor = "no"
  /\ accepted = <<>>
  /\ started = <<>>
  /\ finished = {}

----------------------------------------------------------------------------
(* Add *)

\* Add's critical section when it takes the job. ( Once stop is set Add
\* returns -1 and nothing changes. )
Enqueue(j) ==
  /\ ~stop
  /\ j \notin Range(accepted)
  /\ jobs' = Append(jobs, j)
  /\ accepted' = Append(accepted, j)
  /\ UNCHANGED <<stop, job, dtor, started, finished>>

\* mutant: the notification goes nowhere
NotifyOneLost(state) == pc' = state

\* cond.notify_one(), state being what becomes of the workers otherwise: one
\* sleeper wakes, if there is one.
NotifyOne(state) ==
  \/ In("wait") = {} /\ pc' = state
  \/ \E x \in In("wait") : pc' = [state EXCEPT ![x] = "lock"]

\* Nobody outside the pool calls Add once its owner destroys it.
CallerAdds(c, j) ==
  /\ cpc[c] = "idle"
  /\ dtor = "no"
  /\ Enqueue(j)
  /\ cpc' = [cpc EXCEPT ![c] = "notify"]
  /\ UNCHANGED pc

CallerNotifies(c) ==
  /\ cpc[c] = "notify"
  /\ cpc' = [cpc EXCEPT ![c] = "idle"]
  /\ NotifyOne(pc)
  /\ UNCHANGED <<jobs, stop, job, dtor, accepted, started, finished>>

WorkerAdds(w, j) ==
  /\ pc[w] = "run"
  /\ Enqueue(j)
  /\ pc' = [pc EXCEPT ![w] = "notify"]
  /\ UNCHANGED cpc

WorkerNotifies(w) ==
  /\ pc[w] = "notify"
  /\ NotifyOne([pc EXCEPT ![w] = "run"])
  /\ UNCHANGED <<jobs, stop, job, cpc, dtor, accepted, started, finished>>

----------------------------------------------------------------------------
(* a worker's loop *)

\* mutant: the last job is taken first
TakeLast(w) ==
  /\ pc[w] = "lock"
  /\ jobs # <<>>
  /\ job' = [job EXCEPT ![w] = jobs[Len(jobs)]]
  /\ jobs' = SubSeq(jobs, 1, Len(jobs) - 1)
  /\ started' = Append(started, jobs[Len(jobs)])
  /\ pc' = [pc EXCEPT ![w] = "run"]
  /\ UNCHANGED <<stop, cpc, dtor, accepted, finished>>

\* With the mutex, and something to do.
Take(w) ==
  /\ pc[w] = "lock"
  /\ jobs # <<>>
  /\ job' = [job EXCEPT ![w] = Head(jobs)]
  /\ jobs' = Tail(jobs)
  /\ started' = Append(started, Head(jobs))
  /\ pc' = [pc EXCEPT ![w] = "run"]
  /\ UNCHANGED <<stop, cpc, dtor, accepted, finished>>

\* mutant: stop ends the loop whatever is queued
ExitEarly(w) ==
  /\ pc[w] = "lock"
  /\ stop
  /\ pc' = [pc EXCEPT ![w] = "exit"]
  /\ UNCHANGED <<jobs, stop, job, cpc, dtor, accepted, started, finished>>

\* With the mutex, nothing to do, and stop set.
Exit(w) ==
  /\ pc[w] = "lock"
  /\ stop /\ jobs = <<>>
  /\ pc' = [pc EXCEPT ![w] = "exit"]
  /\ UNCHANGED <<jobs, stop, job, cpc, dtor, accepted, started, finished>>

\* cond.wait, its predicate being false: the mutex is released.
Sleep(w) ==
  /\ pc[w] = "lock"
  /\ ~stop /\ jobs = <<>>
  /\ pc' = [pc EXCEPT ![w] = "wait"]
  /\ UNCHANGED <<jobs, stop, job, cpc, dtor, accepted, started, finished>>

\* A spurious wakeup: cond.wait looks at its predicate again.
Spurious(w) ==
  /\ pc[w] = "wait"
  /\ pc' = [pc EXCEPT ![w] = "lock"]
  /\ UNCHANGED <<jobs, stop, job, cpc, dtor, accepted, started, finished>>

\* mutant: the worker leaves the loop after its first job
FinishAndLeave(w) ==
  /\ pc[w] = "run"
  /\ pc' = [pc EXCEPT ![w] = "exit"]
  /\ job' = [job EXCEPT ![w] = NoJob]
  /\ finished' = finished \cup {job[w]}
  /\ UNCHANGED <<jobs, stop, cpc, dtor, accepted, started>>

\* mutant: what is called is no longer the job that was taken
FinishMoved(w) ==
  /\ pc[w] = "run"
  /\ pc' = [pc EXCEPT ![w] = "lock"]
  /\ job' = [job EXCEPT ![w] = NoJob]
  /\ finished' = finished \cup {job'[w]}
  /\ UNCHANGED <<jobs, stop, cpc, dtor, accepted, started>>

\* job() returns.
Finish(w) ==
  /\ pc[w] = "run"
  /\ pc' = [pc EXCEPT ![w] = "lock"]
  /\ job' = [job EXCEPT ![w] = NoJob]
  /\ finished' = finished \cup {job[w]}
  /\ UNCHANGED <<jobs, stop, cpc, dtor, accepted, started>>

----------------------------------------------------------------------------
(* ~ThreadPool *)

Stop ==
  /\ dtor = "no"
  /\ \A c \in Callers : cpc[c] = "idle"
  /\ stop' = TRUE
  /\ dtor' = "stopped"
  /\ UNCHANGED <<jobs, pc, job, cpc, accepted, started, finished>>

\* mutant: notify_one
NotifyAllOne ==
  /\ dtor = "stopped"
  /\ dtor' = "joining"
  /\ NotifyOne(pc)
  /\ UNCHANGED <<jobs, stop, job, cpc, accepted, started, finished>>

NotifyAll ==
  /\ dtor = "stopped"
  /\ dtor' = "joining"
  /\ pc' = [w \in Workers |-> IF pc[w] = "wait" THEN "lock" ELSE pc[w]]
  /\ UNCHANGED <<jobs, stop, job, cpc, accepted, started, finished>>

\* All threads are joined.
Join ==
  /\ dtor = "joining"
  /\ In("exit") = Workers
  /\ dtor' = "gone"
  /\ UNCHANGED <<jobs, stop, pc, job, cpc, accepted, started, finished>>

----------------------------------------------------------------------------
TpNext ==
  \/ \E c \in Callers : CallerNotifies(c) \/ \E j \in Jobs : CallerAdds(c, j)
  \/ \E w \in Workers : \/ \E j \in Jobs : WorkerAdds(w, j)
                        \/ WorkerNotifies(w)
                        \/ Take(w)
                        \/ Exit(w)
                        \/ Sleep(w)
                        \/ Spurious(w)
                        \/ Finish(w)
  \/ Stop
  \/ NotifyAll
  \/ Join

\* Threads are scheduled, jobs return, and the mutex is not withheld from one
\* thread for ever. Nothing makes sleepers wake by themselves, or the owner
\* destroy the pool.
TpFairness ==
  /\ \A c \in Callers : WF_tpVars(CallerNotifies(c))
  /\ \A w \in Workers : /\ WF_tpVars(Take(w) \/ Exit(w) \/ Sleep(w))
                        /\ WF_tpVars(WorkerNotifies(w))
                        /\ WF_tpVars(Finish(w))
  /\ WF_tpVars(NotifyAll)
  /\ WF_tpVars(Join)

TpSpec == TpInit /\ [][TpNext]_tpVars /\ TpFairness

----------------------------------------------------------------------------
(* What the pool promises *)

\* The types of the pool's state and of its history: what has run is a job.
TpTypeOK ==
  /\ jobs \in Seq(Jobs)
  /\ stop \in BOOLEAN
  /\ pc \in [Workers -> {"lock", "wait", "run", "notify", "exit"}]
  /\ job \in [Workers -> Jobs \cup {NoJob}]
  /\ cpc \in [Callers -> {"idle", "notify"}]
  /\ dtor \in {"no", "stopped", "joining", "gone"}
  /\ accepted \in Seq(Jobs)
  /\ started \in Seq(Jobs)
  /\ finished \subseteq Jobs

\* Jobs are started in the order Add took them, each once, by one worker.
StartedInOrder == accepted = started \o jobs

\* No wakeup is lost: while a worker sleeps, every queued job has a worker on
\* its way to the mutex or a notification still to come ( notify_one outside
\* the lock, the predicate checked under it ).
NoLostWakeup ==
  In("wait") # {} =>
    Len(jobs) <= Cardinality(In("lock")) + Cardinality(In("notify"))
                 + Cardinality(Adding)

\* The destructor returns only when every job Add ever took has run.
Drained == dtor = "gone" => finished = Range(accepted)

\* Every job taken by Add runs to its end.
EveryJobRuns == \A j \in Jobs : j \in Range(accepted) ~> j \in finished

\* The destructor returns: no worker sleeps through stop.
DtorReturns == stop ~> dtor = "gone"
=============================================================================
