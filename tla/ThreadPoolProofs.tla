-------------------------- MODULE ThreadPoolProofs --------------------------
(***************************************************************************)
(* The safety properties of ThreadPool for any finite number of workers    *)
(* and callers and any set of jobs. The inductive invariant adds to them   *)
(* where every started job is ( Accounted ), and what the end of a worker  *)
(* and of the destructor say about stop and the queue ( Ended ).           *)
(***************************************************************************)
EXTENDS ThreadPool, FiniteSetTheorems, SequenceTheorems, TLAPS

\* Every job taken has returned or is in the hands of a worker.
Accounted ==
  /\ \A w \in Running : job[w] \in Jobs
  /\ Range(started) = finished \cup {job[w] : w \in Running}

\* A worker leaves only an empty queue that nothing can be added to.
Ended ==
  /\ dtor # "no" => stop
  /\ \A w \in Workers : pc[w] = "exit" => stop /\ jobs = <<>>
  /\ dtor = "gone" => In("exit") = Workers

TpIInv == TpTypeOK /\ StartedInOrder /\ NoLostWakeup /\ Accounted /\ Ended

----------------------------------------------------------------------------
(* Sequences *)

LEMMA RangeAppend ==
  ASSUME NEW S, NEW s \in Seq(S), NEW e \in S
  PROVE  Range(Append(s, e)) = Range(s) \cup {e}
<1>1. /\ DOMAIN s = 1 .. Len(s)
      /\ DOMAIN Append(s, e) = 1 .. Len(s) + 1
      /\ \A i \in 1 .. Len(s) : Append(s, e)[i] = s[i]
      /\ Append(s, e)[Len(s) + 1] = e
      /\ Len(s) \in Nat
  BY AppendProperties, LenProperties
<1>2. ASSUME NEW x \in Range(Append(s, e)) PROVE x \in Range(s) \cup {e}
  BY <1>1, <1>2 DEF Range
<1>3. ASSUME NEW x \in Range(s) \cup {e} PROVE x \in Range(Append(s, e))
  BY <1>1, <1>3 DEF Range
<1> QED BY <1>2, <1>3

LEMMA AppendConcat ==
  ASSUME NEW S
  PROVE  \A s, t \in Seq(S), e \in S : Append(s \o t, e) = s \o Append(t, e)
<1> SUFFICES ASSUME NEW s \in Seq(S), NEW t \in Seq(S), NEW e \in S
             PROVE  Append(s \o t, e) = s \o Append(t, e)
  OBVIOUS
<1>1. /\ s \o t \in Seq(S)
      /\ Append(t, e) \in Seq(S)
      /\ Append(s \o t, e) \in Seq(S)
      /\ s \o Append(t, e) \in Seq(S)
  BY ConcatProperties, AppendProperties
<1>2. Len(Append(s \o t, e)) = Len(s \o Append(t, e))
  BY <1>1, ConcatProperties, AppendProperties, LenProperties
<1>3. \A i \in 1 .. Len(Append(s \o t, e)) :
        Append(s \o t, e)[i] = (s \o Append(t, e))[i]
  BY <1>1, ConcatProperties, AppendProperties, LenProperties
<1> QED BY <1>1, <1>2, <1>3, SeqEqual

LEMMA MoveHead ==
  ASSUME NEW S, NEW s \in Seq(S), NEW t \in Seq(S), t # <<>>
  PROVE  s \o t = Append(s, Head(t)) \o Tail(t)
<1>1. /\ Head(t) \in S
      /\ Tail(t) \in Seq(S)
      /\ Len(Tail(t)) = Len(t) - 1
      /\ \A i \in 1 .. Len(Tail(t)) : Tail(t)[i] = t[i + 1]
      /\ Head(t) = t[1]
      /\ Len(t) \in Nat \ {0}
      /\ Len(s) \in Nat
  BY HeadTailProperties, EmptySeq, LenProperties
<1>2. /\ s \o t \in Seq(S)
      /\ Append(s, Head(t)) \in Seq(S)
      /\ Append(s, Head(t)) \o Tail(t) \in Seq(S)
  BY <1>1, ConcatProperties, AppendProperties
<1>3. Len(s \o t) = Len(Append(s, Head(t)) \o Tail(t))
  BY <1>1, <1>2, ConcatProperties, AppendProperties
<1>4. \A i \in 1 .. Len(s \o t) :
        (s \o t)[i] = (Append(s, Head(t)) \o Tail(t))[i]
  BY <1>1, <1>2, ConcatProperties, AppendProperties
<1> QED BY <1>2, <1>3, <1>4, SeqEqual

----------------------------------------------------------------------------
(* Types *)

LEMMA NotifyOneType ==
  ASSUME NEW state \in [Workers -> {"lock", "wait", "run", "notify", "exit"}],
         NotifyOne(state)
  PROVE  pc' \in [Workers -> {"lock", "wait", "run", "notify", "exit"}]
  BY DEF NotifyOne, In

LEMMA EnqueueType ==
  ASSUME TpTypeOK, NEW j \in Jobs, Enqueue(j)
  PROVE  /\ jobs' \in Seq(Jobs)
         /\ accepted' \in Seq(Jobs)
  BY AppendProperties DEF TpTypeOK, Enqueue

LEMMA TypeStep ==
  ASSUME TpTypeOK, Accounted, TpNext
  PROVE  TpTypeOK'
<1>1. ASSUME NEW c \in Callers, CallerNotifies(c) PROVE TpTypeOK'
  BY <1>1, NotifyOneType DEF TpTypeOK, CallerNotifies
<1>2. ASSUME NEW c \in Callers, NEW j \in Jobs, CallerAdds(c, j) PROVE TpTypeOK'
  BY <1>2, EnqueueType DEF TpTypeOK, CallerAdds, Enqueue
<1>3. ASSUME NEW w \in Workers, NEW j \in Jobs, WorkerAdds(w, j) PROVE TpTypeOK'
  BY <1>3, EnqueueType DEF TpTypeOK, WorkerAdds, Enqueue
<1>4. ASSUME NEW w \in Workers, WorkerNotifies(w) PROVE TpTypeOK'
  <2>1. [pc EXCEPT ![w] = "run"]
          \in [Workers -> {"lock", "wait", "run", "notify", "exit"}]
    BY DEF TpTypeOK
  <2> QED BY <1>4, <2>1, NotifyOneType DEF TpTypeOK, WorkerNotifies
<1>5. ASSUME NEW w \in Workers, Take(w) PROVE TpTypeOK'
  <2>1. Head(jobs) \in Jobs /\ Tail(jobs) \in Seq(Jobs)
    BY <1>5, HeadTailProperties DEF TpTypeOK, Take
  <2>2. Append(started, Head(jobs)) \in Seq(Jobs)
    BY <2>1, AppendProperties DEF TpTypeOK
  <2> QED BY <1>5, <2>1, <2>2 DEF TpTypeOK, Take
<1>6. ASSUME NEW w \in Workers, Exit(w) \/ Sleep(w) \/ Spurious(w) PROVE TpTypeOK'
  BY <1>6 DEF TpTypeOK, Exit, Sleep, Spurious
<1>7. ASSUME NEW w \in Workers, Finish(w) PROVE TpTypeOK'
  BY <1>7 DEF TpTypeOK, Finish, Accounted, Running, In
<1>8. CASE Stop \/ NotifyAll \/ Join
  BY <1>8 DEF TpTypeOK, Stop, NotifyAll, Join
<1> QED BY <1>1, <1>2, <1>3, <1>4, <1>5, <1>6, <1>7, <1>8 DEF TpNext

----------------------------------------------------------------------------
(* Order: what is started and what is queued make up what was accepted *)

LEMMA OrderStep ==
  ASSUME TpTypeOK, StartedInOrder, TpNext
  PROVE  StartedInOrder'
<1>1. ASSUME NEW j \in Jobs, Enqueue(j) PROVE StartedInOrder'
  <2>1. \A s, t \in Seq(Jobs), e \in Jobs : Append(s \o t, e) = s \o Append(t, e)
    BY AppendConcat
  <2>2. Append(started \o jobs, j) = started \o Append(jobs, j)
    BY <2>1 DEF TpTypeOK
  <2> QED BY <1>1, <2>2 DEF StartedInOrder, Enqueue
<1>2. ASSUME NEW w \in Workers, Take(w) PROVE StartedInOrder'
  <2>1. started \o jobs = Append(started, Head(jobs)) \o Tail(jobs)
    BY <1>2, MoveHead DEF TpTypeOK, Take
  <2> QED BY <1>2, <2>1 DEF StartedInOrder, Take
<1>3. CASE UNCHANGED <<jobs, accepted, started>>
  BY <1>3 DEF StartedInOrder
<1>4. ASSUME NEW c \in Callers, NEW j \in Jobs, CallerAdds(c, j) PROVE StartedInOrder'
  BY <1>1, <1>4 DEF CallerAdds
<1>5. ASSUME NEW w \in Workers, NEW j \in Jobs, WorkerAdds(w, j) PROVE StartedInOrder'
  BY <1>1, <1>5 DEF WorkerAdds
<1>6. ASSUME NEW c \in Callers, CallerNotifies(c) PROVE StartedInOrder'
  BY <1>3, <1>6 DEF CallerNotifies
<1>7. ASSUME NEW w \in Workers,
             WorkerNotifies(w) \/ Exit(w) \/ Sleep(w) \/ Spurious(w) \/ Finish(w)
      PROVE  StartedInOrder'
  BY <1>3, <1>7 DEF WorkerNotifies, Exit, Sleep, Spurious, Finish
<1>8. CASE Stop \/ NotifyAll \/ Join
  BY <1>3, <1>8 DEF Stop, NotifyAll, Join
<1> QED BY <1>2, <1>4, <1>5, <1>6, <1>7, <1>8 DEF TpNext

----------------------------------------------------------------------------
(* Counting the wakeups *)

LEMMA Counts ==
  /\ \A state : IsFiniteSet(In(state))
  /\ IsFiniteSet(Adding)
  /\ Cardinality(In("lock")) \in Nat
  /\ Cardinality(In("notify")) \in Nat
  /\ Cardinality(Adding) \in Nat
<1>1. \A state : In(state) \in SUBSET Workers
  BY DEF In
<1>2. Adding \in SUBSET Callers
  BY DEF Adding
<1> QED
  BY <1>1, <1>2, FS_Subset, FS_CardinalityType, WorkersAssumption, CallersAssumption

LEMMA CountsNext ==
  /\ Cardinality(In("lock")') \in Nat
  /\ Cardinality(In("notify")') \in Nat
  /\ Cardinality(Adding') \in Nat
<1>1. \A state : In(state)' \in SUBSET Workers
  BY DEF In
<1>2. Adding' \in SUBSET Callers
  BY DEF Adding
<1> QED
  BY <1>1, <1>2, FS_Subset, FS_CardinalityType, WorkersAssumption, CallersAssumption

\* Nobody sleeps, or nothing is queued: nothing to show.
LEMMA NothingToWake ==
  ASSUME In("wait")' = {} \/ jobs' = <<>>
  PROVE  NoLostWakeup'
<1>1. CASE In("wait")' = {}
  BY <1>1 DEF NoLostWakeup
<1>2. CASE jobs' = <<>>
  <2>1. Len(jobs') = 0
    BY <1>2, EmptySeq
  <2> QED BY <2>1, CountsNext DEF NoLostWakeup
<1> QED BY <1>1, <1>2

\* A worker moves to the mutex from a place that did not count, or from
\* sleep: there are not more sleepers.
LEMMA OneMoreAwake ==
  ASSUME TpTypeOK, NoLostWakeup, NEW w \in Workers, In("wait") # {},
         pc[w] \in {"wait", "run"}, pc' = [pc EXCEPT ![w] = "lock"],
         UNCHANGED <<jobs, cpc>>
  PROVE  NoLostWakeup'
<1>1. /\ In("lock")' = In("lock") \cup {w}
      /\ In("notify")' = In("notify")
      /\ Adding' = Adding
      /\ w \notin In("lock")
  BY DEF TpTypeOK, In, Adding
<1>2. Cardinality(In("lock")') = Cardinality(In("lock")) + 1
  BY <1>1, Counts, FS_AddElement
<1>3. Len(jobs) \in Nat
  BY LenProperties DEF TpTypeOK
<1> QED BY <1>1, <1>2, <1>3, Counts DEF NoLostWakeup

LEMMA CallerAddsWakeup ==
  ASSUME TpTypeOK, NoLostWakeup, NEW c \in Callers, NEW j \in Jobs, CallerAdds(c, j)
  PROVE  NoLostWakeup'
<1>1. /\ In("wait")' = In("wait")
      /\ In("lock")' = In("lock")
      /\ In("notify")' = In("notify")
      /\ Adding' = Adding \cup {c}
      /\ c \notin Adding
  BY DEF TpTypeOK, CallerAdds, In, Adding
<1>2. Cardinality(Adding') = Cardinality(Adding) + 1
  BY <1>1, Counts, FS_AddElement
<1>3. Len(jobs') = Len(jobs) + 1 /\ Len(jobs) \in Nat
  BY AppendProperties, LenProperties DEF TpTypeOK, CallerAdds, Enqueue
<1> QED BY <1>1, <1>2, <1>3, Counts DEF NoLostWakeup

LEMMA WorkerAddsWakeup ==
  ASSUME TpTypeOK, NoLostWakeup, NEW w \in Workers, NEW j \in Jobs, WorkerAdds(w, j)
  PROVE  NoLostWakeup'
<1>1. /\ In("wait")' = In("wait")
      /\ In("lock")' = In("lock")
      /\ In("notify")' = In("notify") \cup {w}
      /\ w \notin In("notify")
      /\ Adding' = Adding
  BY DEF TpTypeOK, WorkerAdds, In, Adding
<1>2. Cardinality(In("notify")') = Cardinality(In("notify")) + 1
  BY <1>1, Counts, FS_AddElement
<1>3. Len(jobs') = Len(jobs) + 1 /\ Len(jobs) \in Nat
  BY AppendProperties, LenProperties DEF TpTypeOK, WorkerAdds, Enqueue
<1> QED BY <1>1, <1>2, <1>3, Counts DEF NoLostWakeup

\* The notification is spent, and the sleeper it wakes counts in its place.
LEMMA CallerNotifiesWakeup ==
  ASSUME TpTypeOK, NoLostWakeup, NEW c \in Callers, CallerNotifies(c)
  PROVE  NoLostWakeup'
<1>1. CASE In("wait") = {} /\ pc' = pc
  <2>1. In("wait")' = {}
    BY <1>1 DEF In
  <2> QED BY <2>1, NothingToWake
<1>2. ASSUME NEW x \in In("wait"), pc' = [pc EXCEPT ![x] = "lock"]
      PROVE  NoLostWakeup'
  <2>1. /\ In("lock")' = In("lock") \cup {x}
        /\ x \notin In("lock")
        /\ In("notify")' = In("notify")
        /\ Adding' = Adding \ {c}
        /\ c \in Adding
    BY <1>2 DEF TpTypeOK, CallerNotifies, In, Adding
  <2>2. Cardinality(In("lock")') = Cardinality(In("lock")) + 1
    BY <2>1, Counts, FS_AddElement
  <2>4. Cardinality(Adding') = Cardinality(Adding) - 1
    BY <2>1, Counts, FS_RemoveElement
  <2>3. jobs' = jobs /\ Len(jobs) \in Nat
    BY LenProperties DEF TpTypeOK, CallerNotifies
  <2> QED BY <1>2, <2>1, <2>2, <2>3, <2>4, Counts, CountsNext
    DEF NoLostWakeup
<1> QED BY <1>1, <1>2 DEF CallerNotifies, NotifyOne

LEMMA WorkerNotifiesWakeup ==
  ASSUME TpTypeOK, NoLostWakeup, NEW w \in Workers, WorkerNotifies(w)
  PROVE  NoLostWakeup'
<1>1. CASE In("wait") = {} /\ pc' = [pc EXCEPT ![w] = "run"]
  <2>1. In("wait")' = {}
    BY <1>1 DEF TpTypeOK, In
  <2> QED BY <2>1, NothingToWake
<1>2. ASSUME NEW x \in In("wait"),
             pc' = [[pc EXCEPT ![w] = "run"] EXCEPT ![x] = "lock"]
      PROVE  NoLostWakeup'
  <2>1. /\ In("lock")' = In("lock") \cup {x}
        /\ x \notin In("lock")
        /\ In("notify")' = In("notify") \ {w}
        /\ w \in In("notify")
        /\ Adding' = Adding
    BY <1>2 DEF TpTypeOK, WorkerNotifies, In, Adding
  <2>2. /\ Cardinality(In("lock")') = Cardinality(In("lock")) + 1
        /\ Cardinality(In("notify")') = Cardinality(In("notify")) - 1
    BY <2>1, Counts, FS_AddElement, FS_RemoveElement
  <2>3. jobs' = jobs /\ Len(jobs) \in Nat
    BY LenProperties DEF TpTypeOK, WorkerNotifies
  <2> QED BY <1>2, <2>1, <2>2, <2>3, Counts, CountsNext DEF NoLostWakeup
<1> QED BY <1>1, <1>2 DEF WorkerNotifies, NotifyOne

\* A worker that takes a job takes one from both sides.
LEMMA TakeWakeup ==
  ASSUME TpTypeOK, NoLostWakeup, NEW w \in Workers, Take(w)
  PROVE  NoLostWakeup'
<1>1. /\ In("wait")' = In("wait")
      /\ In("lock")' = In("lock") \ {w}
      /\ w \in In("lock")
      /\ In("notify")' = In("notify")
      /\ Adding' = Adding
  BY DEF TpTypeOK, Take, In, Adding
<1>2. Cardinality(In("lock")') = Cardinality(In("lock")) - 1
  BY <1>1, Counts, FS_RemoveElement
<1>3. Len(jobs') = Len(jobs) - 1 /\ Len(jobs) \in Nat
  BY HeadTailProperties, LenProperties DEF TpTypeOK, Take
<1> QED BY <1>1, <1>2, <1>3, Counts, CountsNext DEF NoLostWakeup

LEMMA WakeupStep ==
  ASSUME TpTypeOK, NoLostWakeup, TpNext
  PROVE  NoLostWakeup'
<1>1. ASSUME NEW w \in Workers, Exit(w) \/ Sleep(w) PROVE NoLostWakeup'
  BY <1>1, NothingToWake DEF Exit, Sleep
<1>2. ASSUME NEW w \in Workers, Spurious(w) PROVE NoLostWakeup'
  <2>1. In("wait") # {}
    BY <1>2 DEF Spurious, In
  <2> QED BY <1>2, <2>1, OneMoreAwake DEF Spurious
<1>3. ASSUME NEW w \in Workers, Finish(w) PROVE NoLostWakeup'
  <2>1. CASE In("wait") # {}
    BY <1>3, <2>1, OneMoreAwake DEF Finish
  <2>2. CASE In("wait") = {}
    <3>1. In("wait")' = {}
      BY <1>3, <2>2 DEF TpTypeOK, Finish, In
    <3> QED BY <3>1, NothingToWake
  <2> QED BY <2>1, <2>2
<1>4. CASE NotifyAll
  <2>1. In("wait")' = {}
    BY <1>4 DEF NotifyAll, In
  <2> QED BY <2>1, NothingToWake
<1>5. CASE Stop \/ Join
  <2>1. /\ In("wait")' = In("wait") /\ In("lock")' = In("lock")
        /\ In("notify")' = In("notify") /\ Adding' = Adding /\ jobs' = jobs
    BY <1>5 DEF Stop, Join, In, Adding
  <2> QED BY <2>1 DEF NoLostWakeup
<1> QED
  BY <1>1, <1>2, <1>3, <1>4, <1>5, CallerAddsWakeup, WorkerAddsWakeup,
    CallerNotifiesWakeup, WorkerNotifiesWakeup, TakeWakeup DEF TpNext

----------------------------------------------------------------------------
(* Where the started jobs are *)

LEMMA AccountedStep ==
  ASSUME TpTypeOK, Accounted, TpNext
  PROVE  Accounted'
<1> DEFINE Held == {job[w] : w \in Running}
<1>1. ASSUME UNCHANGED <<job, started, finished>>, Running' = Running
      PROVE  Accounted'
  BY <1>1 DEF Accounted
<1>2. ASSUME NEW w \in Workers, Take(w) PROVE Accounted'
  <2>1. Running' = Running \cup {w} /\ w \notin Running
    BY <1>2 DEF TpTypeOK, Take, Running, In
  <2>2. Head(jobs) \in Jobs
    BY <1>2, HeadTailProperties DEF TpTypeOK, Take
  <2>3. Held' = Held \cup {Head(jobs)}
    BY <1>2, <2>1 DEF TpTypeOK, Take, Running, In
  <2>4. Range(started') = Range(started) \cup {Head(jobs)}
    BY <1>2, <2>2, RangeAppend DEF TpTypeOK, Take
  <2>5. \A v \in Running' : job'[v] \in Jobs
    BY <1>2, <2>1, <2>2 DEF TpTypeOK, Take, Accounted, Running, In
  <2> QED BY <1>2, <2>3, <2>4, <2>5 DEF Take, Accounted
<1>3. ASSUME NEW w \in Workers, Finish(w) PROVE Accounted'
  <2>1. Running' = Running \ {w} /\ w \in Running
    BY <1>3 DEF TpTypeOK, Finish, Running, In
  <2>2. \A v \in Running' : job'[v] = job[v]
    BY <1>3, <2>1 DEF TpTypeOK, Finish, Running, In
  <2>3. finished' \cup Held' = finished \cup Held
    BY <1>3, <2>1, <2>2 DEF Finish
  <2> QED BY <1>3, <2>1, <2>2, <2>3 DEF Finish, Accounted
<1>4. ASSUME NEW c \in Callers, CallerNotifies(c) PROVE Accounted'
  BY <1>1, <1>4 DEF TpTypeOK, CallerNotifies, NotifyOne, Running, In
<1>5. ASSUME NEW c \in Callers, NEW j \in Jobs, CallerAdds(c, j) PROVE Accounted'
  BY <1>1, <1>5 DEF CallerAdds, Enqueue, Running, In
<1>6. ASSUME NEW w \in Workers, NEW j \in Jobs, WorkerAdds(w, j) PROVE Accounted'
  BY <1>1, <1>6 DEF TpTypeOK, WorkerAdds, Enqueue, Running, In
<1>7. ASSUME NEW w \in Workers, WorkerNotifies(w) PROVE Accounted'
  BY <1>1, <1>7 DEF TpTypeOK, WorkerNotifies, NotifyOne, Running, In
<1>8. ASSUME NEW w \in Workers, Exit(w) \/ Sleep(w) \/ Spurious(w) PROVE Accounted'
  BY <1>1, <1>8 DEF TpTypeOK, Exit, Sleep, Spurious, Running, In
<1>9. CASE Stop \/ Join
  BY <1>1, <1>9 DEF Stop, Join, Running, In
<1>10. CASE NotifyAll
  BY <1>1, <1>10 DEF TpTypeOK, NotifyAll, Running, In
<1> QED BY <1>2, <1>3, <1>4, <1>5, <1>6, <1>7, <1>8, <1>9, <1>10 DEF TpNext

----------------------------------------------------------------------------
(* The end of the workers and of the pool *)

LEMMA EndedStep ==
  ASSUME TpTypeOK, Ended, TpNext
  PROVE  Ended'
<1>1. ASSUME NEW c \in Callers, CallerNotifies(c) PROVE Ended'
  BY <1>1 DEF TpTypeOK, Ended, CallerNotifies, NotifyOne, In
<1>2. ASSUME NEW c \in Callers, NEW j \in Jobs, CallerAdds(c, j) PROVE Ended'
  BY <1>2 DEF TpTypeOK, Ended, CallerAdds, Enqueue, In
<1>3. ASSUME NEW w \in Workers, NEW j \in Jobs, WorkerAdds(w, j) PROVE Ended'
  BY <1>3 DEF TpTypeOK, Ended, WorkerAdds, Enqueue, In
<1>4. ASSUME NEW w \in Workers, WorkerNotifies(w) PROVE Ended'
  BY <1>4 DEF TpTypeOK, Ended, WorkerNotifies, NotifyOne, In
<1>5. ASSUME NEW w \in Workers, Take(w) PROVE Ended'
  BY <1>5 DEF TpTypeOK, Ended, Take, In
<1>6. ASSUME NEW w \in Workers, Exit(w) PROVE Ended'
  BY <1>6 DEF TpTypeOK, Ended, Exit, In
<1>7. ASSUME NEW w \in Workers, Sleep(w) \/ Spurious(w) \/ Finish(w) PROVE Ended'
  BY <1>7 DEF TpTypeOK, Ended, Sleep, Spurious, Finish, In
<1>8. CASE Stop \/ NotifyAll \/ Join
  BY <1>8 DEF TpTypeOK, Ended, Stop, NotifyAll, Join, In
<1> QED BY <1>1, <1>2, <1>3, <1>4, <1>5, <1>6, <1>7, <1>8 DEF TpNext

----------------------------------------------------------------------------
(* The theorems *)

LEMMA InitInv == TpInit => TpIInv
<1> SUFFICES ASSUME TpInit PROVE TpIInv
  OBVIOUS
<1>1. TpTypeOK
  BY EmptySeq DEF TpInit, TpTypeOK
<1>2. StartedInOrder
  BY EmptySeq, ConcatEmptySeq DEF TpInit, StartedInOrder
<1>3. NoLostWakeup
  BY DEF TpInit, NoLostWakeup, In
<1>4. Accounted
  <2>1. Range(started) = {}
    BY DEF TpInit, Range
  <2>2. Running = {}
    BY DEF TpInit, Running, In
  <2> QED BY <2>1, <2>2 DEF TpInit, Accounted
<1>5. Ended
  BY DEF TpInit, Ended, In
<1> QED BY <1>1, <1>2, <1>3, <1>4, <1>5 DEF TpIInv

LEMMA StepInv == TpIInv /\ [TpNext]_tpVars => TpIInv'
<1> SUFFICES ASSUME TpIInv, [TpNext]_tpVars PROVE TpIInv'
  OBVIOUS
<1>1. CASE TpNext
  BY <1>1, TypeStep, OrderStep, WakeupStep, AccountedStep, EndedStep DEF TpIInv
<1>2. CASE UNCHANGED tpVars
  BY <1>2 DEF tpVars, TpIInv, TpTypeOK, StartedInOrder, NoLostWakeup, Accounted,
    Ended, Running, Adding, In
<1> QED BY <1>1, <1>2

\* The inductive invariant of the pool ( ThreadPool's loop, Add and destructor ).
THEOREM ThreadPoolInvariant == TpSpec => []TpIInv
<1>1. TpInit /\ [][TpNext]_tpVars => []TpIInv
  BY InitInv, StepInv, PTL
<1> QED BY <1>1, PTL DEF TpSpec

\* The types of the pool's variables hold, whatever its size.
THEOREM ThreadPoolTypeCorrect == TpSpec => []TpTypeOK
BY ThreadPoolInvariant, PTL DEF TpIInv

\* Jobs start in the order Add took them, none twice, none skipped.
THEOREM JobsStartInOrder == TpSpec => []StartedInOrder
BY ThreadPoolInvariant, PTL DEF TpIInv

\* While a worker sleeps, each queued job has a wakeup still to come: Add may
\* notify outside the lock.
THEOREM WakeupsAreNotLost == TpSpec => []NoLostWakeup
BY ThreadPoolInvariant, PTL DEF TpIInv

\* ~ThreadPool returns only when everything Add took has run.
THEOREM DestructorDrains == TpSpec => []Drained
<1>1. TpIInv => Drained
  <2> SUFFICES ASSUME TpIInv, dtor = "gone" PROVE finished = Range(accepted)
    BY DEF Drained
  <2>1. In("exit") = Workers /\ Workers # {}
    BY WorkersAssumption DEF TpIInv, Ended
  <2>2. jobs = <<>> /\ Running = {}
    BY <2>1 DEF TpIInv, Ended, Running, In
  <2>3. accepted = started
    BY <2>2, ConcatEmptySeq DEF TpIInv, TpTypeOK, StartedInOrder
  <2> QED BY <2>2, <2>3 DEF TpIInv, Accounted
<1> QED BY <1>1, ThreadPoolInvariant, PTL
=============================================================================
