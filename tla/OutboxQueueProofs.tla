------------------------ MODULE OutboxQueueProofs ------------------------
(* The queue of the outbox daemon is sound for every set of messages, every   *)
(* size and number of recipients, every cap and every number of crashes.      *)
EXTENDS OutboxQueue, SequenceTheorems, FiniteSetTheorems, TLAPS

-----------------------------------------------------------------------------
(* What the helpers return                                                    *)

\* A nonempty set of naturals has its minimum: the first job that is due, the
\* next due time, the next recipient.
LEMMA MinInNat == ASSUME NEW S \in SUBSET Nat, S # {}
                  PROVE  Min(S) \in S /\ \A y \in S : Min(S) <= y
<1>0. \A u, v \in Nat : u < v => <<u, v>> \in OpToRel(<, Nat)
  BY Zenon DEF OpToRel
<1>1. PICK x \in S : \A y \in S : <<y, x>> \notin OpToRel(<, Nat)
  BY Zenon, NatLessThanWellFounded, WFMin
<1>2. \A y \in S : ~(y < x)
  BY <1>0, <1>1, Zenon
<1>3. \A y \in S : x <= y
  BY <1>2
<1> QED BY Zenon, <1>3 DEF Min

\* What leaves the queue leaves the others in their order.
LEMMA UnlinkedEffect ==
  ASSUME NEW S, NEW q \in Seq(S), NEW i \in 1 .. Len(q)
  PROVE  /\ Unlinked(q, i) \in Seq(S) /\ Len(Unlinked(q, i)) = Len(q) - 1
         /\ \A k \in 1 .. Len(q) - 1 :
              Unlinked(q, i)[k] = IF k < i THEN q[k] ELSE q[k + 1]
<1> DEFINE a == SubSeq(q, 1, i - 1)
           b == SubSeq(q, i + 1, Len(q))
<1>0. Len(q) \in Nat /\ \A k \in 1 .. Len(q) : q[k] \in S
  BY Zenon, ElementOfSeq, LenProperties
<1>1. /\ a \in Seq(S) /\ Len(a) = i - 1
      /\ \A k \in 1 .. i - 1 : a[k] = q[k]
  <2>1. \A k \in 1 .. i - 1 : q[k] \in S
    BY <1>0
  <2>2. /\ a \in Seq(S) /\ Len(a) = IF 1 <= i - 1 THEN i - 1 - 1 + 1 ELSE 0
        /\ \A k \in 1 .. i - 1 - 1 + 1 : a[k] = q[1 + k - 1]
    BY <2>1, <1>0, SubSeqProperties, i - 1 \in Int, 1 \in Int
  <2> QED
    BY <1>0, <2>2
<1>2. /\ b \in Seq(S) /\ Len(b) = Len(q) - i
      /\ \A k \in 1 .. Len(q) - i : b[k] = q[i + k]
  <2>1. \A k \in i + 1 .. Len(q) : q[k] \in S
    BY <1>0
  <2>2. /\ b \in Seq(S) /\ Len(b) = IF i + 1 <= Len(q) THEN Len(q) - (i + 1) + 1 ELSE 0
        /\ \A k \in 1 .. Len(q) - (i + 1) + 1 : b[k] = q[(i + 1) + k - 1]
    BY <2>1, <1>0, SubSeqProperties, i + 1 \in Int
  <2> QED
    BY <1>0, <2>2
<1>3. /\ a \o b \in Seq(S) /\ Len(a \o b) = Len(a) + Len(b)
      /\ \A k \in 1 .. Len(a) + Len(b) :
           (a \o b)[k] = IF k <= Len(a) THEN a[k] ELSE b[k - Len(a)]
  BY Zenon, <1>1, <1>2, ConcatProperties
<1>4. Unlinked(q, i) = a \o b
  BY Zenon DEF Unlinked
<1> HIDE DEF a, b
<1>5. Unlinked(q, i) \in Seq(S) /\ Len(Unlinked(q, i)) = Len(q) - 1
  BY <1>0, <1>1, <1>2, <1>3, <1>4
<1>6. ASSUME NEW k \in 1 .. Len(q) - 1
      PROVE  Unlinked(q, i)[k] = IF k < i THEN q[k] ELSE q[k + 1]
  <2>1. (a \o b)[k] = IF k <= i - 1 THEN a[k] ELSE b[k - (i - 1)]
    <3>1. Len(a) = i - 1
      BY <1>0, <1>1
    <3>2. k \in 1 .. Len(a) + Len(b)
      BY <1>0, <1>2, <3>1
    <3> QED
      BY Zenon, <1>3, <3>1, <3>2
  <2>2. CASE k < i
    BY <1>0, <1>1, <1>4, <2>1, <2>2
  <2>3. CASE k >= i
    <3>1. k - (i - 1) \in 1 .. Len(q) - i /\ i + (k - (i - 1)) = k + 1
      BY <1>0, <2>3
    <3>2. b[k - (i - 1)] = q[k + 1]
      BY Zenon, <1>2, <3>1
    <3> QED
      BY <1>0, <1>4, <2>1, <2>3, <3>2
  <2> QED
    BY <1>0, <2>2, <2>3
<1> QED
  BY Zenon, <1>5, <1>6

-----------------------------------------------------------------------------
(* Counting bytes                                                             *)

\* A row of bytes, as long as its message.
LEMMA RowOfBytes ==
  ASSUME NEW k, NEW m \in Msg
  PROVE  /\ IsFiniteSet({k} \X (1 .. Size[m]))
         /\ Cardinality({k} \X (1 .. Size[m])) = Size[m]
<1>1. Size[m] \in Nat \ {0}
  BY Zenon, OutboxAssumption
<1>2. IsFiniteSet(1 .. Size[m]) /\ Cardinality(1 .. Size[m]) = Size[m]
  <2>1. /\ IsFiniteSet(1 .. Size[m])
        /\ Cardinality(1 .. Size[m]) = IF 1 > Size[m] THEN 0 ELSE Size[m] - 1 + 1
    BY <1>1, FS_Interval, 1 \in Int, SMTT(30)
  <2> QED
    BY <1>1, <2>1
<1>3. IsFiniteSet({k}) /\ Cardinality({k}) = 1
  BY Zenon, FS_Singleton
<1>4. /\ IsFiniteSet({k} \X (1 .. Size[m]))
      /\ Cardinality({k} \X (1 .. Size[m])) = Cardinality({k}) * Cardinality(1 .. Size[m])
  BY Zenon, <1>2, <1>3, FS_Product
<1> QED
  BY <1>1, <1>2, <1>3, <1>4

\* What a job adds at the end of the queue (outbox_delivery_enqueue,
\* queue_reappend).
LEMMA OctetsAppend ==
  ASSUME NEW q \in Seq(Job), NEW job \in Job, IsFiniteSet(Octets(q))
  PROVE  /\ IsFiniteSet(Octets(Append(q, job)))
         /\ Cardinality(Octets(Append(q, job))) = Cardinality(Octets(q)) + Size[job.msg]
<1> DEFINE n == Len(q) + 1
           r == Append(q, job)
           row == {n} \X (1 .. Size[job.msg])
<1>1. /\ Len(q) \in Nat /\ DOMAIN q = 1 .. Len(q) /\ r \in Seq(Job) /\ DOMAIN r = 1 .. n
      /\ (\A k \in 1 .. Len(q) : r[k] = q[k]) /\ r[n] = job
  BY AppendProperties, LenProperties
<1>2. Octets(r) = Octets(q) \cup row
  <2> HIDE DEF r
  <2>1. DOMAIN r = DOMAIN q \cup {n}
    BY <1>1
  <2>2. \A k \in DOMAIN q : r[k] = q[k]
    BY Zenon, <1>1
  <2> QED
    BY <1>1, <2>1, <2>2 DEF Octets
<1>3. Octets(q) \cap row = {}
  <2>1. n \notin DOMAIN q
    BY <1>1
  <2> QED
    BY <2>1 DEF Octets
<1>4. job.msg \in Msg
  BY Zenon DEF Job
<1>5. IsFiniteSet(row) /\ Cardinality(row) = Size[job.msg] /\ Size[job.msg] \in Nat
  BY Zenon, <1>4, RowOfBytes, OutboxAssumption
<1>6. Cardinality(Octets(q)) \in Nat
  BY Zenon, FS_CardinalityType
<1> HIDE DEF r, row
<1>7. /\ IsFiniteSet(Octets(q) \cup row)
      /\ Cardinality(Octets(q) \cup row) = Cardinality(Octets(q)) + Cardinality(row)
  <2>1. /\ IsFiniteSet(Octets(q) \cup row)
        /\ Cardinality(Octets(q) \cup row) =
             Cardinality(Octets(q)) + Cardinality(row) - Cardinality(Octets(q) \cap row)
    BY Zenon, <1>5, FS_Union
  <2>2. Cardinality(Octets(q) \cap row) = 0
    BY Zenon, <1>3, FS_EmptySet
  <2> QED
    BY <1>5, <1>6, <2>1, <2>2
<1> QED
  BY Zenon, <1>2, <1>5, <1>7 DEF r

\* What the first job that is due takes out of the queue: the bytes behind it
\* move up by one place and stay as many.
LEMMA OctetsRemove ==
  ASSUME NEW q \in Seq(Job), NEW i \in 1 .. Len(q), IsFiniteSet(Octets(q))
  PROVE  /\ IsFiniteSet(Octets(Unlinked(q, i)))
         /\ Cardinality(Octets(Unlinked(q, i))) = Cardinality(Octets(q)) - Size[q[i].msg]
<1> DEFINE r   == Unlinked(q, i)
           row == {i} \X (1 .. Size[q[i].msg])
           To(k) == IF k < i THEN k ELSE k + 1
           S == Octets(q) \ row
           T == Octets(r)
           f == [x \in T |-> <<To(x[1]), x[2]>>]
<1>1. /\ Len(q) \in Nat /\ DOMAIN q = 1 .. Len(q) /\ DOMAIN r = 1 .. Len(q) - 1
      /\ \A k \in DOMAIN r : r[k] = q[To(k)]
  <2>1. Len(q) \in Nat /\ DOMAIN q = 1 .. Len(q)
    BY Zenon, LenProperties
  <2>2. /\ r \in Seq(Job) /\ Len(r) = Len(q) - 1
        /\ \A k \in 1 .. Len(q) - 1 : r[k] = IF k < i THEN q[k] ELSE q[k + 1]
    BY Zenon, UnlinkedEffect
  <2> HIDE DEF r
  <2>3. DOMAIN r = 1 .. Len(q) - 1
    BY Zenon, <2>2, LenProperties
  <2> QED
    BY Zenon, <2>1, <2>2, <2>3
<1>2. \A k \in DOMAIN r : To(k) \in DOMAIN q \ {i}
  BY <1>1
<1>3. \A k \in DOMAIN q \ {i} : \E j \in DOMAIN r : To(j) = k
  <2> SUFFICES ASSUME NEW k \in DOMAIN q \ {i} PROVE \E j \in DOMAIN r : To(j) = k
    BY Zenon
  <2>1. CASE k < i
    <3>1. k \in DOMAIN r /\ To(k) = k
      BY <1>1, <2>1
    <3> QED BY Zenon, <3>1
  <2>2. CASE k > i
    <3>1. k - 1 \in DOMAIN r /\ To(k - 1) = k
      BY <1>1, <2>2
    <3> QED BY Zenon, <3>1
  <2> QED BY <1>1, <2>1, <2>2
<1>4. \A j, k \in DOMAIN r : To(j) = To(k) => j = k
  BY <1>1
<1> HIDE DEF r, To
<1>5. \A x \in T : /\ x = <<x[1], x[2]>> /\ x[1] \in DOMAIN r
                   /\ x[2] \in 1 .. Size[r[x[1]].msg]
  BY DEF Octets
<1>6. \A x \in S : /\ x = <<x[1], x[2]>> /\ x[1] \in DOMAIN q \ {i}
                   /\ x[2] \in 1 .. Size[q[x[1]].msg]
  BY DEF Octets
<1>7. \A k \in DOMAIN q \ {i} : \A n \in 1 .. Size[q[k].msg] : <<k, n>> \in S
  BY DEF Octets
<1>8. \A k \in DOMAIN r : \A n \in 1 .. Size[r[k].msg] : <<k, n>> \in T
  BY DEF Octets
<1> HIDE DEF S, T
<1>9. f \in [T -> S]
  BY Zenon, <1>1, <1>2, <1>5, <1>7
<1>10. f \in Injection(T, S)
  <2>1. ASSUME NEW x \in T, NEW y \in T, f[x] = f[y] PROVE x = y
    <3>1. To(x[1]) = To(y[1]) /\ x[2] = y[2]
      BY Zenon, <2>1
    <3>2. x[1] = y[1]
      BY Zenon, <1>4, <1>5, <3>1
    <3> QED
      BY Zenon, <1>5, <3>1, <3>2
  <2> QED
    BY Zenon, <1>9, <2>1 DEF Injection, IsInjective
<1>11. f \in Surjection(T, S)
  <2>1. ASSUME NEW y \in S PROVE \E x \in T : f[x] = y
    <3>1. PICK j \in DOMAIN r : To(j) = y[1]
      BY Zenon, <1>3, <1>6
    <3>2. <<j, y[2]>> \in T
      BY <1>1, <1>6, <1>8, <3>1
    <3>3. f[<<j, y[2]>>] = y
      BY Zenon, <1>6, <3>1, <3>2
    <3> QED
      BY Zenon, <3>2, <3>3
  <2> QED
    BY Zenon, <1>9, <2>1 DEF Surjection
<1>12. /\ IsFiniteSet(S) /\ Cardinality(Octets(q)) \in Nat
       /\ Cardinality(S) = Cardinality(Octets(q)) - Cardinality(Octets(q) \cap row)
  BY Zenon, FS_Difference, FS_CardinalityType DEF S
<1>13. q[i].msg \in Msg
  <2>1. q[i] \in Job
    BY Zenon, ElementOfSeq
  <2> QED
    BY Zenon, <2>1 DEF Job
<1>14. Octets(q) \cap row = row
  BY Zenon, <1>1 DEF Octets
<1>15. Cardinality(S) = Cardinality(Octets(q)) - Size[q[i].msg]
  BY <1>12, <1>13, <1>14, RowOfBytes
<1>16. IsFiniteSet(T) /\ Cardinality(T) = Cardinality(S)
  BY Zenon, <1>10, <1>11, <1>12, FS_Injection
<1> QED
  BY Zenon, <1>15, <1>16 DEF T, r

\* Bytes do not depend on when their job is due.
LEMMA OctetsSame ==
  ASSUME NEW q, NEW r, DOMAIN r = DOMAIN q, \A k \in DOMAIN q : r[k].msg = q[k].msg
  PROVE  Octets(r) = Octets(q)
BY Zenon DEF Octets

-----------------------------------------------------------------------------
(* Shapes                                                                     *)

\* smtp_backoff_sec yields a natural number for every attempt from the first.
LEMMA BackoffType == ASSUME NEW n \in Nat \ {0} PROVE Backoff(n) \in Nat
<1>1. CASE n > 12
  BY <1>1 DEF Backoff
<1>2. CASE n <= 12
  <2>1. n \in 1 .. 12 BY <1>2
  <2> QED BY <2>1 DEF Backoff, Doubling
<1> QED BY <1>1, <1>2

\* The worker without a job, at any place of its loop.
LEMMA AtShape ==
  ASSUME NEW pc
  PROVE  /\ NoJob \notin Job
         /\ At(pc).pc = pc /\ At(pc).job = NoJob /\ At(pc).until = 0
         /\ At(pc) \in [pc : {pc}, job : Job \cup {NoJob}, todo : SUBSET Nat, until : Nat]
<1>1. NoJob \notin Job
  BY Zenon, OutboxAssumption DEF NoJob, Job
<1>2. At(pc).pc = pc /\ At(pc).job = NoJob /\ At(pc).until = 0
  BY Zenon DEF At
<1>3. At(pc) \in [pc : {pc}, job : Job \cup {NoJob}, todo : SUBSET Nat, until : Nat]
  BY Zenon DEF At
<1> QED
  BY Zenon, <1>1, <1>2, <1>3

\* A job in the queue.
LEMMA QueueShape ==
  ASSUME Shape
  PROVE  /\ Len(queue) \in Nat /\ DOMAIN queue = 1 .. Len(queue)
         /\ \A k \in DOMAIN queue : queue[k] \in Job
BY Zenon, LenProperties, ElementOfSeq DEF Shape

\* The same queue, and the worker at another place with the same job or none.
LEMMA WorkerTurns ==
  ASSUME IndInv, UNCHANGED <<queue, njobs, bytes, accepted, outcome, copies, lost, wiped>>,
         worker'.job = worker.job, worker.job \in Job => worker'.todo = worker.todo
  PROVE  JobsInv' /\ CountersInv' /\ CopiesInv'
<1>1. JobsInv'
  BY DEF IndInv, JobsInv, Settled, All
<1>2. CountersInv'
  BY Zenon DEF IndInv, CountersInv
<1>3. CopiesInv'
  BY Zenon DEF IndInv, CopiesInv
<1> QED
  BY Zenon, <1>1, <1>2, <1>3

-----------------------------------------------------------------------------
(* The main thread                                                            *)

\* The signal of outbox_delivery_shutdown keeps the invariant.
LEMMA StopKeeps == IndInv /\ Stop => IndInv'
<1> SUFFICES ASSUME IndInv, Stop PROVE IndInv'
  BY Zenon
<1>1. /\ UNCHANGED <<queue, njobs, bytes, accepted, outcome, copies, lost, wiped, faults>>
      /\ loop' = "drain" /\ shutdown' = TRUE
      /\ worker' = IF Asleep THEN At("look") ELSE worker
  BY Zenon DEF Stop, seen
<1>2. CASE Asleep
  <2>1. worker' = At("look") /\ worker.job = NoJob
    BY Zenon, <1>1, <1>2 DEF Asleep, IndInv, Shape
  <2>2. Shape'
    BY <1>1, <2>1, AtShape DEF IndInv, Shape
  <2>3. NobodyOverslept'
    BY Zenon, <2>1, AtShape DEF NobodyOverslept, Asleep
  <2> QED
    BY Zenon, <1>1, <2>1, <2>2, <2>3, WorkerTurns, AtShape DEF IndInv
<1>3. CASE ~Asleep
  <2>1. UNCHANGED worker
    BY Zenon, <1>1, <1>3
  <2>2. Shape'
    BY Zenon, <1>1, <2>1 DEF IndInv, Shape
  <2>3. NobodyOverslept'
    BY Zenon, <1>3, <2>1 DEF NobodyOverslept, Asleep
  <2> QED
    BY Zenon, <1>1, <2>1, <2>2, <2>3, WorkerTurns DEF IndInv
<1> QED
  BY Zenon, <1>2, <1>3

\* The join in outbox_main keeps it.
LEMMA JoinKeeps == IndInv /\ Join => IndInv'
<1> SUFFICES ASSUME IndInv, Join PROVE IndInv'
  BY Zenon
<1>1. /\ UNCHANGED <<queue, njobs, bytes, worker, accepted, outcome, copies, lost, wiped>>
      /\ UNCHANGED <<shutdown, faults>> /\ loop' = "ended"
  BY Zenon DEF Join, jobs, seen
<1>2. Shape'
  BY Zenon, <1>1 DEF IndInv, Shape
<1>3. NobodyOverslept'
  BY Zenon, <1>1 DEF IndInv, NobodyOverslept, Asleep
<1> QED
  BY Zenon, <1>1, <1>2, <1>3, WorkerTurns DEF IndInv

\* A job at the end of the queue, for a message that has none: what
\* outbox_delivery_enqueue and queue_reappend have in common.
LEMMA Appended ==
  ASSUME IndInv, NEW job \in Job, queue' = Append(queue, job),
         \A k \in DOMAIN queue : queue[k].msg # job.msg
  PROVE  /\ queue' \in Seq(Job) /\ Len(queue') = Len(queue) + 1
         /\ DOMAIN queue' = DOMAIN queue \cup {Len(queue) + 1}
         /\ \A k \in DOMAIN queue : queue'[k] = queue[k]
         /\ queue'[Len(queue) + 1] = job
         /\ \A j, k \in DOMAIN queue' : queue'[j].msg = queue'[k].msg => j = k
         /\ IsFiniteSet(Octets(queue')) /\ Size[job.msg] \in Nat
         /\ Cardinality(Octets(queue')) = Cardinality(Octets(queue)) + Size[job.msg]
<1>1. Len(queue) \in Nat /\ DOMAIN queue = 1 .. Len(queue)
  BY Zenon, QueueShape DEF IndInv
<1>2. /\ queue' \in Seq(Job) /\ Len(queue') = Len(queue) + 1
      /\ \A k \in DOMAIN queue : queue'[k] = queue[k]
      /\ queue'[Len(queue) + 1] = job
  BY <1>1, AppendProperties DEF IndInv, Shape
<1>3. DOMAIN queue' = DOMAIN queue \cup {Len(queue) + 1}
  BY <1>1, <1>2, LenProperties
<1>4. \A j, k \in DOMAIN queue' : queue'[j].msg = queue'[k].msg => j = k
  BY <1>2, <1>3 DEF IndInv, JobsInv
<1>5. /\ IsFiniteSet(Octets(queue'))
      /\ Cardinality(Octets(queue')) = Cardinality(Octets(queue)) + Size[job.msg]
  BY Zenon, OctetsAppend DEF IndInv, Shape, CountersInv
<1>6. Size[job.msg] \in Nat
  BY Zenon, OutboxAssumption DEF Job
<1> QED
  BY Zenon, <1>2, <1>3, <1>4, <1>5, <1>6

\* deliver_message and outbox_delivery_enqueue keep it.
LEMMA DeliverMessageKeeps == IndInv /\ (\E m \in Msg : DeliverMessage(m)) => IndInv'
<1> SUFFICES ASSUME IndInv, NEW m \in Msg, DeliverMessage(m) PROVE IndInv'
  BY Zenon
<1> DEFINE job == [msg |-> m, done |-> {}, due |-> 0, attempt |-> 1]
<1>1. /\ m \notin accepted /\ njobs < MaxJobs /\ bytes + Size[m] <= MaxBytes
      /\ queue' = Append(queue, job) /\ njobs' = njobs + 1 /\ bytes' = bytes + Size[m]
      /\ worker' = IF Asleep THEN At("look") ELSE worker
      /\ accepted' = accepted \cup {m}
      /\ UNCHANGED <<shutdown, loop, outcome, copies, lost, wiped, faults>>
  BY Zenon DEF DeliverMessage, Enqueue, seen
<1>2. job \in Job /\ job.msg = m /\ job.done = {}
  BY OutboxAssumption DEF Job
<1> HIDE DEF job
<1>3. \A k \in DOMAIN queue : queue[k].msg # m
  BY <1>1 DEF IndInv, JobsInv
<1>4. /\ queue' \in Seq(Job) /\ Len(queue') = Len(queue) + 1
      /\ DOMAIN queue' = DOMAIN queue \cup {Len(queue) + 1}
      /\ \A k \in DOMAIN queue : queue'[k] = queue[k]
      /\ queue'[Len(queue) + 1] = job
      /\ \A j, k \in DOMAIN queue' : queue'[j].msg = queue'[k].msg => j = k
      /\ IsFiniteSet(Octets(queue')) /\ Size[m] \in Nat
      /\ Cardinality(Octets(queue')) = Cardinality(Octets(queue)) + Size[m]
  BY <1>1, <1>2, <1>3, Appended
<1>5. /\ worker'.job = worker.job /\ (worker.job \in Job => worker'.todo = worker.todo)
      /\ worker' \in [pc : {"look", "wait", "timedwait", "deliver", "exited"},
                      job : Job \cup {NoJob}, todo : SUBSET Nat, until : Nat]
      /\ worker'.pc = "deliver" <=> worker'.job \in Job
      /\ worker'.pc \notin {"wait", "timedwait"}
  <2>1. CASE Asleep
    <3>1. worker' = At("look") /\ worker.job = NoJob
      BY Zenon, <1>1, <2>1 DEF Asleep, IndInv, Shape
    <3> QED
      BY Zenon, <3>1, AtShape
  <2>2. CASE ~Asleep
    BY Zenon, <1>1, <2>2 DEF Asleep, IndInv, Shape
  <2> QED
    BY Zenon, <2>1, <2>2
<1>6. Shape'
  BY <1>1, <1>4, <1>5 DEF IndInv, Shape
<1>7. JobsInv'
  <2>1. \A n \in Msg : Settled(outcome', n) = Settled(outcome, n)
    BY Zenon, <1>1 DEF Settled, All
  <2>2. Settled(outcome, m) = {} /\ m \notin wiped /\ wiped \subseteq accepted /\ accepted \subseteq Msg
    BY Zenon, <1>1 DEF IndInv, JobsInv, Shape
  <2>3. \A k \in DOMAIN queue' : /\ queue'[k].msg \in accepted' \ wiped'
                                 /\ queue'[k].done = Settled(outcome', queue'[k].msg)
    <3> SUFFICES ASSUME NEW k \in DOMAIN queue'
                 PROVE  /\ queue'[k].msg \in accepted' \ wiped'
                        /\ queue'[k].done = Settled(outcome', queue'[k].msg)
      BY Zenon
    <3>1. CASE k \in DOMAIN queue
      BY <1>1, <1>4, <3>1 DEF IndInv, JobsInv
    <3>2. CASE k = Len(queue) + 1
      BY Zenon, <1>1, <1>2, <1>4, <2>2, <3>2
    <3> QED
      BY Zenon, <1>4, <3>1, <3>2
  <2>4. worker'.job \in Job =>
          /\ worker'.job.msg \in accepted' \ wiped'
          /\ worker'.job.done = Settled(outcome', worker'.job.msg)
          /\ \A k \in DOMAIN queue' : queue'[k].msg # worker'.job.msg
          /\ worker'.todo \subseteq All(worker'.job.msg) \ worker'.job.done
          /\ worker'.job.attempt = MaxAttempts =>
               All(worker'.job.msg) \ worker'.job.done \subseteq worker'.todo
    BY <1>1, <1>2, <1>4, <1>5, <2>1, <2>2 DEF IndInv, JobsInv
  <2>5. \A n \in Msg \ accepted' : Settled(outcome', n) = {}
    BY Zenon, <1>1, <2>1 DEF IndInv, JobsInv
  <2>6. \A n \in accepted' \ wiped' : Settled(outcome', n) # All(n) =>
          worker'.job.msg = n \/ \E k \in DOMAIN queue' : queue'[k].msg = n
    BY <1>1, <1>2, <1>4, <1>5, <2>1, <2>2, SMTT(30) DEF IndInv, JobsInv
  <2> QED
    BY Zenon, <1>4, <2>3, <2>4, <2>5, <2>6 DEF JobsInv, All
<1>8. CountersInv'
  <2>1. njobs' = Len(queue') /\ njobs' + (IF worker'.job \in Job THEN 1 ELSE 0) <= MaxJobs + 1
    BY <1>1, <1>4, QueueShape, OutboxAssumption DEF IndInv, CountersInv
  <2>2. bytes' = Cardinality(Octets(queue')) /\ bytes' <= MaxBytes
    BY Zenon, <1>1, <1>4 DEF IndInv, CountersInv
  <2>3. \/ bytes' + (IF worker'.job \in Job THEN Size[worker'.job.msg] ELSE 0) <= MaxBytes
        \/ \E n \in Msg : bytes' + (IF worker'.job \in Job THEN Size[worker'.job.msg] ELSE 0)
                            <= MaxBytes + Size[n]
    <3>1. CASE worker'.job \in Job
      <4>1. worker'.job.msg \in Msg /\ Size[worker'.job.msg] \in Nat
        BY Zenon, <3>1, OutboxAssumption DEF Job
      <4>2. bytes' \in Nat
        BY Zenon, <1>6 DEF Shape
      <4> QED
        BY <2>2, <3>1, <4>1, <4>2, OutboxAssumption
    <3>2. CASE worker'.job \notin Job
      BY <1>6, <2>2, <3>2 DEF Shape
    <3> QED
      BY Zenon, <3>1, <3>2
  <2> QED
    BY Zenon, <1>4, <2>1, <2>2, <2>3 DEF CountersInv
<1>9. CopiesInv'
  BY Zenon, <1>1 DEF IndInv, CopiesInv
<1>10. NobodyOverslept'
  BY Zenon, <1>5 DEF NobodyOverslept, Asleep
<1> QED
  BY Zenon, <1>6, <1>7, <1>8, <1>9, <1>10 DEF IndInv

-----------------------------------------------------------------------------
(* The worker thread                                                          *)

\* The worker that finds nothing due keeps it.
LEMMA RestKeeps == IndInv /\ Rest => IndInv'
<1> SUFFICES ASSUME IndInv, Rest PROVE IndInv'
  BY Zenon
<1>1. /\ UNCHANGED <<queue, njobs, bytes, accepted, outcome, copies, lost, wiped>>
      /\ UNCHANGED <<shutdown, loop, faults>> /\ worker.pc = "look"
      /\ worker' = IF queue # <<>> THEN [At("timedwait") EXCEPT !.until = NextDue]
                   ELSE IF shutdown THEN At("exited") ELSE At("wait")
  BY Zenon DEF Rest, jobs, seen
<1>2. worker.job = NoJob /\ NoJob \notin Job
  BY Zenon, <1>1, AtShape DEF IndInv, Shape
<1>3. CASE queue # <<>>
  <2> DEFINE dues == {queue[k].due : k \in DOMAIN queue}
  <2>1. worker' = [pc |-> "timedwait", job |-> NoJob, todo |-> {}, until |-> NextDue]
    BY Zenon, <1>1, <1>3 DEF At
  <2>2. dues \in SUBSET Nat /\ dues # {}
    <3>1. \A k \in DOMAIN queue : queue[k].due \in Nat
      BY Zenon, QueueShape DEF IndInv, Job
    <3>2. DOMAIN queue # {}
      <4>1. queue \in Seq(Job) /\ DOMAIN queue = 1 .. Len(queue) /\ Len(queue) \in Nat
        BY Zenon, QueueShape DEF IndInv, Shape
      <4>2. Len(queue) # 0
        BY Zenon, <1>3, <4>1, EmptySeq
      <4>3. 1 \in DOMAIN queue
        BY <4>1, <4>2
      <4> QED
        BY Zenon, <4>3
    <3> QED
      BY Zenon, <3>1, <3>2
  <2>3. NextDue \in dues /\ \A d \in dues : NextDue <= d
    BY Zenon, <2>2, MinInNat DEF NextDue
  <2>4. NextDue \in Nat
    BY Zenon, <2>2, <2>3
  <2>5. Shape'
    BY <1>1, <1>2, <2>1, <2>4, SMTT(30) DEF IndInv, Shape
  <2>6. NobodyOverslept'
    BY <1>1, <2>1, <2>3 DEF NobodyOverslept, Asleep
  <2> QED
    BY <1>1, <1>2, <2>1, <2>5, <2>6, WorkerTurns DEF IndInv
<1>4. CASE queue = <<>>
  <2>1. PICK pc \in {"exited", "wait"} : worker' = At(pc)
    BY Zenon, <1>1, <1>4
  <2>2. Shape'
    BY Zenon, <1>1, <2>1, AtShape DEF IndInv, Shape
  <2>3. NobodyOverslept'
    BY <1>1, <1>4 DEF NobodyOverslept, Asleep
  <2> QED
    BY Zenon, <1>1, <1>2, <2>1, <2>2, <2>3, AtShape, WorkerTurns DEF IndInv
<1> QED
  BY Zenon, <1>3, <1>4

\* The end of a timed wait keeps it.
LEMMA WakeKeeps == IndInv /\ Wake => IndInv'
<1> SUFFICES ASSUME IndInv, Wake PROVE IndInv'
  BY Zenon
<1>1. /\ UNCHANGED <<queue, njobs, bytes, accepted, outcome, copies, lost, wiped>>
      /\ UNCHANGED <<shutdown, loop, faults>> /\ worker.pc = "timedwait"
      /\ worker' = At("look")
  BY Zenon DEF Wake, jobs, seen
<1>2. worker.job = NoJob /\ NoJob \notin Job
  BY Zenon, <1>1, AtShape DEF IndInv, Shape
<1>3. Shape'
  BY Zenon, <1>1, AtShape DEF IndInv, Shape
<1>4. NobodyOverslept'
  BY Zenon, <1>1, AtShape DEF NobodyOverslept, Asleep
<1> QED
  BY Zenon, <1>1, <1>2, <1>3, <1>4, AtShape, WorkerTurns DEF IndInv

\* Taking the first due job keeps it.
LEMMA TakeKeeps == IndInv /\ Take => IndInv'
<1> SUFFICES ASSUME IndInv, Take PROVE IndInv'
  BY Zenon
<1> DEFINE due == {k \in DOMAIN queue : IsDue(queue[k])}
           i   == Min(due)
           job == queue[i]
           To(k) == IF k < i THEN k ELSE k + 1
<1>1. /\ worker.pc = "look" /\ due # {}
      /\ queue' = Unlinked(queue, i)
      /\ njobs' = njobs - 1 /\ bytes' = bytes - Size[job.msg]
      /\ worker' = [At("deliver") EXCEPT !.job = job, !.todo = All(job.msg) \ job.done]
      /\ UNCHANGED <<shutdown, loop, accepted, outcome, copies, lost, wiped, faults>>
  BY Zenon DEF Take, seen
<1>2. Len(queue) \in Nat /\ DOMAIN queue = 1 .. Len(queue)
  BY Zenon, QueueShape DEF IndInv
<1>3. i \in 1 .. Len(queue)
  <2>1. due \in SUBSET Nat /\ due \subseteq DOMAIN queue
    BY <1>2
  <2> HIDE DEF due
  <2> QED
    BY Zenon, <1>1, <1>2, <2>1, MinInNat
<1> HIDE DEF i, due
<1>4. job \in Job /\ job.msg \in Msg /\ Size[job.msg] \in Nat /\ job.done \in SUBSET Nat
  <2>1. job \in Job
    BY Zenon, <1>2, <1>3, QueueShape DEF IndInv
  <2> QED
    BY Zenon, <2>1, OutboxAssumption DEF Job
<1>5. /\ queue' \in Seq(Job) /\ Len(queue') = Len(queue) - 1
      /\ DOMAIN queue' = 1 .. Len(queue) - 1
      /\ \A k \in DOMAIN queue' : queue'[k] = queue[To(k)]
      /\ \A k \in DOMAIN queue' : To(k) \in DOMAIN queue /\ To(k) # i
      /\ \A j, k \in DOMAIN queue' : To(j) = To(k) => j = k
      /\ \A k \in DOMAIN queue : k # i => \E j \in DOMAIN queue' : To(j) = k
  <2>1. /\ queue' \in Seq(Job) /\ Len(queue') = Len(queue) - 1
        /\ \A k \in 1 .. Len(queue) - 1 : queue'[k] = queue[To(k)]
    BY <1>1, <1>3, UnlinkedEffect DEF IndInv, Shape
  <2>2. DOMAIN queue' = 1 .. Len(queue) - 1
    BY Zenon, <2>1, LenProperties
  <2>3. /\ \A k \in DOMAIN queue' : To(k) \in DOMAIN queue /\ To(k) # i
        /\ \A j, k \in DOMAIN queue' : To(j) = To(k) => j = k
    BY <1>2, <1>3, <2>2
  <2>4. ASSUME NEW k \in DOMAIN queue, k # i PROVE \E j \in DOMAIN queue' : To(j) = k
    <3>1. CASE k < i
      <4>1. k \in DOMAIN queue' /\ To(k) = k
        BY <1>2, <1>3, <2>2, <3>1
      <4> QED BY Zenon, <4>1
    <3>2. CASE k > i
      <4>1. k - 1 \in DOMAIN queue' /\ To(k - 1) = k
        BY <1>2, <1>3, <2>2, <3>2
      <4> QED BY Zenon, <4>1
    <3> QED
      BY <1>2, <1>3, <2>4, <3>1, <3>2
  <2> QED
    BY Zenon, <2>1, <2>2, <2>3, <2>4
<1> HIDE DEF To, job
<1>6. worker' = [pc |-> "deliver", job |-> job, todo |-> All(job.msg) \ job.done, until |-> 0]
  BY Zenon, <1>1 DEF At
<1>7. Shape'
  <2>1. All(job.msg) \in SUBSET Nat
    BY <1>4, OutboxAssumption DEF All
  <2>2. worker' \in [pc : {"look", "wait", "timedwait", "deliver", "exited"},
                     job : Job \cup {NoJob}, todo : SUBSET Nat, until : Nat]
    BY Zenon, <1>4, <1>6, <2>1
  <2>3. bytes' \in Nat
    <3>1. /\ IsFiniteSet(Octets(queue'))
          /\ Cardinality(Octets(queue')) = Cardinality(Octets(queue)) - Size[job.msg]
      BY Zenon, <1>1, <1>3, OctetsRemove DEF IndInv, Shape, CountersInv, job
    <3> QED
      BY Zenon, <1>1, <3>1, FS_CardinalityType DEF IndInv, CountersInv
  <2>4. worker'.pc = "deliver" <=> worker'.job \in Job
    BY Zenon, <1>4, <1>6
  <2>5. queue' \in Seq(Job)
    BY Zenon, <1>5
  <2> QED
    BY Zenon, <1>1, <2>2, <2>3, <2>4, <2>5 DEF IndInv, Shape
<1>8. worker.job = NoJob /\ NoJob \notin Job
  BY Zenon, <1>1, AtShape DEF IndInv, Shape
<1>9. /\ job.msg \in accepted \ wiped /\ job.done = Settled(outcome, job.msg)
      /\ \A k \in DOMAIN queue' : queue'[k].msg # job.msg
  <2>1. job = queue[i] /\ i \in DOMAIN queue
    BY Zenon, <1>2, <1>3 DEF job
  <2> QED
    BY <1>5, <2>1 DEF IndInv, JobsInv
<1>10. JobsInv'
  <2>1. \A k \in DOMAIN queue' : /\ queue'[k].msg \in accepted' \ wiped'
                                 /\ queue'[k].done = Settled(outcome', queue'[k].msg)
    BY <1>1, <1>5 DEF IndInv, JobsInv
  <2>2. \A j, k \in DOMAIN queue' : queue'[j].msg = queue'[k].msg => j = k
    BY <1>5 DEF IndInv, JobsInv
  <2>3. \A n \in accepted \ wiped : Settled(outcome, n) # All(n) =>
          job.msg = n \/ \E k \in DOMAIN queue' : queue'[k].msg = n
    <3> SUFFICES ASSUME NEW n \in accepted \ wiped, Settled(outcome, n) # All(n), job.msg # n
                 PROVE  \E k \in DOMAIN queue' : queue'[k].msg = n
      BY Zenon
    <3>1. NoJob.msg # n
      BY Zenon, OutboxAssumption DEF NoJob, IndInv, Shape
    <3>2. PICK k \in DOMAIN queue : queue[k].msg = n
      BY Zenon, <1>8, <3>1 DEF IndInv, JobsInv
    <3>3. k # i
      BY Zenon, <3>2 DEF job
    <3> QED
      BY <1>5, <3>2, <3>3
  <2> QED
    BY <1>1, <1>6, <1>9, <2>1, <2>2, <2>3 DEF IndInv, JobsInv, All
<1>11. CountersInv'
  <2>1. /\ IsFiniteSet(Octets(queue')) /\ bytes \in Nat
        /\ Cardinality(Octets(queue')) = Cardinality(Octets(queue)) - Size[job.msg]
    BY Zenon, <1>1, <1>3, OctetsRemove DEF IndInv, Shape, CountersInv, job
  <2>2. bytes' = Cardinality(Octets(queue')) /\ bytes' + Size[job.msg] = bytes
    BY <1>1, <1>4, <2>1 DEF IndInv, CountersInv
  <2>3. njobs' = Len(queue') /\ njobs' + 1 = njobs
    BY <1>1, <1>2, <1>5 DEF IndInv, CountersInv
  <2>4. worker'.job = job
    BY Zenon, <1>6
  <2> QED
    BY <1>4, <1>8, <2>1, <2>2, <2>3, <2>4 DEF IndInv, CountersInv
<1>12. CopiesInv'
  BY Zenon, <1>1 DEF IndInv, CopiesInv
<1>13. NobodyOverslept'
  BY Zenon, <1>6 DEF NobodyOverslept, Asleep
<1> QED
  BY Zenon, <1>7, <1>10, <1>11, <1>12, <1>13 DEF IndInv

\* What Deliver finds: a recipient of the worker's job that is not settled.
LEMMA NextRecipient ==
  ASSUME IndInv, worker.pc = "deliver", worker.todo # {}
  PROVE  /\ worker.job \in Job /\ worker.job.msg \in Msg
         /\ worker.job.msg \in accepted \ wiped
         /\ Min(worker.todo) \in worker.todo /\ Min(worker.todo) \in Nat
         /\ Min(worker.todo) \in All(worker.job.msg)
         /\ Min(worker.todo) \notin worker.job.done
         /\ outcome[worker.job.msg][Min(worker.todo)] = "none"
<1>1. worker.job \in Job /\ worker.todo \in SUBSET Nat
  BY Zenon DEF IndInv, Shape
<1>2. worker.job.msg \in Msg
  BY Zenon, <1>1 DEF Job
<1>3. Min(worker.todo) \in worker.todo
  BY Zenon, <1>1, MinInNat
<1>4. /\ worker.job.msg \in accepted \ wiped
      /\ worker.job.done = Settled(outcome, worker.job.msg)
      /\ worker.todo \subseteq All(worker.job.msg) \ worker.job.done
  BY Zenon, <1>1 DEF IndInv, JobsInv
<1>5. Min(worker.todo) \in Nat /\ Min(worker.todo) \in All(worker.job.msg)
      /\ Min(worker.todo) \notin worker.job.done
  BY Zenon, <1>1, <1>3, <1>4
<1>6. outcome[worker.job.msg][Min(worker.todo)] = "none"
  BY Zenon, <1>4, <1>5 DEF Settled
<1> QED
  BY Zenon, <1>1, <1>2, <1>3, <1>4, <1>5, <1>6

\* The worker with one more recipient of its job marked.
Mark(w, i) == [w EXCEPT !.todo = @ \ {i}, !.job.done = @ \cup {i}]

\* Marking a recipient changes the marks and the list of whom to try.
LEMMA Marked ==
  ASSUME NEW w \in [pc : {"deliver"}, job : Job, todo : SUBSET Nat, until : Nat],
         NEW i \in Nat, NEW v, v = Mark(w, i)
  PROVE  /\ v \in [pc : {"deliver"}, job : Job, todo : SUBSET Nat, until : Nat]
         /\ v.job.msg = w.job.msg /\ v.job.done = w.job.done \cup {i}
         /\ v.job.attempt = w.job.attempt /\ v.todo = w.todo \ {i}
<1> DEFINE job == [msg |-> w.job.msg, done |-> w.job.done \cup {i},
                   due |-> w.job.due, attempt |-> w.job.attempt]
<1>1. w.job = [msg |-> w.job.msg, done |-> w.job.done,
               due |-> w.job.due, attempt |-> w.job.attempt]
      /\ w.job \in Job /\ w.job.done \in SUBSET Nat /\ job \in Job
  BY Zenon DEF Job
<1>2. w = [pc |-> "deliver", job |-> w.job, todo |-> w.todo, until |-> w.until]
      /\ w.todo \in SUBSET Nat /\ w.until \in Nat
  BY Zenon
<1>3. v.pc = "deliver" /\ v.job = job /\ v.todo = w.todo \ {i} /\ v.until = w.until
  BY Zenon, <1>1, <1>2 DEF Mark
<1>4. v \in [pc : {"deliver"}, job : Job, todo : SUBSET Nat, until : Nat]
  BY Zenon, <1>1, <1>2 DEF Mark
<1> QED
  BY <1>3, <1>4

\* A recipient is settled: its mark and its outcome are set together.
LEMMA EndsKeeps ==
  ASSUME IndInv, worker.pc = "deliver", worker.todo # {}, NEW how \in Outcomes \ {"none"},
         outcome' = [outcome EXCEPT ![worker.job.msg][Min(worker.todo)] = how],
         worker' = Mark(worker, Min(worker.todo)),
         UNCHANGED <<queue, njobs, bytes, accepted, wiped>>
  PROVE  /\ worker' \in [pc : {"deliver"}, job : Job, todo : SUBSET Nat, until : Nat]
         /\ DOMAIN outcome' = Msg
         /\ \A n \in Msg : outcome'[n] \in [All(n) -> Outcomes]
         /\ outcome'[worker.job.msg][Min(worker.todo)] # "none"
         /\ \A n \in Msg : \A k \in All(n) :
              n # worker.job.msg \/ k # Min(worker.todo) => outcome'[n][k] = outcome[n][k]
         /\ JobsInv' /\ CountersInv'
<1> DEFINE m == worker.job.msg
           i == Min(worker.todo)
<1>1. /\ worker.job \in Job /\ m \in Msg /\ m \in accepted \ wiped /\ i \in worker.todo
      /\ i \in Nat /\ i \in All(m) /\ i \notin worker.job.done /\ outcome[m][i] = "none"
  BY Zenon, NextRecipient
<1>2. /\ DOMAIN outcome = Msg /\ (\A n \in Msg : outcome[n] \in [All(n) -> Outcomes])
      /\ worker \in [pc : {"deliver"}, job : Job, todo : SUBSET Nat, until : Nat]
  BY Zenon, <1>1 DEF IndInv, Shape
<1> HIDE DEF i
<1>3. /\ worker' \in [pc : {"deliver"}, job : Job, todo : SUBSET Nat, until : Nat]
      /\ worker'.job.msg = m /\ worker'.job.done = worker.job.done \cup {i}
      /\ worker'.job.attempt = worker.job.attempt /\ worker'.todo = worker.todo \ {i}
  <2>1. worker' = Mark(worker, i)
    BY Zenon DEF i, Mark
  <2>2. i \in Nat
    BY Zenon, <1>1
  <2> QED
    BY <1>2, <2>1, <2>2, Marked
<1>4. worker'.job \in Job
  BY Zenon, <1>3
<1>6. /\ DOMAIN outcome' = Msg /\ outcome'[m][i] = how
      /\ \A n \in Msg : outcome'[n] \in [All(n) -> Outcomes]
      /\ \A n \in Msg : n # m => outcome'[n] = outcome[n]
      /\ \A k \in All(m) : k # i => outcome'[m][k] = outcome[m][k]
  BY Zenon, <1>1, <1>2 DEF i
<1>7. Settled(outcome', m) = Settled(outcome, m) \cup {i}
  BY <1>1, <1>6 DEF Settled
<1>8. \A n \in Msg : n # m => Settled(outcome', n) = Settled(outcome, n)
  BY Zenon, <1>6 DEF Settled
<1>9. JobsInv'
  <2>1. \A k \in DOMAIN queue' : /\ queue'[k].msg \in accepted' \ wiped'
                                 /\ queue'[k].done = Settled(outcome', queue'[k].msg)
    <3> SUFFICES ASSUME NEW k \in DOMAIN queue
                 PROVE  /\ queue[k].msg \in accepted \ wiped
                        /\ queue[k].done = Settled(outcome', queue[k].msg)
      BY Zenon
    <3>1. queue[k].msg \in accepted \ wiped /\ queue[k].done = Settled(outcome, queue[k].msg)
          /\ queue[k].msg # m
      BY Zenon, <1>1 DEF IndInv, JobsInv
    <3>2. queue[k].msg \in Msg
      BY Zenon, <3>1 DEF IndInv, Shape
    <3> QED
      BY Zenon, <1>8, <3>1, <3>2
  <2>2. \A j, k \in DOMAIN queue' : queue'[j].msg = queue'[k].msg => j = k
    BY Zenon DEF IndInv, JobsInv
  <2>3. worker'.job.msg = m /\ worker'.todo = worker.todo \ {i}
        /\ worker'.job.done = worker.job.done \cup {i} /\ worker'.job.attempt = worker.job.attempt
    BY Zenon, <1>3
  <2>4. /\ worker'.job.msg \in accepted' \ wiped'
        /\ worker'.job.done = Settled(outcome', worker'.job.msg)
        /\ \A k \in DOMAIN queue' : queue'[k].msg # worker'.job.msg
        /\ worker'.todo \subseteq All(worker'.job.msg) \ worker'.job.done
        /\ worker'.job.attempt = MaxAttempts =>
             All(worker'.job.msg) \ worker'.job.done \subseteq worker'.todo
    BY <1>1, <1>7, <2>3 DEF IndInv, JobsInv
  <2>5. \A n \in Msg \ accepted' : Settled(outcome', n) = {}
    BY <1>1, <1>8 DEF IndInv, JobsInv
  <2>6. \A n \in accepted' \ wiped' : Settled(outcome', n) # All(n) =>
          worker'.job.msg = n \/ \E k \in DOMAIN queue' : queue'[k].msg = n
    <3> SUFFICES ASSUME NEW n \in accepted \ wiped, Settled(outcome', n) # All(n), n # m
                 PROVE  \E k \in DOMAIN queue : queue[k].msg = n
      BY Zenon, <2>3
    <3>1. n \in Msg
      BY Zenon DEF IndInv, Shape
    <3> QED
      BY Zenon, <1>8, <3>1 DEF IndInv, JobsInv
  <2> QED
    BY Zenon, <2>1, <2>2, <2>4, <2>5, <2>6 DEF JobsInv, All
<1>10. CountersInv'
  <2>1. worker'.job \in Job /\ worker'.job.msg = worker.job.msg
    BY Zenon, <1>3, <1>4
  <2> QED
    BY Zenon, <1>1, <2>1 DEF IndInv, CountersInv
<1>11. outcome'[worker.job.msg][Min(worker.todo)] # "none"
  BY Zenon, <1>6 DEF i
<1>12. \A n \in Msg : \A k \in All(n) :
         n # worker.job.msg \/ k # Min(worker.todo) => outcome'[n][k] = outcome[n][k]
  BY Zenon, <1>6 DEF i
<1>13. DOMAIN outcome' = Msg /\ \A n \in Msg : outcome'[n] \in [All(n) -> Outcomes]
  BY Zenon, <1>6
<1>14. worker' \in [pc : {"deliver"}, job : Job, todo : SUBSET Nat, until : Nat]
  BY Zenon, <1>3
<1> QED
  BY Zenon, <1>9, <1>10, <1>11, <1>12, <1>13, <1>14


\* A recipient is left for a later attempt, which there is.
LEMMA LeftKeeps ==
  ASSUME IndInv, worker.pc = "deliver", worker.todo # {}, ~Exhausted(worker.job),
         worker' = [worker EXCEPT !.todo = @ \ {Min(worker.todo)}],
         UNCHANGED <<queue, njobs, bytes, accepted, wiped, outcome>>
  PROVE  /\ worker' \in [pc : {"deliver"}, job : Job, todo : SUBSET Nat, until : Nat]
         /\ JobsInv' /\ CountersInv'
<1>1. worker.job \in Job /\ worker.job.attempt # MaxAttempts
  BY NextRecipient, OutboxAssumption DEF Exhausted, Job
<1>2. worker' = [pc |-> "deliver", job |-> worker.job,
                 todo |-> worker.todo \ {Min(worker.todo)}, until |-> worker.until]
      /\ worker.todo \in SUBSET Nat /\ worker.until \in Nat
  BY Zenon DEF IndInv, Shape
<1>3. worker'.job = worker.job /\ worker'.todo \subseteq worker.todo
  BY Zenon, <1>2
<1>4. JobsInv'
  BY <1>1, <1>3 DEF IndInv, JobsInv, Settled, All
<1>5. CountersInv'
  BY Zenon, <1>3 DEF IndInv, CountersInv
<1> QED
  BY Zenon, <1>1, <1>2, <1>4, <1>5

\* One recipient of job_deliver keeps it.
LEMMA DeliverKeeps == IndInv /\ Deliver => IndInv'
<1> SUFFICES ASSUME IndInv, Deliver PROVE IndInv'
  BY Zenon
<1> DEFINE m == worker.job.msg
           i == Min(worker.todo)
           Ends(how) ==
             /\ outcome' = [outcome EXCEPT ![m][i] = how]
             /\ worker' = Mark(worker, i)
           Left == /\ ~Exhausted(worker.job)
                   /\ worker' = [worker EXCEPT !.todo = @ \ {i}] /\ UNCHANGED outcome
           Took == copies' = [copies EXCEPT ![m][i] = @ + 1]
           Ended == \E how \in Outcomes \ {"none"} : Ends(how)
<1>1. /\ worker.pc = "deliver" /\ worker.todo # {}
      /\ UNCHANGED <<queue, njobs, bytes, shutdown, loop, accepted, wiped>>
  BY Zenon DEF Deliver, jobs
<1>2. \/ Ended /\ Took /\ UNCHANGED <<lost, faults>>
      \/ (Ended \/ Left) /\ UNCHANGED <<copies, lost, faults>>
      \/ (Ended \/ Left) /\ Took /\ lost' = [lost EXCEPT ![m][i] = @ + 1] /\ Fault
  <2>1. "sent" \in Outcomes \ {"none"} /\ "refused" \in Outcomes \ {"none"}
        /\ "gave up" \in Outcomes \ {"none"} /\ "dropped" \in Outcomes \ {"none"}
    BY Zenon DEF Outcomes
  <2>2. Ends("sent") \/ Ends("refused") \/ Ends("gave up") \/ Ends("dropped") => Ended
    BY Zenon, <2>1
  <2> DEFINE Fails == IF Exhausted(worker.job)
                      THEN Ends(IF worker.job.due = 0 THEN "gave up" ELSE "dropped")
                      ELSE worker' = [worker EXCEPT !.todo = @ \ {i}] /\ UNCHANGED outcome
  <2>3. Fails => Ended \/ Left
    <3> HIDE DEF Ends, Ended
    <3> QED BY Zenon, <2>2
  <2>4. \/ Ends("sent") /\ Took /\ UNCHANGED <<lost, faults>>
        \/ Ends("refused") /\ UNCHANGED <<copies, lost, faults>>
        \/ Fails /\ UNCHANGED <<copies, lost, faults>>
        \/ Fails /\ Took /\ lost' = [lost EXCEPT ![m][i] = @ + 1] /\ Fault
    BY Zenon DEF Deliver, Mark
  <2> HIDE DEF Ends, Ended, Left, Took, Fails, m, i
  <2> QED
    BY Zenon, <2>2, <2>3, <2>4
<1>3. /\ worker.job \in Job /\ m \in Msg /\ i \in All(m) /\ outcome[m][i] = "none"
  BY Zenon, <1>1, NextRecipient
<1>4. /\ DOMAIN outcome = Msg /\ DOMAIN copies = Msg /\ DOMAIN lost = Msg
      /\ \A n \in Msg : /\ outcome[n] \in [All(n) -> Outcomes]
                        /\ copies[n] \in [All(n) -> Nat] /\ lost[n] \in [All(n) -> Nat]
  BY Zenon DEF IndInv, Shape
<1>5. Ended \/ Left
  BY Zenon, <1>2
<1>6. /\ worker' \in [pc : {"deliver"}, job : Job, todo : SUBSET Nat, until : Nat]
      /\ JobsInv' /\ CountersInv' /\ DOMAIN outcome' = Msg
      /\ \A n \in Msg : outcome'[n] \in [All(n) -> Outcomes]
      /\ \A n \in Msg : \A k \in All(n) : n # m \/ k # i => outcome'[n][k] = outcome[n][k]
      /\ Ended => outcome'[m][i] # "none"
  <2>1. ASSUME NEW how \in Outcomes \ {"none"}, Ends(how)
        PROVE  /\ worker' \in [pc : {"deliver"}, job : Job, todo : SUBSET Nat, until : Nat]
               /\ JobsInv' /\ CountersInv' /\ DOMAIN outcome' = Msg
               /\ \A n \in Msg : outcome'[n] \in [All(n) -> Outcomes]
               /\ \A n \in Msg : \A k \in All(n) :
                    n # m \/ k # i => outcome'[n][k] = outcome[n][k]
               /\ outcome'[m][i] # "none"
    BY Zenon, <1>1, <2>1, EndsKeeps
  <2>2. CASE Ended
    BY Zenon, <2>1, <2>2
  <2>3. CASE ~Ended /\ Left
    BY Zenon, <1>1, <1>4, <2>3, LeftKeeps
  <2> QED
    BY Zenon, <1>5, <2>2, <2>3
<1> HIDE DEF m, i, Ends, Left
<1>7. /\ DOMAIN copies' = Msg /\ DOMAIN lost' = Msg /\ faults' \in 0 .. MaxFaults
      /\ \A n \in Msg : copies'[n] \in [All(n) -> Nat] /\ lost'[n] \in [All(n) -> Nat]
  <2>1. faults' \in 0 .. MaxFaults
    BY <1>2, OutboxAssumption DEF Fault, IndInv, Shape
  <2>2. /\ DOMAIN copies' = Msg /\ \A n \in Msg : copies'[n] \in [All(n) -> Nat]
    BY <1>2, <1>3, <1>4
  <2>3. /\ DOMAIN lost' = Msg /\ \A n \in Msg : lost'[n] \in [All(n) -> Nat]
    BY <1>2, <1>3, <1>4
  <2> QED
    BY Zenon, <2>1, <2>2, <2>3
<1>8. Shape'
  <2>1. worker'.pc = "deliver" /\ worker'.job \in Job
        /\ worker' \in [pc : {"look", "wait", "timedwait", "deliver", "exited"},
                        job : Job \cup {NoJob}, todo : SUBSET Nat, until : Nat]
    BY Zenon, <1>6
  <2> QED
    BY Zenon, <1>1, <1>6, <1>7, <2>1 DEF IndInv, Shape, All
<1>9. CopiesInv'
  <2>1. ASSUME NEW n \in Msg, NEW k \in All(n)
        PROVE  copies'[n][k] <= lost'[n][k] + (IF outcome'[n][k] = "none" THEN 0 ELSE 1)
    <3>0. /\ copies[n][k] \in Nat /\ lost[n][k] \in Nat
          /\ copies[n][k] <= lost[n][k] + (IF outcome[n][k] = "none" THEN 0 ELSE 1)
      BY Zenon, <1>4 DEF IndInv, CopiesInv
    <3>1. CASE n # m \/ k # i
      <4>1. copies'[n][k] = copies[n][k] /\ lost'[n][k] = lost[n][k]
        BY <1>2, <1>3, <1>4, <3>1
      <4> QED
        BY Zenon, <1>6, <3>0, <3>1, <4>1
    <3>2. CASE n = m /\ k = i
      <4>0. copies[m][i] \in Nat /\ lost[m][i] \in Nat /\ copies[m][i] <= lost[m][i]
        BY <1>3, <3>0, <3>2
      <4>1. CASE Ended /\ Took /\ UNCHANGED lost
        <5>1. copies'[m][i] = copies[m][i] + 1 /\ lost'[m][i] = lost[m][i]
              /\ outcome'[m][i] # "none"
          BY Zenon, <1>3, <1>4, <1>6, <4>1
        <5> QED
          BY <3>2, <4>0, <5>1
      <4>2. CASE UNCHANGED <<copies, lost>>
        BY <3>2, <4>0, <4>2
      <4>3. CASE Took /\ lost' = [lost EXCEPT ![m][i] = @ + 1]
        <5>1. copies'[m][i] = copies[m][i] + 1 /\ lost'[m][i] = lost[m][i] + 1
          BY Zenon, <1>3, <1>4, <4>3
        <5> QED
          BY <3>2, <4>0, <5>1
      <4> QED
        BY Zenon, <1>2, <4>1, <4>2, <4>3
    <3> QED
      BY Zenon, <3>1, <3>2
  <2> QED
    BY Zenon, <2>1 DEF CopiesInv, All
<1>10. NobodyOverslept'
  <2>1. worker'.pc = "deliver"
    BY Zenon, <1>6
  <2> QED
    BY Zenon, <2>1 DEF NobodyOverslept, Asleep
<1> QED
  BY Zenon, <1>6, <1>8, <1>9, <1>10 DEF IndInv

\* A job with another attempt and another due time.
LEMMA Postponed ==
  ASSUME NEW job \in Job, NEW n, NEW t
  PROVE  [job EXCEPT !.attempt = n, !.due = t] =
           [msg |-> job.msg, done |-> job.done, due |-> t, attempt |-> n]
<1> DEFINE late == [job EXCEPT !.attempt = n, !.due = t]
<1>1. DOMAIN job = {"msg", "done", "due", "attempt"}
  BY Zenon DEF Job
<1>2. /\ DOMAIN late = {"msg", "done", "due", "attempt"} /\ late.msg = job.msg
      /\ late.done = job.done /\ late.due = t /\ late.attempt = n
  BY Zenon, <1>1
<1>3. late = [x \in {"msg", "done", "due", "attempt"} |-> late[x]]
  BY Zenon, <1>1
<1> HIDE DEF late
<1>4. late = [msg |-> late.msg, done |-> late.done, due |-> late.due, attempt |-> late.attempt]
  BY Zenon, <1>3
<1> QED
  BY Zenon, <1>2, <1>4 DEF late

\* The end of job_deliver, with queue_reappend, keeps it.
LEMMA FinishKeeps == IndInv /\ Finish => IndInv'
<1> SUFFICES ASSUME IndInv, Finish PROVE IndInv'
  BY Zenon
<1> DEFINE job == worker.job
           next == [job EXCEPT !.attempt = @ + 1, !.due = Backoff(job.attempt + 1)]
           last == Len(queue) + 1
<1>1. /\ worker.pc = "deliver" /\ worker.todo = {} /\ worker' = At("look")
      /\ UNCHANGED <<shutdown, loop, accepted, outcome, copies, lost, wiped, faults>>
  BY Zenon DEF Finish, seen
<1>2. /\ job \in Job /\ job.msg \in accepted \ wiped /\ job.msg \in Msg
      /\ job.done = Settled(outcome, job.msg)
      /\ \A k \in DOMAIN queue : queue[k].msg # job.msg
      /\ job.attempt = MaxAttempts => All(job.msg) \ job.done \subseteq {}
  BY Zenon, <1>1 DEF IndInv, Shape, JobsInv
<1>3. NoJob \notin Job /\ worker'.job = NoJob /\ worker'.pc = "look"
  BY Zenon, <1>1, AtShape
<1>4. /\ bytes \in Nat /\ Len(queue) \in Nat /\ DOMAIN queue = 1 .. Len(queue)
      /\ Size[job.msg] \in Nat
  BY Zenon, <1>2, QueueShape, OutboxAssumption DEF IndInv, Shape
<1>5. NobodyOverslept'
  BY Zenon, <1>3 DEF NobodyOverslept, Asleep
<1>6. CopiesInv'
  BY Zenon, <1>1 DEF IndInv, CopiesInv
<1>7. CASE job.done = All(job.msg)
  <2>1. UNCHANGED <<queue, njobs, bytes>>
    BY Zenon, <1>7 DEF Finish
  <2>2. Shape'
    BY Zenon, <1>1, <1>3, <2>1, AtShape DEF IndInv, Shape
  <2>3. JobsInv'
    <3>1. \A n \in accepted' \ wiped' : Settled(outcome', n) # All(n) =>
            worker'.job.msg = n \/ \E k \in DOMAIN queue' : queue'[k].msg = n
      BY <1>1, <1>2, <1>7, <2>1 DEF IndInv, JobsInv
    <3> QED
      BY <1>1, <1>3, <2>1, <3>1 DEF IndInv, JobsInv, All
  <2>4. CountersInv'
    <3>1. \/ bytes <= MaxBytes
          \/ \E m \in Msg : bytes <= MaxBytes + Size[m]
      BY <1>2, <1>4, OutboxAssumption, SMTT(30) DEF IndInv, CountersInv
    <3>2. njobs \in Nat /\ njobs <= MaxJobs + 1
      BY <1>2, <1>4, OutboxAssumption DEF IndInv, CountersInv
    <3> QED
      BY <1>3, <1>4, <2>1, <3>1, <3>2, OutboxAssumption DEF IndInv, CountersInv
  <2> QED
    BY Zenon, <1>5, <1>6, <2>2, <2>3, <2>4 DEF IndInv
<1>8. CASE job.done # All(job.msg)
  <2>1. /\ queue' = Append(queue, next)
        /\ njobs' = njobs + 1 /\ bytes' = bytes + Size[job.msg]
    BY Zenon, <1>8 DEF Finish
  <2>2. next \in Job /\ next.msg = job.msg /\ next.done = job.done
    <3>1. job.done \subseteq All(job.msg)
      BY Zenon, <1>2 DEF Settled
    <3>2. job.attempt \in 1 .. MaxAttempts /\ job.attempt # MaxAttempts
      BY Zenon, <1>2, <1>8, <3>1 DEF Job
    <3>3. job.attempt + 1 \in 1 .. MaxAttempts /\ job.attempt + 1 \in Nat \ {0}
      BY <3>2, OutboxAssumption
    <3>4. Backoff(job.attempt + 1) \in Nat
      BY Zenon, <3>3, BackoffType
    <3>5. next = [msg |-> job.msg, done |-> job.done,
                  due |-> Backoff(job.attempt + 1), attempt |-> job.attempt + 1]
      BY Zenon, <1>2, Postponed
    <3>6. next.msg = job.msg /\ next.done = job.done
      BY Zenon, <3>5
    <3>7. job.msg \in Msg /\ job.done \in SUBSET Nat
      BY Zenon, <1>2 DEF Job
    <3> QED
      BY Zenon, <3>3, <3>4, <3>5, <3>6, <3>7 DEF Job
  <2> HIDE DEF next
  <2>3. /\ queue' \in Seq(Job) /\ Len(queue') = last
        /\ DOMAIN queue' = DOMAIN queue \cup {last}
        /\ (\A k \in DOMAIN queue : queue'[k] = queue[k]) /\ queue'[last] = next
        /\ \A j, k \in DOMAIN queue' : queue'[j].msg = queue'[k].msg => j = k
        /\ IsFiniteSet(Octets(queue'))
        /\ Cardinality(Octets(queue')) = Cardinality(Octets(queue)) + Size[job.msg]
    BY <1>2, <2>1, <2>2, Appended
  <2>4. Shape'
    <3>1. bytes' \in Nat /\ queue' \in Seq(Job)
      BY <1>4, <2>1, <2>3
    <3> QED
      BY Zenon, <1>1, <1>3, <3>1, AtShape DEF IndInv, Shape
  <2>5. JobsInv'
    <3>1. \A k \in DOMAIN queue' : /\ queue'[k].msg \in accepted' \ wiped'
                                   /\ queue'[k].done = Settled(outcome', queue'[k].msg)
      <4>1. \A k \in DOMAIN queue : /\ queue'[k].msg \in accepted' \ wiped'
                                    /\ queue'[k].done = Settled(outcome', queue'[k].msg)
        BY <1>1, <2>3 DEF IndInv, JobsInv
      <4>2. /\ queue'[last].msg \in accepted' \ wiped'
            /\ queue'[last].done = Settled(outcome', queue'[last].msg)
        BY Zenon, <1>1, <1>2, <2>2, <2>3
      <4> QED
        BY Zenon, <2>3, <4>1, <4>2
    <3>2. \A n \in accepted' \ wiped' : Settled(outcome', n) # All(n) =>
            \E k \in DOMAIN queue' : queue'[k].msg = n
      <4> SUFFICES ASSUME NEW n \in accepted \ wiped, Settled(outcome, n) # All(n)
                   PROVE  \E k \in DOMAIN queue' : queue'[k].msg = n
        BY Zenon, <1>1
      <4>1. CASE n = job.msg
        BY Zenon, <2>2, <2>3, <4>1
      <4>2. CASE n # job.msg
        <5>1. PICK k \in DOMAIN queue : queue[k].msg = n
          BY Zenon, <4>2 DEF IndInv, JobsInv
        <5> QED
          BY Zenon, <2>3, <5>1
      <4> QED
        BY Zenon, <4>1, <4>2
    <3>3. \A n \in Msg \ accepted' : Settled(outcome', n) = {}
      BY Zenon, <1>1 DEF IndInv, JobsInv
    <3> QED
      BY Zenon, <1>3, <2>3, <3>1, <3>2, <3>3 DEF JobsInv, All
  <2>6. CountersInv'
    <3>1. njobs' = Len(queue') /\ njobs' <= MaxJobs + 1
      BY Zenon, <1>2, <1>4, <2>1, <2>3 DEF IndInv, CountersInv
    <3>2. bytes' = Cardinality(Octets(queue'))
      BY Zenon, <2>1, <2>3 DEF IndInv, CountersInv
    <3>3. bytes' <= MaxBytes \/ \E m \in Msg : bytes' <= MaxBytes + Size[m]
      BY Zenon, <1>2, <2>1 DEF IndInv, CountersInv
    <3>4. njobs' \in Nat /\ bytes' \in Nat
      BY <1>4, <2>1 DEF IndInv, CountersInv
    <3> QED
      BY <1>3, <2>3, <3>1, <3>2, <3>3, <3>4, OutboxAssumption DEF CountersInv
  <2> QED
    BY Zenon, <1>5, <1>6, <2>4, <2>5, <2>6 DEF IndInv
<1> QED
  BY Zenon, <1>7, <1>8

-----------------------------------------------------------------------------
(* Time, and the end of the process                                           *)

\* The passing of a second keeps it.
LEMMA TickKeeps == IndInv /\ Tick => IndInv'
<1> SUFFICES ASSUME IndInv, Tick PROVE IndInv'
  BY Zenon
<1>1. /\ queue' = [k \in DOMAIN queue |-> [queue[k] EXCEPT !.due = Ticked(@)]]
      /\ worker' = [worker EXCEPT !.until = Ticked(@)]
      /\ UNCHANGED <<njobs, bytes, shutdown, loop, accepted, outcome>>
      /\ UNCHANGED <<copies, lost, wiped, faults>>
  BY Zenon DEF Tick, seen
<1>2. \A t \in Nat : Ticked(t) \in Nat
  BY DEF Ticked
<1>3. /\ Len(queue) \in Nat /\ DOMAIN queue = 1 .. Len(queue)
      /\ \A k \in DOMAIN queue : queue[k] \in Job
  BY Zenon, QueueShape DEF IndInv
<1>4. \A k \in DOMAIN queue : /\ queue'[k] \in Job /\ queue'[k].msg = queue[k].msg
                              /\ queue'[k].done = queue[k].done
                              /\ queue[k].due \in Nat /\ queue'[k].due = Ticked(queue[k].due)
  <2> SUFFICES ASSUME NEW k \in DOMAIN queue
               PROVE  /\ queue'[k] \in Job /\ queue'[k].msg = queue[k].msg
                      /\ queue'[k].done = queue[k].done
                      /\ queue[k].due \in Nat /\ queue'[k].due = Ticked(queue[k].due)
    BY Zenon
  <2> DEFINE job == queue[k]
             later == [job EXCEPT !.due = Ticked(@)]
  <2>1. job \in Job /\ queue'[k] = later
    BY Zenon, <1>1, <1>3
  <2>2. /\ job.msg \in Msg /\ job.done \in SUBSET Nat /\ job.due \in Nat
        /\ job.attempt \in 1 .. MaxAttempts /\ Ticked(job.due) \in Nat
        /\ job = [msg |-> job.msg, done |-> job.done, due |-> job.due, attempt |-> job.attempt]
    BY Zenon, <1>2, <2>1 DEF Job
  <2> HIDE DEF job
  <2>3. /\ later = [msg |-> job.msg, done |-> job.done, due |-> Ticked(job.due),
                    attempt |-> job.attempt]
    BY <2>2
  <2>4. later \in Job /\ later.msg = job.msg /\ later.done = job.done
        /\ later.due = Ticked(job.due)
    BY Zenon, <2>2, <2>3 DEF Job
  <2> QED
    BY Zenon, <2>1, <2>2, <2>4 DEF job
<1>5. /\ DOMAIN queue' = DOMAIN queue /\ queue' \in Seq(Job) /\ Len(queue') = Len(queue)
  <2>1. DOMAIN queue' = 1 .. Len(queue)
    BY Zenon, <1>1, <1>3
  <2>2. queue' = [k \in 1 .. Len(queue) |-> queue'[k]] /\ \A k \in 1 .. Len(queue) : queue'[k] \in Job
    BY Zenon, <1>1, <1>3, <1>4
  <2>3. queue' \in Seq(Job)
    BY <1>3, <2>2, IsASeq
  <2> QED
    BY <1>3, <2>1, <2>3, LenProperties
<1>6. Octets(queue') = Octets(queue)
  BY Zenon, <1>4, <1>5, OctetsSame
<1>7. /\ worker'.pc = worker.pc /\ worker'.job = worker.job /\ worker'.todo = worker.todo
      /\ worker.until \in Nat /\ worker'.until = Ticked(worker.until)
      /\ worker' \in [pc : {"look", "wait", "timedwait", "deliver", "exited"},
                      job : Job \cup {NoJob}, todo : SUBSET Nat, until : Nat]
  BY Zenon, <1>1, <1>2 DEF IndInv, Shape
<1>8. Shape'
  BY Zenon, <1>1, <1>5, <1>7 DEF IndInv, Shape
<1>9. JobsInv'
  <2>1. \A k \in DOMAIN queue' : queue'[k].msg = queue[k].msg /\ queue'[k].done = queue[k].done
    BY Zenon, <1>4, <1>5
  <2>2. \A k \in DOMAIN queue' : /\ queue'[k].msg \in accepted' \ wiped'
                                 /\ queue'[k].done = Settled(outcome', queue'[k].msg)
    BY <1>1, <1>5, <2>1 DEF IndInv, JobsInv
  <2>3. \A j, k \in DOMAIN queue' : queue'[j].msg = queue'[k].msg => j = k
    BY Zenon, <1>5, <2>1 DEF IndInv, JobsInv
  <2>4. \A n \in accepted' \ wiped' : Settled(outcome', n) # All(n) =>
          worker'.job.msg = n \/ \E k \in DOMAIN queue' : queue'[k].msg = n
    BY <1>1, <1>5, <1>7, <2>1 DEF IndInv, JobsInv
  <2>5. worker'.job \in Job =>
          \A k \in DOMAIN queue' : queue'[k].msg # worker'.job.msg
    BY Zenon, <1>5, <1>7, <2>1 DEF IndInv, JobsInv
  <2> QED
    BY <1>1, <1>7, <2>2, <2>3, <2>4, <2>5 DEF IndInv, JobsInv, All
<1>10. CountersInv'
  BY Zenon, <1>1, <1>5, <1>6, <1>7 DEF IndInv, CountersInv
<1>11. CopiesInv'
  BY Zenon, <1>1 DEF IndInv, CopiesInv
<1>12. NobodyOverslept'
  <2>1. \A s, t \in Nat : s <= t => Ticked(s) <= Ticked(t)
    BY DEF Ticked
  <2>2. ASSUME Asleep', NEW k \in DOMAIN queue'
        PROVE  worker'.pc = "timedwait" /\ worker'.until <= queue'[k].due
    <3>1. worker.pc = "timedwait" /\ worker.until <= queue[k].due
      BY Zenon, <1>5, <1>7, <2>2 DEF IndInv, NobodyOverslept, Asleep
    <3> QED
      BY Zenon, <1>4, <1>5, <1>7, <2>1, <3>1
  <2> QED
    BY Zenon, <2>2 DEF NobodyOverslept
<1> QED
  BY Zenon, <1>8, <1>9, <1>10, <1>11, <1>12 DEF IndInv

\* An empty queue.
LEMMA EmptyQueue ==
  /\ <<>> \in Seq(Job) /\ Len(<<>>) = 0 /\ DOMAIN <<>> = {}
  /\ IsFiniteSet(Octets(<<>>)) /\ Cardinality(Octets(<<>>)) = 0
<1>1. <<>> \in Seq(Job) /\ Len(<<>>) = 0 /\ DOMAIN <<>> = {}
  BY EmptySeq
<1>2. Octets(<<>>) = {}
  BY Zenon, <1>1 DEF Octets
<1> QED
  BY Zenon, <1>1, <1>2, FS_EmptySet

\* The death and restart of the daemon keep it.
LEMMA CrashKeeps == IndInv /\ Crash => IndInv'
<1> SUFFICES ASSUME IndInv, Crash PROVE IndInv'
  BY Zenon
<1>1. /\ wiped' = wiped \cup {m \in accepted : \E i \in All(m) : outcome[m][i] = "none"}
      /\ queue' = <<>> /\ njobs' = 0 /\ bytes' = 0 /\ shutdown' = FALSE
      /\ worker' = At("look") /\ loop' = "poll"
      /\ UNCHANGED <<accepted, outcome, copies, lost>>
      /\ faults < MaxFaults /\ faults' = faults + 1
  BY Zenon DEF Crash, Fault
<1>2. NoJob \notin Job /\ worker'.job = NoJob /\ worker'.pc = "look"
  BY Zenon, <1>1, AtShape
<1>3. Shape'
  <2>1. /\ queue' \in Seq(Job) /\ bytes' \in Nat /\ faults' \in 0 .. MaxFaults
        /\ wiped' \subseteq accepted'
    BY <1>1, EmptyQueue, OutboxAssumption DEF IndInv, Shape
  <2> QED
    BY Zenon, <1>1, <1>2, <2>1, AtShape DEF IndInv, Shape
<1>4. JobsInv'
  <2>1. DOMAIN queue' = {}
    BY Zenon, <1>1, EmptyQueue
  <2>2. \A n \in accepted' \ wiped' : Settled(outcome', n) = All(n)
    BY Zenon, <1>1 DEF Settled
  <2>3. \A n \in Msg \ accepted' : Settled(outcome', n) = {}
    BY Zenon, <1>1 DEF IndInv, JobsInv
  <2> QED
    BY Zenon, <1>2, <2>1, <2>2, <2>3 DEF JobsInv, All
<1>5. CountersInv'
  BY <1>1, <1>2, EmptyQueue, OutboxAssumption, SMTT(30) DEF CountersInv
<1>6. CopiesInv'
  BY Zenon, <1>1 DEF IndInv, CopiesInv
<1>7. NobodyOverslept'
  BY Zenon, <1>2 DEF NobodyOverslept, Asleep
<1> QED
  BY Zenon, <1>3, <1>4, <1>5, <1>6, <1>7 DEF IndInv

-----------------------------------------------------------------------------
(* The invariant                                                              *)

\* It holds when the daemon starts.
LEMMA InitInv == Init => IndInv
<1> SUFFICES ASSUME Init PROVE IndInv
  BY Zenon
<1>1. NoJob \notin Job /\ worker.job = NoJob /\ worker.pc = "look"
  BY Zenon, AtShape DEF Init
<1>2. \A n \in Msg : /\ outcome[n] = [i \in All(n) |-> "none"]
                     /\ copies[n] = [i \in All(n) |-> 0] /\ lost[n] = [i \in All(n) |-> 0]
  BY Zenon DEF Init
<1>3. Shape
  <2>1. /\ queue \in Seq(Job) /\ bytes \in Nat /\ faults \in 0 .. MaxFaults
        /\ accepted = {} /\ wiped = {} /\ loop = "poll" /\ shutdown = FALSE
    BY EmptyQueue, OutboxAssumption DEF Init
  <2>2. DOMAIN outcome = Msg /\ DOMAIN copies = Msg /\ DOMAIN lost = Msg
    BY Zenon DEF Init
  <2>3. \A m \in Msg : /\ outcome[m] \in [All(m) -> Outcomes]
                       /\ copies[m] \in [All(m) -> Nat] /\ lost[m] \in [All(m) -> Nat]
    <3> TAKE m \in Msg
    <3>1. "none" \in Outcomes
      BY Zenon DEF Outcomes
    <3>2. [i \in All(m) |-> "none"] \in [All(m) -> Outcomes]
      BY Zenon, <3>1
    <3>3. [i \in All(m) |-> 0] \in [All(m) -> Nat]
      BY Zenon
    <3> QED
      BY Zenon, <1>2, <3>2, <3>3
  <2> QED
    BY Zenon, <1>1, <2>1, <2>2, <2>3, AtShape DEF Shape, Init
<1>4. JobsInv
  <2>1. DOMAIN queue = {} /\ accepted = {}
    BY Zenon, EmptyQueue DEF Init
  <2>2. \A n \in Msg : Settled(outcome, n) = {}
    BY Zenon, <1>2 DEF Settled
  <2> QED
    BY Zenon, <1>1, <2>1, <2>2 DEF JobsInv
<1>5. CountersInv
  BY <1>1, EmptyQueue, OutboxAssumption DEF CountersInv, Init
<1>6. CopiesInv
  <2>1. \A m \in Msg : \A i \in All(m) : copies[m][i] = 0 /\ lost[m][i] = 0
    BY <1>2
  <2> QED
    BY <2>1 DEF CopiesInv
<1>7. NobodyOverslept
  BY Zenon, <1>1 DEF NobodyOverslept, Asleep
<1> QED
  BY Zenon, <1>3, <1>4, <1>5, <1>6, <1>7 DEF IndInv

\* Every step keeps it.
LEMMA NextKeeps == IndInv /\ [Next]_vars => IndInv'
<1> SUFFICES ASSUME IndInv, [Next]_vars PROVE IndInv'
  BY Zenon
<1>1. ASSUME NEW m \in Msg, DeliverMessage(m) PROVE IndInv'
  BY Zenon, <1>1, DeliverMessageKeeps
<1>2. CASE Stop \/ Join \/ Tick \/ Crash
  BY Zenon, <1>2, StopKeeps, JoinKeeps, TickKeeps, CrashKeeps
<1>3. CASE Worker
  BY Zenon, <1>3, TakeKeeps, RestKeeps, WakeKeeps, DeliverKeeps, FinishKeeps DEF Worker
<1>4. CASE UNCHANGED vars
  <2>1. UNCHANGED <<queue, njobs, bytes, shutdown, worker, loop, accepted, outcome,
                    copies, lost, wiped, faults>>
    BY Zenon, <1>4 DEF vars
  <2>2. JobsInv' /\ CountersInv' /\ CopiesInv'
    BY Zenon, <2>1, WorkerTurns
  <2>3. Shape'
    BY Zenon, <2>1 DEF IndInv, Shape, All
  <2>4. NobodyOverslept'
    BY Zenon, <2>1 DEF IndInv, NobodyOverslept, Asleep
  <2> QED
    BY Zenon, <2>2, <2>3, <2>4 DEF IndInv
<1> QED
  BY Zenon, <1>1, <1>2, <1>3, <1>4 DEF Next

\* The inductive invariant holds in every reachable state of the outbox daemon.
THEOREM Invariance == Spec => []IndInv
<1>1. Init => IndInv
  BY Zenon, InitInv
<1>2. IndInv /\ [Next]_vars => IndInv'
  BY Zenon, NextKeeps
<1> QED
  BY <1>1, <1>2, PTL DEF Spec

\* What outbox_submit.c and outbox_deliver.c keep at every moment, for any
\* messages, sizes, caps and number of attempts: an accepted message that no
\* crash wiped out is in one place until every recipient is settled, njobs and
\* bytes are exact and pass the caps by at most the job in the worker's hands,
\* a recipient gets one copy and one more per lost reply, and the worker never
\* sleeps past a due job.
THEOREM QueueIsSound == Spec => []QueueSound
<1>1. IndInv => QueueSound
  <2> SUFFICES ASSUME IndInv PROVE QueueSound
    BY Zenon
  <2>1. /\ NoJob \notin Job /\ worker.job \in Job \cup {NoJob} /\ NoJob.msg = "none"
        /\ Len(queue) \in Nat /\ DOMAIN queue = 1 .. Len(queue)
        /\ \A k \in DOMAIN queue : queue[k] \in Job
    BY Zenon, AtShape, QueueShape DEF IndInv, Shape, NoJob
  <2>2. \A job \in Jobs : /\ job \in Job /\ job.msg \in accepted \ wiped
                          /\ job.done = Settled(outcome, job.msg)
    <3>1. \A k \in DOMAIN queue : /\ queue[k].msg \in accepted \ wiped
                                  /\ queue[k].done = Settled(outcome, queue[k].msg)
      BY Zenon DEF IndInv, JobsInv
    <3>2. worker.job \in Job => /\ worker.job.msg \in accepted \ wiped
                                /\ worker.job.done = Settled(outcome, worker.job.msg)
      BY Zenon DEF IndInv, JobsInv
    <3> QED
      BY Zenon, <2>1, <3>1, <3>2 DEF Jobs
  <2>3. TypeOK
    <3>1. \A job \in Jobs : /\ job.msg \in Msg /\ job.done \subseteq All(job.msg)
                            /\ job.due \in Nat /\ job.attempt \in 1 .. MaxAttempts
      BY Zenon, <2>2 DEF Job, Settled
    <3>2. njobs \in Nat
      BY Zenon, <2>1 DEF IndInv, CountersInv
    <3> QED
      BY Zenon, <3>1, <3>2 DEF TypeOK, IndInv, Shape, Outcomes
  <2>4. Kept
    <3> SUFFICES ASSUME NEW m \in accepted \ wiped
                 PROVE  LET places == {k \in DOMAIN queue : queue[k].msg = m} \cup
                                      (IF worker.job.msg = m THEN {0} ELSE {})
                            done   == {i \in All(m) : outcome[m][i] # "none"}
                        IN  /\ done # All(m) => places # {}
                            /\ Cardinality(places) <= 1
                            /\ \A job \in Jobs : job.msg = m => job.done = done
      BY Zenon DEF Kept
    <3> DEFINE here   == {k \in DOMAIN queue : queue[k].msg = m}
               places == here \cup (IF worker.job.msg = m THEN {0} ELSE {})
               done   == {i \in All(m) : outcome[m][i] # "none"}
    <3>1. done = Settled(outcome, m)
      BY Zenon DEF Settled
    <3>2. done # All(m) => places # {}
      BY Zenon, <3>1 DEF IndInv, JobsInv
    <3>3. \A x, y \in places : x = y
      <4>1. \A j, k \in here : j = k
        BY Zenon DEF IndInv, JobsInv
      <4>2. worker.job.msg = m => here = {}
        <5>1. worker.job.msg = m => worker.job \in Job
          BY Zenon, <2>1, OutboxAssumption DEF IndInv, Shape
        <5> QED
          BY <5>1 DEF IndInv, JobsInv
      <4> HIDE DEF here
      <4> QED
        BY Zenon, <4>1, <4>2
    <3>4. Cardinality(places) <= 1
      <4> HIDE DEF places
      <4>1. CASE places = {}
        BY <4>1, FS_EmptySet
      <4>2. CASE places # {}
        <5>1. PICK x : places = {x}
          BY <3>3, <4>2
        <5> QED
          BY <5>1, FS_Singleton
      <4> QED
        BY Zenon, <4>1, <4>2
    <3>5. \A job \in Jobs : job.msg = m => job.done = done
      BY Zenon, <2>2, <3>1
    <3> QED
      BY Zenon, <3>2, <3>4, <3>5
  <2>5. CapsHold
    <3>1. worker.job # NoJob <=> worker.job \in Job
      BY Zenon, <2>1
    <3>2. bytes <= MaxBytes \/ \E m \in Msg : bytes <= MaxBytes + Size[m]
      <4>1. bytes \in Nat /\ (worker.job \in Job => Size[worker.job.msg] \in Nat)
        BY Zenon, OutboxAssumption DEF IndInv, Shape, Job
      <4> QED
        BY <4>1, OutboxAssumption, SMTT(30) DEF IndInv, CountersInv
    <3> QED
      BY Zenon, <3>1, <3>2 DEF IndInv, CountersInv, CapsHold
  <2>6. OneCopy
    <3>1. \A m \in Msg : \A i \in All(m) : copies[m][i] \in Nat /\ lost[m][i] \in Nat
      BY Zenon DEF IndInv, Shape
    <3>2. \A m \in Msg : \A i \in All(m) :
            copies[m][i] <= lost[m][i] + (IF outcome[m][i] = "none" THEN 0 ELSE 1)
      BY Zenon DEF IndInv, CopiesInv
    <3> QED
      BY <3>1, <3>2, SMTT(30) DEF OneCopy
  <2> QED
    BY Zenon, <2>3, <2>4, <2>5, <2>6 DEF QueueSound, IndInv
<1> QED
  BY <1>1, Invariance, PTL
=============================================================================
