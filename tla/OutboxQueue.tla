---------------------------- MODULE OutboxQueue ----------------------------
(***************************************************************************)
(* The outbox daemon after DATA (outbox_submit.c, outbox_deliver.c): the   *)
(* poll loop appends an accepted message to a queue in memory; one worker  *)
(* thread takes the first job that is due, tries each recipient once, and  *)
(* appends the job again with a later due time as long as a recipient can  *)
(* be retried.  A clean stop drains the queue.                             *)
(*                                                                         *)
(* Due times count down here: a job is due when its time is 0.  The audit  *)
(* copy in the spool is written before the message is queued and never     *)
(* read again, so it is no part of the state.                              *)
(***************************************************************************)
EXTENDS Integers, Sequences, FiniteSets, FiniteSetsExt

CONSTANTS
  Msg,         \* messages
  Rcpts,       \* Msg -> the number of its recipients
  Size,        \* Msg -> its length
  MaxJobs,     \* q->max_jobs
  MaxBytes,    \* q->max_bytes
  MaxAttempts, \* cfg.max_attempts
  MaxFaults    \* bound: crashes and replies of a host that get lost

ASSUME OutboxAssumption ==
  /\ "none" \notin Msg
  /\ Rcpts \in [Msg -> Nat \ {0}] /\ Size \in [Msg -> Nat \ {0}]
  /\ MaxJobs \in Nat \ {0} /\ MaxBytes \in Nat \ {0}
  /\ MaxAttempts \in Nat \ {0} /\ MaxFaults \in Nat

VARIABLES
  queue,    \* the jobs, head first
  njobs,    \* q->njobs
  bytes,    \* q->bytes
  shutdown, \* q->shutdown
  worker,   \* the worker thread: its job, whom it has yet to try, its sleep
  loop,     \* the main thread: the poll loop, the drain, the end
  accepted, \* messages the client was told 250 for
  outcome,  \* Msg -> recipient -> how delivery ended
  copies,   \* observer: how often a recipient's host took the message
  lost,     \* observer: how often it did and its reply got lost
  wiped,    \* observer: accepted messages a crash took out of memory
  faults    \* what has been spent of MaxFaults

vars == <<queue, njobs, bytes, shutdown, worker, loop, accepted, outcome,
          copies, lost, wiped, faults>>
jobs == <<queue, njobs, bytes, shutdown>>
seen == <<copies, lost, wiped, faults>>

All(m)  == 1 .. Rcpts[m]
NoJob   == [msg |-> "none", done |-> {}, due |-> 0, attempt |-> 0]
At(pc)  == [pc |-> pc, job |-> NoJob, todo |-> {}, until |-> 0]
Asleep  == worker.pc \in {"wait", "timedwait"}
Fault   == faults < MaxFaults /\ faults' = faults + 1

\* smtp_backoff_sec
Doubling == <<1, 2, 4, 8, 16, 32, 64, 128, 256, 512, 1024, 2048>>
Backoff(attempt) == IF attempt > 12 THEN 3600 ELSE Doubling[attempt]

-----------------------------------------------------------------------------
(* The main thread                                                          *)

\* outbox_delivery_enqueue: a job that fits under the caps is appended, due at
\* once, and a waiting worker is signalled.
Enqueue(m) ==
  /\ njobs < MaxJobs /\ bytes + Size[m] <= MaxBytes
  /\ queue' = Append(queue, [msg |-> m, done |-> {}, due |-> 0, attempt |-> 1])
  /\ njobs' = njobs + 1 /\ bytes' = bytes + Size[m]
  /\ worker' = IF Asleep THEN At("look") ELSE worker

\* deliver_message, for a message that is answered 250.  One that is answered
\* 4xx or 5xx (a malformed one, one that does not fit, no memory) leaves
\* everything as it is and may be submitted again.
DeliverMessage(m) ==
  /\ loop = "poll" /\ m \notin accepted
  /\ Enqueue(m)
  /\ accepted' = accepted \cup {m}
  /\ UNCHANGED <<shutdown, loop, outcome, seen>>

BugNoBroadcast ==
  /\ loop = "poll" /\ loop' = "drain" /\ shutdown' = TRUE
  /\ UNCHANGED <<queue, njobs, bytes, worker, accepted, outcome, seen>>

\* The signal ends the poll loop; outbox_delivery_shutdown wakes the worker.
Stop ==
  /\ loop = "poll" /\ loop' = "drain" /\ shutdown' = TRUE
  /\ worker' = IF Asleep THEN At("look") ELSE worker
  /\ UNCHANGED <<queue, njobs, bytes, accepted, outcome, seen>>

\* pthread_join returns.
Join ==
  /\ loop = "drain" /\ worker.pc = "exited" /\ loop' = "ended"
  /\ UNCHANGED <<jobs, worker, accepted, outcome, seen>>

-----------------------------------------------------------------------------
(* The worker thread                                                        *)

BugExhausted(job) == job.attempt > MaxAttempts

\* No further attempt is made for a recipient that fails for now.
Exhausted(job) == job.attempt >= MaxAttempts

\* Once the daemon stops every job is due.
IsDue(job) == shutdown \/ job.due = 0

BugNextDue == Max({queue[k].due : k \in DOMAIN queue})

\* How long the worker sleeps when jobs are queued and none is due.
NextDue == Min({queue[k].due : k \in DOMAIN queue})

\* The list of jobs without the one at place k.
Unlinked(q, k) == SubSeq(q, 1, k - 1) \o SubSeq(q, k + 1, Len(q))

BugForgetDone ==
  LET due == {k \in DOMAIN queue : IsDue(queue[k])}
  IN  /\ worker.pc = "look" /\ due # {}
      /\ LET job == queue[Min(due)]
         IN  /\ queue' = Unlinked(queue, Min(due))
             /\ njobs' = njobs - 1 /\ bytes' = bytes - Size[job.msg]
             /\ worker' = [At("deliver") EXCEPT !.job = job,
                                                !.todo = All(job.msg)]
      /\ UNCHANGED <<shutdown, loop, accepted, outcome, seen>>

\* The first job that is due leaves the queue.
Take ==
  LET due == {k \in DOMAIN queue : IsDue(queue[k])}
  IN  /\ worker.pc = "look" /\ due # {}
      /\ LET job == queue[Min(due)]
         IN  /\ queue' = Unlinked(queue, Min(due))
             /\ njobs' = njobs - 1 /\ bytes' = bytes - Size[job.msg]
             /\ worker' = [At("deliver") EXCEPT !.job = job,
                                                !.todo = All(job.msg) \ job.done]
      /\ UNCHANGED <<shutdown, loop, accepted, outcome, seen>>

\* No job is due: the worker sleeps until the next one is, until it is woken
\* if there is none, or ends if there will be none.
Rest ==
  /\ worker.pc = "look" /\ \A k \in DOMAIN queue : ~IsDue(queue[k])
  /\ worker' = IF queue # <<>> THEN [At("timedwait") EXCEPT !.until = NextDue]
               ELSE IF shutdown THEN At("exited") ELSE At("wait")
  /\ UNCHANGED <<jobs, loop, accepted, outcome, seen>>

\* pthread_cond_timedwait runs out.
Wake ==
  /\ worker.pc = "timedwait" /\ worker.until = 0
  /\ worker' = At("look")
  /\ UNCHANGED <<jobs, loop, accepted, outcome, seen>>

\* One recipient of job_deliver.  Its host takes the message, refuses it for
\* good or for now, or takes it and the reply gets lost; no route counts as a
\* refusal.  Temporary failures are retried until the attempts are used up
\* ("dropped": after an attempt that a stop made before its time).
Deliver ==
  LET job == worker.job
      m   == job.msg
      i   == Min(worker.todo)
      Ends(how) ==
        /\ outcome' = [outcome EXCEPT ![m][i] = how]
        /\ worker' = [worker EXCEPT !.todo = @ \ {i}, !.job.done = @ \cup {i}]
      Fails ==
        IF Exhausted(job)
        THEN Ends(IF job.due = 0 THEN "gave up" ELSE "dropped")
        ELSE worker' = [worker EXCEPT !.todo = @ \ {i}] /\ UNCHANGED outcome
      Took == copies' = [copies EXCEPT ![m][i] = @ + 1]
  IN  /\ worker.pc = "deliver" /\ worker.todo # {}
      /\ \/ Ends("sent") /\ Took /\ UNCHANGED <<lost, faults>>
         \/ Ends("refused") /\ UNCHANGED <<copies, lost, faults>>
         \/ Fails /\ UNCHANGED <<copies, lost, faults>>
         \/ Fails /\ Took /\ lost' = [lost EXCEPT ![m][i] = @ + 1] /\ Fault
      /\ UNCHANGED <<jobs, loop, accepted, wiped>>

BugDropAtCap ==
  LET job == worker.job
      retry == job.done # All(job.msg) /\ njobs < MaxJobs
  IN  /\ worker.pc = "deliver" /\ worker.todo = {}
      /\ worker' = At("look")
      /\ IF retry
         THEN /\ queue' = Append(queue, [job EXCEPT
                            !.attempt = @ + 1, !.due = Backoff(job.attempt + 1)])
              /\ njobs' = njobs + 1 /\ bytes' = bytes + Size[job.msg]
         ELSE UNCHANGED <<queue, njobs, bytes>>
      /\ UNCHANGED <<shutdown, loop, accepted, outcome, seen>>

BugUncounted ==
  LET job == worker.job
  IN  /\ worker.pc = "deliver" /\ worker.todo = {}
      /\ worker' = At("look")
      /\ IF job.done # All(job.msg)
         THEN queue' = Append(queue, [job EXCEPT
                            !.attempt = @ + 1, !.due = Backoff(job.attempt + 1)])
         ELSE UNCHANGED queue
      /\ UNCHANGED <<njobs, bytes, shutdown, loop, accepted, outcome, seen>>

BugSameAttempt ==
  LET job == worker.job
  IN  /\ worker.pc = "deliver" /\ worker.todo = {}
      /\ worker' = At("look")
      /\ IF job.done # All(job.msg)
         THEN /\ queue' = Append(queue, [job EXCEPT !.due = Backoff(job.attempt)])
              /\ njobs' = njobs + 1 /\ bytes' = bytes + Size[job.msg]
         ELSE UNCHANGED <<queue, njobs, bytes>>
      /\ UNCHANGED <<shutdown, loop, accepted, outcome, seen>>

\* The end of job_deliver, and queue_reappend, which ignores the caps.
Finish ==
  LET job == worker.job
  IN  /\ worker.pc = "deliver" /\ worker.todo = {}
      /\ worker' = At("look")
      /\ IF job.done # All(job.msg)
         THEN /\ queue' = Append(queue, [job EXCEPT
                            !.attempt = @ + 1, !.due = Backoff(job.attempt + 1)])
              /\ njobs' = njobs + 1 /\ bytes' = bytes + Size[job.msg]
         ELSE UNCHANGED <<queue, njobs, bytes>>
      /\ UNCHANGED <<shutdown, loop, accepted, outcome, seen>>

Worker == Take \/ Rest \/ Wake \/ Deliver \/ Finish

-----------------------------------------------------------------------------
Ticked(t) == IF t = 0 THEN 0 ELSE t - 1

\* A second passes.
Tick ==
  /\ \E k \in DOMAIN queue : queue[k].due > 0
  /\ queue' = [k \in DOMAIN queue |-> [queue[k] EXCEPT !.due = Ticked(@)]]
  /\ worker' = [worker EXCEPT !.until = Ticked(@)]
  /\ UNCHANGED <<njobs, bytes, shutdown, loop, accepted, outcome, seen>>

\* The daemon dies and starts again with an empty queue.
Crash ==
  /\ loop # "ended" /\ Fault
  /\ wiped' = wiped \cup {m \in accepted : \E i \in All(m) : outcome[m][i] = "none"}
  /\ queue' = <<>> /\ njobs' = 0 /\ bytes' = 0 /\ shutdown' = FALSE
  /\ worker' = At("look") /\ loop' = "poll"
  /\ UNCHANGED <<accepted, outcome, copies, lost>>

Init ==
  /\ queue = <<>> /\ njobs = 0 /\ bytes = 0 /\ shutdown = FALSE
  /\ worker = At("look") /\ loop = "poll" /\ accepted = {}
  /\ outcome = [m \in Msg |-> [i \in All(m) |-> "none"]]
  /\ copies = [m \in Msg |-> [i \in All(m) |-> 0]] /\ lost = copies
  /\ wiped = {} /\ faults = 0

Next == (\E m \in Msg : DeliverMessage(m)) \/ Stop \/ Join \/ Worker \/ Tick \/ Crash

Spec == Init /\ [][Next]_vars

\* The worker thread runs, the clock goes on, and the join returns.
FairSpec == Spec /\ WF_vars(Worker) /\ WF_vars(Tick) /\ WF_vars(Join)

-----------------------------------------------------------------------------
(* Properties                                                               *)

Jobs == {queue[k] : k \in DOMAIN queue} \cup
        (IF worker.job = NoJob THEN {} ELSE {worker.job})

\* The state has the shape of the C structures.
TypeOK ==
  /\ \A job \in Jobs : /\ job.msg \in Msg /\ job.done \subseteq All(job.msg)
                       /\ job.due \in Nat /\ job.attempt \in 1 .. MaxAttempts
  /\ njobs \in Nat /\ bytes \in Nat /\ shutdown \in BOOLEAN
  /\ worker.pc \in {"look", "wait", "timedwait", "deliver", "exited"}
  /\ worker.until \in Nat
  /\ loop \in {"poll", "drain", "ended"}
  /\ accepted \cup wiped \subseteq Msg
  /\ \A m \in Msg : outcome[m] \in [All(m) -> {"none", "sent", "refused",
                                               "gave up", "dropped"}]
  /\ faults \in 0 .. MaxFaults

\* An accepted message that no crash wiped out is in the queue or in the
\* worker's hands, in one place only, until every recipient is settled, and its
\* marks say who is (rcpt_done, queue_reappend).
Kept ==
  \A m \in accepted \ wiped :
    LET places == {k \in DOMAIN queue : queue[k].msg = m} \cup
                  (IF worker.job.msg = m THEN {0} ELSE {})
        done   == {i \in All(m) : outcome[m][i] # "none"}
    IN  /\ done # All(m) => places # {}
        /\ Cardinality(places) <= 1
        /\ \A job \in Jobs : job.msg = m => job.done = done

\* The bytes of the messages in a queue, one by one.
Octets(q) == UNION {{k} \X (1 .. Size[q[k].msg]) : k \in DOMAIN q}

\* njobs and bytes are exact, and the caps are passed by no more than the one
\* job the worker may bring back.
CapsHold ==
  LET out == worker.job # NoJob
  IN  /\ njobs = Len(queue) /\ njobs + (IF out THEN 1 ELSE 0) <= MaxJobs + 1
      /\ bytes = Cardinality(Octets(queue))
      /\ bytes <= MaxBytes \/ \E m \in Msg : bytes <= MaxBytes + Size[m]

\* A recipient's host is given the message until it says it has it (rcpt_done):
\* one copy, and one more for every reply that got lost.
OneCopy ==
  \A m \in Msg : \A i \in All(m) : copies[m][i] <= 1 + lost[m][i]

\* The worker never sleeps past the time of a queued job: no append and no
\* passing of time leaves it waiting on the condition with a job that is due
\* earlier (outbox_delivery_worker, the signal in outbox_delivery_enqueue).
NobodyOverslept ==
  Asleep => \A k \in DOMAIN queue :
              worker.pc = "timedwait" /\ worker.until <= queue[k].due

\* The queue at every moment: accepted mail is in one place, the counters are
\* exact, nobody gets a needless copy and no due job is slept over
\* (outbox_delivery_enqueue, outbox_delivery_worker, job_deliver).
QueueSound == TypeOK /\ Kept /\ CapsHold /\ OneCopy /\ NobodyOverslept

\* Every recipient of an accepted message is settled in the end: each retry
\* comes, and there are max_attempts of them (job_deliver).
EventuallySettled ==
  \A m \in Msg : m \in accepted ~>
    m \in wiped \/ \A i \in All(m) : outcome[m][i] # "none"

\* A clean stop comes to its end, unless the daemon dies on the way: the worker
\* notices shutdown, drains and exits, and pthread_join returns (outbox_main).
StopEnds == loop = "drain" ~> loop # "drain"

\* The work of the worker ends: that of a message and that of a stop.
WorkEnds == EventuallySettled /\ StopEnds

-----------------------------------------------------------------------------
(* The inductive invariant                                                  *)

Job           == [msg : Msg, done : SUBSET Nat, due : Nat, attempt : 1 .. MaxAttempts]
Outcomes      == {"none", "sent", "refused", "gave up", "dropped"}
Settled(o, m) == {i \in All(m) : o[m][i] # "none"}

Shape ==
  /\ queue \in Seq(Job) /\ bytes \in Nat /\ shutdown \in BOOLEAN
  /\ worker \in [pc : {"look", "wait", "timedwait", "deliver", "exited"},
                 job : Job \cup {NoJob}, todo : SUBSET Nat, until : Nat]
  /\ worker.pc = "deliver" <=> worker.job \in Job
  /\ loop \in {"poll", "drain", "ended"}
  /\ accepted \subseteq Msg /\ wiped \subseteq accepted
  /\ DOMAIN outcome = Msg /\ DOMAIN copies = Msg /\ DOMAIN lost = Msg
  /\ \A m \in Msg : /\ outcome[m] \in [All(m) -> Outcomes]
                    /\ copies[m] \in [All(m) -> Nat] /\ lost[m] \in [All(m) -> Nat]
  /\ faults \in 0 .. MaxFaults

\* Every job belongs to a message that was accepted and not wiped out, and is
\* its only one; its marks are the outcomes on record, and a recipient whose
\* last attempt is under way or to come is still to be tried.
JobsInv ==
  /\ \A k \in DOMAIN queue : /\ queue[k].msg \in accepted \ wiped
                             /\ queue[k].done = Settled(outcome, queue[k].msg)
  /\ \A j, k \in DOMAIN queue : queue[j].msg = queue[k].msg => j = k
  /\ worker.job \in Job =>
       /\ worker.job.msg \in accepted \ wiped
       /\ worker.job.done = Settled(outcome, worker.job.msg)
       /\ \A k \in DOMAIN queue : queue[k].msg # worker.job.msg
       /\ worker.todo \subseteq All(worker.job.msg) \ worker.job.done
       /\ worker.job.attempt = MaxAttempts =>
            All(worker.job.msg) \ worker.job.done \subseteq worker.todo
  /\ \A m \in Msg \ accepted : Settled(outcome, m) = {}
  /\ \A m \in accepted \ wiped : Settled(outcome, m) # All(m) =>
       worker.job.msg = m \/ \E k \in DOMAIN queue : queue[k].msg = m

\* The counters, with the job in the worker's hands.
CountersInv ==
  LET inHand == IF worker.job \in Job THEN Size[worker.job.msg] ELSE 0
  IN  /\ njobs = Len(queue)
      /\ njobs + (IF worker.job \in Job THEN 1 ELSE 0) <= MaxJobs + 1
      /\ IsFiniteSet(Octets(queue)) /\ bytes = Cardinality(Octets(queue))
      /\ \/ bytes + inHand <= MaxBytes
         \/ \E m \in Msg : bytes + inHand <= MaxBytes + Size[m]

\* A copy is in the hands of a host that settled the recipient, or its reply
\* got lost.
CopiesInv ==
  \A m \in Msg : \A i \in All(m) :
    copies[m][i] <= lost[m][i] + (IF outcome[m][i] = "none" THEN 0 ELSE 1)

IndInv == Shape /\ JobsInv /\ CountersInv /\ CopiesInv /\ NobodyOverslept
=============================================================================
