--------------------------- MODULE DeliveryQueue ---------------------------
(***************************************************************************)
(* The durable outbound queue of the visage daemon: the queue relation of  *)
(* store.c, the spool directory, and the single-threaded poll loop of      *)
(* smtp_in.c that accepts messages, re-drives due deliveries, collects old *)
(* spool bodies and answers the admin endpoint /replay.                    *)
(*                                                                         *)
(* The daemon is one thread, so its handlers never interleave with each    *)
(* other.  What they interleave with is a crash: every store fact, spool   *)
(* file and relay hand-off is durable on its own.  A handler is therefore  *)
(* cut into one action per durable step, with pc naming the next one.      *)
(***************************************************************************)
EXTENDS Integers, FiniteSets, FiniteSetsExt

CONSTANTS
  MaxMsgid,       \* largest message id (2^32 - 1 in the code)
  MaxDests,       \* bound: destinations of one message
  RelayAttempts,  \* relay.max_attempts
  ReplyAttempts,  \* reply_relay.max_attempts
  Batch,          \* SMTP_IN_REDRIVE_BATCH
  MetaMaxRows,    \* META_MAX_ROWS: counter rows that one call reads
  SetMaxRows,     \* QUEUE_SET_MAX_ROWS: rows of a delivery that one call reads
  MaxTime,        \* bound: the clock saturates here
  MaxFaults,      \* bound: crashes, store failures and lost relay replies
  MaxReplays,     \* bound: /replay requests
  StoreErrors     \* whether a store or file call may fail without a crash

ASSUME BoundsAssumption ==
  /\ MaxMsgid \in Nat /\ MaxDests \in Nat /\ Batch \in Nat \ {0}
  /\ RelayAttempts \in Nat /\ ReplyAttempts \in Nat
  /\ MaxTime \in Nat /\ MetaMaxRows \in Nat \ {0} /\ SetMaxRows \in Nat \ {0}
  /\ MaxFaults \in Nat /\ MaxReplays \in Nat
  /\ StoreErrors \in BOOLEAN

VARIABLES
  meta,            \* values of the next_msgid rows
  rows,            \* the queue relation: the rows of each (msgid, k)
  spool,           \* (msgid, k) whose <msgid>.<k>.out.eml exists
  next_due,        \* Store.next_due
  next_due_dirty,  \* Store.next_due_dirty
  reply_rows,      \* Server.reply_rows: marks of reply deliveries
  pc,              \* next durable step of the daemon, or "down"
  job,             \* the message being accepted (deliver_message)
  batch,           \* due rows collected by queue_redrive, not yet driven
  cur,             \* the delivery in queue_deliver_one
  now,             \* the clock, in seconds
  faults, replays, \* what has been used of the two bounds
  acked,           \* observer: deliveries of messages answered 250
  replies,         \* observer: replies enqueued since the daemon started
  handoffs,        \* observer: times the relay took each delivery
  bounced          \* observer: deliveries given up for good

store    == <<meta, rows, next_due, next_due_dirty>>
observed == <<acked, replies, handoffs, bounced>>
vars     == <<meta, rows, spool, next_due, next_due_dirty, reply_rows, pc, job,
              batch, cur, now, faults, replays, acked, replies, handoffs,
              bounced>>

-----------------------------------------------------------------------------
(* Queue rows.  from and to never change, so a row is what is left.        *)

Key    == (1 .. MaxMsgid) \X (0 .. MaxDests - 1)
Status == {"queued", "delivering", "delivered", "permfail"}
Row    == [attempts : Nat, next_ts : Nat, status : Status]
Item   == [key : Key, attempts : Nat, next_ts : Nat]
Route  == {"relay", "reply_relay"}

QRow(s, a, t) == [attempts |-> a, next_ts |-> t, status |-> s]

\* smtp_backoff_sec: 1, 2, 4, ... seconds, an hour from the 13th on.
Doubling   == <<1, 2, 4, 8, 16, 32, 64, 128, 256, 512, 1024, 2048>>
Backoff(n) == IF n > 12 THEN 3600 ELSE Doubling[n]

\* The time n attempts after t.  MaxTime stands for every later time.
RetryAt(t, n) == IF t + Backoff(n) < MaxTime THEN t + Backoff(n) ELSE MaxTime

\* UINT32_MAX as "nothing queued": later than every next_ts.
Never == MaxTime + 1

Max_attempts(r) == IF r = "reply_relay" THEN ReplyAttempts ELSE RelayAttempts

IsActive(r) == r.status \in {"queued", "delivering"}

\* Faulty variant: the answer of whichever row comes first.
BugFirstRowStatus(rs) == IF rs = {} THEN "none"
                         ELSE IF \E r \in rs : ~IsActive(r) THEN "terminal"
                         ELSE "active"

\* store_queue_status: any active row makes the delivery active; "none" when
\* it has no row.  The row that answers for a terminal delivery is immaterial.
QueueStatus(rs) == IF rs = {} THEN "none"
                   ELSE IF \E r \in rs : IsActive(r) THEN "active"
                   ELSE "terminal"

Active(k) == \E r \in rows[k] : IsActive(r)

\* meta_read_cb, queue_read_cb: a call reads at most max of the rows it finds.
\* Which ones it misses is up to the order of the walk.
Unread(rs, max) ==
  IF Cardinality(rs) <= max THEN {{}}
  ELSE {u \in SUBSET rs : Cardinality(u) = Cardinality(rs) - max}
Missed(k) == Unread(rows[k], SetMaxRows)

\* Faulty variant: delete the old rows, then add the new one.
BugDeleteFirst(old, row) == {{row}} \cup (SUBSET old \ {old})

\* store_queue_set_status on a delivery whose rows it read as old: the new row is
\* added first and the old ones deleted after it, each on its own.  {row} is
\* the complete transition; the other results keep rows whose delete failed
\* or was cut off by a crash.
SetStatus(old, row) == {kept \cup {row} : kept \in SUBSET old}

\* The times of the queued rows of a relation.
QueuedTs(rel) == UNION {{r.next_ts : r \in {q \in rel[k] : q.status = "queued"}} :
                          k \in Key}

\* store_queue_next_due without its cache.
ScanNextDue(rel) == IF QueuedTs(rel) = {} THEN Never ELSE Min(QueuedTs(rel))

\* Faulty variant: the cache is never refreshed.
BugStaleNextDue == next_due

\* store_queue_next_due: the cache unless it is dirty.
NextDue == IF next_due_dirty THEN ScanNextDue(rows) ELSE next_due

KeyBefore(j, k) == j[1] < k[1] \/ (j[1] = k[1] /\ j[2] < k[2])

\* The order in which a walk meets the rows of the relation.
ItemBefore(i, j) ==
  \/ KeyBefore(i.key, j.key)
  \/ i.key = j.key /\ i.attempts < j.attempts
  \/ i.key = j.key /\ i.attempts = j.attempts /\ i.next_ts < j.next_ts

\* store_queue_due: the queued rows whose time has come.
Due == UNION {{[key |-> k, attempts |-> r.attempts, next_ts |-> r.next_ts] :
                 r \in {q \in rows[k] : q.status = "queued" /\ q.next_ts <= now}} :
                k \in Key}

\* Faulty variants: no wrap to 0; a count of the rows for their maximum.
BugNoWrapMsgid(seen) == Max(seen \cup {0}) + 1
BugCountMsgid(seen)  == IF Cardinality(seen) = MaxMsgid THEN 0 ELSE Cardinality(seen) + 1

\* store_next_msgid: one more than the largest counter row it has seen; 0 on wrap.
NextMsgid(seen) == LET last == Max(seen \cup {0}) IN
                   IF last = MaxMsgid THEN 0 ELSE last + 1

NoJob == [id |-> 0, k |-> 0, n |-> 0, reply |-> {}, failed |-> FALSE]
NoCur == [key |-> <<0, 0>>, attempts |-> 0, t |-> 0, route |-> "relay",
          verdict |-> "none"]

Init ==
  /\ meta = {} /\ rows = [k \in Key |-> {}] /\ spool = {}
  /\ next_due = Never /\ next_due_dirty = TRUE
  /\ reply_rows = {} /\ pc = "down"
  /\ job = NoJob /\ batch = {} /\ cur = NoCur
  /\ now = 0 /\ faults = 0 /\ replays = 0
  /\ acked = {} /\ replies = {}
  /\ handoffs = [k \in Key |-> 0] /\ bounced = {}

-----------------------------------------------------------------------------
(* Faults.  A step that went wrong uses one of MaxFaults; the daemon goes  *)
(* on after it only where a call may fail without taking the process down. *)

Goes(next) == pc' = next /\ faults' = faults

Faulty(next) == /\ faults < MaxFaults
                /\ faults' = faults + 1
                /\ pc' \in IF StoreErrors THEN {next, "down"} ELSE {"down"}

Refused(next) == /\ StoreErrors /\ faults < MaxFaults
                 /\ faults' = faults + 1
                 /\ pc' = next

Ends(clean, next) == IF clean THEN Goes(next) ELSE Faulty(next)

\* Faulty variant: the cached next_due is not invalidated.
BugCleanTransition(k, row, next) ==
  /\ rows[k] # {}
  /\ \E u \in Missed(k) : \E new \in SetStatus(rows[k] \ u, row) :
        /\ rows' = [rows EXCEPT ![k] = u \cup new]
        /\ Ends(new = {row}, next)
  /\ UNCHANGED <<next_due, next_due_dirty, meta>>

\* store_queue_set_status(k, row), then on to next.
Transition(k, row, next) ==
  /\ rows[k] # {}
  /\ \E u \in Missed(k) : \E new \in SetStatus(rows[k] \ u, row) :
        /\ rows' = [rows EXCEPT ![k] = u \cup new]
        /\ Ends(new = {row}, next)
  /\ next_due_dirty' = TRUE
  /\ UNCHANGED <<next_due, meta>>

\* store_queue_set_status that could not add its row.
TransitionFails(next) ==
  /\ Refused(next)
  /\ next_due_dirty' = TRUE
  /\ UNCHANGED <<rows, next_due, meta>>

-----------------------------------------------------------------------------
(* One delivery attempt: queue_deliver_one                                  *)

\* Where queue_deliver_one returns to.
Return == IF job.id # 0 THEN "accept" ELSE "batch"

\* The row goes to "delivering" before anything is sent.  If the store
\* refuses, the delivery is put back with a backoff and not sent.
Flip(k, a) ==
  \/ /\ Transition(k, QRow("delivering", a, 0), "send")
     /\ cur' = [key |-> k, attempts |-> a, t |-> now,
                route |-> IF k \in reply_rows THEN "reply_relay" ELSE "relay",
                verdict |-> "none"]
  \/ /\ Refused(Return)
     /\ \/ UNCHANGED rows
        \/ \E u \in Missed(k) :
             rows' = [rows EXCEPT ![k] = u \cup {QRow("queued", a, RetryAt(now, a + 1))}]
     /\ next_due_dirty' = TRUE
     /\ UNCHANGED <<next_due, meta, cur>>

\* The body is read and sent.  The relay may take the message although its
\* reply is lost; an unreadable body counts as a failed attempt.
Send ==
  /\ pc = "send"
  /\ \E taken \in BOOLEAN, v \in {"ok", "temp", "perm"} :
       /\ v = "ok" => taken
       /\ v = "perm" => ~taken
       /\ v # "temp" \/ taken => cur.key \in spool
       /\ IF v = "temp" /\ taken
          THEN faults < MaxFaults /\ faults' = faults + 1
          ELSE faults' = faults
       /\ handoffs' = IF taken THEN [handoffs EXCEPT ![cur.key] = @ + 1]
                      ELSE handoffs
       /\ cur' = [cur EXCEPT !.verdict = v]
  /\ pc' = "finish"
  /\ UNCHANGED <<store, spool, reply_rows, job, batch, now, replays, acked,
                 replies, bounced>>

\* queue_requeue: count the attempt, give up past max_attempts, and back off
\* from the time the attempt began.
Requeue(c) ==
  LET a == c.attempts + 1 IN
  IF a > Max_attempts(c.route) THEN QRow("permfail", a, 0)
  ELSE QRow("queued", a, RetryAt(c.t, a))

\* Faulty variant: success falls through to the retry.
BugFallThrough(c) ==
  IF c.verdict = "perm" THEN QRow("permfail", c.attempts, 0) ELSE Requeue(c)

\* The row a verdict leads to.
FinalRow(c) == CASE c.verdict = "ok"   -> QRow("delivered", c.attempts, 0)
                 [] c.verdict = "perm" -> QRow("permfail", c.attempts, 0)
                 [] c.verdict = "temp" -> Requeue(c)

\* Faulty variant: the mark goes after every attempt.
BugDropMark(c) == reply_rows \ {c.key}

\* The reply mark goes with a verdict of the relay, not with exhaustion.
MarksAfter(c) == IF c.verdict = "temp" THEN reply_rows ELSE reply_rows \ {c.key}

\* The verdict is recorded; if the store refuses, the row stays "delivering".
Finish ==
  /\ pc = "finish"
  /\ \/ /\ Transition(cur.key, FinalRow(cur), Return)
        /\ bounced' = IF FinalRow(cur).status = "permfail"
                      THEN bounced \cup {cur.key} ELSE bounced
     \/ TransitionFails(Return) /\ UNCHANGED bounced
  /\ reply_rows' = MarksAfter(cur)
  /\ cur' = NoCur
  /\ UNCHANGED <<spool, job, batch, now, replays, acked, replies, handoffs>>

-----------------------------------------------------------------------------
(* Accepting a message: deliver_message and queue_enqueue                   *)

\* The end of DATA.  A message gets its id before anything else; no id, no
\* acceptance (451).  n is the number of destinations its recipients resolve
\* to, reply those that are reverse-alias replies.
Accept ==
  /\ pc \in {"poll", "dispatch"}
  /\ \E u \in Unread(meta, MetaMaxRows) :
       LET id == NextMsgid(meta \ u) IN
       \/ /\ id # 0
          /\ \E left \in SUBSET (meta \ u) :
                /\ meta' = u \cup left \cup {id}
                /\ Ends(left = {}, "accept")
          /\ \E n \in 0 .. MaxDests : \E reply \in SUBSET (0 .. n - 1) :
                job' = [id |-> id, k |-> 0, n |-> n, reply |-> reply, failed |-> FALSE]
       \/ /\ \/ id = 0 /\ Goes("dispatch")
             \/ id # 0 /\ Refused("dispatch")
          /\ UNCHANGED <<meta, job>>
  /\ UNCHANGED <<rows, spool, next_due, next_due_dirty, reply_rows, batch, cur,
                 now, replays, observed>>

\* The destination queue_enqueue is working on.
JobKey == <<job.id, job.k>>

\* The body of the next destination is written and fsynced.  A failure, here
\* or while the copy is prepared, may leave a file behind and fails the
\* message.
Spool ==
  /\ pc = "accept" /\ job.k < job.n
  /\ \/ /\ spool' = spool \cup {JobKey} /\ Goes("add") /\ UNCHANGED job
     \/ /\ spool' \in {spool, spool \cup {JobKey}} /\ Refused("accept")
        /\ job' = [job EXCEPT !.k = @ + 1, !.failed = TRUE]
  /\ UNCHANGED <<store, reply_rows, batch, cur, now, replays, observed>>

\* store_queue_add, then the reply mark.  On failure the body is unlinked.
AddRow ==
  /\ pc = "add"
  /\ \/ /\ rows' = [rows EXCEPT ![JobKey] = @ \cup {QRow("queued", 0, 0)}]
        /\ next_due' = 0 /\ next_due_dirty' = FALSE
        /\ reply_rows' = IF job.k \in job.reply THEN reply_rows \cup {JobKey}
                         ELSE reply_rows
        /\ replies' = IF job.k \in job.reply THEN replies \cup {JobKey}
                      ELSE replies
        /\ job' = [job EXCEPT !.k = @ + 1]
        /\ Goes("first")
        /\ UNCHANGED spool
     \/ /\ Refused("accept")
        /\ spool' \in {spool, spool \ {JobKey}}
        /\ job' = [job EXCEPT !.k = @ + 1, !.failed = TRUE]
        /\ UNCHANGED <<rows, next_due, next_due_dirty, reply_rows, replies>>
  /\ UNCHANGED <<meta, batch, cur, now, replays, acked, handoffs, bounced>>

\* The low-latency first attempt of the delivery just enqueued.
FirstAttempt ==
  /\ pc = "first"
  /\ Flip(<<job.id, job.k - 1>>, 0)
  /\ UNCHANGED <<spool, reply_rows, job, batch, now, replays, observed>>

JobKeys(j) == {<<j.id, k>> : k \in 0 .. j.n - 1}

\* Faulty variant: 250 although a destination failed.
BugAlways250(j) == JobKeys(j)

\* The end of deliver_message: 451 if any destination failed, 250 otherwise.
Accepted(j) == IF j.failed THEN {} ELSE JobKeys(j)

Reply ==
  /\ pc = "accept" /\ job.k = job.n
  /\ acked' = acked \cup Accepted(job)
  /\ job' = NoJob
  /\ Goes("dispatch")
  /\ UNCHANGED <<store, spool, reply_rows, batch, cur, now, replays, replies,
                 handoffs, bounced>>

-----------------------------------------------------------------------------
(* The loop of server_poll                                                  *)

\* The first Batch of the due rows.
FirstDue == {i \in Due : Cardinality({j \in Due : ItemBefore(j, i)}) < Batch}

\* queue_redrive up to its loop: skip when nothing is due by the cache, else
\* collect the due rows and keep the first Batch of them.
Redrive ==
  /\ pc = "redrive"
  /\ \/ /\ NextDue <= now
        /\ batch' = FirstDue
        /\ Goes("batch")
        /\ next_due' = NextDue /\ next_due_dirty' = FALSE
     \/ /\ NextDue > now
        /\ Goes("sweep")
        /\ next_due' = NextDue /\ next_due_dirty' = FALSE
        /\ UNCHANGED batch
     \/ Refused("sweep") /\ UNCHANGED <<batch, next_due, next_due_dirty>>
  /\ UNCHANGED <<meta, rows, spool, reply_rows, job, cur, now, replays, observed>>

\* The next collected row is attempted with the attempts it had when it was
\* collected.
DriveNext ==
  /\ pc = "batch"
  /\ \E i \in batch :
       /\ \A j \in batch : ~ItemBefore(j, i)
       /\ Flip(i.key, i.attempts)
       /\ batch' = batch \ {i}
  /\ UNCHANGED <<spool, reply_rows, job, now, replays, observed>>

\* The batch is finished, or the budget of the tick is spent.
DriveEnd ==
  /\ pc = "batch"
  /\ batch' = {}
  /\ Goes("sweep")
  /\ UNCHANGED <<store, spool, reply_rows, job, cur, now, replays, observed>>

\* Bodies spool_gc may collect once they are old enough: the delivery has a
\* row and none of the rows store_queue_status reads is active.
Collectable == {k \in spool : \E u \in Missed(k) : QueueStatus(rows[k] \ u) = "terminal"}

\* spool_gc: unlink each old body, then delete its rows.  old are the bodies
\* past retention.  Failed calls are ignored.
SpoolGc ==
  \E old \in SUBSET Collectable :
    \E unlinked \in SUBSET old, left \in SUBSET UNION {rows[k] : k \in old} :
      /\ StoreErrors \/ \A k \in old \ unlinked : rows[k] \subseteq left
      /\ \A k \in old : \E u \in Missed(k) : u \subseteq left
      /\ spool' = spool \ unlinked
      /\ rows' = [k \in Key |-> IF k \in old THEN rows[k] \cap left ELSE rows[k]]
      /\ Ends(unlinked = old /\ \A k \in old : rows[k] \cap left \in Missed(k),
              IF pc = "gc" THEN "redrive" ELSE "poll")

\* The hourly sweep when it is due, then poll_timeout_ms reads next_due.
Sweep ==
  /\ pc = "sweep"
  /\ SpoolGc
  /\ \/ next_due' = NextDue /\ next_due_dirty' = FALSE
     \/ StoreErrors /\ faults' > faults /\ UNCHANGED <<next_due, next_due_dirty>>
  /\ UNCHANGED <<meta, reply_rows, job, batch, cur, now, replays, observed>>

\* poll() returns because the soonest queued next_ts has come ...
TimerWake ==
  /\ pc = "poll" /\ ~next_due_dirty /\ next_due <= now
  /\ Goes("dispatch")
  /\ UNCHANGED <<store, spool, reply_rows, job, batch, cur, now, replays, observed>>

\* ... or for a socket or another deadline.
OtherWake ==
  /\ pc = "poll"
  /\ Goes("dispatch")
  /\ UNCHANGED <<store, spool, reply_rows, job, batch, cur, now, replays, observed>>

LoopAgain ==
  /\ pc = "dispatch"
  /\ Goes("redrive")
  /\ UNCHANGED <<store, spool, reply_rows, job, batch, cur, now, replays, observed>>

\* replay_collect_cb: deliveries of a message with a terminal row and a body.
Replayable(id) == {k \in spool : k[1] = id /\ \E r \in rows[k] : ~IsActive(r)}

\* handle_replay: every replayable delivery of the message is queued afresh, in
\* the order of k.
Replay ==
  /\ pc \in {"poll", "dispatch"} /\ replays < MaxReplays
  /\ \E id \in 1 .. MaxMsgid :
       /\ Replayable(id) # {}
       /\ \E done \in SUBSET Replayable(id),
             left \in SUBSET UNION {rows[k] : k \in Replayable(id)} :
            /\ StoreErrors \/ \A j \in done, k \in Replayable(id) \ done : KeyBefore(j, k)
            /\ \A k \in done : \E u \in Missed(k) : u \subseteq left
            /\ rows' = [k \in Key |->
                          IF k \in done
                          THEN {QRow("queued", 0, 0)} \cup (rows[k] \cap left)
                          ELSE rows[k]]
            /\ Ends(/\ done = Replayable(id)
                    /\ \A k \in done : rows[k] \cap left \in Missed(k), "dispatch")
  /\ next_due_dirty' = TRUE
  /\ replays' = replays + 1
  /\ UNCHANGED <<meta, spool, next_due, reply_rows, job, batch, cur, now, observed>>

-----------------------------------------------------------------------------
(* Crash, restart and time                                                  *)

Crash ==
  /\ pc # "down" /\ faults < MaxFaults
  /\ faults' = faults + 1 /\ pc' = "down"
  /\ UNCHANGED <<store, spool, reply_rows, job, batch, cur, now, replays, observed>>

Delivering(rs) == {r \in rs : r.status = "delivering"}

\* store_queue_reset_delivering for one delivery: each delivering row in turn,
\* so the one with most attempts decides.
ResetRow(rs) == QRow("queued", Max({r.attempts : r \in Delivering(rs)}), 0)

\* smtp_in_main: fresh memory, then every delivery left "delivering" is queued
\* for now.  The walk stops at the first failure; spool_gc and queue_redrive
\* follow.  A delivery with more rows than a call reads may keep any of them.
Restart ==
  /\ pc = "down"
  /\ LET all == {k \in Key : Delivering(rows[k]) # {}} IN
     \E done \in SUBSET all,
        left \in SUBSET UNION {rows[k] \cup {QRow("queued", r.attempts, 0) :
                                              r \in Delivering(rows[k])} : k \in all} :
       /\ \A j \in done, k \in all \ done : KeyBefore(j, k)
       /\ rows' = [k \in Key |-> IF k \in done THEN {ResetRow(rows[k])} \cup
                     (left \cap (rows[k] \cup {QRow("queued", r.attempts, 0) :
                                                r \in Delivering(rows[k])}))
                                ELSE rows[k]]
       /\ Ends(/\ done = all
               /\ left = {} \/ \E k \in all : Missed(k) # {{}}, "gc")
  /\ next_due' = Never /\ next_due_dirty' = TRUE
  /\ reply_rows' = {} /\ replies' = {}
  /\ job' = NoJob /\ batch' = {} /\ cur' = NoCur
  /\ UNCHANGED <<meta, spool, now, replays, acked, handoffs, bounced>>

\* The spool_gc of startup.
StartupGc ==
  /\ pc = "gc"
  /\ SpoolGc
  /\ UNCHANGED <<meta, next_due, next_due_dirty, reply_rows, job, batch, cur, now,
                 replays, observed>>

Tick ==
  /\ now < MaxTime /\ now' = now + 1
  /\ UNCHANGED <<store, spool, reply_rows, pc, job, batch, cur, faults, replays,
                 observed>>

Next ==
  \/ Send \/ Finish \/ Accept \/ Spool \/ AddRow \/ FirstAttempt \/ Reply
  \/ Redrive \/ DriveNext \/ DriveEnd \/ Sweep \/ TimerWake \/ OtherWake
  \/ LoopAgain \/ Replay \/ Crash \/ Restart \/ StartupGc \/ Tick

Spec == Init /\ [][Next]_vars

\* The thread takes its next step and is restarted when it died; time passes;
\* poll() returns when its timeout has passed, but nothing else need wake it.
\* The tick budget is checked before each collected row, so it may cut a batch
\* short, but not every batch before its first row.
Fairness ==
  /\ WF_vars(Send) /\ WF_vars(Finish)
  /\ WF_vars(Spool) /\ WF_vars(AddRow) /\ WF_vars(FirstAttempt) /\ WF_vars(Reply)
  /\ WF_vars(Redrive) /\ SF_vars(DriveNext) /\ WF_vars(DriveEnd)
  /\ WF_vars(Sweep) /\ WF_vars(TimerWake) /\ WF_vars(LoopAgain)
  /\ WF_vars(Restart) /\ WF_vars(StartupGc) /\ WF_vars(Tick)

FairSpec == Spec /\ Fairness

-----------------------------------------------------------------------------
(* Properties                                                               *)

PcType  == {"down", "gc", "redrive", "batch", "sweep", "poll", "dispatch",
            "accept", "add", "first", "send", "finish"}
JobType == [id : 0 .. MaxMsgid, k : Nat, n : 0 .. MaxDests, reply : SUBSET Nat,
            failed : BOOLEAN]
CurType == [key : Key \cup {<<0, 0>>}, attempts : Nat, t : Nat, route : Route,
            verdict : {"none", "ok", "temp", "perm"}]

\* Every variable has its type: the schema of the queue and meta relations
\* (store.h) and the fields of Store and Server.
TypeOK ==
  /\ meta \subseteq 1 .. MaxMsgid
  /\ rows \in [Key -> SUBSET Row]
  /\ spool \subseteq Key
  /\ next_due \in Nat /\ next_due_dirty \in BOOLEAN
  /\ reply_rows \subseteq Key
  /\ pc \in PcType /\ job \in JobType /\ batch \subseteq Item /\ cur \in CurType
  /\ now \in Nat /\ faults \in Nat /\ replays \in Nat
  /\ acked \subseteq Key /\ replies \subseteq Key
  /\ handoffs \in [Key -> Nat] /\ bounced \subseteq Key

\* Every call reads all the rows there are: no more crashes and failed deletes
\* have come together at the counter, or at one delivery, than the arrays of
\* store.c have room for.  The properties of this module suppose it: beyond it a
\* call may miss the largest counter row, or the one row that is active.
FewMeta == Cardinality(meta) <= MetaMaxRows
FewRows == FewMeta /\ \A k \in Key : Cardinality(rows[k]) <= SetMaxRows

\* A delivery whose fate is not open: the relay took it or it was given up.
Resolved(k) == handoffs[k] > 0 \/ k \in bounced

\* No accepted mail is lost: once the client has its 250, every destination of
\* the message has an active row until the relay has taken it or it has been
\* given up, through every crash and every failed store call (given FewRows).
NoAcceptedLoss == \A k \in acked : Active(k) \/ Resolved(k)

\* A row that may still be driven has its spooled body: queue_enqueue spools
\* before it adds the row, and spool_gc never takes the body of a delivery that
\* any row still has active, stale duplicates of a crash included (given FewRows:
\* of more rows store_queue_status may miss the active one).
ActiveHasBody == \A k \in Key : Active(k) => k \in spool

\* The cached wake-up time of a running daemon is exact: too late would leave a
\* due delivery asleep, too early would spin the poll loop.
NextDueExact == pc # "down" /\ ~next_due_dirty => next_due = ScanNextDue(rows)

\* A message id is never used twice, so deliver_message never overwrites the
\* body of another message: rows and bodies only exist below the counter, and
\* the destination about to be spooled has neither.  It supposes FewMeta: with
\* more counter rows than it reads, store_next_msgid can miss the largest one
\* and give its id out again.
FreshMsgid ==
  /\ \A k \in Key : rows[k] # {} \/ k \in spool => \E m \in meta : k[1] <= m
  /\ pc = "accept" /\ job.k < job.n => rows[JobKey] = {} /\ JobKey \notin spool

\* How often a crash may repeat a message: each crash, failed call, lost relay
\* reply or replay costs at most one more copy at the relay (given FewRows: rows
\* that store_queue_set_status does not read it does not delete).
DuplicatesBounded == \A k \in Key : handoffs[k] <= 1 + faults + replays

\* While no row is replayed and no store call fails, a reply enqueued since the
\* daemon started is only ever sent through reply_relay: its mark, kept apart
\* from the row, lasts as long as the row is retried.  A replayed reply is left
\* out: its mark is gone with the first verdict, so /replay sends it by relay.
ReplyRouteStable ==
  replays = 0 /\ pc = "send" /\ cur.key \in replies => cur.route = "reply_relay"

\* Nothing stays in the queue for ever: every delivery that is queued or being
\* sent is settled in the end, by the poll loop's own timer and a batch that
\* always starts with the oldest message, whatever the relay answers.
EventuallySettled == \A k \in Key : Active(k) ~> ~Active(k)

\* Where a delivery stands, from its rows and its history.
StateOf(k) == IF Active(k) THEN "pending"
              ELSE IF rows[k] # {} THEN "settled"
              ELSE IF Resolved(k) THEN "gone" ELSE "none"

AtLeast == INSTANCE AtLeastOnce WITH
  Delivery <- Key,
  st       <- [k \in Key |-> StateOf(k)],
  sent     <- {k \in Key : handoffs[k] > 0},
  given_up <- bounced

\* The queue implements AtLeastOnce: a delivery leaves "pending" only after the
\* relay has taken it or it was given up, and is pruned only after that.
RefinesAtLeastOnce == AtLeast!ASpec

-----------------------------------------------------------------------------
(* The inductive invariant behind the safety properties                    *)

\* deliver_message is under way.
Accepting == pc \in {"accept", "add", "first", "send", "finish"} /\ job.id # 0

\* A delivery that has left any trace.
Used(k) == rows[k] # {} \/ k \in spool \/ Resolved(k) \/ k \in acked

CounterInv ==
  /\ \E last \in meta \cup {0} : \A m \in meta : m <= last
  /\ \A k \in Key : Used(k) => \E m \in meta : k[1] <= m

JobInv ==
  /\ pc \in {"accept", "add", "first"} => job.id # 0
  /\ pc \in {"gc", "redrive", "batch", "sweep", "poll", "dispatch"} => job.id = 0
  /\ pc = "add" => job.k < job.n /\ JobKey \in spool
  /\ pc = "first" => job.k > 0 /\ Active(<<job.id, job.k - 1>>)
  /\ Accepting => /\ job.k <= job.n
                  /\ job.id \in meta /\ \A m \in meta : m <= job.id
                  /\ \A i \in job.k .. MaxDests - 1 :
                       LET k == <<job.id, i>> IN
                       /\ rows[k] = {} /\ ~Resolved(k) /\ k \notin acked
                       /\ k \in spool => pc = "add" /\ i = job.k
  /\ Accepting /\ ~job.failed =>
       \A i \in 0 .. job.k - 1 : Active(<<job.id, i>>) \/ Resolved(<<job.id, i>>)

CurInv ==
  pc \in {"send", "finish"} =>
    /\ cur.key \in Key /\ Active(cur.key)
    /\ pc = "finish" => cur.verdict # "none"
    /\ pc = "finish" /\ cur.verdict = "ok" => handoffs[cur.key] > 0

BatchInv ==
  pc # "down" =>
    /\ \A i \in batch : rows[i.key] # {} /\ i.key \in spool
    /\ pc \notin {"batch", "send", "finish"} \/ job.id # 0 => batch = {}

\* A delivery is terminal only once its fate is known.
TerminalInv == \A k \in Key : rows[k] # {} /\ ~Active(k) => Resolved(k)

\* An active delivery has not used up more attempts than the larger limit.
MostAttempts == IF RelayAttempts < ReplyAttempts THEN ReplyAttempts ELSE RelayAttempts

AttemptsInv ==
  /\ \A k \in Key : \A r \in rows[k] : IsActive(r) => r.attempts <= MostAttempts
  /\ pc # "down" => \A i \in batch : i.attempts <= MostAttempts
  /\ pc \in {"send", "finish"} => cur.attempts <= MostAttempts

\* The store, the spool and the step the daemon is at agree, so that each of the
\* safety properties is kept by every step.
IndInv == /\ TypeOK /\ CounterInv /\ JobInv /\ CurInv /\ BatchInv /\ TerminalInv
          /\ AttemptsInv /\ NoAcceptedLoss /\ ActiveHasBody /\ NextDueExact

-----------------------------------------------------------------------------
(* The inductive invariant behind DuplicatesBounded                         *)

\* The chances a delivery has of being sent again without another fault: its
\* active rows, as a restart would have them, ...
Again(r)      == IF r.status = "delivering" THEN QRow("queued", r.attempts, 0) ELSE r
Chances(rs)   == {Again(r) : r \in {q \in rs : IsActive(q)}}
\* ... or the items collected for it, each of which replaces all its rows.
ItemsOf(b, k) == {i \in b : i.key = k}

\* The attempt under way may still count, or the relay has just taken it.
Trying(k) == cur.key = k /\ (pc = "send" \/ (pc = "finish" /\ cur.verdict # "ok"))
Taken(k)  == cur.key = k /\ pc = "finish" /\ cur.verdict = "ok"

ChanceInv ==
  \A k \in Key :
    /\ IsFiniteSet(Chances(rows[k]))
    /\ handoffs[k] + Cardinality(Chances(rows[k])) <=
         1 + faults + replays + (IF Taken(k) THEN 1 ELSE 0)

ItemInv ==
  pc # "down" => \A k \in Key :
    /\ IsFiniteSet(ItemsOf(batch, k))
    /\ handoffs[k] + Cardinality(ItemsOf(batch, k)) + (IF Trying(k) THEN 1 ELSE 0) <=
         1 + faults + replays

CopiesInv == ChanceInv /\ ItemInv

-----------------------------------------------------------------------------
(* The inductive invariant behind ReplyRouteStable                          *)

\* Without a failed call a reply has one row and at most one item, never an item
\* while it is attempted, and loses its mark only with its last active row.
Steady(k) ==
  /\ rows[k] # {} \/ Resolved(k)
  /\ \A r, s \in rows[k] : r = s
  /\ \A i, j \in ItemsOf(batch, k) : i = j
  /\ pc \in {"send", "finish"} /\ cur.key = k =>
       ItemsOf(batch, k) = {} /\ cur.route = "reply_relay"
  /\ k \notin reply_rows => ~Active(k) /\ ItemsOf(batch, k) = {}

RouteInv == ~StoreErrors /\ replays = 0 /\ pc # "down" => \A k \in replies : Steady(k)
=============================================================================
