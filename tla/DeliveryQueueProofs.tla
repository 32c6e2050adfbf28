------------------------ MODULE DeliveryQueueProofs -------------------------
(***************************************************************************)
(* Proofs about DeliveryQueue for every number of messages, destinations,  *)
(* attempts, faults and replays, with and without failing store calls:     *)
(* what the helpers return, that every step keeps the inductive invariant, *)
(* what follows from it for every behaviour, and that the durable queue    *)
(* implements AtLeastOnce: every step of the daemon is a step of the       *)
(* abstract promise or leaves it where it was.  The theorems are about the *)
(* behaviours in which the rows fit the arrays of store.c (FewRows); for   *)
(* the counter, the last one says how many faults that takes.              *)
(***************************************************************************)
EXTENDS DeliveryQueue, TLAPS, WellFoundedInduction, FiniteSetTheorems

-----------------------------------------------------------------------------
(* What the helpers return                                                  *)

\* A nonempty set of naturals has its minimum, so the scan of
\* store_queue_next_due is defined.
LEMMA MinInNat == ASSUME NEW S \in SUBSET Nat, S # {}
                  PROVE  Min(S) \in S /\ \A y \in S : Min(S) <= y
<1>0. \A u, v \in Nat : u < v => <<u, v>> \in OpToRel(<, Nat)
  BY Zenon DEF OpToRel
<1>1. PICK x \in S : \A y \in S : <<y, x>> \notin OpToRel(<, Nat)
  BY Zenon, NatLessThanWellFounded, WFMin
<1>2. \A y \in S : ~(y < x)
  BY <1>0, <1>1, Zenon
<1>3. \A y \in S : x <= y
  BY <1>2
<1> QED BY Zenon, <1>3 DEF Min

\* smtp_backoff_sec yields a natural number for every attempt from the first.
LEMMA RetryAtType == ASSUME NEW t \in Nat, NEW n \in Nat \ {0}
                     PROVE  RetryAt(t, n) \in Nat
<1>1. Backoff(n) \in Nat
  <2>1. CASE n > 12 BY <2>1 DEF Backoff
  <2>2. CASE n <= 12
    <3>1. n \in 1 .. 12 BY <2>2
    <3> QED BY <3>1 DEF Backoff, Doubling
  <2> QED BY <2>1, <2>2
<1> QED BY <1>1, BoundsAssumption DEF RetryAt

LEMMA QueuedTsType == ASSUME NEW rel \in [Key -> SUBSET Row]
                      PROVE  QueuedTs(rel) \in SUBSET Nat
BY DEF QueuedTs, Row

LEMMA ScanType == ASSUME NEW rel \in [Key -> SUBSET Row]
                  PROVE  ScanNextDue(rel) \in Nat
<1>1. CASE QueuedTs(rel) = {}
  BY <1>1, BoundsAssumption DEF ScanNextDue, Never
<1>2. CASE QueuedTs(rel) # {}
  BY Zenon, <1>2, QueuedTsType, MinInNat DEF ScanNextDue
<1> QED BY Zenon, <1>1, <1>2

\* As long as the arrays of store.c have room for the rows there are, a call
\* reads them all.
LEMMA AllRead ==
  ASSUME FewRows
  PROVE  Unread(meta, MetaMaxRows) = {{}} /\ \A k \in Key : Missed(k) = {{}}
BY Zenon DEF FewRows, FewMeta, Unread, Missed

\* The rows a call misses are rows of the delivery.
LEMMA MissedRows == ASSUME NEW k \in Key, NEW u \in Missed(k)
                    PROVE  u \subseteq rows[k]
BY Zenon DEF Missed, Unread

\* A message id is fresh when all counter rows were read: 0, or larger than
\* every id given out.
LEMMA NextMsgidFresh ==
  ASSUME TypeOK, CounterInv
  PROVE  /\ NextMsgid(meta) \in 0 .. MaxMsgid
         /\ NextMsgid(meta) # 0 => \A m \in meta : m < NextMsgid(meta)
<1>1. PICK last \in meta \cup {0} : \A m \in meta : m <= last
  BY Zenon DEF CounterInv
<1>2. meta \cup {0} \subseteq 0 .. MaxMsgid
  BY BoundsAssumption DEF TypeOK
<1>3. \A m \in meta \cup {0} : last >= m
  BY <1>1, <1>2, BoundsAssumption
<1>4. Max(meta \cup {0}) = last
  BY <1>2, <1>3, BoundsAssumption DEF Max
<1> QED BY <1>1, <1>2, <1>4, BoundsAssumption DEF NextMsgid

\* A group of calls that may end early ends at its next step or in a crash.
LEMMA EndsEffect == ASSUME TypeOK, NEW clean, NEW next, Ends(clean, next)
                    PROVE  pc' \in {next, "down"} /\ faults' \in Nat
BY DEF Ends, Goes, Faulty, TypeOK

\* store_queue_set_status: the new row is there whatever else is, nothing but
\* old rows is, and no other delivery is touched.
LEMMA TransitionEffect ==
  ASSUME TypeOK, NEW k \in Key, NEW row \in Row, NEW next \in PcType,
         Transition(k, row, next)
  PROVE  /\ rows' \in [Key -> SUBSET Row]
         /\ row \in rows'[k] /\ rows'[k] \subseteq rows[k] \cup {row}
         /\ \A j \in Key \ {k} : rows'[j] = rows[j]
         /\ pc' \in {next, "down"} /\ faults' \in Nat
         /\ meta' = meta /\ next_due' = next_due /\ next_due_dirty' = TRUE
<1>1. PICK u \in Missed(k) : \E new \in SetStatus(rows[k] \ u, row) :
        /\ rows' = [rows EXCEPT ![k] = u \cup new] /\ Ends(new = {row}, next)
  BY Zenon DEF Transition
<1>2. PICK new \in SetStatus(rows[k] \ u, row) :
        /\ rows' = [rows EXCEPT ![k] = u \cup new] /\ Ends(new = {row}, next)
  BY Zenon, <1>1
<1>3. row \in new /\ u \cup new \subseteq rows[k] \cup {row}
  BY Zenon, MissedRows DEF SetStatus
<1>4. /\ rows' \in [Key -> SUBSET Row] /\ rows'[k] = u \cup new
      /\ \A j \in Key \ {k} : rows'[j] = rows[j]
  BY Zenon, <1>2, <1>3 DEF TypeOK
<1>5. pc' \in {next, "down"} /\ faults' \in Nat
  BY Zenon, <1>2, EndsEffect
<1> QED BY Zenon, <1>3, <1>4, <1>5 DEF Transition

\* When it reads them all, only rows that were there stay beside the new one,
\* and none does unless the call ends early.
LEMMA TransitionRead ==
  ASSUME FewRows, NEW k \in Key, NEW row, NEW next, Transition(k, row, next)
  PROVE  \E kept \in SUBSET rows[k] :
           /\ rows' = [rows EXCEPT ![k] = kept \cup {row}]
           /\ Ends(kept \cup {row} = {row}, next)
<1>1. PICK new \in SetStatus(rows[k] \ {}, row) :
        rows' = [rows EXCEPT ![k] = {} \cup new] /\ Ends(new = {row}, next)
  BY Zenon, AllRead DEF Transition
<1>2. PICK kept \in SUBSET rows[k] : new = kept \cup {row}
  BY Zenon DEF SetStatus
<1>3. {} \cup new = new BY Zenon
<1> QED BY Zenon, <1>1, <1>2, <1>3

LEMMA QRowType == ASSUME NEW s \in Status, NEW a \in Nat, NEW t \in Nat
                  PROVE  QRow(s, a, t) \in Row /\ QRow(s, a, t).status = s
BY Zenon DEF QRow, Row

\* The maximum of a bounded nonempty set of naturals exists.
LEMMA MaxBounded == ASSUME NEW b \in Nat, NEW S \in SUBSET (0 .. b), S # {}
                    PROVE  Max(S) \in S
<1> DEFINE D == {b - x : x \in S}
<1>1. D \in SUBSET Nat /\ D # {}
  <2>1. \A x \in S : b - x \in Nat
    OBVIOUS
  <2> QED BY Zenon, <2>1
<1> HIDE DEF D
<1>2. PICK d \in D : \A e \in D : d <= e
  BY Zenon, <1>1, MinInNat
<1>3. PICK x \in S : d = b - x
  BY Zenon, <1>2 DEF D
<1>4. \A y \in S : b - y \in D
  BY Zenon DEF D
<1>5. \A y \in S : x >= y
  BY <1>2, <1>3, <1>4
<1> QED BY Zenon, <1>5 DEF Max

\* The memory of a daemon that has just started is well typed.
LEMMA NoneTyped == NoJob \in JobType /\ NoCur \in CurType
<1>1. 0 \in 0 .. MaxMsgid /\ 0 \in 0 .. MaxDests
  BY BoundsAssumption
<1>2. NoJob \in JobType
  BY Zenon, <1>1 DEF NoJob, JobType
<1>3. NoCur \in CurType
  BY Zenon DEF NoCur, CurType, Route
<1> QED BY Zenon, <1>2, <1>3

\* The destinations above the one queue_enqueue works on, and below the next.
LEMMA Upwards ==
  ASSUME NEW a \in Nat, NEW m \in Nat
  PROVE  /\ \A i \in a + 1 .. m - 1 : i \in a .. m - 1 /\ i # a
         /\ \A i \in 0 .. (a + 1) - 1 : i \in 0 .. a - 1 \/ i = a
OBVIOUS

-----------------------------------------------------------------------------
(* Steps that leave the store alone                                         *)

LEMMA CrashKeeps == IndInv /\ Crash => IndInv'
<1> SUFFICES ASSUME IndInv, Crash PROVE IndInv'
  BY Zenon
<1> USE DEF IndInv, Crash, store, observed
<1>1. TypeOK' BY DEF TypeOK, PcType
<1>2. CounterInv' BY Zenon DEF CounterInv, Used, Resolved
<1>3. JobInv' BY Zenon DEF JobInv, Accepting
<1>4. CurInv' /\ BatchInv' /\ AttemptsInv' BY Zenon DEF CurInv, BatchInv, AttemptsInv
<1>5. TerminalInv' BY Zenon DEF TerminalInv, Active, Resolved
<1>6. NoAcceptedLoss' /\ ActiveHasBody' BY Zenon DEF NoAcceptedLoss, ActiveHasBody, Active, Resolved
<1>7. NextDueExact' BY Zenon DEF NextDueExact
<1> QED BY Zenon, <1>1, <1>2, <1>3, <1>4, <1>5, <1>6, <1>7

LEMMA TickKeeps == IndInv /\ Tick => IndInv'
<1> SUFFICES ASSUME IndInv, Tick PROVE IndInv'
  BY Zenon
<1> USE DEF IndInv, Tick, store, observed
<1>1. TypeOK' BY DEF TypeOK
<1>2. CounterInv' BY Zenon DEF CounterInv, Used, Resolved
<1>3. JobInv' BY Zenon DEF JobInv, Accepting, Active, Resolved, JobKey
<1>4. CurInv' /\ BatchInv' /\ AttemptsInv' BY Zenon DEF CurInv, BatchInv, AttemptsInv, Active
<1>5. TerminalInv' BY Zenon DEF TerminalInv, Active, Resolved
<1>6. NoAcceptedLoss' /\ ActiveHasBody' BY Zenon DEF NoAcceptedLoss, ActiveHasBody, Active, Resolved
<1>7. NextDueExact' BY Zenon DEF NextDueExact
<1> QED BY Zenon, <1>1, <1>2, <1>3, <1>4, <1>5, <1>6, <1>7

LEMMA LoopKeeps ==
  IndInv /\ (TimerWake \/ OtherWake \/ LoopAgain \/ DriveEnd) => IndInv'
<1> SUFFICES ASSUME IndInv, TimerWake \/ OtherWake \/ LoopAgain \/ DriveEnd PROVE IndInv'
  BY Zenon
<1>0. /\ pc \in {"poll", "dispatch", "batch"} /\ pc' \in {"dispatch", "redrive", "sweep"}
      /\ batch' \in {batch, {}} /\ (pc = "batch" => batch' = {})
      /\ UNCHANGED <<store, spool, reply_rows, job, cur, now, faults, replays, observed>>
  BY Zenon DEF TimerWake, OtherWake, LoopAgain, DriveEnd, Goes
<1> USE <1>0 DEF IndInv, store, observed
<1>1. TypeOK' BY Zenon DEF TypeOK, PcType
<1>2. CounterInv' BY Zenon DEF CounterInv, Used, Resolved
<1>3. JobInv' BY Zenon DEF JobInv, Accepting
<1>4. CurInv' /\ BatchInv' /\ AttemptsInv' BY Zenon DEF CurInv, BatchInv, AttemptsInv
<1>5. TerminalInv' BY Zenon DEF TerminalInv, Active, Resolved
<1>6. NoAcceptedLoss' /\ ActiveHasBody' BY Zenon DEF NoAcceptedLoss, ActiveHasBody, Active, Resolved
<1>7. NextDueExact' BY Zenon DEF NextDueExact
<1> QED BY Zenon, <1>1, <1>2, <1>3, <1>4, <1>5, <1>6, <1>7

LEMMA RedriveKeeps == IndInv /\ Redrive => IndInv'
<1> SUFFICES ASSUME IndInv, Redrive PROVE IndInv'
  BY Zenon
<1>0. /\ pc = "redrive" /\ pc' \in {"batch", "sweep"}
      /\ \/ batch' = batch /\ pc' = "sweep"
         \/ batch' \subseteq Due /\ pc' = "batch"
      /\ \/ next_due' = NextDue /\ next_due_dirty' = FALSE
         \/ UNCHANGED <<next_due, next_due_dirty>>
      /\ faults' \in Nat
      /\ UNCHANGED <<meta, rows, spool, reply_rows, job, cur, now, replays, observed>>
  <2>1. FirstDue \subseteq Due
    BY Zenon DEF FirstDue
  <2> QED BY <2>1 DEF Redrive, Goes, Refused, IndInv, TypeOK
<1>00. batch = {} /\ job.id = 0
  BY Zenon, <1>0 DEF IndInv, BatchInv, JobInv
<1>a. \A i \in Due : /\ i \in Item
                    /\ \E r \in rows[i.key] : r.status = "queued" /\ r.attempts = i.attempts
  BY DEF Due, Item, Row, IndInv, TypeOK
<1>b. NextDue \in Nat /\ NextDue = ScanNextDue(rows)
  BY Zenon, ScanType, <1>0 DEF NextDue, IndInv, TypeOK, NextDueExact
<1> USE <1>0 DEF IndInv, observed
<1>1. TypeOK' BY Zenon, <1>a, <1>b DEF TypeOK, PcType
<1>2. CounterInv' BY Zenon DEF CounterInv, Used, Resolved
<1>3. JobInv' BY Zenon, <1>00 DEF JobInv, Accepting
<1>4. CurInv' BY Zenon DEF CurInv
<1>5. BatchInv' /\ AttemptsInv'
  <2>1. \A i \in batch' : /\ rows[i.key] # {} /\ i.key \in spool
                         /\ i.attempts <= MostAttempts
    BY Zenon, <1>00, <1>a DEF ActiveHasBody, Active, IsActive, AttemptsInv, Item
  <2> QED BY Zenon, <2>1, <1>00 DEF BatchInv, AttemptsInv
<1>6. TerminalInv' BY Zenon DEF TerminalInv, Active, Resolved
<1>7. NoAcceptedLoss' /\ ActiveHasBody' BY Zenon DEF NoAcceptedLoss, ActiveHasBody, Active, Resolved
<1>8. NextDueExact' BY <1>b DEF NextDueExact
<1> QED BY Zenon, <1>1, <1>2, <1>3, <1>4, <1>5, <1>6, <1>7, <1>8

-----------------------------------------------------------------------------
(* The attempt                                                              *)

\* The flip to "delivering" leaves the delivery active, or untouched.
LEMMA FlipEffect ==
  ASSUME TypeOK, NEW k \in Key, NEW a \in Nat, Flip(k, a)
  PROVE  /\ rows' \in [Key -> SUBSET Row] /\ cur' \in CurType
         /\ rows' = rows \/ \E r \in rows'[k] : IsActive(r)
         /\ \A r \in rows'[k] : r \in rows[k] \/ r.attempts = a
         /\ \A j \in Key \ {k} : rows'[j] = rows[j]
         /\ pc' \in {"send", Return, "down"} /\ faults' \in Nat
         /\ pc' = "send" => /\ \E r \in rows'[k] : IsActive(r)
                            /\ cur'.key = k /\ cur'.attempts = a
         /\ meta' = meta /\ next_due' = next_due /\ next_due_dirty' = TRUE
<1>1. CASE /\ Transition(k, QRow("delivering", a, 0), "send")
           /\ cur' = [key |-> k, attempts |-> a, t |-> now,
                      route |-> IF k \in reply_rows THEN "reply_relay" ELSE "relay",
                      verdict |-> "none"]
  <2>1. /\ QRow("delivering", a, 0) \in Row /\ "send" \in PcType
        /\ IsActive(QRow("delivering", a, 0)) /\ QRow("delivering", a, 0).attempts = a
    BY Zenon DEF QRow, Row, Status, IsActive, PcType
  <2>2. cur' \in CurType
    BY Zenon, <1>1 DEF CurType, Route, TypeOK
  <2> QED BY <1>1, <2>1, <2>2, TransitionEffect, Zenon
<1>2. CASE /\ Refused(Return)
           /\ \/ UNCHANGED rows
              \/ \E u \in Missed(k) :
                   rows' = [rows EXCEPT ![k] =
                              u \cup {QRow("queued", a, RetryAt(now, a + 1))}]
           /\ next_due_dirty' = TRUE
           /\ UNCHANGED <<next_due, meta, cur>>
  <2> DEFINE q == QRow("queued", a, RetryAt(now, a + 1))
  <2>1. RetryAt(now, a + 1) \in Nat
    BY RetryAtType DEF TypeOK
  <2>2. q \in Row /\ IsActive(q) /\ q.attempts = a
    BY Zenon, <2>1 DEF QRow, Row, Status, IsActive
  <2> HIDE DEF q
  <2>3. rows' = rows \/ \E u \in SUBSET rows[k] : rows' = [rows EXCEPT ![k] = u \cup {q}]
    BY Zenon, <1>2, MissedRows DEF q
  <2>4. Return # "send"
    BY Zenon DEF Return
  <2>5. pc' = Return /\ faults' \in Nat
    BY <1>2 DEF Refused, TypeOK
  <2>6. CASE rows' = rows
    BY Zenon, <1>2, <2>4, <2>5, <2>6 DEF TypeOK
  <2>7. CASE \E u \in SUBSET rows[k] : rows' = [rows EXCEPT ![k] = u \cup {q}]
    <3>1. PICK u \in SUBSET rows[k] : rows' = [rows EXCEPT ![k] = u \cup {q}]
      BY Zenon, <2>7
    <3>2. /\ rows' \in [Key -> SUBSET Row] /\ rows'[k] = u \cup {q}
          /\ \A j \in Key \ {k} : rows'[j] = rows[j]
      BY Zenon, <2>2, <3>1 DEF TypeOK
    <3> QED BY Zenon, <1>2, <2>2, <2>4, <2>5, <3>2 DEF TypeOK
  <2> QED BY Zenon, <2>3, <2>6, <2>7
<1> QED BY Zenon, <1>1, <1>2 DEF Flip

\* An attempt of a delivery that has a row and a body keeps the invariant.
LEMMA FlipKeeps ==
  ASSUME IndInv, NEW k \in Key, NEW a \in Nat, Flip(k, a),
         a <= MostAttempts, rows[k] # {}, k \in spool,
         \/ pc = "batch" /\ batch' \subseteq batch
         \/ pc = "first" /\ k = <<job.id, job.k - 1>> /\ UNCHANGED batch,
         UNCHANGED <<spool, reply_rows, job, now, replays, observed>>
  PROVE  IndInv'
<1>0. TypeOK BY Zenon DEF IndInv
<1>1. /\ rows' \in [Key -> SUBSET Row] /\ cur' \in CurType
      /\ rows' = rows \/ \E r \in rows'[k] : IsActive(r)
      /\ \A r \in rows'[k] : r \in rows[k] \/ r.attempts = a
      /\ \A j \in Key \ {k} : rows'[j] = rows[j]
      /\ pc' \in {"send", Return, "down"} /\ faults' \in Nat
      /\ pc' = "send" => /\ \E r \in rows'[k] : IsActive(r)
                         /\ cur'.key = k /\ cur'.attempts = a
      /\ meta' = meta /\ next_due' = next_due /\ next_due_dirty' = TRUE
  BY Zenon, <1>0, FlipEffect
<1>2. \A j \in Key : Active(j) => Active(j)'
  BY Zenon, <1>1 DEF Active
<1>3. rows'[k] # {} /\ \A j \in Key : rows[j] # {} <=> rows'[j] # {}
  BY Zenon, <1>1
<1>4. \A j \in Key : Resolved(j)' <=> Resolved(j)
  BY Zenon DEF Resolved, observed
<1>5. \A j \in Key \ {k} : Active(j)' <=> Active(j)
  BY Zenon, <1>1 DEF Active
<1>6. /\ pc = "batch" => job.id = 0
      /\ pc = "first" => job.id # 0 /\ batch = {} /\ job.k > 0 /\ job.k <= job.n
      /\ job.id # 0 => pc = "first"
  BY Zenon DEF IndInv, JobInv, BatchInv, Accepting
<1>7. pc' = "send" \/ pc' = "down" \/ (pc' = "accept" /\ pc = "first")
                   \/ (pc' = "batch" /\ pc = "batch")
  BY Zenon, <1>1, <1>6 DEF Return
<1> USE DEF observed
<1>a. TypeOK'
  <2>1. pc' \in PcType BY Zenon, <1>7 DEF PcType
  <2> QED BY Zenon, <1>0, <1>1, <2>1 DEF TypeOK
<1>b. CounterInv'
  BY Zenon, <1>1, <1>3, <1>4 DEF IndInv, CounterInv, Used
<1>c. JobInv'
  <2>1. CASE job.id = 0
    BY Zenon, <2>1, <1>7, <1>6 DEF JobInv, Accepting
  <2>2. CASE job.id # 0
    <3>1. pc = "first" /\ Accepting
      BY Zenon, <2>2, <1>6 DEF Accepting
    <3>2. \A i \in job.k .. MaxDests - 1 : <<job.id, i>> \in Key \ {k}
      BY <3>1, <1>0, <1>6, <2>2, BoundsAssumption DEF TypeOK, JobType, Key
    <3>3. \A i \in 0 .. job.k - 1 : <<job.id, i>> \in Key
      BY <1>0, <1>6, <3>1, <2>2, BoundsAssumption DEF TypeOK, JobType, Key
    <3> QED BY Zenon, <3>1, <3>2, <3>3, <1>1, <1>2, <1>4, <1>6, <1>7, <2>2
            DEF IndInv, JobInv, Accepting
  <2> QED BY Zenon, <2>1, <2>2
<1>d. CurInv'
  BY Zenon, <1>1, <1>7 DEF CurInv, Active
<1>e. BatchInv'
  BY Zenon, <1>0, <1>3, <1>6, <1>7 DEF IndInv, BatchInv, TypeOK, Item
<1>f. AttemptsInv'
  BY Zenon, <1>0, <1>1, <1>7 DEF IndInv, AttemptsInv
<1>g. TerminalInv'
  BY Zenon, <1>1, <1>2, <1>3, <1>4, <1>5 DEF IndInv, TerminalInv, Active
<1>h. NoAcceptedLoss' /\ ActiveHasBody'
  BY Zenon, <1>0, <1>2, <1>4, <1>5 DEF IndInv, NoAcceptedLoss, ActiveHasBody, TypeOK
<1>i. NextDueExact'
  BY Zenon, <1>1 DEF NextDueExact
<1> QED BY Zenon, <1>a, <1>b, <1>c, <1>d, <1>e, <1>f, <1>g, <1>h, <1>i DEF IndInv

LEMMA DriveNextKeeps == IndInv /\ DriveNext => IndInv'
<1> SUFFICES ASSUME IndInv, DriveNext PROVE IndInv'
  BY Zenon
<1>1. PICK i \in batch : Flip(i.key, i.attempts) /\ batch' = batch \ {i}
  BY Zenon DEF DriveNext
<1>2. /\ pc = "batch"
      /\ UNCHANGED <<spool, reply_rows, job, now, replays, observed>>
  BY Zenon DEF DriveNext
<1>3. /\ i.key \in Key /\ i.attempts \in Nat /\ i.attempts <= MostAttempts
      /\ rows[i.key] # {} /\ i.key \in spool
  BY Zenon, <1>2 DEF IndInv, TypeOK, Item, BatchInv, AttemptsInv
<1> QED BY Zenon, <1>1, <1>2, <1>3, FlipKeeps

LEMMA FirstAttemptKeeps == IndInv /\ FirstAttempt => IndInv'
<1> SUFFICES ASSUME IndInv, FirstAttempt PROVE IndInv'
  BY Zenon
<1> DEFINE k == <<job.id, job.k - 1>>
<1>1. /\ pc = "first" /\ Flip(k, 0)
      /\ UNCHANGED <<spool, reply_rows, job, batch, now, replays, observed>>
  BY Zenon DEF FirstAttempt
<1>2. k \in Key
  BY <1>1, BoundsAssumption DEF IndInv, JobInv, Accepting, TypeOK, JobType, Key
<1>3. Active(k)
  BY Zenon, <1>1 DEF IndInv, JobInv
<1>4. rows[k] # {} /\ k \in spool
  BY Zenon, <1>2, <1>3 DEF IndInv, ActiveHasBody, Active
<1>5. 0 <= MostAttempts
  BY BoundsAssumption DEF MostAttempts
<1> HIDE DEF k
<1> QED BY Zenon, <1>1, <1>2, <1>4, <1>5, FlipKeeps DEF k

LEMMA SendKeeps == IndInv /\ Send => IndInv'
<1> SUFFICES ASSUME IndInv, Send PROVE IndInv'
  BY Zenon
<1>0. PICK taken \in BOOLEAN, v \in {"ok", "temp", "perm"} :
        /\ v = "ok" => taken
        /\ faults' \in {faults, faults + 1}
        /\ handoffs' = IF taken THEN [handoffs EXCEPT ![cur.key] = @ + 1]
                       ELSE handoffs
        /\ cur' = [cur EXCEPT !.verdict = v]
  BY Zenon DEF Send
<1>00. /\ pc = "send" /\ pc' = "finish"
       /\ UNCHANGED <<store, spool, reply_rows, job, batch, now, replays, acked,
                      replies, bounced>>
  BY Zenon DEF Send
<1> USE <1>00 DEF IndInv, store
<1>a. cur.key \in Key /\ Active(cur.key)
  BY Zenon DEF CurInv
<1>b. /\ handoffs' \in [Key -> Nat]
      /\ \A k \in Key : handoffs'[k] >= handoffs[k]
      /\ \A k \in Key \ {cur.key} : handoffs'[k] = handoffs[k]
      /\ v = "ok" => handoffs'[cur.key] > 0
  BY <1>0, <1>a DEF TypeOK
<1>c. /\ cur' \in CurType /\ cur'.key = cur.key /\ cur'.attempts = cur.attempts
      /\ cur'.verdict = v
  BY Zenon, <1>0 DEF TypeOK, CurType
<1>d. \A k \in Key : Resolved(k) => Resolved(k)'
  BY <1>b DEF Resolved, TypeOK
<1>e. \A k \in Key \ {cur.key} : Resolved(k)' => Resolved(k)
  BY Zenon, <1>b DEF Resolved
<1>1. TypeOK' BY <1>0, <1>b, <1>c DEF TypeOK, PcType
<1>2. CounterInv' BY Zenon, <1>a, <1>e DEF CounterInv, Used, Active
<1>3. JobInv'
  <2>1. CASE job.id = 0 BY Zenon, <2>1 DEF JobInv, Accepting
  <2>2. CASE job.id # 0
    <3>1. Accepting /\ Accepting' BY Zenon, <2>2 DEF Accepting
    <3>2. \A i \in job.k .. MaxDests - 1 : <<job.id, i>> \in Key
      BY <2>2, BoundsAssumption DEF TypeOK, JobType, Key
    <3>3. \A i \in job.k .. MaxDests - 1 : <<job.id, i>> # cur.key
      BY Zenon, <1>a, <3>1 DEF JobInv, Active
    <3>4. \A i \in 0 .. job.k - 1 : <<job.id, i>> \in Key
      BY <3>1, <2>2, BoundsAssumption DEF JobInv, TypeOK, JobType, Key
    <3> QED BY Zenon, <2>2, <3>1, <3>2, <3>3, <3>4, <1>d, <1>e DEF JobInv, Active
  <2> QED BY Zenon, <2>1, <2>2
<1>4. CurInv' BY Zenon, <1>a, <1>b, <1>c DEF CurInv, Active
<1>5. BatchInv' /\ AttemptsInv' BY Zenon, <1>c DEF BatchInv, AttemptsInv
<1>6. TerminalInv' BY Zenon, <1>d DEF TerminalInv, Active
<1>7. NoAcceptedLoss' /\ ActiveHasBody'
  BY Zenon, <1>d DEF NoAcceptedLoss, ActiveHasBody, Active, TypeOK
<1>8. NextDueExact' BY Zenon DEF NextDueExact
<1> QED BY Zenon, <1>1, <1>2, <1>3, <1>4, <1>5, <1>6, <1>7, <1>8

\* The verdict leads to a row that is active within the limit, or terminal with
\* the delivery sent or given up.
LEMMA FinalRowEffect ==
  ASSUME TypeOK, CurInv, AttemptsInv, pc = "finish"
  PROVE  /\ FinalRow(cur) \in Row
         /\ IsActive(FinalRow(cur)) => FinalRow(cur).attempts <= MostAttempts
         /\ IsActive(FinalRow(cur)) \/ FinalRow(cur).status = "permfail"
                                    \/ handoffs[cur.key] > 0
<1> DEFINE a == cur.attempts + 1
<1>0. /\ a \in Nat \ {0} /\ cur.attempts \in Nat /\ cur.t \in Nat
      /\ cur.route \in Route /\ cur.verdict \in {"ok", "temp", "perm"}
  BY DEF TypeOK, CurType, CurInv
<1>1. RetryAt(cur.t, a) \in Nat
  BY Zenon, <1>0, RetryAtType
<1>2. Max_attempts(cur.route) \in Nat /\ Max_attempts(cur.route) <= MostAttempts
  BY BoundsAssumption DEF Max_attempts, MostAttempts
<1>3. CASE cur.verdict = "ok"
  BY Zenon, <1>3, <1>0 DEF FinalRow, QRow, Row, Status, CurInv, IsActive
<1>4. CASE cur.verdict = "perm"
  BY Zenon, <1>4, <1>0 DEF FinalRow, QRow, Row, Status, IsActive
<1>5. CASE cur.verdict = "temp"
  <2>1. FinalRow(cur) = Requeue(cur)
    BY Zenon, <1>5 DEF FinalRow
  <2>2. CASE a > Max_attempts(cur.route)
    BY <2>1, <2>2, <1>0 DEF Requeue, QRow, Row, Status, IsActive
  <2>3. CASE ~(a > Max_attempts(cur.route))
    <3>1. a <= MostAttempts
      BY <1>0, <1>2, <2>3, BoundsAssumption DEF MostAttempts
    <3> QED BY <2>1, <2>3, <3>1, <1>0, <1>1 DEF Requeue, QRow, Row, Status, IsActive
  <2> QED BY Zenon, <2>2, <2>3
<1> QED BY Zenon, <1>0, <1>3, <1>4, <1>5

LEMMA FinishKeeps == IndInv /\ Finish => IndInv'
<1> SUFFICES ASSUME IndInv, Finish PROVE IndInv'
  BY Zenon
<1>2. PICK k \in Key : k = cur.key /\ Active(k)
  BY Zenon DEF Finish, IndInv, CurInv
<1> DEFINE f == FinalRow(cur)
<1>0. /\ pc = "finish"
      /\ \/ /\ Transition(k, f, Return)
            /\ bounced' = IF f.status = "permfail" THEN bounced \cup {k} ELSE bounced
         \/ TransitionFails(Return) /\ UNCHANGED bounced
      /\ reply_rows' = MarksAfter(cur) /\ cur' = NoCur
      /\ UNCHANGED <<spool, job, batch, now, replays, acked, replies, handoffs>>
  BY Zenon, <1>2 DEF Finish
<1>1. /\ f \in Row
      /\ IsActive(f) => f.attempts <= MostAttempts
      /\ IsActive(f) \/ f.status = "permfail" \/ handoffs[k] > 0
  BY Zenon, <1>0, <1>2, FinalRowEffect DEF IndInv
<1> HIDE DEF f
<1>3. Return \in PcType /\ Return \in {"accept", "batch"}
  BY Zenon DEF Return, PcType
<1>4. /\ rows' \in [Key -> SUBSET Row]
      /\ \/ rows' = rows
         \/ /\ f \in rows'[k] /\ rows'[k] \subseteq rows[k] \cup {f}
            /\ f.status = "permfail" => k \in bounced'
      /\ \A j \in Key \ {k} : rows'[j] = rows[j]
      /\ pc' \in {Return, "down"} /\ faults' \in Nat
      /\ meta' = meta /\ next_due' = next_due /\ next_due_dirty' = TRUE
  <2>1. TypeOK BY Zenon DEF IndInv
  <2>2. CASE /\ Transition(k, f, Return)
             /\ bounced' = IF f.status = "permfail" THEN bounced \cup {k} ELSE bounced
    BY Zenon, <2>1, <2>2, <1>1, <1>2, <1>3, TransitionEffect
  <2>3. CASE TransitionFails(Return)
    BY <2>1, <2>3 DEF TransitionFails, Refused, TypeOK
  <2> QED BY Zenon, <1>0, <2>2, <2>3
<1>5. \A j \in Key : Resolved(j) => Resolved(j)'
  BY Zenon, <1>0 DEF Resolved
<1>6. \A j \in Key \ {k} : /\ Resolved(j)' <=> Resolved(j)
                           /\ Active(j)' <=> Active(j)
  BY Zenon, <1>0, <1>4 DEF Resolved, Active
<1>7. Active(k)' \/ Resolved(k)'
  BY Zenon, <1>0, <1>1, <1>2, <1>4 DEF Active, Resolved
<1>8. rows[k] # {} /\ rows'[k] # {}
  BY Zenon, <1>2, <1>4 DEF Active
<1>9. (pc' = "accept" /\ job.id # 0) \/ (pc' = "batch" /\ job.id = 0) \/ pc' = "down"
  BY Zenon, <1>4 DEF Return
<1>a. TypeOK'
  <2>1. NoCur \in CurType BY Zenon DEF NoCur, CurType, Route
  <2>2. MarksAfter(cur) \subseteq reply_rows BY Zenon DEF MarksAfter
  <2>3. bounced' \subseteq Key BY Zenon, <1>0, <1>2 DEF IndInv, TypeOK
  <2> QED BY Zenon, <1>0, <1>3, <1>4, <2>1, <2>2, <2>3 DEF IndInv, TypeOK, PcType
<1>b. CounterInv'
  <2>1. \A j \in Key : Used(j)' => Used(j)
    BY Zenon, <1>0, <1>4, <1>6, <1>8 DEF Used
  <2> QED BY Zenon, <2>1, <1>4 DEF IndInv, CounterInv
<1>c. JobInv'
  <2>1. CASE job.id = 0
    BY Zenon, <2>1, <1>9, <1>0 DEF JobInv, Accepting
  <2>2. CASE job.id # 0
    <3>1. Accepting
      BY Zenon, <2>2, <1>0 DEF Accepting
    <3>2. \A i \in job.k .. MaxDests - 1 : <<job.id, i>> \in Key
      BY <2>2, BoundsAssumption DEF IndInv, TypeOK, JobType, Key
    <3>3. \A i \in job.k .. MaxDests - 1 : <<job.id, i>> # k
      BY Zenon, <1>8, <3>1 DEF IndInv, JobInv
    <3>4. \A i \in 0 .. job.k - 1 : <<job.id, i>> \in Key
      BY <3>1, <2>2, BoundsAssumption DEF IndInv, JobInv, TypeOK, JobType, Key
    <3>5. \A j \in Key : Active(j) \/ Resolved(j) => (Active(j) \/ Resolved(j))'
      BY Zenon, <1>5, <1>6, <1>7
    <3> QED BY <2>2, <3>1, <3>2, <3>3, <3>4, <3>5, <1>0, <1>4, <1>6, <1>9
            DEF IndInv, JobInv, Accepting
  <2> QED BY Zenon, <2>1, <2>2
<1>d. CurInv' BY Zenon, <1>9 DEF CurInv
<1>e. BatchInv'
  <2>1. \A i \in batch : i.key \in Key BY Zenon DEF IndInv, TypeOK, Item
  <2>2. \A j \in Key : rows[j] # {} => rows'[j] # {} BY Zenon, <1>4, <1>8
  <2> QED BY Zenon, <1>0, <1>9, <2>1, <2>2 DEF IndInv, BatchInv
<1>f. AttemptsInv'
  BY Zenon, <1>0, <1>1, <1>4, <1>9 DEF IndInv, AttemptsInv
<1>g. TerminalInv'
  BY Zenon, <1>4, <1>6, <1>7 DEF IndInv, TerminalInv
<1>h. NoAcceptedLoss'
  BY Zenon, <1>0, <1>5, <1>6, <1>7 DEF IndInv, NoAcceptedLoss, TypeOK
<1>i. ActiveHasBody'
  BY Zenon, <1>0, <1>2, <1>6 DEF IndInv, ActiveHasBody
<1>j. NextDueExact' BY Zenon, <1>4 DEF NextDueExact
<1> QED BY Zenon, <1>a, <1>b, <1>c, <1>d, <1>e, <1>f, <1>g, <1>h, <1>i, <1>j DEF IndInv

-----------------------------------------------------------------------------
(* Accepting a message                                                      *)

LEMMA AcceptKeeps == IndInv /\ FewRows /\ Accept => IndInv'
<1> SUFFICES ASSUME IndInv, FewRows, Accept PROVE IndInv'
  BY Zenon
<1>0. /\ pc \in {"poll", "dispatch"}
      /\ UNCHANGED <<rows, spool, next_due, next_due_dirty, reply_rows, batch, cur,
                     now, replays, observed>>
  BY Zenon DEF Accept
<1>00. job.id = 0 /\ batch = {}
  BY Zenon, <1>0 DEF IndInv, JobInv, BatchInv
<1>01. /\ NextMsgid(meta) \in 0 .. MaxMsgid
       /\ NextMsgid(meta) # 0 => \A m \in meta : m < NextMsgid(meta)
  BY Zenon, NextMsgidFresh DEF IndInv
<1>02. \A k \in Key : (Active(k)' <=> Active(k)) /\ (Resolved(k)' <=> Resolved(k))
                      /\ (Used(k)' <=> Used(k))
  BY Zenon, <1>0 DEF Active, Resolved, Used, observed
<1> DEFINE Given == \E left \in SUBSET meta : meta' = left \cup {NextMsgid(meta)}
<1>03. /\ pc' \in {"accept", "dispatch", "down"} /\ faults' \in Nat
       /\ \/ /\ NextMsgid(meta) # 0 /\ Given /\ pc' # "dispatch"
             /\ \E n \in 0 .. MaxDests : \E reply \in SUBSET (0 .. n - 1) :
                   job' = [id |-> NextMsgid(meta), k |-> 0, n |-> n, reply |-> reply,
                           failed |-> FALSE]
          \/ pc' = "dispatch" /\ UNCHANGED <<meta, job>>
  <2>1. Unread(meta, MetaMaxRows) = {{}} /\ meta \ {} = meta
    BY Zenon, AllRead
  <2>2. \/ /\ NextMsgid(meta) # 0
           /\ \E left \in SUBSET meta :
                meta' = left \cup {NextMsgid(meta)} /\ Ends(left = {}, "accept")
           /\ \E n \in 0 .. MaxDests : \E reply \in SUBSET (0 .. n - 1) :
                job' = [id |-> NextMsgid(meta), k |-> 0, n |-> n, reply |-> reply,
                        failed |-> FALSE]
        \/ (Goes("dispatch") \/ Refused("dispatch")) /\ UNCHANGED <<meta, job>>
    BY Zenon, <2>1 DEF Accept
  <2> QED BY <2>2 DEF Ends, Goes, Faulty, Refused, IndInv, TypeOK
<1>1. CASE pc' = "dispatch" /\ UNCHANGED <<meta, job>>
  <2> USE <1>0, <1>1 DEF IndInv, observed
  <2>1. TypeOK' BY Zenon, <1>03 DEF TypeOK, PcType
  <2>2. CounterInv' BY Zenon, <1>02 DEF CounterInv
  <2>3. JobInv' /\ CurInv' BY Zenon, <1>00 DEF JobInv, Accepting, CurInv
  <2>4. BatchInv' /\ AttemptsInv' BY Zenon, <1>00 DEF BatchInv, AttemptsInv
  <2>5. TerminalInv' /\ NoAcceptedLoss' /\ ActiveHasBody' 
    BY Zenon, <1>02 DEF TerminalInv, NoAcceptedLoss, ActiveHasBody, TypeOK
  <2>6. NextDueExact' BY Zenon DEF NextDueExact
  <2> QED BY Zenon, <2>1, <2>2, <2>3, <2>4, <2>5, <2>6
<1>2. CASE /\ NextMsgid(meta) # 0 /\ Given /\ pc' # "dispatch"
           /\ \E n \in 0 .. MaxDests : \E reply \in SUBSET (0 .. n - 1) :
                   job' = [id |-> NextMsgid(meta), k |-> 0, n |-> n, reply |-> reply,
                           failed |-> FALSE]
  <2>id. PICK id \in 1 .. MaxMsgid : id = NextMsgid(meta)
    BY <1>01, <1>2, BoundsAssumption
  <2>0. /\ id \in 1 .. MaxMsgid /\ \A m \in meta : m < id
        /\ meta' \subseteq 1 .. MaxMsgid /\ id \in meta'
        /\ \A m \in meta' : m <= id
    <3>1. PICK left \in SUBSET meta : meta' = left \cup {id}
      BY Zenon, <2>id, <1>2
    <3>2. meta \subseteq 1 .. MaxMsgid /\ \A m \in meta : m < id
      BY Zenon, <2>id, <1>01, <1>2 DEF IndInv, TypeOK
    <3> QED BY <3>1, <3>2, BoundsAssumption
  <2>00. /\ job' \in JobType /\ job'.id = id /\ job'.k = 0 /\ job'.n \in Nat
         /\ job'.failed = FALSE
    BY <2>id, <1>2, <2>0, BoundsAssumption DEF JobType
  <2>01. \A k \in Key : Used(k) => k[1] < id
    <3>1. SUFFICES ASSUME NEW k \in Key, Used(k) PROVE k[1] < id
      BY Zenon
    <3>2. PICK m \in meta : k[1] <= m
      BY Zenon, <3>1 DEF IndInv, CounterInv
    <3>3. m < id /\ m \in Nat /\ k[1] \in Nat /\ id \in Nat
      BY <2>0, BoundsAssumption DEF IndInv, TypeOK, Key
    <3> QED BY <3>2, <3>3
  <2>02. \A i \in 0 .. MaxDests - 1 : ~Used(<<id, i>>)
    <3>1. \A i \in 0 .. MaxDests - 1 : <<id, i>> \in Key /\ <<id, i>>[1] = id
      BY Zenon, <2>0 DEF Key
    <3> QED BY <3>1, <2>0, <2>01, BoundsAssumption
  <2>3. JobInv'
    <3>1. CASE pc' = "down" BY Zenon, <3>1 DEF JobInv, Accepting
    <3>2. CASE pc' = "accept"
      <4>1. \A i \in 0 .. MaxDests - 1 :
              /\ rows[<<id, i>>] = {} /\ ~Resolved(<<id, i>>)'
              /\ <<id, i>> \notin acked /\ <<id, i>> \notin spool
        BY Zenon, <2>02, <1>02, <2>0 DEF Used, Key
      <4>2. \A i \in 0 .. MaxDests - 1 :
              /\ rows'[<<id, i>>] = {} /\ ~Resolved(<<id, i>>)'
              /\ <<id, i>> \notin acked' /\ <<id, i>> \notin spool'
        BY Zenon, <4>1, <1>0 DEF observed
      <4>3. job'.k <= job'.n /\ id # 0 /\ 0 .. job'.k - 1 = {}
        BY <2>0, <2>00
      <4> QED BY Zenon, <3>2, <4>2, <4>3, <2>0, <2>00 DEF JobInv, Accepting, Resolved
    <3> QED BY Zenon, <3>1, <3>2, <1>03, <1>2
  <2> USE <1>0, <1>2 DEF IndInv, observed
  <2>1. TypeOK' BY Zenon, <1>03, <2>0, <2>00 DEF TypeOK, PcType
  <2>2. CounterInv'
    <3>1. \A k \in Key : Used(k)' => k[1] <= id
      BY <1>02, <2>0, <2>01, BoundsAssumption DEF Key
    <3> QED BY Zenon, <2>0, <3>1 DEF CounterInv
  <2>4. CurInv' /\ BatchInv' /\ AttemptsInv'
    BY Zenon, <1>00, <1>03 DEF CurInv, BatchInv, AttemptsInv
  <2>5. TerminalInv' /\ NoAcceptedLoss' /\ ActiveHasBody' 
    BY Zenon, <1>02 DEF TerminalInv, NoAcceptedLoss, ActiveHasBody, TypeOK
  <2>6. NextDueExact' BY Zenon DEF NextDueExact
  <2> QED BY Zenon, <2>1, <2>2, <2>3, <2>4, <2>5, <2>6
<1> QED BY Zenon, <1>03, <1>1, <1>2

\* The destination being enqueued is a delivery of its own, not yet used.
LEMMA JobKeyFresh ==
  ASSUME IndInv, Accepting, job.k < job.n
  PROVE  /\ JobKey \in Key /\ rows[JobKey] = {}
         /\ ~Resolved(JobKey) /\ JobKey \notin acked
         /\ pc # "add" => JobKey \notin spool
         /\ \A i \in job.k + 1 .. MaxDests - 1 :
              <<job.id, i>> \in Key /\ <<job.id, i>> # JobKey
         /\ \A i \in 0 .. job.k - 1 : <<job.id, i>> \in Key /\ <<job.id, i>> # JobKey
         /\ \E m \in meta : JobKey[1] <= m
<1>1. /\ job.id \in 1 .. MaxMsgid /\ job.k \in Nat /\ job.n \in 0 .. MaxDests
      /\ job.k \in job.k .. MaxDests - 1
  BY BoundsAssumption DEF IndInv, TypeOK, JobType, Accepting
<1>2. JobKey \in Key
  BY <1>1, BoundsAssumption DEF JobKey, Key
<1>3. /\ rows[JobKey] = {} /\ ~Resolved(JobKey) /\ JobKey \notin acked
      /\ pc # "add" => JobKey \notin spool
      /\ job.id \in meta
  BY Zenon, <1>1 DEF IndInv, JobInv, JobKey
<1>4. \A i \in Nat : <<job.id, i>> = JobKey => i = job.k
  BY Zenon, <1>1 DEF JobKey
<1>5. \A i \in 0 .. MaxDests - 1 : <<job.id, i>> \in Key
  BY Zenon, <1>1 DEF Key
<1>6. \E m \in meta : JobKey[1] <= m
  BY <1>1, <1>3 DEF JobKey
<1> QED BY <1>1, <1>2, <1>3, <1>4, <1>5, <1>6, BoundsAssumption

LEMMA JobAdvances ==
  ASSUME NEW j \in JobType, NEW next, next = [j EXCEPT !.k = @ + 1, !.failed = TRUE]
  PROVE  /\ next \in JobType /\ next.id = j.id /\ next.n = j.n
         /\ next.k = j.k + 1 /\ next.failed = TRUE
<1>1. next = [id |-> j.id, k |-> j.k + 1, n |-> j.n, reply |-> j.reply, failed |-> TRUE]
  BY Zenon DEF JobType
<1>2. next.id = j.id /\ next.n = j.n /\ next.k = j.k + 1 
  BY Zenon, <1>1
<1>3. next.failed = TRUE BY Zenon, <1>1
<1>4. next \in JobType
  <2>1. /\ j.id \in 0 .. MaxMsgid /\ j.k + 1 \in Nat /\ j.n \in 0 .. MaxDests
        /\ j.reply \in SUBSET Nat /\ TRUE \in BOOLEAN
    BY DEF JobType
  <2> QED BY <2>1, <1>1, Zenon DEF JobType
<1> QED BY <1>2, <1>3, <1>4, Zenon

LEMMA SpoolKeeps == IndInv /\ Spool => IndInv'
<1> SUFFICES ASSUME IndInv, Spool PROVE IndInv'
  BY Zenon
<1>0. /\ pc = "accept" /\ job.k < job.n /\ faults' \in Nat
      /\ spool' \in {spool, spool \cup {JobKey}}
      /\ \/ pc' = "add" /\ JobKey \in spool'
         \/ pc' = "accept"
      /\ UNCHANGED <<store, reply_rows, batch, cur, now, replays, observed>>
  BY DEF Spool, Goes, Refused, IndInv, TypeOK
<1>00. Accepting /\ job.id # 0 /\ batch = {} /\ job \in JobType
  BY Zenon, <1>0 DEF IndInv, JobInv, BatchInv, Accepting, TypeOK
<1>01. PICK k \in Key : /\ k = JobKey
                       /\ k[1] = job.id /\ job.id \in meta
                       /\ k \notin spool
                       /\ \A i \in job.k + 1 .. MaxDests - 1 : <<job.id, i>> # k
                       /\ \E m \in meta : k[1] <= m
  BY Zenon, <1>0, <1>00, JobKeyFresh DEF IndInv, JobInv, JobKey
<1>02. \A j \in Key : (Active(j)' <=> Active(j)) /\ (Resolved(j)' <=> Resolved(j))
  BY Zenon, <1>0 DEF Active, Resolved, observed, store
<1>03. /\ job' \in JobType /\ job'.id = job.id /\ job'.n = job.n
       /\ pc' = "add" => job' = job
       /\ pc' = "accept" => job'.k = job.k + 1 /\ job'.failed = TRUE
  <2>1. CASE job' = job /\ pc' = "add" BY Zenon, <2>1, <1>00
  <2>2. CASE pc' = "accept" /\ job' = [job EXCEPT !.k = @ + 1, !.failed = TRUE]
    BY Zenon, <2>2, <1>00, JobAdvances
  <2> QED BY Zenon, <2>1, <2>2 DEF Spool, Goes, Refused
<1> USE <1>0 DEF IndInv, store, observed
<1>1. TypeOK' BY Zenon, <1>01, <1>03 DEF TypeOK, PcType
<1>2. CounterInv'
  <2>1. \A j \in Key : Used(j)' => Used(j) \/ j = k
    BY Zenon, <1>01, <1>02 DEF Used
  <2>2. \A j \in Key : Used(j)' => \E m \in meta : j[1] <= m
    <3> TAKE j \in Key
    <3>0. job.id <= job.id BY <1>00 DEF JobType
    <3>1. CASE j = k BY Zenon, <3>0, <3>1, <1>01
    <3>2. CASE Used(j) BY Zenon, <3>2 DEF CounterInv
    <3> QED BY Zenon, <3>1, <3>2, <2>1
  <2>3. meta' = meta
    BY Zenon
  <2> QED BY Zenon, <2>2, <2>3 DEF CounterInv
<1>3. JobInv'
  <2>0. job.k \in Nat /\ job.n \in 0 .. MaxDests /\ job.id \in 1 .. MaxMsgid
    BY <1>00, BoundsAssumption DEF JobType
  <2>1. \A i \in job.k .. MaxDests - 1 : 
          /\ <<job.id, i>> \in Key
          /\ rows[<<job.id, i>>] = {} /\ ~Resolved(<<job.id, i>>)
          /\ <<job.id, i>> \notin acked /\ <<job.id, i>> \notin spool
    <3>1. pc # "add"
      BY Zenon, <1>0
    <3>2. \A i \in job.k .. MaxDests - 1 : 
            /\ rows[<<job.id, i>>] = {} /\ ~Resolved(<<job.id, i>>)
            /\ <<job.id, i>> \notin acked /\ <<job.id, i>> \notin spool
      BY Zenon, <1>00, <3>1 DEF JobInv
    <3>3. \A i \in job.k .. MaxDests - 1 : i \in 0 .. MaxDests - 1
      BY <2>0, BoundsAssumption
    <3>4. \A i \in job.k .. MaxDests - 1 : <<job.id, i>> \in Key
      BY Zenon, <2>0, <3>3 DEF Key
    <3> QED BY Zenon, <3>2, <3>4
  <2>2. \A i \in 0 .. job.k - 1 : <<job.id, i>> \in Key
    BY <2>0, BoundsAssumption DEF Key
  <2>3. CASE pc' = "add"
    BY Zenon, <2>3, <2>0, <2>1, <2>2, <1>00, <1>01, <1>02, <1>03 DEF JobInv, Accepting, JobKey
  <2>4. CASE pc' = "accept"
    <3>1. \A i \in job'.k .. MaxDests - 1 : 
            /\ i \in job.k .. MaxDests - 1 /\ i \in job.k + 1 .. MaxDests - 1
      BY <2>4, <2>0, <1>03, BoundsAssumption
    <3>2. \A i \in job'.k .. MaxDests - 1 : <<job.id, i>> \notin spool'
      <4>1. \A i \in job'.k .. MaxDests - 1 : <<job.id, i>> \notin spool /\ <<job.id, i>> # k
        BY Zenon, <3>1, <2>1, <1>01
      <4>2. spool' = spool \/ spool' = spool \cup {k}
        BY Zenon, <1>0, <1>01
      <4> QED BY Zenon, <4>1, <4>2
    <3>3. job'.k <= job'.n
      BY <2>4, <2>0, <1>03
    <3> QED BY Zenon, <2>4, <2>1, <3>1, <3>2, <3>3, <1>00, <1>02, <1>03 DEF JobInv, Accepting
  <2> QED BY Zenon, <2>3, <2>4
<1>4. CurInv' /\ BatchInv' /\ AttemptsInv' BY Zenon, <1>00 DEF CurInv, BatchInv, AttemptsInv
<1>5. TerminalInv' /\ NoAcceptedLoss' /\ ActiveHasBody'
  BY Zenon, <1>02 DEF TerminalInv, NoAcceptedLoss, ActiveHasBody, TypeOK
<1>6. NextDueExact' BY Zenon DEF NextDueExact
<1> QED BY Zenon, <1>1, <1>2, <1>3, <1>4, <1>5, <1>6

\* The cache after store_queue_add: a row due at once makes 0 the soonest time.
LEMMA ScanZero ==
  ASSUME NEW rel \in [Key -> SUBSET Row], NEW k \in Key,
         NEW r \in rel[k], r.status = "queued", r.next_ts = 0
  PROVE  ScanNextDue(rel) = 0
<1>1. 0 \in QueuedTs(rel)
  BY DEF QueuedTs
<1>2. /\ QueuedTs(rel) \in SUBSET Nat /\ QueuedTs(rel) # {}
  BY Zenon, <1>1, QueuedTsType
<1>3. Min(QueuedTs(rel)) \in QueuedTs(rel) /\ Min(QueuedTs(rel)) <= 0
  BY Zenon, <1>1, <1>2, MinInNat
<1>4. Min(QueuedTs(rel)) = 0
  BY <1>2, <1>3
<1> QED BY Zenon, <1>2, <1>4 DEF ScanNextDue

\* What store_queue_add and the bookkeeping around it do, refused or not.
LEMMA AddRowEffect ==
  ASSUME IndInv, AddRow, NEW k \in Key, k = JobKey
  PROVE  /\ rows' \in [Key -> SUBSET Row] /\ spool' \subseteq spool
         /\ \A j \in Key \ {k} : rows'[j] = rows[j] /\ (j \in spool' <=> j \in spool)
         /\ job' \in JobType /\ job'.id = job.id /\ job'.n = job.n /\ job'.k = job.k + 1
         /\ reply_rows' \subseteq Key /\ replies' \subseteq Key /\ faults' \in Nat
         /\ UNCHANGED <<meta, batch, cur, now, replays, acked, handoffs, bounced>>
         /\ \/ /\ pc' = "first" /\ spool' = spool /\ rows'[k] = {QRow("queued", 0, 0)}
               /\ next_due' = 0 /\ next_due_dirty' = FALSE
               /\ job'.failed = job.failed
            \/ /\ pc' = "accept" /\ rows' = rows /\ job'.failed = TRUE
               /\ UNCHANGED <<next_due, next_due_dirty>>
<1>0. pc = "add" /\ UNCHANGED <<meta, batch, cur, now, replays, acked, handoffs, bounced>>
  BY Zenon DEF AddRow
<1>1. Accepting /\ job.k < job.n /\ rows[k] = {} /\ job \in JobType
  BY Zenon, <1>0, JobKeyFresh DEF IndInv, JobInv, Accepting, TypeOK
<1>2. QRow("queued", 0, 0) \in Row
  BY Zenon DEF QRow, Row, Status
<1>3. CASE /\ rows' = [rows EXCEPT ![JobKey] = @ \cup {QRow("queued", 0, 0)}]
           /\ next_due' = 0 /\ next_due_dirty' = FALSE
           /\ reply_rows' = IF job.k \in job.reply THEN reply_rows \cup {JobKey}
                            ELSE reply_rows
           /\ replies' = IF job.k \in job.reply THEN replies \cup {JobKey}
                         ELSE replies
           /\ job' = [job EXCEPT !.k = @ + 1]
           /\ Goes("first")
           /\ UNCHANGED spool
  <2>1. /\ job' \in JobType /\ job'.id = job.id /\ job'.n = job.n /\ job'.k = job.k + 1
        /\ job'.failed = job.failed
    BY <1>1, <1>3 DEF JobType
  <2>2. /\ rows' \in [Key -> SUBSET Row] /\ rows'[k] = {QRow("queued", 0, 0)}
        /\ \A j \in Key \ {k} : rows'[j] = rows[j]
    BY Zenon, <1>1, <1>2, <1>3 DEF IndInv, TypeOK
  <2>3. reply_rows' \subseteq Key /\ replies' \subseteq Key
    BY Zenon, <1>3 DEF IndInv, TypeOK
  <2> HIDE <1>3
  <2>4. /\ spool' = spool /\ next_due' = 0 /\ next_due_dirty' = FALSE
        /\ pc' = "first" /\ faults' \in Nat
    BY Zenon, <1>3 DEF Goes, IndInv, TypeOK
  <2> QED BY Zenon, <1>0, <2>1, <2>2, <2>3, <2>4
<1>4. CASE /\ Refused("accept")
           /\ spool' \in {spool, spool \ {JobKey}}
           /\ job' = [job EXCEPT !.k = @ + 1, !.failed = TRUE]
           /\ UNCHANGED <<rows, next_due, next_due_dirty, reply_rows, replies>>
  <2>1. /\ job' \in JobType /\ job'.id = job.id /\ job'.n = job.n /\ job'.k = job.k + 1
        /\ job'.failed = TRUE
    BY Zenon, <1>1, <1>4, JobAdvances
  <2>2. /\ pc' = "accept" /\ faults' \in Nat
        /\ spool' \in {spool, spool \ {k}}
        /\ UNCHANGED <<rows, next_due, next_due_dirty, reply_rows, replies>>
    BY <1>4 DEF Refused, IndInv, TypeOK
  <2> QED BY Zenon, <1>0, <2>1, <2>2 DEF IndInv, TypeOK
<1> QED BY Zenon, <1>3, <1>4 DEF AddRow

LEMMA AddRowKeeps == IndInv /\ AddRow => IndInv'
<1> SUFFICES ASSUME IndInv, AddRow PROVE IndInv'
  BY Zenon
<1>0. pc = "add" /\ Accepting /\ job.k < job.n /\ job \in JobType /\ batch = {}
      /\ JobKey \in spool
  BY Zenon DEF AddRow, IndInv, JobInv, Accepting, TypeOK, BatchInv
<1>1. PICK k \in Key : /\ k = JobKey /\ k \in spool
                       /\ k[1] = job.id /\ job.id \in meta
                       /\ rows[k] = {} /\ ~Resolved(k) /\ k \notin acked
                       /\ \A i \in job.k + 1 .. MaxDests - 1 :
                             <<job.id, i>> \in Key /\ <<job.id, i>> # k
                       /\ \A i \in 0 .. job.k - 1 :
                             <<job.id, i>> \in Key /\ <<job.id, i>> # k
  BY Zenon, <1>0, JobKeyFresh DEF JobKey, IndInv, JobInv
<1>2. /\ rows' \in [Key -> SUBSET Row] /\ spool' \subseteq spool
      /\ \A j \in Key \ {k} : rows'[j] = rows[j] /\ (j \in spool' <=> j \in spool)
      /\ job' \in JobType /\ job'.id = job.id /\ job'.n = job.n /\ job'.k = job.k + 1
      /\ reply_rows' \subseteq Key /\ replies' \subseteq Key /\ faults' \in Nat
      /\ UNCHANGED <<meta, batch, cur, now, replays, acked, handoffs, bounced>>
  BY Zenon, <1>1, AddRowEffect
<1>3. \/ /\ pc' = "first" /\ spool' = spool /\ rows'[k] = {QRow("queued", 0, 0)}
         /\ next_due' = 0 /\ next_due_dirty' = FALSE
         /\ job'.failed = job.failed
      \/ /\ pc' = "accept" /\ rows' = rows /\ job'.failed = TRUE
         /\ UNCHANGED <<next_due, next_due_dirty>>
  BY Zenon, <1>1, AddRowEffect
<1>4. \A r \in {QRow("queued", 0, 0)} : 
         IsActive(r) /\ r.status = "queued" /\ r.next_ts = 0 /\ r.attempts = 0
  BY DEF QRow, IsActive
<1>5. /\ \A j \in Key \ {k} : Active(j)' <=> Active(j)
      /\ \A j \in Key : Resolved(j)' <=> Resolved(j)
      /\ pc' = "first" => Active(k)'
      /\ pc' = "accept" => ~Active(k)'
  BY Zenon, <1>1, <1>2, <1>3, <1>4 DEF Active, Resolved
<1>a. TypeOK' 
  <2>1. pc' \in PcType BY Zenon, <1>3 DEF PcType
  <2>2. next_due' \in Nat
    <3>1. next_due \in Nat BY Zenon DEF IndInv, TypeOK
    <3>2. next_due' = 0 \/ next_due' = next_due BY Zenon, <1>3
    <3> QED BY <3>1, <3>2
  <2>3. next_due_dirty' \in BOOLEAN BY <1>3, Zenon DEF IndInv, TypeOK
  <2> QED BY Zenon, <2>1, <2>2, <2>3, <1>2 DEF IndInv, TypeOK
<1>b. CounterInv'
  <2>0. job.id <= job.id BY <1>0 DEF JobType
  <2>1. \A j \in Key : Used(j)' => Used(j)
    BY Zenon, <1>1, <1>2, <1>5 DEF Used
  <2>2. meta' = meta BY Zenon, <1>2
  <2> QED BY Zenon, <2>1, <2>2 DEF IndInv, CounterInv
<1>c. JobInv'
  <2>0. job.k \in Nat /\ job.n \in 0 .. MaxDests /\ job.id # 0
    BY Zenon, <1>0, BoundsAssumption DEF JobType, Accepting
  <2>1. \A i \in job'.k .. MaxDests - 1 : 
          /\ i \in job.k .. MaxDests - 1 /\ i \in job.k + 1 .. MaxDests - 1
          /\ i # job.k
    <3>1. job'.k = job.k + 1 BY Zenon, <1>2
    <3> QED BY Zenon, <3>1, <2>0, Upwards, BoundsAssumption
  <2>2. \A i \in job'.k .. MaxDests - 1 :
          /\ rows'[<<job.id, i>>] = {} /\ ~Resolved(<<job.id, i>>)'
          /\ <<job.id, i>> \notin acked' /\ <<job.id, i>> \notin spool'
    BY Zenon, <2>1, <1>0, <1>1, <1>2, <1>5 DEF IndInv, JobInv
  <2>3. \A i \in 0 .. job'.k - 1 : i \in 0 .. job.k - 1 \/ <<job.id, i>> = k
    <3>1. job'.k = job.k + 1 BY Zenon, <1>2
    <3>2. \A i \in 0 .. job'.k - 1 : i \in 0 .. job.k - 1 \/ i = job.k
      BY Zenon, <3>1, <2>0, Upwards
    <3> QED BY Zenon, <3>2, <1>1 DEF JobKey
  <2>4. ~job'.failed => ~job.failed /\ pc' = "first"
    BY Zenon, <1>3
  <2>5. ~job'.failed => 
          \A i \in 0 .. job'.k - 1 : Active(<<job.id, i>>)' \/ Resolved(<<job.id, i>>)'
    BY Zenon, <2>3, <2>4, <1>0, <1>1, <1>2, <1>5 DEF IndInv, JobInv
  <2>6. job'.k <= job'.n /\ job'.k > 0 /\ <<job.id, job'.k - 1>> = k
    <3>1. job'.k = job.k + 1 /\ job'.n = job.n BY Zenon, <1>2
    <3>2. job'.k <= job'.n /\ job'.k > 0 BY <3>1, <2>0, <1>0
    <3>3. job'.k - 1 = job.k BY <3>1, <2>0
    <3> QED BY Zenon, <3>2, <3>3, <1>1 DEF JobKey
  <2>7. /\ job.id \in meta' /\ \A m \in meta' : m <= job.id
    BY Zenon, <1>0, <1>2 DEF IndInv, JobInv
  <2> QED BY Zenon, <2>0, <2>2, <2>5, <2>6, <2>7, <1>2, <1>3, <1>5 DEF JobInv, Accepting
<1>d. CurInv' /\ BatchInv'
  BY Zenon, <1>0, <1>2, <1>3 DEF CurInv, BatchInv
<1>e. AttemptsInv'
  <2>1. 0 <= MostAttempts BY BoundsAssumption DEF MostAttempts
  <2> QED BY Zenon, <2>1, <1>0, <1>2, <1>3, <1>4 DEF IndInv, AttemptsInv
<1>f. TerminalInv'
  <2>1. rows'[k] # {} => Active(k)' BY Zenon, <1>1, <1>3, <1>5
  <2> QED BY Zenon, <2>1, <1>2, <1>5 DEF IndInv, TerminalInv
<1>g. NoAcceptedLoss'
  BY Zenon, <1>1, <1>2, <1>5 DEF IndInv, NoAcceptedLoss, TypeOK
<1>h. ActiveHasBody'
  BY Zenon, <1>1, <1>2, <1>3, <1>5 DEF IndInv, ActiveHasBody
<1>i. NextDueExact'
  <2>1. CASE pc' = "first"
    <3>1. rows'[k] = {QRow("queued", 0, 0)} BY Zenon, <2>1, <1>3
    <3>2. ScanNextDue(rows') = 0 BY Zenon, <3>1, <1>2, <1>4, ScanZero
    <3> QED BY Zenon, <2>1, <3>2, <1>3 DEF NextDueExact
  <2>2. CASE pc' = "accept"
    BY Zenon, <2>2, <1>0, <1>3 DEF IndInv, NextDueExact
  <2> QED BY Zenon, <2>1, <2>2, <1>3
<1> QED BY Zenon, <1>a, <1>b, <1>c, <1>d, <1>e, <1>f, <1>g, <1>h, <1>i DEF IndInv

LEMMA ReplyKeeps == IndInv /\ Reply => IndInv'
<1> SUFFICES ASSUME IndInv, Reply PROVE IndInv'
  BY Zenon
<1>0. /\ pc = "accept" /\ pc' = "dispatch" /\ job.k = job.n
      /\ acked' = acked \cup Accepted(job) /\ job' = NoJob
      /\ UNCHANGED <<store, spool, reply_rows, batch, cur, now, faults, replays,
                     replies, handoffs, bounced>>
  BY Zenon DEF Reply, Goes
<1>00. Accepting /\ batch = {} /\ job \in JobType /\ job.id \in meta
  BY Zenon, <1>0 DEF IndInv, JobInv, BatchInv, Accepting, TypeOK
<1>01. \A j \in Accepted(job) : /\ j \in Key /\ j[1] = job.id
                               /\ (Active(j) \/ Resolved(j))
  <2>1. CASE job.failed BY Zenon, <2>1 DEF Accepted
  <2>2. CASE ~job.failed
    <3>1. \A i \in 0 .. job.n - 1 : <<job.id, i>> \in Key
      BY <1>00, BoundsAssumption DEF Accepting, JobType, Key
    <3>2. \A i \in 0 .. job.n - 1 : Active(<<job.id, i>>) \/ Resolved(<<job.id, i>>)
      <4>1. \A i \in 0 .. job.k - 1 : Active(<<job.id, i>>) \/ Resolved(<<job.id, i>>)
        BY Zenon, <2>2, <1>00 DEF IndInv, JobInv
      <4> QED BY Zenon, <4>1, <1>0
    <3>3. \A j \in Accepted(job) : \E i \in 0 .. job.n - 1 : j = <<job.id, i>>
      BY Zenon, <2>2 DEF Accepted, JobKeys
    <3>4. \A i \in 0 .. job.n - 1 : <<job.id, i>>[1] = job.id
      BY Zenon
    <3> QED BY Zenon, <3>1, <3>2, <3>3, <3>4
  <2> QED BY Zenon, <2>1, <2>2
<1>02. \A j \in Key : (Active(j)' <=> Active(j)) /\ (Resolved(j)' <=> Resolved(j))
  BY Zenon, <1>0 DEF Active, Resolved, store
<1> USE <1>0 DEF IndInv, store
<1>1. TypeOK'
  <2>1. NoJob \in JobType
    <3>1. 0 \in 0 .. MaxMsgid /\ 0 \in 0 .. MaxDests /\ 0 \in Nat BY BoundsAssumption
    <3>2. {} \in SUBSET Nat /\ FALSE \in BOOLEAN BY Zenon
    <3> QED BY Zenon, <3>1, <3>2 DEF NoJob, JobType
  <2> QED BY Zenon, <2>1, <1>01 DEF TypeOK, PcType
<1>2. CounterInv'
  <2>1. job.id <= job.id BY <1>00 DEF JobType
  <2> QED BY Zenon, <2>1, <1>00, <1>01, <1>02 DEF CounterInv, Used
<1>3. JobInv' /\ CurInv' BY Zenon DEF JobInv, CurInv, Accepting, NoJob
<1>4. BatchInv' /\ AttemptsInv' BY Zenon, <1>00 DEF BatchInv, AttemptsInv
<1>5. TerminalInv' /\ NoAcceptedLoss' /\ ActiveHasBody'
  BY Zenon, <1>01, <1>02 DEF TerminalInv, NoAcceptedLoss, ActiveHasBody, TypeOK
<1>6. NextDueExact' BY Zenon DEF NextDueExact
<1> QED BY Zenon, <1>1, <1>2, <1>3, <1>4, <1>5, <1>6

-----------------------------------------------------------------------------
(* The sweep                                                                *)

\* spool_gc touches no delivery that any row still has active, so the soonest
\* queued time stays what it was although the cache is not invalidated.
LEMMA SpoolGcEffect ==
  ASSUME TypeOK, FewRows, SpoolGc
  PROVE  /\ rows' \in [Key -> SUBSET Row] /\ spool' \subseteq spool
         /\ \A k \in Key : rows'[k] \subseteq rows[k]
         /\ \A k \in Key : Active(k) => rows'[k] = rows[k] /\ (k \in spool => k \in spool')
         /\ ScanNextDue(rows') = ScanNextDue(rows)
         /\ pc' \in {"down", IF pc = "gc" THEN "redrive" ELSE "poll"}
         /\ faults' \in Nat
<1>0. PICK old \in SUBSET Collectable :
        \E unlinked \in SUBSET old, left \in SUBSET UNION {rows[k] : k \in old} :
          /\ StoreErrors \/ \A k \in old \ unlinked : rows[k] \subseteq left
          /\ \A k \in old : \E u \in Missed(k) : u \subseteq left
          /\ spool' = spool \ unlinked
          /\ rows' = [k \in Key |-> IF k \in old THEN rows[k] \cap left ELSE rows[k]]
          /\ Ends(unlinked = old /\ \A k \in old : rows[k] \cap left \in Missed(k),
                  IF pc = "gc" THEN "redrive" ELSE "poll")
  BY ZenonT(30) DEF SpoolGc
<1>1. PICK unlinked \in SUBSET old, left \in SUBSET UNION {rows[k] : k \in old} :
        /\ spool' = spool \ unlinked
        /\ rows' = [k \in Key |-> IF k \in old THEN rows[k] \cap left ELSE rows[k]]
        /\ Ends(unlinked = old /\ \A k \in old : rows[k] \cap left \in Missed(k),
                IF pc = "gc" THEN "redrive" ELSE "poll")
  BY Zenon, <1>0
<1>2. \A k \in old : ~Active(k)
  <2>1. \A k \in old : k \in Key /\ QueueStatus(rows[k] \ {}) = "terminal"
    BY Zenon, AllRead DEF Collectable, TypeOK
  <2>2. \A k \in old : rows[k] \ {} = rows[k] BY Zenon
  <2> QED BY Zenon, <2>1, <2>2 DEF QueueStatus, Active
<1>3. /\ rows' \in [Key -> SUBSET Row] /\ spool' \subseteq spool
      /\ \A k \in Key : rows'[k] \subseteq rows[k]
      /\ \A k \in Key : Active(k) => rows'[k] = rows[k] /\ (k \in spool => k \in spool')
  BY Zenon, <1>1, <1>2 DEF TypeOK
<1>4. \A k \in Key : {q \in rows'[k] : q.status = "queued"} = {q \in rows[k] : q.status = "queued"}
  BY Zenon, <1>3 DEF Active, IsActive
<1>5. QueuedTs(rows') = QueuedTs(rows)
  BY Zenon, <1>4 DEF QueuedTs
<1>6. ScanNextDue(rows') = ScanNextDue(rows)
  BY Zenon, <1>5 DEF ScanNextDue
<1>7. pc' \in {"down", IF pc = "gc" THEN "redrive" ELSE "poll"} /\ faults' \in Nat
  BY Zenon, <1>1, EndsEffect
<1> QED BY Zenon, <1>3, <1>6, <1>7

LEMMA SpoolGcKeeps ==
  ASSUME IndInv, FewRows, SpoolGc, pc \in {"gc", "sweep"},
         UNCHANGED <<meta, reply_rows, job, batch, cur, now, replays, observed>>,
         next_due' \in Nat, next_due_dirty' \in BOOLEAN, NextDueExact'
  PROVE  IndInv'
<1>0. TypeOK /\ job.id = 0 /\ batch = {} BY Zenon DEF IndInv, JobInv, BatchInv
<1>1. /\ rows' \in [Key -> SUBSET Row] /\ spool' \subseteq spool
      /\ \A k \in Key : rows'[k] \subseteq rows[k]
      /\ \A k \in Key : Active(k) => rows'[k] = rows[k] /\ (k \in spool => k \in spool')
      /\ pc' \in {"down", IF pc = "gc" THEN "redrive" ELSE "poll"}
      /\ faults' \in Nat
  BY Zenon, <1>0, SpoolGcEffect
<1>2. pc' \in {"down", "redrive", "poll"} BY Zenon, <1>1
<1>3. /\ \A k \in Key : Active(k)' <=> Active(k)
      /\ \A k \in Key : Resolved(k)' <=> Resolved(k)
  BY Zenon, <1>1 DEF Active, Resolved, observed
<1> USE DEF observed
<1>a. TypeOK' BY Zenon, <1>0, <1>1, <1>2 DEF TypeOK, PcType
<1>b. CounterInv'
  <2>1. \A k \in Key : Used(k)' => Used(k) BY Zenon, <1>1, <1>3 DEF Used
  <2> QED BY Zenon, <2>1 DEF IndInv, CounterInv
<1>c. JobInv' /\ CurInv' BY Zenon, <1>0, <1>2 DEF JobInv, Accepting, CurInv
<1>d. BatchInv' BY Zenon, <1>0 DEF BatchInv
<1>e. AttemptsInv' BY Zenon, <1>0, <1>1, <1>2 DEF IndInv, AttemptsInv
<1>f. TerminalInv' BY Zenon, <1>1, <1>3 DEF IndInv, TerminalInv
<1>g. NoAcceptedLoss' BY Zenon, <1>0, <1>3 DEF IndInv, NoAcceptedLoss, TypeOK
<1>h. ActiveHasBody' BY Zenon, <1>1, <1>3 DEF IndInv, ActiveHasBody
<1> QED BY Zenon, <1>a, <1>b, <1>c, <1>d, <1>e, <1>f, <1>g, <1>h DEF IndInv

LEMMA SweepKeeps == IndInv /\ FewRows /\ Sweep => IndInv'
<1> SUFFICES ASSUME IndInv, FewRows, Sweep PROVE IndInv'
  BY Zenon
<1>0. /\ TypeOK /\ NextDueExact /\ pc = "sweep" /\ SpoolGc
      /\ UNCHANGED <<meta, reply_rows, job, batch, cur, now, replays, observed>>
  BY Zenon DEF IndInv, Sweep
<1>1. ScanNextDue(rows') = ScanNextDue(rows)
  BY Zenon, <1>0, SpoolGcEffect
<1>2. NextDue \in Nat /\ NextDue = ScanNextDue(rows)
  BY Zenon, ScanType, <1>0 DEF NextDue, TypeOK, NextDueExact
<1>3. CASE next_due' = NextDue /\ next_due_dirty' = FALSE
  <2>1. NextDueExact' BY Zenon, <1>1, <1>2, <1>3 DEF NextDueExact
  <2>2. next_due' \in Nat /\ next_due_dirty' \in BOOLEAN BY Zenon, <1>2, <1>3
  <2> QED BY Zenon, <1>0, <2>1, <2>2, SpoolGcKeeps
<1>4. CASE UNCHANGED <<next_due, next_due_dirty>>
  <2>1. NextDueExact' BY Zenon, <1>0, <1>1, <1>4 DEF NextDueExact
  <2>2. next_due' \in Nat /\ next_due_dirty' \in BOOLEAN BY Zenon, <1>0, <1>4 DEF TypeOK
  <2> QED BY Zenon, <1>0, <2>1, <2>2, SpoolGcKeeps
<1> QED BY Zenon, <1>3, <1>4 DEF Sweep

LEMMA StartupGcKeeps == IndInv /\ FewRows /\ StartupGc => IndInv'
<1> SUFFICES ASSUME IndInv, FewRows, StartupGc PROVE IndInv'
  BY Zenon
<1>0. /\ TypeOK /\ NextDueExact /\ pc = "gc" /\ SpoolGc
      /\ UNCHANGED <<meta, reply_rows, job, batch, cur, now, replays, observed>>
      /\ UNCHANGED <<next_due, next_due_dirty>>
  BY Zenon DEF IndInv, StartupGc
<1>1. NextDueExact' BY Zenon, <1>0, SpoolGcEffect DEF NextDueExact
<1>2. next_due' \in Nat /\ next_due_dirty' \in BOOLEAN BY Zenon, <1>0 DEF TypeOK
<1> QED BY Zenon, <1>0, <1>1, <1>2, SpoolGcKeeps

-----------------------------------------------------------------------------
(* Replay and restart                                                       *)

\* Queueing deliveries afresh between two handlers keeps the invariant.
LEMMA QueuedAfresh ==
  ASSUME IndInv, rows' \in [Key -> SUBSET Row],
         \A k \in Key : rows'[k] = rows[k]
                       \/ (Active(k)' /\ rows[k] # {} /\ k \in spool),
         \A k \in Key : \A r \in rows'[k] :
            IsActive(r) => r \in rows[k] \/ r.attempts <= MostAttempts,
         pc' \in {"gc", "dispatch", "down"}, job' \in JobType, job'.id = 0,
         batch' = {}, cur' \in CurType, next_due' \in Nat, next_due_dirty' = TRUE,
         reply_rows' \subseteq Key, replies' \subseteq Key, faults' \in Nat,
         replays' \in Nat,
         UNCHANGED <<meta, spool, now, acked, handoffs, bounced>>
  PROVE  IndInv'
<1>1. /\ \A k \in Key : Resolved(k)' <=> Resolved(k)
      /\ \A k \in Key : Active(k) => Active(k)'
      /\ \A k \in Key : rows'[k] # {} => rows[k] # {}
      /\ \A k \in Key : Active(k)' => Active(k) \/ k \in spool
  BY Zenon DEF Resolved, Active
<1>a. TypeOK'
  <2>1. pc' \in PcType BY Zenon DEF PcType
  <2>2. next_due_dirty' \in BOOLEAN BY Zenon
  <2> QED BY Zenon, <2>1, <2>2 DEF IndInv, TypeOK
<1>b. CounterInv'
  <2>1. \A k \in Key : Used(k)' => Used(k) BY Zenon, <1>1 DEF Used
  <2> QED BY Zenon, <2>1 DEF IndInv, CounterInv
<1>c. JobInv' BY Zenon DEF JobInv, Accepting
<1>d. CurInv' /\ BatchInv' BY Zenon DEF CurInv, BatchInv
<1>e. AttemptsInv' BY Zenon DEF IndInv, AttemptsInv
<1>f. TerminalInv' BY Zenon, <1>1 DEF IndInv, TerminalInv, Active
<1>g. NoAcceptedLoss' BY Zenon, <1>1 DEF IndInv, NoAcceptedLoss, TypeOK
<1>h. ActiveHasBody' BY Zenon, <1>1 DEF IndInv, ActiveHasBody
<1>i. NextDueExact' BY Zenon DEF NextDueExact
<1> QED BY Zenon, <1>a, <1>b, <1>c, <1>d, <1>e, <1>f, <1>g, <1>h, <1>i DEF IndInv

\* /replay leaves a row queued for now wherever it touches a delivery.
LEMMA ReplayEffect ==
  ASSUME IndInv, Replay
  PROVE  /\ rows' \in [Key -> SUBSET Row]
         /\ \A k \in Key : rows'[k] = rows[k]
                          \/ (Active(k)' /\ rows[k] # {} /\ k \in spool)
         /\ \A k \in Key : \A r \in rows'[k] :
               IsActive(r) => r \in rows[k] \/ r.attempts <= MostAttempts
         /\ pc' \in {"dispatch", "down"} /\ faults' \in Nat
<1>2. PICK id \in 1 .. MaxMsgid :
        \E done \in SUBSET Replayable(id),
           left \in SUBSET UNION {rows[k] : k \in Replayable(id)} :
            /\ rows' = [k \in Key |->
                          IF k \in done
                          THEN {QRow("queued", 0, 0)} \cup (rows[k] \cap left)
                          ELSE rows[k]]
            /\ Ends(/\ done = Replayable(id)
                    /\ \A k \in done : rows[k] \cap left \in Missed(k), "dispatch")
  BY Zenon DEF Replay
<1>3. PICK done \in SUBSET Replayable(id),
           left \in SUBSET UNION {rows[k] : k \in Replayable(id)} :
            /\ rows' = [k \in Key |->
                          IF k \in done
                          THEN {QRow("queued", 0, 0)} \cup (rows[k] \cap left)
                          ELSE rows[k]]
            /\ Ends(/\ done = Replayable(id)
                    /\ \A k \in done : rows[k] \cap left \in Missed(k), "dispatch")
  BY Zenon, <1>2
<1>4. \A k \in done : k \in spool /\ rows[k] # {}
  BY Zenon DEF Replayable
<1>5. pc' \in {"dispatch", "down"} /\ faults' \in Nat
  BY Zenon, <1>3, EndsEffect DEF IndInv
<1>q. /\ QRow("queued", 0, 0) \in Row /\ IsActive(QRow("queued", 0, 0))
      /\ QRow("queued", 0, 0).attempts = 0
  BY Zenon DEF QRow, Row, Status, IsActive
<1>6. PICK q \in Row : q = QRow("queued", 0, 0) /\ IsActive(q) /\ q.attempts = 0
  BY Zenon, <1>q
<1>7. rows' \in [Key -> SUBSET Row]
  BY Zenon, <1>3, <1>6 DEF IndInv, TypeOK
<1>8. \A k \in Key : rows'[k] = rows[k]
                      \/ (Active(k)' /\ rows[k] # {} /\ k \in spool)
  BY Zenon, <1>3, <1>4, <1>6 DEF Active
<1>9. \A k \in Key : \A r \in rows'[k] :
            IsActive(r) => r \in rows[k] \/ r.attempts <= MostAttempts
  <2>1. 0 <= MostAttempts BY BoundsAssumption DEF MostAttempts
  <2>2. \A k \in Key : \A r \in rows'[k] : r \in rows[k] \/ r = q
    BY Zenon, <1>3, <1>6
  <2> QED BY Zenon, <2>1, <2>2, <1>6
<1> QED BY Zenon, <1>5, <1>7, <1>8, <1>9

LEMMA ReplayKeeps == IndInv /\ Replay => IndInv'
<1> SUFFICES ASSUME IndInv, Replay PROVE IndInv'
  BY Zenon
<1>0. /\ pc \in {"poll", "dispatch"} /\ next_due_dirty' = TRUE /\ replays' = replays + 1
      /\ UNCHANGED <<meta, spool, next_due, reply_rows, job, batch, cur, now, observed>>
  BY Zenon DEF Replay
<1>1. job.id = 0 /\ batch = {}
  BY Zenon, <1>0 DEF IndInv, JobInv, BatchInv
<1>10. /\ job' \in JobType /\ job'.id = 0 /\ batch' = {} /\ cur' \in CurType
       /\ next_due' \in Nat /\ reply_rows' \subseteq Key /\ replies' \subseteq Key
       /\ replays' \in Nat
       /\ UNCHANGED <<meta, spool, now, acked, handoffs, bounced>>
  BY <1>0, <1>1 DEF IndInv, TypeOK, observed
<1> QED BY Zenon, <1>0, <1>10, ReplayEffect, QueuedAfresh

\* The row store_queue_reset_delivering leaves.
LEMMA ResetRowEffect ==
  ASSUME IndInv, NEW k \in Key, Delivering(rows[k]) # {}
  PROVE  /\ ResetRow(rows[k]) \in Row /\ IsActive(ResetRow(rows[k]))
         /\ ResetRow(rows[k]).attempts <= MostAttempts
         /\ Active(k)
<1> DEFINE S == {r.attempts : r \in Delivering(rows[k])}
<1>1. MostAttempts \in Nat BY Zenon, BoundsAssumption DEF MostAttempts
<1>2. \A r \in Delivering(rows[k]) : /\ r \in rows[k] /\ IsActive(r)
                                     /\ r.attempts \in 0 .. MostAttempts
  BY <1>1 DEF Delivering, IsActive, IndInv, TypeOK, Row, AttemptsInv
<1>3. S \in SUBSET (0 .. MostAttempts) /\ S # {}
  BY Zenon, <1>2
<1> HIDE DEF S
<1>4. Max(S) \in 0 .. MostAttempts
  BY Zenon, <1>1, <1>3, MaxBounded
<1>5. ResetRow(rows[k]) = QRow("queued", Max(S), 0)
  BY Zenon DEF ResetRow, S
<1>6. Active(k)
  BY Zenon, <1>2 DEF Active
<1> QED BY <1>1, <1>4, <1>5, <1>6 DEF QRow, Row, Status, IsActive

\* So does store_queue_reset_delivering.
LEMMA RestartEffect ==
  ASSUME IndInv, Restart
  PROVE  /\ rows' \in [Key -> SUBSET Row]
         /\ \A k \in Key : rows'[k] = rows[k]
                          \/ (Active(k)' /\ rows[k] # {} /\ k \in spool)
         /\ \A k \in Key : \A r \in rows'[k] :
               IsActive(r) => r \in rows[k] \/ r.attempts <= MostAttempts
         /\ pc' \in {"gc", "down"} /\ faults' \in Nat
<1> DEFINE all    == {k \in Key : Delivering(rows[k]) # {}}
           Old(k) == rows[k] \cup {QRow("queued", r.attempts, 0) :
                                     r \in Delivering(rows[k])}
<1>1. PICK done \in SUBSET all, left \in SUBSET UNION {Old(k) : k \in all} :
        /\ rows' = [k \in Key |-> IF k \in done
                                  THEN {ResetRow(rows[k])} \cup (left \cap Old(k))
                                  ELSE rows[k]]
        /\ Ends(/\ done = all
                /\ left = {} \/ \E k \in all : Missed(k) # {{}}, "gc")
  BY Zenon DEF Restart
<1>2. pc' \in {"gc", "down"} /\ faults' \in Nat
  BY Zenon, <1>1, EndsEffect DEF IndInv
<1>3. \A k \in done : /\ k \in Key /\ k \in spool /\ rows[k] # {}
                      /\ ResetRow(rows[k]) \in Row /\ IsActive(ResetRow(rows[k]))
                      /\ ResetRow(rows[k]).attempts <= MostAttempts
  BY Zenon, ResetRowEffect DEF IndInv, ActiveHasBody, Active
<1>4. \A k \in Key : \A r \in Old(k) : 
        r \in Row /\ (r \in rows[k] \/ r.attempts <= MostAttempts)
  <2>1. \A k \in Key : \A r \in Delivering(rows[k]) :
          /\ QRow("queued", r.attempts, 0) \in Row
          /\ QRow("queued", r.attempts, 0).attempts <= MostAttempts
    BY DEF Delivering, IsActive, IndInv, TypeOK, Row, AttemptsInv, QRow, Status
  <2> QED BY Zenon, <2>1 DEF IndInv, TypeOK
<1> HIDE DEF all, Old
<1>5. rows' \in [Key -> SUBSET Row]
  BY Zenon, <1>1, <1>3, <1>4 DEF IndInv, TypeOK
<1>6. \A k \in Key : rows'[k] = rows[k]
                      \/ (Active(k)' /\ rows[k] # {} /\ k \in spool)
  BY Zenon, <1>1, <1>3 DEF Active
<1>7. \A k \in Key : \A r \in rows'[k] :
            IsActive(r) => r \in rows[k] \/ r.attempts <= MostAttempts
  BY Zenon, <1>1, <1>3, <1>4
<1> QED BY Zenon, <1>2, <1>5, <1>6, <1>7

LEMMA RestartKeeps == IndInv /\ Restart => IndInv'
<1> SUFFICES ASSUME IndInv, Restart PROVE IndInv'
  BY Zenon
<1>0. /\ next_due' = Never /\ next_due_dirty' = TRUE
      /\ reply_rows' = {} /\ replies' = {}
      /\ job' = NoJob /\ batch' = {} /\ cur' = NoCur
      /\ UNCHANGED <<meta, spool, now, replays, acked, handoffs, bounced>>
  BY Zenon DEF Restart
<1>8. /\ job' \in JobType /\ job'.id = 0 /\ cur' \in CurType
      /\ next_due' \in Nat /\ replays' \in Nat
  <2>1. job'.id = 0 BY Zenon, <1>0 DEF NoJob
  <2>2. next_due' \in Nat BY <1>0, BoundsAssumption DEF Never
  <2>3. replays' \in Nat BY Zenon, <1>0 DEF IndInv, TypeOK
  <2> QED BY Zenon, <1>0, <2>1, <2>2, <2>3, NoneTyped
<1> QED BY Zenon, <1>0, <1>8, RestartEffect, QueuedAfresh

-----------------------------------------------------------------------------
(* The theorems                                                             *)

LEMMA InitInv == Init => IndInv
<1> SUFFICES ASSUME Init PROVE IndInv
  BY Zenon
<1> USE DEF Init
<1>0. \A k \in Key : rows[k] = {} /\ ~Active(k) /\ ~Resolved(k) /\ ~Used(k)
  BY DEF Active, Resolved, Used
<1>1. TypeOK
  <2>1. next_due \in Nat BY BoundsAssumption DEF Never
  <2> QED BY Zenon, <2>1, NoneTyped DEF TypeOK, PcType
<1>2. CounterInv BY Zenon, <1>0 DEF CounterInv
<1>3. JobInv /\ CurInv /\ BatchInv BY Zenon DEF JobInv, CurInv, BatchInv, Accepting, NoJob
<1>4. TerminalInv /\ AttemptsInv /\ NoAcceptedLoss /\ ActiveHasBody /\ NextDueExact
  BY Zenon, <1>0 DEF TerminalInv, AttemptsInv, NoAcceptedLoss, ActiveHasBody, NextDueExact
<1> QED BY Zenon, <1>1, <1>2, <1>3, <1>4 DEF IndInv

LEMMA NextKeeps == IndInv /\ FewRows /\ [Next]_vars => IndInv'
<1> SUFFICES ASSUME IndInv, FewRows, [Next]_vars PROVE IndInv'
  BY Zenon
<1>1. CASE Next
  BY <1>1, SendKeeps, FinishKeeps, AcceptKeeps, SpoolKeeps, AddRowKeeps,
     FirstAttemptKeeps, ReplyKeeps, RedriveKeeps, DriveNextKeeps, LoopKeeps,
     SweepKeeps, ReplayKeeps, CrashKeeps, RestartKeeps, StartupGcKeeps, TickKeeps
     DEF Next
<1>2. CASE UNCHANGED vars
  <2> USE <1>2 DEF IndInv, vars
  <2>1. TypeOK' BY Zenon DEF TypeOK
  <2>2. CounterInv' BY Zenon DEF CounterInv, Used, Resolved
  <2>3. JobInv' BY Zenon DEF JobInv, Accepting, Active, Resolved, JobKey
  <2>4. CurInv' /\ BatchInv' /\ AttemptsInv' BY Zenon DEF CurInv, BatchInv, AttemptsInv, Active
  <2>5. TerminalInv' BY Zenon DEF TerminalInv, Active, Resolved
  <2>6. NoAcceptedLoss' /\ ActiveHasBody'
    BY Zenon DEF NoAcceptedLoss, ActiveHasBody, Active, Resolved
  <2>7. NextDueExact' BY Zenon DEF NextDueExact
  <2> QED BY Zenon, <2>1, <2>2, <2>3, <2>4, <2>5, <2>6, <2>7
<1> QED BY Zenon, <1>1, <1>2

\* Every step of the daemon, crashes and failing calls included, keeps the
\* invariant that relates store, spool and the handler under way, as long as
\* each call reads all rows of its delivery and of the counter.
THEOREM Invariance == Spec /\ []FewRows => []IndInv
BY InitInv, NextKeeps, PTL DEF Spec

\* The variables keep their types: no message id beyond the counter's range is
\* ever stored, and no row has a negative time or attempt count.
THEOREM TypeSafety == Spec /\ []FewRows => []TypeOK
<1>1. IndInv => TypeOK BY Zenon DEF IndInv
<1> QED BY <1>1, Invariance, PTL

\* A message answered 250 is never lost: each of its deliveries stays active
\* until the relay has taken it or it was given up, as long as spool_gc reads
\* all its rows.
THEOREM AcceptedIsKept == Spec /\ []FewRows => []NoAcceptedLoss
<1>1. IndInv => NoAcceptedLoss BY Zenon DEF IndInv
<1> QED BY <1>1, Invariance, PTL

\* spool_gc and queue_enqueue never leave an active row without its body.
THEOREM BodyIsKept == Spec /\ []FewRows => []ActiveHasBody
<1>1. IndInv => ActiveHasBody BY Zenon DEF IndInv
<1> QED BY <1>1, Invariance, PTL

\* The cached wake-up time of a running daemon is the soonest queued time.
THEOREM WakeUpIsExact == Spec /\ []FewRows => []NextDueExact
<1>1. IndInv => NextDueExact BY Zenon DEF IndInv
<1> QED BY <1>1, Invariance, PTL

\* store_next_msgid never gives an id out twice, whatever crash it survives, as
\* long as META_MAX_ROWS counter rows are not exceeded.
THEOREM MsgidIsFresh == Spec /\ []FewRows => []FreshMsgid
<1>1. IndInv => FreshMsgid
  <2> SUFFICES ASSUME IndInv PROVE FreshMsgid
    BY Zenon
  <2>1. \A k \in Key : rows[k] # {} \/ k \in spool => \E m \in meta : k[1] <= m
    BY Zenon DEF IndInv, CounterInv, Used
  <2>2. pc = "accept" /\ job.k < job.n => rows[JobKey] = {} /\ JobKey \notin spool
    BY Zenon, JobKeyFresh DEF IndInv, JobInv, Accepting
  <2> QED BY Zenon, <2>1, <2>2 DEF FreshMsgid
<1> QED BY <1>1, Invariance, PTL

-----------------------------------------------------------------------------
(* The refinement of AtLeastOnce                                            *)

Sent == {k \in Key : handoffs[k] > 0}

\* The deliveries in D move from one abstract state to another, no others do.
Moves(D, from, to) == \A k \in Key : IF k \in D THEN StateOf(k) = from /\ StateOf(k)' = to
                                     ELSE StateOf(k)' = StateOf(k)

Stays == \A k \in Key : StateOf(k)' = StateOf(k)

\* The steps of AtLeastOnce in the terms of the queue.
Same        == Sent' = Sent /\ bounced' = bounced
Enqueues(k) == Moves({k}, "none", "pending") /\ Same
Hands(k)    == /\ StateOf(k) = "pending" /\ Stays
               /\ Sent' = Sent \cup {k} /\ bounced' = bounced
GivesUp(k)  == /\ StateOf(k) = "pending"
               /\ Sent' = Sent /\ bounced' = bounced \cup {k}
               /\ (Moves({k}, "pending", "settled") \/ Stays)
Settles(k)  == k \in Sent \cup bounced /\ Moves({k}, "pending", "settled") /\ Same
Redrives(D) == Moves(D, "settled", "pending") /\ Same
Prunes(D)   == Moves(D, "settled", "gone") /\ Same

AbstractStep ==
  \/ Stays /\ Same
  \/ \E k \in Key : Enqueues(k) \/ Hands(k) \/ GivesUp(k) \/ Settles(k)
  \/ \E D \in SUBSET Key : Redrives(D) \/ Prunes(D)

LEMMA MovesIsMove ==
  ASSUME NEW D \in SUBSET Key, NEW from, NEW to, Moves(D, from, to)
  PROVE  AtLeast!Move(D, from, to)
BY Zenon DEF Moves, AtLeast!Move

LEMMA StaysIsSame ==
  Stays => [k \in Key |-> StateOf(k)]' = [k \in Key |-> StateOf(k)]
BY Zenon DEF Stays

LEMMA AbstractStepMaps == AbstractStep => [AtLeast!ANext]_(AtLeast!avars)
<1> SUFFICES ASSUME AbstractStep PROVE [AtLeast!ANext]_(AtLeast!avars)
  BY Zenon
<1> USE DEF Sent, Same
<1>1. CASE Stays /\ Same
  BY Zenon, <1>1, StaysIsSame DEF AtLeast!avars
<1>2. ASSUME NEW k \in Key, Enqueues(k) PROVE AtLeast!Enqueue(k)
  BY Zenon, <1>2, MovesIsMove DEF Enqueues, AtLeast!Enqueue
<1>3. ASSUME NEW k \in Key, Hands(k) PROVE AtLeast!Hand(k)
  BY Zenon, <1>3, StaysIsSame DEF Hands, AtLeast!Hand
<1>4. ASSUME NEW k \in Key, GivesUp(k) PROVE AtLeast!GiveUp(k)
  BY Zenon, <1>4, MovesIsMove, StaysIsSame DEF GivesUp, AtLeast!GiveUp
<1>5. ASSUME NEW k \in Key, Settles(k) PROVE AtLeast!Settle(k)
  BY Zenon, <1>5, MovesIsMove DEF Settles, AtLeast!Settle
<1>6. ASSUME NEW D \in SUBSET Key, Redrives(D) PROVE AtLeast!Again(D)
  BY Zenon, <1>6, MovesIsMove DEF Redrives, AtLeast!Again
<1>7. ASSUME NEW D \in SUBSET Key, Prunes(D) PROVE AtLeast!Prune(D)
  BY Zenon, <1>7, MovesIsMove DEF Prunes, AtLeast!Prune
<1> QED BY Zenon, <1>1, <1>2, <1>3, <1>4, <1>5, <1>6, <1>7 DEF AbstractStep, AtLeast!ANext

-----------------------------------------------------------------------------
(* The steps of the daemon                                                  *)

\* Steps that touch neither rows, hand-offs nor bounces.
LEMMA SilentSteps ==
  UNCHANGED <<rows, handoffs, bounced>> => AbstractStep
BY Zenon DEF AbstractStep, Stays, Same, Sent, StateOf, Active, Resolved

LEMMA FlipMaps ==
  ASSUME IndInv, NEW k \in Key, NEW a \in Nat, Flip(k, a), rows[k] # {},
         UNCHANGED <<handoffs, bounced>>
  PROVE  AbstractStep
<1>0. TypeOK BY Zenon DEF IndInv
<1>1. /\ rows' = rows \/ \E r \in rows'[k] : IsActive(r)
      /\ \A j \in Key \ {k} : rows'[j] = rows[j]
  BY Zenon, <1>0, FlipEffect
<1>2. Same
  BY Zenon DEF Same, Sent
<1>3. CASE rows' = rows
  BY Zenon, <1>3, SilentSteps
<1>4. CASE \E r \in rows'[k] : IsActive(r)
  <2>1. StateOf(k)' = "pending" /\ StateOf(k) \in {"pending", "settled"}
    BY Zenon, <1>4 DEF StateOf, Active
  <2>2. \A j \in Key \ {k} : StateOf(j)' = StateOf(j)
    BY Zenon, <1>1 DEF StateOf, Active, Resolved
  <2>3. CASE StateOf(k) = "pending"
    BY Zenon, <2>1, <2>2, <2>3, <1>2 DEF AbstractStep, Stays
  <2>4. CASE StateOf(k) = "settled"
    <3>1. Redrives({k})
      BY Zenon, <2>1, <2>2, <2>4, <1>2 DEF Redrives, Moves
    <3> QED BY Zenon, <3>1 DEF AbstractStep
  <2> QED BY Zenon, <2>1, <2>3, <2>4
<1> QED BY Zenon, <1>1, <1>3, <1>4

LEMMA SendMaps == IndInv /\ Send => AbstractStep
<1> SUFFICES ASSUME IndInv, Send PROVE AbstractStep
  BY Zenon
<1>1. PICK k \in Key : k = cur.key /\ Active(k)
  BY Zenon DEF Send, IndInv, CurInv
<1>2. /\ handoffs' = [handoffs EXCEPT ![k] = @ + 1] \/ handoffs' = handoffs
      /\ UNCHANGED <<rows, bounced>>
  BY Zenon, <1>1 DEF Send, store
<1>3. CASE handoffs' = handoffs
  BY Zenon, <1>2, <1>3, SilentSteps
<1>4. CASE handoffs' = [handoffs EXCEPT ![k] = @ + 1]
  <2>0. handoffs \in [Key -> Nat] BY Zenon DEF IndInv, TypeOK
  <2>1. handoffs'[k] > 0 /\ \A j \in Key \ {k} : handoffs'[j] = handoffs[j]
    BY <1>4, <2>0
  <2>2. StateOf(k) = "pending" /\ StateOf(k)' = "pending"
    BY Zenon, <1>1, <1>2 DEF StateOf, Active
  <2>3. \A j \in Key \ {k} : StateOf(j)' = StateOf(j)
    BY Zenon, <1>2, <2>1 DEF StateOf, Active, Resolved
  <2>4. Sent' = Sent \cup {k}
    BY <2>1 DEF Sent
  <2>5. Hands(k)
    BY Zenon, <1>2, <2>2, <2>3, <2>4 DEF Hands, Stays
  <2> QED BY Zenon, <2>5 DEF AbstractStep
<1> QED BY Zenon, <1>2, <1>3, <1>4

LEMMA FinishMaps == IndInv /\ Finish => AbstractStep
<1> SUFFICES ASSUME IndInv, Finish PROVE AbstractStep
  BY Zenon
<1>1. PICK k \in Key : k = cur.key /\ Active(k)
  BY Zenon DEF Finish, IndInv, CurInv
<1> DEFINE f == FinalRow(cur)
<1>2. /\ f \in Row
      /\ IsActive(f) \/ f.status = "permfail" \/ handoffs[k] > 0
  BY Zenon, <1>1, FinalRowEffect DEF Finish, IndInv
<1>3. StateOf(k) = "pending" /\ Sent' = Sent
  BY Zenon, <1>1 DEF StateOf, Sent, Finish
<1>4. CASE TransitionFails(Return) /\ UNCHANGED bounced
  BY Zenon, <1>4, SilentSteps DEF TransitionFails, Finish
<1>5. CASE /\ Transition(k, f, Return)
           /\ bounced' = IF f.status = "permfail" THEN bounced \cup {k} ELSE bounced
  <2>0. TypeOK /\ Return \in PcType BY Zenon DEF IndInv, Return, PcType
  <2>1. f \in rows'[k] /\ \A j \in Key \ {k} : rows'[j] = rows[j]
    BY Zenon, <1>2, <1>5, <2>0, TransitionEffect
  <2> HIDE DEF f
  <2>2. StateOf(k)' \in {"pending", "settled"} /\ (IsActive(f) => StateOf(k)' = "pending")
    BY Zenon, <2>1 DEF StateOf, Active
  <2>3. \A j \in Key \ {k} : StateOf(j)' = StateOf(j)
    BY Zenon, <1>5, <2>1 DEF StateOf, Active, Resolved, Finish
  <2>4. Stays \/ Moves({k}, "pending", "settled")
    BY Zenon, <1>3, <2>2, <2>3 DEF Stays, Moves
  <2>5. CASE f.status = "permfail"
    <3>1. GivesUp(k)
      BY Zenon, <1>3, <1>5, <2>4, <2>5 DEF GivesUp
    <3> QED BY Zenon, <3>1 DEF AbstractStep
  <2>6. CASE f.status # "permfail"
    <3>1. Same BY Zenon, <1>3, <1>5, <2>6 DEF Same
    <3>2. CASE Stays BY Zenon, <3>1, <3>2 DEF AbstractStep
    <3>3. CASE ~Stays
      <4>1. ~IsActive(f) BY Zenon, <1>3, <2>2, <2>3, <3>3 DEF Stays
      <4>2. k \in Sent BY Zenon, <4>1, <1>2, <2>6 DEF Sent
      <4>3. Settles(k) BY Zenon, <4>2, <2>4, <3>1, <3>3 DEF Settles
      <4> QED BY Zenon, <4>3 DEF AbstractStep
    <3> QED BY Zenon, <3>2, <3>3
  <2> QED BY Zenon, <2>5, <2>6
<1> QED BY Zenon, <1>1, <1>4, <1>5 DEF Finish

LEMMA AddRowMaps == IndInv /\ AddRow => AbstractStep
<1> SUFFICES ASSUME IndInv, AddRow PROVE AbstractStep
  BY Zenon
<1>1. PICK k \in Key : k = JobKey /\ rows[k] = {} /\ ~Resolved(k)
  BY Zenon, JobKeyFresh DEF AddRow, IndInv, JobInv, Accepting
<1>2. /\ \A j \in Key \ {k} : rows'[j] = rows[j]
      /\ UNCHANGED <<handoffs, bounced>>
      /\ rows' = rows \/ rows'[k] = {QRow("queued", 0, 0)}
  BY Zenon, <1>1, AddRowEffect
<1>3. CASE rows' = rows
  BY Zenon, <1>2, <1>3, SilentSteps
<1>4. CASE rows'[k] = {QRow("queued", 0, 0)}
  <2>1. IsActive(QRow("queued", 0, 0)) BY Zenon DEF QRow, IsActive
  <2>2. StateOf(k) = "none" /\ StateOf(k)' = "pending"
    BY Zenon, <1>1, <1>4, <2>1 DEF StateOf, Active
  <2>3. \A j \in Key \ {k} : StateOf(j)' = StateOf(j)
    BY Zenon, <1>2 DEF StateOf, Active, Resolved
  <2>4. Enqueues(k)
    BY Zenon, <1>2, <2>2, <2>3 DEF Enqueues, Moves, Same, Sent
  <2> QED BY Zenon, <2>4 DEF AbstractStep
<1> QED BY Zenon, <1>2, <1>3, <1>4

LEMMA SpoolGcMaps ==
  ASSUME IndInv, FewRows, SpoolGc, UNCHANGED <<handoffs, bounced>>
  PROVE  AbstractStep
<1>0. TypeOK BY Zenon DEF IndInv
<1>1. /\ \A k \in Key : rows'[k] \subseteq rows[k]
      /\ \A k \in Key : Active(k) => rows'[k] = rows[k]
  BY Zenon, <1>0, SpoolGcEffect
<1>2. \A k \in Key : (Resolved(k)' <=> Resolved(k)) /\ (Active(k)' <=> Active(k))
  BY Zenon, <1>1 DEF Resolved, Active
<1> DEFINE D == {k \in Key : rows[k] # {} /\ rows'[k] = {}}
<1>3. \A k \in D : StateOf(k) = "settled" /\ StateOf(k)' = "gone"
  BY Zenon, <1>1, <1>2 DEF StateOf, IndInv, TerminalInv, Active
<1>4. \A k \in Key : k \notin D => StateOf(k)' = StateOf(k)
  BY Zenon, <1>1, <1>2 DEF StateOf
<1>5. Prunes(D)
  BY Zenon, <1>3, <1>4 DEF Prunes, Moves, Same, Sent
<1> QED BY Zenon, <1>5 DEF AbstractStep

\* /replay and the reset of restart only make deliveries pending.
LEMMA AfreshMaps ==
  ASSUME \A k \in Key : rows'[k] = rows[k] \/ (Active(k)' /\ rows[k] # {}),
         UNCHANGED <<handoffs, bounced>>
  PROVE  AbstractStep
<1> DEFINE D == {k \in Key : StateOf(k) = "settled" /\ StateOf(k)' = "pending"}
<1>1. \A k \in Key : k \notin D => StateOf(k)' = StateOf(k)
  BY Zenon DEF StateOf, Active, Resolved
<1>2. Redrives(D)
  BY Zenon, <1>1 DEF Redrives, Moves, Same, Sent
<1> QED BY Zenon, <1>2 DEF AbstractStep

LEMMA NextMaps == IndInv /\ FewRows /\ [Next]_vars => [AtLeast!ANext]_(AtLeast!avars)
<1> SUFFICES ASSUME IndInv, FewRows, [Next]_vars PROVE AbstractStep
  BY Zenon, AbstractStepMaps
<1>1. CASE Send BY Zenon, <1>1, SendMaps
<1>2. CASE Finish BY Zenon, <1>2, FinishMaps
<1>3. CASE AddRow BY Zenon, <1>3, AddRowMaps
<1>4. CASE FirstAttempt
  <2>1. PICK k \in Key : k = <<job.id, job.k - 1>> /\ rows[k] # {}
    BY <1>4, BoundsAssumption
       DEF FirstAttempt, IndInv, TypeOK, JobType, JobInv, Accepting, Active, Key
  <2> QED BY <1>4, <2>1, FlipMaps DEF FirstAttempt, observed
<1>5. CASE DriveNext
  <2>1. PICK i \in batch : Flip(i.key, i.attempts)
    BY Zenon, <1>5 DEF DriveNext
  <2>2. i.key \in Key /\ i.attempts \in Nat /\ rows[i.key] # {}
    BY Zenon, <1>5 DEF DriveNext, IndInv, TypeOK, Item, BatchInv
  <2> QED BY Zenon, <1>5, <2>1, <2>2, FlipMaps DEF DriveNext, observed
<1>6. CASE Sweep \/ StartupGc
  BY Zenon, <1>6, SpoolGcMaps DEF Sweep, StartupGc, observed
<1>7. CASE Replay
  BY Zenon, <1>7, ReplayEffect, AfreshMaps DEF Replay, observed
<1>8. CASE Restart
  BY Zenon, <1>8, RestartEffect, AfreshMaps DEF Restart
<1>9. CASE Accept \/ Spool \/ Reply \/ Redrive \/ DriveEnd \/ TimerWake \/ OtherWake
           \/ LoopAgain \/ Crash \/ Tick
  BY Zenon, <1>9, SilentSteps DEF Accept, Spool, Reply, Redrive, DriveEnd, TimerWake,
     OtherWake, LoopAgain, Crash, Tick, store, observed
<1>10. CASE UNCHANGED vars
  BY Zenon, <1>10, SilentSteps DEF vars
<1> QED BY <1>1, <1>2, <1>3, <1>4, <1>5, <1>6, <1>7, <1>8, <1>9, <1>10 DEF Next

\* The queue keeps the abstract promise for any number of messages, crashes and
\* failed calls: a delivery leaves "pending" only once the relay took it or it
\* was given up, and its rows are deleted only after that.  Again the rows fit
\* the arrays of store.c.
THEOREM Refinement == Spec /\ []FewRows => RefinesAtLeastOnce
<1>1. Init => AtLeast!AInit
  BY DEF Init, AtLeast!AInit, StateOf, Active, Resolved
<1> QED BY <1>1, NextMaps, Invariance, PTL DEF Spec, RefinesAtLeastOnce, AtLeast!ASpec

-----------------------------------------------------------------------------
(* The rows of the counter                                                  *)

\* Each crash and each failed delete leaves at most one more counter row.
MetaInv == /\ faults \in 0 .. MaxFaults /\ IsFiniteSet(meta)
           /\ Cardinality(meta) <= 1 + faults

Fault == UNCHANGED faults \/ (faults < MaxFaults /\ faults' = faults + 1)

LEMMA EndsFault == ASSUME NEW clean, NEW next, Ends(clean, next) PROVE Fault
BY Zenon DEF Ends, Goes, Faulty, Fault

LEMMA TransitionFault == ASSUME NEW k, NEW row, NEW next, Transition(k, row, next)
                         PROVE  Fault /\ UNCHANGED meta
BY Zenon, EndsFault DEF Transition

LEMMA FlipFault == ASSUME NEW k, NEW a, Flip(k, a) PROVE Fault /\ UNCHANGED meta
BY Zenon, TransitionFault DEF Flip, Refused, Fault

LEMMA SpoolGcFault == SpoolGc => Fault
BY Zenon, EndsFault DEF SpoolGc

\* Only store_next_msgid writes the counter.
LEMMA OthersKeepMeta == [Next]_vars => Accept \/ (Fault /\ UNCHANGED meta)
<1> SUFFICES ASSUME [Next]_vars, ~Accept PROVE Fault /\ UNCHANGED meta
  BY Zenon
<1>1. CASE Send BY Zenon, <1>1 DEF Send, Fault, store
<1>2. CASE Finish
  BY Zenon, <1>2, TransitionFault DEF Finish, TransitionFails, Refused, Fault
<1>3. CASE Spool \/ AddRow
  BY Zenon, <1>3 DEF Spool, AddRow, Goes, Refused, Fault, store
<1>4. CASE FirstAttempt \/ DriveNext
  BY Zenon, <1>4, FlipFault DEF FirstAttempt, DriveNext
<1>5. CASE Reply \/ Redrive \/ DriveEnd \/ TimerWake \/ OtherWake \/ LoopAgain \/ Tick
  BY Zenon, <1>5 DEF Reply, Redrive, DriveEnd, TimerWake, OtherWake, LoopAgain, Tick,
     Goes, Refused, Fault, store
<1>6. CASE Sweep \/ StartupGc
  BY Zenon, <1>6, SpoolGcFault DEF Sweep, StartupGc
<1>7. CASE Replay BY Zenon, <1>7, EndsFault DEF Replay
<1>8. CASE Restart BY Zenon, <1>8, EndsFault DEF Restart
<1>9. CASE Crash BY Zenon, <1>9 DEF Crash, Fault, store
<1>10. CASE UNCHANGED vars BY Zenon, <1>10 DEF vars, Fault
<1> QED BY Zenon, <1>1, <1>2, <1>3, <1>4, <1>5, <1>6, <1>7, <1>8, <1>9, <1>10 DEF Next

\* A call of store_next_msgid that deletes every row it read leaves no more rows
\* than there were, or one; any other leaves one more at most.
LEMMA AcceptAddsOne == MetaInv /\ Accept => MetaInv'
<1> SUFFICES ASSUME MetaInv, Accept PROVE MetaInv'
  BY Zenon
<1> DEFINE n == Cardinality(meta)
<1>0. n \in Nat /\ faults \in 0 .. MaxFaults /\ n <= 1 + faults
  BY Zenon, FS_CardinalityType DEF MetaInv
<1>1. CASE UNCHANGED meta /\ (Goes("dispatch") \/ Refused("dispatch"))
  <2>1. Fault BY Zenon, <1>1 DEF Goes, Refused, Fault
  <2>2. faults' \in 0 .. MaxFaults /\ faults <= faults'
    BY <2>1, <1>0, BoundsAssumption DEF Fault
  <2>3. n <= 1 + faults' BY <1>0, <2>2
  <2> QED BY Zenon, <1>1, <2>2, <2>3 DEF MetaInv
<1>2. CASE \E u \in Unread(meta, MetaMaxRows) : \E left \in SUBSET (meta \ u) :
             /\ meta' = u \cup left \cup {NextMsgid(meta \ u)}
             /\ Ends(left = {}, "accept")
  <2>0. PICK u \in Unread(meta, MetaMaxRows) : \E left \in SUBSET (meta \ u) :
             /\ meta' = u \cup left \cup {NextMsgid(meta \ u)}
             /\ Ends(left = {}, "accept")
    BY Zenon, <1>2
  <2>1. PICK left \in SUBSET (meta \ u) :
             /\ meta' = u \cup left \cup {NextMsgid(meta \ u)}
             /\ Ends(left = {}, "accept")
    BY Zenon, <2>0
  <2>2. /\ IsFiniteSet(meta') /\ Cardinality(meta') <= Cardinality(u \cup left) + 1
        /\ Cardinality(u \cup left) \in Nat /\ Cardinality(u \cup left) <= n
    <3>1. u \cup left \in SUBSET meta BY Zenon DEF Unread
    <3>2. IsFiniteSet(u \cup left) /\ Cardinality(u \cup left) <= n
      BY Zenon, <3>1, FS_Subset DEF MetaInv
    <3>3. Cardinality(u \cup left) \in Nat BY Zenon, <3>2, FS_CardinalityType
    <3>4. /\ IsFiniteSet((u \cup left) \cup {NextMsgid(meta \ u)})
          /\ \/ Cardinality((u \cup left) \cup {NextMsgid(meta \ u)}) =
                  Cardinality(u \cup left)
             \/ Cardinality((u \cup left) \cup {NextMsgid(meta \ u)}) =
                  Cardinality(u \cup left) + 1
      BY Zenon, <3>2, FS_AddElement
    <3> HIDE DEF n
    <3>5. Cardinality(meta') <= Cardinality(u \cup left) + 1
      <4>1. Cardinality(meta') \in {Cardinality(u \cup left), Cardinality(u \cup left) + 1}
        BY Zenon, <2>1, <3>4
      <4> QED BY <4>1, <3>3
    <3> QED BY Zenon, <2>1, <3>2, <3>3, <3>4, <3>5
  <2>3. Cardinality(meta') \in Nat BY Zenon, <2>2, FS_CardinalityType
  <2>4. CASE left = {}
    <3>1. UNCHANGED faults BY Zenon, <2>1, <2>4 DEF Ends, Goes
    <3>2. u \cup left = u BY Zenon, <2>4
    <3>3. Cardinality(u) = 0 \/ Cardinality(u) = n - MetaMaxRows
      BY Zenon, FS_EmptySet DEF Unread
    <3> HIDE DEF n
    <3>4. Cardinality(u) \in Nat /\ Cardinality(meta') <= Cardinality(u) + 1
      BY Zenon, <2>2, <3>2
    <3>5. Cardinality(meta') <= 1 + faults
      BY <1>0, <2>3, <3>3, <3>4, BoundsAssumption
    <3> QED BY Zenon, <1>0, <2>2, <3>1, <3>5 DEF MetaInv
  <2>5. CASE left # {}
    <3>1. faults < MaxFaults /\ faults' = faults + 1
      BY Zenon, <2>1, <2>5 DEF Ends, Faulty
    <3> HIDE DEF n
    <3>2. faults' \in 0 .. MaxFaults /\ Cardinality(meta') <= 1 + faults'
      BY <1>0, <2>2, <2>3, <3>1, BoundsAssumption
    <3> QED BY Zenon, <2>2, <3>2 DEF MetaInv
  <2> QED BY Zenon, <2>4, <2>5
<1> QED BY Zenon, <1>1, <1>2 DEF Accept

\* store_next_msgid reads every counter row as long as fewer crashes and failed
\* deletes have happened than META_MAX_ROWS, so the ids it gives out are fresh.
THEOREM CounterStaysSmall == ASSUME MaxFaults < MetaMaxRows PROVE Spec => []FewMeta
<1>1. Init => MetaInv
  <2> SUFFICES ASSUME Init PROVE MetaInv
    BY Zenon
  <2>1. meta = {} /\ faults = 0 BY Zenon DEF Init
  <2>2. IsFiniteSet(meta) /\ Cardinality(meta) = 0 BY Zenon, <2>1, FS_EmptySet
  <2> QED BY <2>1, <2>2, BoundsAssumption DEF MetaInv
<1>2. MetaInv /\ [Next]_vars => MetaInv'
  <2> SUFFICES ASSUME MetaInv, [Next]_vars PROVE MetaInv'
    BY Zenon
  <2>1. CASE Accept BY Zenon, <2>1, AcceptAddsOne
  <2>2. CASE Fault /\ UNCHANGED meta
    <3>1. Cardinality(meta) \in Nat BY Zenon, FS_CardinalityType DEF MetaInv
    <3>2. faults' \in 0 .. MaxFaults /\ Cardinality(meta) <= 1 + faults'
      BY <2>2, <3>1, BoundsAssumption DEF Fault, MetaInv
    <3> QED BY Zenon, <2>2, <3>2 DEF MetaInv
  <2> QED BY Zenon, <2>1, <2>2, OthersKeepMeta
<1>3. MetaInv => FewMeta
  <2> SUFFICES ASSUME MetaInv PROVE FewMeta
    BY Zenon
  <2>1. Cardinality(meta) \in Nat BY Zenon, FS_CardinalityType DEF MetaInv
  <2> QED BY <2>1, BoundsAssumption DEF MetaInv, FewMeta
<1> QED BY <1>1, <1>2, <1>3, PTL DEF Spec
=============================================================================
