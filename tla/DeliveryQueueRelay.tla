------------------------- MODULE DeliveryQueueRelay -------------------------
(***************************************************************************)
(* What the relay gets to see, for every bound: how often a delivery may be *)
(* handed over, and by which route a reply goes.  Without another fault a  *)
(* delivery is sent at most once per active row, once the rows left        *)
(* "delivering" are taken as the queued ones a restart makes of them, and  *)
(* while a batch is driven at most once per item collected.  As in         *)
(* DeliveryQueueProofs, every call reads all the rows there are (FewRows). *)
(***************************************************************************)
EXTENDS DeliveryQueueProofs, FiniteSetTheorems

-----------------------------------------------------------------------------
(* Chances                                                                  *)

\* Fewer rows, fewer chances.
LEMMA ChancesOfFewer ==
  ASSUME NEW T, IsFiniteSet(Chances(T)), NEW S, Chances(S) \subseteq Chances(T)
  PROVE  /\ IsFiniteSet(Chances(S)) /\ Cardinality(Chances(S)) \in Nat
         /\ Cardinality(Chances(T)) \in Nat
         /\ Cardinality(Chances(S)) <= Cardinality(Chances(T))
BY Zenon, FS_Subset, FS_CardinalityType

\* A row more adds a chance at most, and none if it is terminal.
LEMMA ChancesOfMore ==
  ASSUME NEW T, IsFiniteSet(Chances(T)), NEW r, NEW S, S \subseteq T \cup {r}
  PROVE  /\ IsFiniteSet(Chances(S)) /\ Cardinality(Chances(S)) \in Nat
         /\ Cardinality(Chances(T)) \in Nat
         /\ Cardinality(Chances(S)) <= Cardinality(Chances(T)) + 1
         /\ ~IsActive(r) => Cardinality(Chances(S)) <= Cardinality(Chances(T))
<1>1. Chances(S) \subseteq Chances(T) \cup {Again(r)}
  BY Zenon DEF Chances
<1>2. /\ IsFiniteSet(Chances(T) \cup {Again(r)})
      /\ Cardinality(Chances(T) \cup {Again(r)}) \in Nat
      /\ Cardinality(Chances(T) \cup {Again(r)}) <= Cardinality(Chances(T)) + 1
      /\ Cardinality(Chances(T)) \in Nat
  <2>1. Cardinality(Chances(T)) \in Nat
    BY Zenon, FS_CardinalityType
  <2>2. /\ IsFiniteSet(Chances(T) \cup {Again(r)})
        /\ Cardinality(Chances(T) \cup {Again(r)}) =
             IF Again(r) \in Chances(T) THEN Cardinality(Chances(T))
             ELSE Cardinality(Chances(T)) + 1
    BY Zenon, FS_AddElement
  <2> QED
    BY <2>1, <2>2
<1>3. /\ IsFiniteSet(Chances(S)) /\ Cardinality(Chances(S)) \in Nat
      /\ Cardinality(Chances(S)) <= Cardinality(Chances(T) \cup {Again(r)})
  BY Zenon, <1>1, <1>2, FS_Subset, FS_CardinalityType
<1>4. ~IsActive(r) => Chances(S) \subseteq Chances(T)
  BY Zenon DEF Chances
<1> QED
  BY <1>2, <1>3, <1>4, ChancesOfFewer

\* One row is one chance, or none if it is terminal.
LEMMA ChancesOfOne ==
  ASSUME NEW r
  PROVE  /\ IsFiniteSet(Chances({r})) /\ Cardinality(Chances({r})) \in Nat
         /\ Cardinality(Chances({r})) <= 1
         /\ ~IsActive(r) => Cardinality(Chances({r})) = 0
<1>1. CASE IsActive(r)
  <2>1. Chances({r}) = {Again(r)}
    BY Zenon, <1>1 DEF Chances
  <2>2. IsFiniteSet({Again(r)}) /\ Cardinality({Again(r)}) = 1
    BY Zenon, FS_Singleton
  <2> QED
    BY <1>1, <2>1, <2>2
<1>2. CASE ~IsActive(r)
  <2>1. Chances({r}) = {}
    BY Zenon, <1>2 DEF Chances
  <2> QED
    BY <2>1, FS_EmptySet
<1> QED
  BY Zenon, <1>1, <1>2

\* An active delivery has a chance.
LEMMA ActiveHasOne ==
  ASSUME NEW S, IsFiniteSet(Chances(S)), \E r \in S : IsActive(r)
  PROVE  Cardinality(Chances(S)) \in Nat /\ Cardinality(Chances(S)) >= 1
<1>1. PICK r \in S : IsActive(r)
  BY Zenon
<1>2. Again(r) \in Chances(S)
  BY Zenon, <1>1 DEF Chances
<1>3. Cardinality(Chances(S)) \in Nat /\ Cardinality(Chances(S)) # 0
  BY Zenon, <1>2, FS_CardinalityType, FS_EmptySet
<1> QED
  BY <1>3

\* The numbers the invariant adds up.
LEMMA Numbers ==
  ASSUME TypeOK, CopiesInv
  PROVE  /\ faults \in Nat /\ replays \in Nat
         /\ \A k \in Key : handoffs[k] \in Nat /\ Cardinality(Chances(rows[k])) \in Nat
         /\ pc # "down" => \A k \in Key : Cardinality(ItemsOf(batch, k)) \in Nat
BY Zenon, FS_CardinalityType DEF TypeOK, CopiesInv, ChanceInv, ItemInv

\* Without items there is nothing to count.
LEMMA NoItems == \A k : IsFiniteSet(ItemsOf({}, k)) /\ Cardinality(ItemsOf({}, k)) = 0
<1> SUFFICES ASSUME NEW k
             PROVE  IsFiniteSet(ItemsOf({}, k)) /\ Cardinality(ItemsOf({}, k)) = 0
  BY Zenon
<1>1. ItemsOf({}, k) = {}
  BY Zenon DEF ItemsOf
<1> QED
  BY Zenon, <1>1, FS_EmptySet

-----------------------------------------------------------------------------
(* Steps that send nothing and give no delivery a new row                   *)

\* Whatever a handler does on the way, as long as it adds no row, collects no
\* item and begins no attempt; what ends an attempt early is a fault.
LEMMA QuietKeeps ==
  ASSUME IndInv, CopiesInv,
         \A k \in Key : Chances(rows'[k]) \subseteq Chances(rows[k]),
         handoffs' = handoffs, faults' \in Nat, replays' = replays, faults' >= faults,
         pc = "finish" => faults' > faults,
         pc' \notin {"send", "finish"},
         pc' # "down" => pc # "down" /\ batch' \in {batch, {}}
  PROVE  CopiesInv'
<1>1. /\ faults \in Nat /\ replays \in Nat
      /\ \A k \in Key : handoffs[k] \in Nat /\ Cardinality(Chances(rows[k])) \in Nat
      /\ pc # "down" => \A k \in Key : Cardinality(ItemsOf(batch, k)) \in Nat
  BY Zenon, Numbers DEF IndInv
<1>2. ChanceInv'
  <2> SUFFICES ASSUME NEW k \in Key
               PROVE  /\ IsFiniteSet(Chances(rows'[k]))
                      /\ handoffs'[k] + Cardinality(Chances(rows'[k])) <=
                           1 + faults' + replays' + (IF Taken(k)' THEN 1 ELSE 0)
    BY Zenon DEF ChanceInv, Chances, Again, Taken
  <2>1. /\ IsFiniteSet(Chances(rows'[k])) /\ Cardinality(Chances(rows'[k])) \in Nat
        /\ Cardinality(Chances(rows'[k])) <= Cardinality(Chances(rows[k]))
    BY Zenon, ChancesOfFewer DEF CopiesInv, ChanceInv
  <2>2. handoffs[k] + Cardinality(Chances(rows[k])) <= 1 + faults' + replays
    <3>1. CASE pc = "finish"
      <4>1. handoffs[k] + Cardinality(Chances(rows[k])) <= 1 + faults + replays + 1
        BY <1>1 DEF CopiesInv, ChanceInv
      <4> QED
        BY <1>1, <3>1, <4>1
    <3>2. CASE pc # "finish"
      <4>1. ~Taken(k)
        BY Zenon, <3>2 DEF Taken
      <4>2. handoffs[k] + Cardinality(Chances(rows[k])) <= 1 + faults + replays
        BY <1>1, <4>1 DEF CopiesInv, ChanceInv
      <4> QED
        BY <1>1, <4>2
    <3> QED
      BY Zenon, <3>1, <3>2
  <2>3. ~Taken(k)'
    BY Zenon DEF Taken
  <2> QED
    BY <1>1, <2>1, <2>2, <2>3
<1>3. ItemInv'
  <2> SUFFICES ASSUME pc' # "down", NEW k \in Key
               PROVE  /\ IsFiniteSet(ItemsOf(batch', k))
                      /\ handoffs'[k] + Cardinality(ItemsOf(batch', k)) +
                           (IF Trying(k)' THEN 1 ELSE 0) <= 1 + faults' + replays'
    BY Zenon DEF ItemInv, ItemsOf, Trying
  <2>1. ~Trying(k)'
    BY Zenon DEF Trying
  <2>2. /\ IsFiniteSet(ItemsOf(batch, k)) /\ Cardinality(ItemsOf(batch, k)) \in Nat
        /\ handoffs[k] + Cardinality(ItemsOf(batch, k)) <= 1 + faults + replays
    BY <1>1 DEF CopiesInv, ItemInv
  <2>3. /\ IsFiniteSet(ItemsOf(batch', k)) /\ Cardinality(ItemsOf(batch', k)) \in Nat
        /\ Cardinality(ItemsOf(batch', k)) <= Cardinality(ItemsOf(batch, k))
    BY <2>2, NoItems
  <2> QED
    BY <1>1, <2>1, <2>2, <2>3
<1> QED
  BY Zenon, <1>2, <1>3 DEF CopiesInv

\* The steps that only move on: the loop, the acceptance but for its row, the
\* sweeps and a crash.
LEMMA OthersKeepCopies ==
  IndInv /\ CopiesInv /\ FewRows /\ (\/ TimerWake \/ OtherWake \/ LoopAgain \/ DriveEnd \/ Accept
                          \/ Spool \/ Reply \/ Crash \/ Sweep \/ StartupGc) => CopiesInv'
<1> SUFFICES ASSUME IndInv, CopiesInv, FewRows,
                    \/ TimerWake \/ OtherWake \/ LoopAgain \/ DriveEnd \/ Accept
                    \/ Spool \/ Reply \/ Crash \/ Sweep \/ StartupGc
             PROVE  CopiesInv'
  BY Zenon
<1>0. faults \in Nat
  BY Zenon DEF IndInv, TypeOK
<1>1. CASE \/ TimerWake \/ OtherWake \/ LoopAgain \/ DriveEnd \/ Accept \/ Spool \/ Reply
  <2>1. /\ rows' = rows /\ handoffs' = handoffs /\ replays' = replays
        /\ faults' \in Nat /\ faults' >= faults
        /\ pc # "finish" /\ pc # "down" /\ batch' \in {batch, {}}
        /\ pc' \notin {"send", "finish"}
    <3>1. CASE TimerWake \/ OtherWake \/ LoopAgain \/ DriveEnd
      BY <1>0, <3>1, SMTT(30) DEF TimerWake, OtherWake, LoopAgain, DriveEnd, Goes, store, observed
    <3>2. CASE Accept
      <4>1. /\ rows' = rows /\ handoffs' = handoffs /\ replays' = replays /\ batch' = batch
            /\ pc \in {"poll", "dispatch"} /\ pc' \in {"accept", "dispatch", "down"}
            /\ Fault
        BY Zenon, <3>2, EndsFault DEF Accept, Goes, Ends, Faulty, Refused, Fault, observed
      <4>2. faults' \in Nat /\ faults' >= faults
        BY <1>0, <4>1 DEF Fault
      <4> QED
        BY Zenon, <4>1, <4>2
    <3>3. CASE Spool
      BY <1>0, <3>3, SMTT(30) DEF Spool, Goes, Ends, Faulty, Refused, store, observed
    <3>4. CASE Reply
      BY <1>0, <3>4, SMTT(30) DEF Reply, Goes, store, observed
    <3> QED
      BY Zenon, <1>1, <3>1, <3>2, <3>3, <3>4
  <2> QED
    BY Zenon, <2>1, QuietKeeps
<1>2. CASE Crash
  <2>1. /\ rows' = rows /\ handoffs' = handoffs /\ replays' = replays
        /\ faults' \in Nat /\ faults' > faults /\ pc' = "down"
    BY <1>0, <1>2 DEF Crash, store, observed
  <2>2. faults' >= faults
    BY <1>0, <2>1
  <2> QED
    BY Zenon, <2>1, <2>2, QuietKeeps
<1>3. CASE Sweep \/ StartupGc
  <2>1. SpoolGc /\ handoffs' = handoffs /\ replays' = replays /\ batch' = batch
        /\ pc \in {"sweep", "gc"}
    BY Zenon, <1>3 DEF Sweep, StartupGc, observed
  <2>2. /\ \A k \in Key : rows'[k] \subseteq rows[k]
        /\ pc' \in {"down", IF pc = "gc" THEN "redrive" ELSE "poll"} /\ faults' \in Nat
    BY Zenon, <2>1, SpoolGcEffect DEF IndInv
  <2>3. faults' >= faults
    <3>1. Fault BY Zenon, <2>1, SpoolGcFault
    <3> QED BY <1>0, <3>1 DEF Fault
  <2>4. \A k \in Key : Chances(rows'[k]) \subseteq Chances(rows[k])
    BY Zenon, <2>2 DEF Chances
  <2>5. pc' \notin {"send", "finish"} /\ pc # "finish" /\ pc # "down"
    BY Zenon, <2>1, <2>2
  <2> QED
    BY Zenon, <2>1, <2>2, <2>3, <2>4, <2>5, QuietKeeps
<1> QED
  BY Zenon, <1>1, <1>2, <1>3

\* Time passes.
LEMMA TickKeepsCopies == IndInv /\ CopiesInv /\ Tick => CopiesInv'
BY Zenon DEF Tick, store, observed, CopiesInv, ChanceInv, ItemInv, Taken, Trying

-----------------------------------------------------------------------------
(* Acceptance, the batch, the replay and the restart                        *)

\* The row of a new delivery is its one chance.
LEMMA AddRowKeepsCopies == IndInv /\ CopiesInv /\ AddRow => CopiesInv'
<1> SUFFICES ASSUME IndInv, CopiesInv, AddRow PROVE CopiesInv'
  BY Zenon
<1>0. /\ faults \in Nat /\ replays \in Nat /\ rows \in [Key -> SUBSET Row]
      /\ \A k \in Key : handoffs[k] \in Nat /\ Cardinality(Chances(rows[k])) \in Nat
      /\ pc # "down" => \A k \in Key : Cardinality(ItemsOf(batch, k)) \in Nat
  BY Zenon, Numbers DEF IndInv, TypeOK
<1>1. /\ pc = "add" /\ handoffs' = handoffs /\ replays' = replays /\ batch' = batch
      /\ \/ rows' = rows /\ faults' = faults + 1 /\ pc' = "accept"
         \/ /\ rows' = [rows EXCEPT ![JobKey] = @ \cup {QRow("queued", 0, 0)}]
            /\ faults' = faults /\ pc' = "first"
  BY Zenon DEF AddRow, Goes, Refused
<1>2. CASE rows' = rows
  <2>1. /\ faults' \in Nat /\ faults' >= faults /\ pc' \notin {"send", "finish"}
        /\ pc # "finish" /\ pc # "down"
    BY <1>0, <1>1
  <2> QED
    BY Zenon, <1>1, <1>2, <2>1, QuietKeeps
<1>3. CASE /\ rows' = [rows EXCEPT ![JobKey] = @ \cup {QRow("queued", 0, 0)}]
           /\ faults' = faults /\ pc' = "first"
  <2>1. JobKey \in Key /\ rows[JobKey] = {} /\ ~Resolved(JobKey)
    <3>1. Accepting /\ job.k < job.n /\ job \in JobType
      BY <1>1 DEF IndInv, JobInv, Accepting, TypeOK
    <3>2. job.id \in 1 .. MaxMsgid /\ job.k \in Nat /\ job.n \in 0 .. MaxDests
          /\ job.k \in job.k .. MaxDests - 1 /\ job.k \in 0 .. MaxDests - 1
      BY <3>1, BoundsAssumption DEF JobType, Accepting
    <3>3. <<job.id, job.k>> \in Key
      BY Zenon, <3>2 DEF Key
    <3> QED
      BY Zenon, <3>1, <3>2, <3>3 DEF IndInv, JobInv, JobKey
  <2>2. handoffs[JobKey] = 0
    BY <1>0, <2>1 DEF Resolved
  <2>3. rows'[JobKey] = {QRow("queued", 0, 0)} /\ \A k \in Key \ {JobKey} : rows'[k] = rows[k]
    BY Zenon, <1>0, <1>3, <2>1
  <2>4. \A k \in Key : ~Taken(k) /\ ~Taken(k)' /\ ~Trying(k) /\ ~Trying(k)'
    BY Zenon, <1>1, <1>3 DEF Taken, Trying
  <2>5. ChanceInv'
    <3>1. ASSUME NEW k \in Key
          PROVE  /\ IsFiniteSet(Chances(rows'[k]))
                 /\ handoffs'[k] + Cardinality(Chances(rows'[k])) <= 1 + faults' + replays'
      <4>1. CASE k = JobKey
        <5>1. /\ IsFiniteSet(Chances(rows'[k])) /\ Cardinality(Chances(rows'[k])) \in Nat
              /\ Cardinality(Chances(rows'[k])) <= 1
          BY Zenon, <2>3, <4>1, ChancesOfOne
        <5> QED
          BY <1>0, <1>1, <1>3, <2>2, <4>1, <5>1
      <4>2. CASE k # JobKey
        <5>1. /\ IsFiniteSet(Chances(rows[k]))
              /\ handoffs[k] + Cardinality(Chances(rows[k])) <= 1 + faults + replays
          BY <1>0, <2>4 DEF CopiesInv, ChanceInv
        <5>2. rows'[k] = rows[k]
          BY Zenon, <2>3, <4>2
        <5> QED
          BY Zenon, <1>1, <1>3, <5>1, <5>2
      <4> QED
        BY Zenon, <4>1, <4>2
    <3> QED
      BY <1>0, <1>1, <1>3, <2>4, <3>1 DEF ChanceInv
  <2>6. ItemInv'
    BY Zenon, <1>1, <1>3, <2>4 DEF CopiesInv, ItemInv
  <2> QED
    BY Zenon, <2>5, <2>6 DEF CopiesInv
<1> QED
  BY Zenon, <1>1, <1>2, <1>3

\* The items collected for a delivery are queued rows of it, each its own.
LEMMA RedriveKeepsCopies == IndInv /\ CopiesInv /\ Redrive => CopiesInv'
<1> SUFFICES ASSUME IndInv, CopiesInv, Redrive PROVE CopiesInv'
  BY Zenon
<1>0. /\ faults \in Nat /\ replays \in Nat /\ rows \in [Key -> SUBSET Row]
      /\ \A k \in Key : handoffs[k] \in Nat /\ Cardinality(Chances(rows[k])) \in Nat
      /\ pc # "down" => \A k \in Key : Cardinality(ItemsOf(batch, k)) \in Nat
  BY Zenon, Numbers DEF IndInv, TypeOK
<1>1. /\ pc = "redrive" /\ rows' = rows /\ handoffs' = handoffs /\ replays' = replays
      /\ \/ batch' = batch /\ pc' = "sweep" /\ faults' \in {faults, faults + 1}
         \/ batch' = FirstDue /\ pc' = "batch" /\ faults' = faults
  BY Zenon DEF Redrive, Goes, Refused, observed
<1>2. CASE batch' = batch /\ pc' = "sweep" /\ faults' \in {faults, faults + 1}
  <2>1. /\ faults' \in Nat /\ faults' >= faults /\ pc' \notin {"send", "finish"}
        /\ pc # "finish" /\ pc # "down"
    BY <1>0, <1>1, <1>2
  <2> QED
    BY Zenon, <1>1, <1>2, <2>1, QuietKeeps
<1>3. CASE batch' = FirstDue /\ pc' = "batch" /\ faults' = faults
  <2>1. \A k \in Key : ~Taken(k) /\ ~Taken(k)' /\ ~Trying(k) /\ ~Trying(k)'
    BY Zenon, <1>1, <1>3 DEF Taken, Trying
  <2>2. ChanceInv'
    BY Zenon, <1>1, <1>3, <2>1 DEF CopiesInv, ChanceInv
  <2>3. ASSUME NEW k \in Key
        PROVE  /\ IsFiniteSet(ItemsOf(batch', k))
               /\ handoffs'[k] + Cardinality(ItemsOf(batch', k)) <= 1 + faults' + replays'
    <3> DEFINE f == [i \in ItemsOf(batch', k) |-> QRow("queued", i.attempts, i.next_ts)]
    <3>1. \A i \in ItemsOf(batch', k) :
            \E r \in rows[k] : /\ r.status = "queued" /\ r \in Row
                               /\ i = [key |-> k, attempts |-> r.attempts, next_ts |-> r.next_ts]
      BY <1>0, <1>3 DEF ItemsOf, FirstDue, Due
    <3>2. \A i \in ItemsOf(batch', k) :
            /\ QRow("queued", i.attempts, i.next_ts) \in Chances(rows[k])
            /\ i = [key |-> k, attempts |-> i.attempts, next_ts |-> i.next_ts]
      <4> SUFFICES ASSUME NEW i \in ItemsOf(batch', k)
                   PROVE  /\ QRow("queued", i.attempts, i.next_ts) \in Chances(rows[k])
                          /\ i = [key |-> k, attempts |-> i.attempts, next_ts |-> i.next_ts]
        BY Zenon
      <4>1. PICK r \in rows[k] : /\ r.status = "queued" /\ r \in Row
                                 /\ i = [key |-> k, attempts |-> r.attempts, next_ts |-> r.next_ts]
        BY Zenon, <3>1
      <4>2. r = QRow("queued", r.attempts, r.next_ts)
        BY Zenon, <4>1 DEF Row, QRow
      <4>3. i.attempts = r.attempts /\ i.next_ts = r.next_ts
        BY Zenon, <4>1
      <4>4. r \in Chances(rows[k])
        BY Zenon, <4>1 DEF Chances, Again, IsActive
      <4> QED
        BY Zenon, <4>1, <4>2, <4>3, <4>4
    <3>3. f \in Injection(ItemsOf(batch', k), Chances(rows[k]))
      <4>1. f \in [ItemsOf(batch', k) -> Chances(rows[k])]
        BY Zenon, <3>2
      <4>2. \A i, j \in ItemsOf(batch', k) : f[i] = f[j] => i = j
        <5> SUFFICES ASSUME NEW i \in ItemsOf(batch', k), NEW j \in ItemsOf(batch', k),
                            f[i] = f[j]
                     PROVE  i = j
          BY Zenon
        <5>1. i.attempts = j.attempts /\ i.next_ts = j.next_ts
          BY Zenon DEF QRow
        <5> QED
          BY Zenon, <3>2, <5>1
      <4> QED
        BY Zenon, <4>1, <4>2 DEF Injection, IsInjective
    <3>4. IsFiniteSet(Chances(rows[k]))
          /\ handoffs[k] + Cardinality(Chances(rows[k])) <= 1 + faults + replays
      BY <2>1, <1>0 DEF CopiesInv, ChanceInv
    <3>5. /\ IsFiniteSet(ItemsOf(batch', k))
          /\ Cardinality(ItemsOf(batch', k)) <= Cardinality(Chances(rows[k]))
      BY Zenon, <3>3, <3>4, FS_Injection
    <3>6. Cardinality(ItemsOf(batch', k)) \in Nat
      BY Zenon, <3>5, FS_CardinalityType
    <3> QED
      BY <1>0, <1>1, <1>3, <3>4, <3>5, <3>6
  <2>4. ItemInv'
    <3>1. \A k \in Key : Cardinality(ItemsOf(batch', k)) \in Nat
      BY Zenon, <2>3, FS_CardinalityType
    <3> QED
      BY <1>0, <1>1, <1>3, <2>1, <2>3, <3>1 DEF ItemInv
  <2> QED
    BY Zenon, <2>2, <2>4 DEF CopiesInv
<1> QED
  BY Zenon, <1>1, <1>2, <1>3

\* A replay gives each delivery one chance more.
LEMMA ReplayKeepsCopies == IndInv /\ CopiesInv /\ Replay => CopiesInv'
<1> SUFFICES ASSUME IndInv, CopiesInv, Replay PROVE CopiesInv'
  BY Zenon
<1>0. /\ faults \in Nat /\ replays \in Nat /\ rows \in [Key -> SUBSET Row]
      /\ \A k \in Key : handoffs[k] \in Nat /\ Cardinality(Chances(rows[k])) \in Nat
      /\ pc # "down" => \A k \in Key : Cardinality(ItemsOf(batch, k)) \in Nat
  BY Zenon, Numbers DEF IndInv, TypeOK
<1>1. /\ pc \in {"poll", "dispatch"} /\ handoffs' = handoffs /\ replays' = replays + 1
      /\ batch' = batch
  BY Zenon DEF Replay, observed
<1>a. PICK id \in 1 .. MaxMsgid :
        \E done \in SUBSET Replayable(id),
           left \in SUBSET UNION {rows[k] : k \in Replayable(id)} :
          /\ rows' = [k \in Key |-> IF k \in done
                                    THEN {QRow("queued", 0, 0)} \cup (rows[k] \cap left)
                                    ELSE rows[k]]
          /\ Ends(/\ done = Replayable(id)
                  /\ \A k \in done : rows[k] \cap left \in Missed(k), "dispatch")
  BY Zenon DEF Replay
<1>2. PICK done \in SUBSET Replayable(id),
           left \in SUBSET UNION {rows[k] : k \in Replayable(id)} :
        /\ rows' = [k \in Key |-> IF k \in done
                                  THEN {QRow("queued", 0, 0)} \cup (rows[k] \cap left)
                                  ELSE rows[k]]
        /\ Ends(/\ done = Replayable(id)
                /\ \A k \in done : rows[k] \cap left \in Missed(k), "dispatch")
  BY Zenon, <1>a
<1>3. pc' \in {"dispatch", "down"} /\ faults' \in Nat /\ faults' >= faults
  <2>1. pc' \in {"dispatch", "down"} /\ Fault
    BY Zenon, <1>2, EndsEffect, EndsFault DEF IndInv
  <2> QED BY <1>0, <2>1 DEF Fault
<1>4. \A k \in Key : ~Taken(k) /\ ~Taken(k)' /\ ~Trying(k) /\ ~Trying(k)'
  BY Zenon, <1>1, <1>3 DEF Taken, Trying
<1>5. ChanceInv'
  <2>1. ASSUME NEW k \in Key
        PROVE  /\ IsFiniteSet(Chances(rows'[k])) /\ Cardinality(Chances(rows'[k])) \in Nat
               /\ Cardinality(Chances(rows'[k])) <= Cardinality(Chances(rows[k])) + 1
    <3>1. rows'[k] \subseteq rows[k] \cup {QRow("queued", 0, 0)}
      BY Zenon, <1>2
    <3>2. IsFiniteSet(Chances(rows[k]))
      BY Zenon DEF CopiesInv, ChanceInv
    <3> QED
      BY Zenon, <3>1, <3>2, ChancesOfMore
  <2>2. \A k \in Key : handoffs[k] + Cardinality(Chances(rows[k])) <= 1 + faults + replays
    BY <1>0, <1>4 DEF CopiesInv, ChanceInv
  <2>3. \A k \in Key : handoffs'[k] + Cardinality(Chances(rows'[k])) <= 1 + faults' + replays'
    BY <1>0, <1>1, <1>3, <2>1, <2>2
  <2> QED
    BY <1>0, <1>1, <1>3, <1>4, <2>1, <2>3 DEF ChanceInv
<1>6. ItemInv'
  BY <1>0, <1>1, <1>3, <1>4 DEF CopiesInv, ItemInv
<1> QED
  BY Zenon, <1>5, <1>6 DEF CopiesInv

\* A row left "delivering" and the queued row a restart makes of it are the
\* same chance.
LEMMA RestartKeepsCopies == IndInv /\ CopiesInv /\ Restart => CopiesInv'
<1> SUFFICES ASSUME IndInv, CopiesInv, Restart PROVE CopiesInv'
  BY Zenon
<1>0. /\ faults \in Nat /\ replays \in Nat /\ rows \in [Key -> SUBSET Row]
      /\ \A k \in Key : handoffs[k] \in Nat /\ Cardinality(Chances(rows[k])) \in Nat
  BY Zenon, Numbers DEF IndInv, TypeOK
<1>1. pc = "down" /\ handoffs' = handoffs /\ replays' = replays /\ batch' = {}
  BY Zenon DEF Restart
<1> DEFINE all    == {k \in Key : Delivering(rows[k]) # {}}
           Old(k) == rows[k] \cup {QRow("queued", r.attempts, 0) :
                                     r \in Delivering(rows[k])}
<1>2. PICK done \in SUBSET all, left \in SUBSET UNION {Old(k) : k \in all} :
        /\ rows' = [k \in Key |-> IF k \in done
                                  THEN {ResetRow(rows[k])} \cup (left \cap Old(k))
                                  ELSE rows[k]]
        /\ Ends(/\ done = all
                /\ left = {} \/ \E k \in all : Missed(k) # {{}}, "gc")
  BY Zenon DEF Restart
<1>3. pc' \in {"gc", "down"} /\ faults' \in Nat /\ faults' >= faults
  <2>1. pc' \in {"gc", "down"} /\ Fault
    BY Zenon, <1>2, EndsEffect, EndsFault DEF IndInv
  <2> QED BY <1>0, <2>1 DEF Fault
<1>4. \A k \in Key : ~Taken(k) /\ ~Taken(k)' /\ ~Trying(k)'
  BY Zenon, <1>1, <1>3 DEF Taken, Trying
<1>5. ASSUME NEW k \in Key, NEW r \in Delivering(rows[k])
      PROVE  QRow("queued", r.attempts, 0) \in Chances(rows[k])
  <2>1. r \in rows[k] /\ r.status = "delivering"
    BY Zenon DEF Delivering
  <2>2. Again(r) = QRow("queued", r.attempts, 0) /\ IsActive(r)
    BY Zenon, <2>1 DEF Again, IsActive
  <2> QED
    BY Zenon, <2>1, <2>2 DEF Chances
<1>6. ASSUME NEW k \in all
      PROVE  ResetRow(rows[k]) \in {QRow("queued", r.attempts, 0) : r \in Delivering(rows[k])}
  <2> DEFINE S == {r.attempts : r \in Delivering(rows[k])}
  <2>1. MostAttempts \in Nat
    BY Zenon, BoundsAssumption DEF MostAttempts
  <2>2. S \in SUBSET (0 .. MostAttempts) /\ S # {}
    BY <1>0, <2>1 DEF Delivering, IndInv, AttemptsInv, IsActive, Row
  <2>3. Max(S) \in S
    BY Zenon, <2>1, <2>2, MaxBounded
  <2> QED
    BY Zenon, <2>3 DEF ResetRow
<1>7. ASSUME NEW k \in Key
      PROVE  Chances(rows'[k]) \subseteq Chances(rows[k])
  <2>1. CASE k \notin done
    BY Zenon, <1>2, <2>1
  <2>2. CASE k \in done
    <3>1. rows'[k] \subseteq Old(k)
      BY Zenon, <1>2, <1>6, <2>2
    <3>2. \A r \in Old(k) : IsActive(r) => Again(r) \in Chances(rows[k])
      <4> SUFFICES ASSUME NEW r \in Old(k), IsActive(r)
                   PROVE  Again(r) \in Chances(rows[k])
        BY Zenon
      <4>1. CASE r \in rows[k]
        BY Zenon, <4>1 DEF Chances
      <4>2. CASE r \in {QRow("queued", q.attempts, 0) : q \in Delivering(rows[k])}
        <5>1. r \in Chances(rows[k]) /\ r.status = "queued"
          BY <1>5, <4>2 DEF QRow
        <5> QED
          BY Zenon, <5>1 DEF Again
      <4> QED
        BY Zenon, <4>1, <4>2
    <3> QED
      BY Zenon, <3>1, <3>2 DEF Chances
  <2> QED
    BY Zenon, <2>1, <2>2
<1>8. ChanceInv'
  <2>1. \A k \in Key : /\ IsFiniteSet(Chances(rows'[k]))
                       /\ Cardinality(Chances(rows'[k])) \in Nat
                       /\ Cardinality(Chances(rows'[k])) <= Cardinality(Chances(rows[k]))
    BY Zenon, <1>7, ChancesOfFewer DEF CopiesInv, ChanceInv
  <2>2. \A k \in Key : handoffs[k] + Cardinality(Chances(rows[k])) <= 1 + faults + replays
    BY <1>0, <1>4 DEF CopiesInv, ChanceInv
  <2>3. \A k \in Key : handoffs'[k] + Cardinality(Chances(rows'[k])) <= 1 + faults' + replays'
    BY <1>0, <1>1, <1>3, <2>1, <2>2
  <2> QED
    BY <1>0, <1>1, <1>3, <1>4, <2>1, <2>3 DEF ChanceInv
<1>9. ItemInv'
  <2>1. \A k \in Key : handoffs[k] + Cardinality(Chances(rows[k])) <= 1 + faults + replays
    BY <1>0, <1>4 DEF CopiesInv, ChanceInv
  <2>2. \A k \in Key : /\ IsFiniteSet(ItemsOf(batch', k))
                       /\ Cardinality(ItemsOf(batch', k)) = 0
    BY Zenon, <1>1, NoItems
  <2>3. \A k \in Key : handoffs'[k] + 0 <= 1 + faults' + replays'
    BY <1>0, <1>1, <1>3, <2>1
  <2> QED
    BY <1>0, <1>1, <1>3, <1>4, <2>2, <2>3 DEF ItemInv
<1> QED
  BY Zenon, <1>8, <1>9 DEF CopiesInv

-----------------------------------------------------------------------------
(* An attempt                                                               *)

\* What the relay takes was a chance, or its answer was lost.
LEMMA SendKeepsCopies == IndInv /\ CopiesInv /\ Send => CopiesInv'
<1> SUFFICES ASSUME IndInv, CopiesInv, Send PROVE CopiesInv'
  BY Zenon
<1>0. /\ faults \in Nat /\ replays \in Nat /\ handoffs \in [Key -> Nat]
      /\ \A k \in Key : handoffs[k] \in Nat /\ Cardinality(Chances(rows[k])) \in Nat
      /\ pc # "down" => \A k \in Key : Cardinality(ItemsOf(batch, k)) \in Nat
  BY Zenon, Numbers DEF IndInv, TypeOK
<1>1. /\ pc = "send" /\ pc' = "finish" /\ rows' = rows /\ batch' = batch
      /\ replays' = replays /\ cur.key \in Key /\ cur \in CurType
  BY Zenon DEF Send, store, IndInv, CurInv, TypeOK
<1>2. PICK taken \in BOOLEAN, v \in {"ok", "temp", "perm"} :
        /\ v = "ok" => taken
        /\ v = "perm" => ~taken
        /\ IF v = "temp" /\ taken THEN faults' = faults + 1 ELSE faults' = faults
        /\ handoffs' = IF taken THEN [handoffs EXCEPT ![cur.key] = @ + 1] ELSE handoffs
        /\ cur' = [cur EXCEPT !.verdict = v]
  BY Zenon DEF Send
<1>3. cur'.key = cur.key /\ cur'.verdict = v
  BY Zenon, <1>1, <1>2 DEF CurType
<1>4. \A k \in Key : ~Taken(k) /\ (Taken(k)' <=> k = cur.key /\ v = "ok")
                     /\ (Trying(k) <=> k = cur.key)
                     /\ (Trying(k)' <=> k = cur.key /\ v # "ok")
  <2> SUFFICES ASSUME NEW k \in Key
               PROVE  ~Taken(k) /\ (Taken(k)' <=> k = cur.key /\ v = "ok")
                      /\ (Trying(k) <=> k = cur.key)
                      /\ (Trying(k)' <=> k = cur.key /\ v # "ok")
    BY Zenon
  <2>1. ~Taken(k)
    BY Zenon, <1>1 DEF Taken
  <2>2. Taken(k)' <=> cur'.key = k /\ pc' = "finish" /\ cur'.verdict = "ok"
    BY Zenon DEF Taken
  <2>3. Trying(k) <=> cur.key = k
    <3>0. pc = "send"
      BY Zenon, <1>1
    <3>1. cur.key = k => Trying(k)
      BY <3>0, Zenon DEF Trying
    <3>2. Trying(k) => cur.key = k
      BY Zenon DEF Trying
    <3> QED
      BY Zenon, <3>1, <3>2
  <2>4. Trying(k)' <=> cur'.key = k /\ pc' = "finish" /\ cur'.verdict # "ok"
    BY Zenon, <1>1 DEF Trying
  <2> QED
    BY <1>1, <1>3, <2>1, <2>2, <2>3, <2>4, Zenon
<1>5. ASSUME NEW k \in Key
      PROVE  /\ IsFiniteSet(Chances(rows[k])) /\ IsFiniteSet(ItemsOf(batch, k))
             /\ handoffs[k] + Cardinality(Chances(rows[k])) <= 1 + faults + replays
             /\ k = cur.key =>
                  handoffs[k] + Cardinality(ItemsOf(batch, k)) + 1 <= 1 + faults + replays
             /\ handoffs[k] + Cardinality(ItemsOf(batch, k)) <= 1 + faults + replays
  BY <1>0, <1>1, <1>4 DEF CopiesInv, ChanceInv, ItemInv
<1>6. ASSUME NEW k \in Key
      PROVE  /\ handoffs'[k] \in Nat /\ faults' \in Nat
             /\ handoffs'[k] + Cardinality(Chances(rows[k])) <=
                  1 + faults' + replays + (IF Taken(k)' THEN 1 ELSE 0)
             /\ handoffs'[k] + Cardinality(ItemsOf(batch, k)) +
                  (IF Trying(k)' THEN 1 ELSE 0) <= 1 + faults' + replays
  <2>0. Cardinality(Chances(rows[k])) \in Nat /\ Cardinality(ItemsOf(batch, k)) \in Nat
    BY Zenon, <1>0, <1>1
  <2>1. CASE k = cur.key
    <3>1. CASE ~taken
      <4>1. handoffs'[k] = handoffs[k] /\ faults' = faults /\ v # "ok"
        BY Zenon, <1>2, <3>1
      <4> QED
        BY <1>0, <1>4, <1>5, <2>0, <2>1, <4>1
    <3>2. CASE taken /\ v = "ok"
      <4>1. handoffs'[k] = handoffs[k] + 1 /\ faults' = faults
        BY Zenon, <1>0, <1>2, <2>1, <3>2
      <4> QED
        BY <1>0, <1>4, <1>5, <2>0, <2>1, <3>2, <4>1
    <3>3. CASE taken /\ v = "temp"
      <4>1. handoffs'[k] = handoffs[k] + 1 /\ faults' = faults + 1
        BY Zenon, <1>0, <1>2, <2>1, <3>3
      <4> QED
        BY <1>0, <1>4, <1>5, <2>0, <2>1, <3>3, <4>1
    <3> QED
      BY Zenon, <1>2, <3>1, <3>2, <3>3
  <2>2. CASE k # cur.key
    <3>1. handoffs'[k] = handoffs[k] /\ faults' \in {faults, faults + 1}
      BY Zenon, <1>0, <1>1, <1>2, <2>2
    <3> QED
      BY <1>0, <1>4, <1>5, <2>0, <2>2, <3>1
  <2> QED
    BY Zenon, <2>1, <2>2
<1>7. ChanceInv'
  BY Zenon, <1>1, <1>5, <1>6 DEF ChanceInv
<1>8. ItemInv'
  BY Zenon, <1>1, <1>5, <1>6 DEF ItemInv
<1> QED
  BY Zenon, <1>7, <1>8 DEF CopiesInv

\* A verdict replaces the rows of the delivery; an attempt to be repeated is the
\* one chance left.
LEMMA FinishKeepsCopies == IndInv /\ CopiesInv /\ FewRows /\ Finish => CopiesInv'
<1> SUFFICES ASSUME IndInv, CopiesInv, FewRows, Finish PROVE CopiesInv'
  BY Zenon
<1> DEFINE c == cur.key
<1>0. /\ faults \in Nat /\ replays \in Nat /\ rows \in [Key -> SUBSET Row]
      /\ \A k \in Key : handoffs[k] \in Nat /\ Cardinality(Chances(rows[k])) \in Nat
      /\ pc # "down" => \A k \in Key : Cardinality(ItemsOf(batch, k)) \in Nat
  BY Numbers DEF IndInv, TypeOK
<1>1. /\ pc = "finish" /\ handoffs' = handoffs /\ replays' = replays /\ batch' = batch
      /\ c \in Key /\ Active(c) /\ cur.verdict \in {"ok", "temp", "perm"}
  BY Zenon DEF Finish, IndInv, CurInv, TypeOK, CurType
<1>2. Return \in {"accept", "batch"}
  BY Zenon DEF Return
<1>3. CASE TransitionFails(Return)
  <2>1. /\ rows' = rows /\ faults' = faults + 1 /\ pc' = Return
    BY Zenon, <1>3 DEF TransitionFails, Refused
  <2>2. /\ faults' \in Nat /\ faults' >= faults /\ faults' > faults
        /\ pc' \notin {"send", "finish"} /\ pc # "down"
    BY <1>0, <1>1, <1>2, <2>1
  <2> QED
    BY Zenon, <1>1, <2>1, <2>2, QuietKeeps
<1>4. CASE Transition(c, FinalRow(cur), Return)
  <2>1. PICK kept \in SUBSET rows[c] :
          /\ rows' = [rows EXCEPT ![c] = kept \cup {FinalRow(cur)}]
          /\ Ends(kept \cup {FinalRow(cur)} = {FinalRow(cur)}, Return)
    BY Zenon, <1>1, <1>4, TransitionRead
  <2>2. /\ rows'[c] = kept \cup {FinalRow(cur)}
        /\ \A k \in Key \ {c} : rows'[k] = rows[k]
    BY Zenon, <1>0, <1>1, <2>1
  <2>3. /\ pc' \in {Return, "down"} /\ faults' \in Nat /\ faults' >= faults
        /\ faults' = faults => rows'[c] = {FinalRow(cur)}
        /\ faults' # faults => faults' = faults + 1
    BY <1>0, <2>1, <2>2 DEF Ends, Goes, Faulty
  <2>4. cur.verdict # "temp" => ~IsActive(FinalRow(cur))
    BY Zenon, <1>1 DEF FinalRow, IsActive, QRow
  <2>5. \A k \in Key : ~Taken(k)' /\ ~Trying(k)'
    BY Zenon, <1>2, <2>3 DEF Taken, Trying
  <2>6. /\ IsFiniteSet(Chances(rows[c])) /\ Cardinality(Chances(rows[c])) \in Nat
        /\ Cardinality(Chances(rows[c])) >= 1
    BY Zenon, <1>1, ActiveHasOne DEF CopiesInv, ChanceInv, Active
  <2>7. /\ handoffs[c] + Cardinality(Chances(rows[c])) <= 1 + faults + replays + 1
        /\ cur.verdict # "ok" =>
             handoffs[c] + Cardinality(Chances(rows[c])) <= 1 + faults + replays
        /\ cur.verdict # "ok" =>
             handoffs[c] + Cardinality(ItemsOf(batch, c)) + 1 <= 1 + faults + replays
    <3>1. Taken(c) <=> cur.verdict = "ok"
      BY Zenon, <1>1 DEF Taken
    <3>2. Trying(c) <=> cur.verdict # "ok"
      BY Zenon, <1>1 DEF Trying
    <3>3. /\ handoffs[c] + Cardinality(Chances(rows[c])) <=
               1 + faults + replays + (IF Taken(c) THEN 1 ELSE 0)
          /\ handoffs[c] + Cardinality(ItemsOf(batch, c)) + (IF Trying(c) THEN 1 ELSE 0) <=
               1 + faults + replays
      BY Zenon, <1>0, <1>1 DEF CopiesInv, ChanceInv, ItemInv
    <3> QED
      BY <1>0, <1>1, <3>1, <3>2, <3>3, SMTT(30)
  <2>0. faults \in Nat /\ replays \in Nat /\ handoffs[c] \in Nat
    BY Zenon, <1>0, <1>1
  <2>8. /\ IsFiniteSet(Chances(rows'[c]))
        /\ handoffs[c] + Cardinality(Chances(rows'[c])) <= 1 + faults' + replays
    <3>1. CASE faults' = faults
      <4>1. /\ IsFiniteSet(Chances(rows'[c])) /\ Cardinality(Chances(rows'[c])) \in Nat
            /\ Cardinality(Chances(rows'[c])) <= 1
            /\ ~IsActive(FinalRow(cur)) => Cardinality(Chances(rows'[c])) = 0
        BY Zenon, <2>3, <3>1, ChancesOfOne
      <4>2. Cardinality(ItemsOf(batch, c)) \in Nat
        BY Zenon, <1>0, <1>1
      <4>3. CASE cur.verdict = "temp"
        <5>1. handoffs[c] + Cardinality(ItemsOf(batch, c)) + 1 <= 1 + faults + replays
          BY Zenon, <2>7, <4>3
        <5>2. handoffs[c] + 1 <= 1 + faults + replays
          BY <2>0, <4>2, <5>1
        <5> QED
          BY <2>0, <3>1, <4>1, <5>2
      <4>4. CASE cur.verdict # "temp"
        <5>1. Cardinality(Chances(rows'[c])) = 0
          BY Zenon, <2>4, <4>1, <4>4
        <5> QED
          BY <2>0, <2>6, <2>7, <3>1, <4>1, <5>1
      <4> QED
        BY Zenon, <4>3, <4>4
    <3>2. CASE faults' = faults + 1
      <4>1. /\ IsFiniteSet(Chances(rows'[c])) /\ Cardinality(Chances(rows'[c])) \in Nat
            /\ Cardinality(Chances(rows'[c])) <= Cardinality(Chances(rows[c])) + 1
            /\ ~IsActive(FinalRow(cur)) =>
                 Cardinality(Chances(rows'[c])) <= Cardinality(Chances(rows[c]))
        <5>1. rows'[c] \subseteq rows[c] \cup {FinalRow(cur)}
          BY Zenon, <2>2
        <5> QED
          BY Zenon, <2>6, <5>1, ChancesOfMore
      <4>3. CASE cur.verdict = "temp"
        <5>1. handoffs[c] + Cardinality(Chances(rows[c])) <= 1 + faults + replays
          BY Zenon, <2>7, <4>3
        <5> QED
          BY <2>0, <2>6, <3>2, <4>1, <5>1
      <4>4. CASE cur.verdict # "temp"
        <5>1. Cardinality(Chances(rows'[c])) <= Cardinality(Chances(rows[c]))
          BY Zenon, <2>4, <4>1, <4>4
        <5> QED
          BY <2>0, <2>6, <2>7, <3>2, <4>1, <5>1, SMTT(30)
      <4> QED
        BY Zenon, <4>3, <4>4
    <3> QED
      BY Zenon, <2>3, <3>1, <3>2
  <2>9. ChanceInv'
    <3>1. ASSUME NEW k \in Key
          PROVE  /\ IsFiniteSet(Chances(rows'[k]))
                 /\ handoffs'[k] + Cardinality(Chances(rows'[k])) <= 1 + faults' + replays'
      <4>1. CASE k = c
        BY Zenon, <1>1, <2>8, <4>1
      <4>2. CASE k # c
        <5>1. ~Taken(k)
          BY Zenon, <4>2 DEF Taken
        <5>2. /\ IsFiniteSet(Chances(rows[k]))
              /\ handoffs[k] + Cardinality(Chances(rows[k])) <= 1 + faults + replays
          BY <1>0, <5>1 DEF CopiesInv, ChanceInv
        <5>3. rows'[k] = rows[k]
          BY Zenon, <2>2, <4>2
        <5> QED
          BY <1>0, <1>1, <2>3, <5>2, <5>3, SMTT(30)
      <4> QED
        BY Zenon, <4>1, <4>2
    <3> QED
      BY <1>0, <1>1, <2>3, <2>5, <3>1 DEF ChanceInv
  <2>10. ItemInv'
    <3>1. \A k \in Key : /\ IsFiniteSet(ItemsOf(batch, k))
                         /\ handoffs[k] + Cardinality(ItemsOf(batch, k)) <= 1 + faults + replays
      BY <1>0, <1>1, SMTT(30) DEF CopiesInv, ItemInv
    <3> QED
      BY <1>0, <1>1, <2>3, <2>5, <3>1, SMTT(30) DEF ItemInv
  <2> QED
    BY Zenon, <2>9, <2>10 DEF CopiesInv
<1> QED
  BY Zenon, <1>3, <1>4 DEF Finish

\* An attempt begins on a delivery with a chance that is not in the batch any
\* more.
LEMMA FlipKeepsCopies ==
  ASSUME IndInv, CopiesInv, FewRows, NEW c \in Key, NEW a, Flip(c, a),
         pc \in {"first", "batch"}, handoffs' = handoffs, replays' = replays,
         batch' \subseteq batch,
         handoffs[c] + Cardinality(ItemsOf(batch', c)) + 1 <= 1 + faults + replays
  PROVE  CopiesInv'
<1> DEFINE row == QRow("delivering", a, 0)
           back == QRow("queued", a, RetryAt(now, a + 1))
<1>0. /\ faults \in Nat /\ replays \in Nat /\ rows \in [Key -> SUBSET Row]
      /\ \A k \in Key : handoffs[k] \in Nat /\ Cardinality(Chances(rows[k])) \in Nat
      /\ \A k \in Key : Cardinality(ItemsOf(batch, k)) \in Nat
  BY Zenon, Numbers DEF IndInv, TypeOK
<1>1. \A k \in Key : ~Taken(k)
  BY Zenon DEF Taken
<1>2. \A k \in Key : /\ IsFiniteSet(Chances(rows[k]))
                     /\ handoffs[k] + Cardinality(Chances(rows[k])) <= 1 + faults + replays
  BY <1>0, <1>1 DEF CopiesInv, ChanceInv
<1>3. \A k \in Key : /\ IsFiniteSet(ItemsOf(batch', k))
                     /\ Cardinality(ItemsOf(batch', k)) \in Nat
                     /\ Cardinality(ItemsOf(batch', k)) <= Cardinality(ItemsOf(batch, k))
  <2>1. \A k \in Key : IsFiniteSet(ItemsOf(batch, k)) /\ ItemsOf(batch', k) \subseteq ItemsOf(batch, k)
    BY Zenon DEF CopiesInv, ItemInv, ItemsOf
  <2> QED
    BY Zenon, <2>1, FS_Subset, FS_CardinalityType
<1>4. \A k \in Key : handoffs[k] + Cardinality(ItemsOf(batch, k)) <= 1 + faults + replays
  BY <1>0 DEF CopiesInv, ItemInv
<1>5. /\ \A k \in Key \ {c} : rows'[k] = rows[k]
      /\ faults' \in {faults, faults + 1}
      /\ \/ rows'[c] = rows[c]
         \/ \E r \in {row, back} : rows'[c] = {r}
         \/ faults' = faults + 1 /\ rows'[c] \subseteq rows[c] \cup {row}
      /\ pc' = "send" => cur'.key = c /\ cur'.verdict = "none"
      /\ pc' # "finish"
  <2>1. CASE Refused(Return) /\ rows' \in {rows, [rows EXCEPT ![c] = {back}]}
    BY Zenon, <1>0, <2>1 DEF Refused, Return
  <2>2. CASE Transition(c, row, "send") /\ cur'.key = c /\ cur'.verdict = "none"
    <3>1. PICK kept \in SUBSET rows[c] :
            /\ rows' = [rows EXCEPT ![c] = kept \cup {row}]
            /\ Ends(kept \cup {row} = {row}, "send")
      BY Zenon, <2>2, TransitionRead
    <3>2. rows'[c] = kept \cup {row} /\ \A k \in Key \ {c} : rows'[k] = rows[k]
      BY Zenon, <1>0, <3>1
    <3>3. \/ faults' = faults /\ rows'[c] = {row} /\ pc' = "send"
          \/ faults' = faults + 1 /\ pc' \in {"send", "down"}
      BY Zenon, <3>1, <3>2 DEF Ends, Goes, Faulty
    <3> QED
      BY Zenon, <2>2, <3>2, <3>3
  <2>3. CASE Refused(Return) /\ (UNCHANGED rows \/ \E u \in Missed(c) :
                                    rows' = [rows EXCEPT ![c] = u \cup {back}])
    <3>1. Missed(c) = {{}} /\ {} \cup {back} = {back}
      BY Zenon, AllRead
    <3> QED
      BY Zenon, <2>1, <2>3, <3>1
  <2>4. CASE /\ Transition(c, row, "send")
             /\ cur' = [key |-> c, attempts |-> a, t |-> now,
                        route |-> IF c \in reply_rows THEN "reply_relay" ELSE "relay",
                        verdict |-> "none"]
    BY Zenon, <2>2, <2>4
  <2> QED
    BY Zenon, <2>3, <2>4 DEF Flip
<1>6. faults' \in Nat /\ faults <= faults'
  <2>1. faults \in Nat /\ faults' \in {faults, faults + 1}
    BY Zenon, <1>0, <1>5
  <2> QED
    BY <2>1
<1>7. /\ IsFiniteSet(Chances(rows'[c]))
      /\ handoffs[c] + Cardinality(Chances(rows'[c])) <= 1 + faults' + replays
  <2>1. CASE rows'[c] = rows[c]
    <3> DEFINE h == handoffs[c]
               q == Cardinality(Chances(rows[c]))
               f == faults'
    <3>1. /\ h \in Nat /\ q \in Nat /\ h + q <= 1 + faults + replays
          /\ faults \in Nat /\ replays \in Nat
      BY Zenon, <1>0, <1>2
    <3>2. f \in Nat /\ faults <= f
      BY Zenon, <1>6
    <3> HIDE DEF h, q, f
    <3>3. h + q <= 1 + f + replays
      BY <3>1, <3>2
    <3> QED
      BY Zenon, <1>2, <2>1, <3>3 DEF h, q, f
  <2>2. CASE \E r \in {row, back} : rows'[c] = {r}
    <3>1. /\ IsFiniteSet(Chances(rows'[c])) /\ Cardinality(Chances(rows'[c])) \in Nat
          /\ Cardinality(Chances(rows'[c])) <= 1
      BY Zenon, <2>2, ChancesOfOne
    <3> DEFINE h == handoffs[c]
               p == Cardinality(Chances(rows'[c]))
               q == Cardinality(ItemsOf(batch', c))
               f == faults'
    <3>2. /\ h \in Nat /\ q \in Nat /\ h + q + 1 <= 1 + faults + replays
          /\ faults \in Nat /\ replays \in Nat
      BY Zenon, <1>0, <1>3
    <3>3. f \in Nat /\ faults <= f
      BY Zenon, <1>6
    <3> HIDE DEF h, p, q, f
    <3>4. p \in Nat /\ p <= 1
      BY Zenon, <3>1 DEF p
    <3>5. h + p <= 1 + f + replays
      BY <3>2, <3>3, <3>4
    <3> QED
      BY Zenon, <3>1, <3>5 DEF h, p, f
  <2>3. CASE faults' = faults + 1 /\ rows'[c] \subseteq rows[c] \cup {row}
    <3>1. /\ IsFiniteSet(Chances(rows'[c])) /\ Cardinality(Chances(rows'[c])) \in Nat
          /\ Cardinality(Chances(rows'[c])) <= Cardinality(Chances(rows[c])) + 1
      BY Zenon, <1>2, <2>3, ChancesOfMore
    <3> DEFINE h == handoffs[c]
               p == Cardinality(Chances(rows'[c]))
               q == Cardinality(Chances(rows[c]))
    <3>2. /\ h \in Nat /\ q \in Nat /\ h + q <= 1 + faults + replays
          /\ faults \in Nat /\ replays \in Nat
      BY Zenon, <1>0, <1>2
    <3> HIDE DEF h, p, q
    <3>3. p \in Nat /\ p <= q + 1 /\ faults' = faults + 1
      BY Zenon, <2>3, <3>1 DEF p, q
    <3>4. h + p <= 1 + faults' + replays
      BY <3>2, <3>3
    <3> QED
      BY Zenon, <3>1, <3>4 DEF h, p
  <2> QED
    BY Zenon, <1>5, <2>1, <2>2, <2>3
<1>8. \A k \in Key : ~Taken(k)' /\ (Trying(k)' => k = c)
  BY Zenon, <1>5 DEF Taken, Trying
<1>9. ChanceInv'
  <2>1. \A k \in Key : /\ IsFiniteSet(Chances(rows'[k]))
                       /\ handoffs[k] + Cardinality(Chances(rows'[k])) <= 1 + faults' + replays
    <3> SUFFICES ASSUME NEW k \in Key
                 PROVE  /\ IsFiniteSet(Chances(rows'[k]))
                        /\ handoffs[k] + Cardinality(Chances(rows'[k])) <= 1 + faults' + replays
      BY Zenon
    <3>1. CASE k = c
      BY Zenon, <1>7, <3>1
    <3>2. CASE k # c
      <4> DEFINE h == handoffs[k]
                 q == Cardinality(Chances(rows[k]))
                 f == faults'
      <4>1. rows'[k] = rows[k]
        BY Zenon, <1>5, <3>2
      <4>2. /\ h \in Nat /\ q \in Nat /\ h + q <= 1 + faults + replays
            /\ faults \in Nat /\ replays \in Nat
        BY Zenon, <1>0, <1>2
      <4>3. f \in Nat /\ faults <= f
        BY Zenon, <1>6
      <4> HIDE DEF h, q, f
      <4>4. h + q <= 1 + f + replays
        BY <4>2, <4>3
      <4> QED
        BY Zenon, <1>2, <4>1, <4>4 DEF h, q, f
    <3> QED
      BY Zenon, <3>1, <3>2
  <2>2. faults' \in Nat /\ replays \in Nat
    BY Zenon, <1>0, <1>6
  <2>3. 1 + faults' + replays + 0 = 1 + faults' + replays
    BY <2>2
  <2> QED
    BY Zenon, <1>8, <2>1, <2>3 DEF ChanceInv
<1>10. ItemInv'
  <2>1. \A k \in Key :
          handoffs[k] + Cardinality(ItemsOf(batch', k)) + (IF Trying(k)' THEN 1 ELSE 0) <=
            1 + faults' + replays
    <3> SUFFICES ASSUME NEW k \in Key
                 PROVE  handoffs[k] + Cardinality(ItemsOf(batch', k)) +
                          (IF Trying(k)' THEN 1 ELSE 0) <= 1 + faults' + replays
      BY Zenon
    <3> DEFINE h == handoffs[k]
               p == Cardinality(ItemsOf(batch, k))
               q == Cardinality(ItemsOf(batch', k))
               t == IF Trying(k)' THEN 1 ELSE 0
               f == faults'
    <3>1. /\ h \in Nat /\ p \in Nat /\ q \in Nat /\ q <= p
          /\ h + p <= 1 + faults + replays /\ faults \in Nat /\ replays \in Nat
      BY Zenon, <1>0, <1>3, <1>4
    <3>2. f \in Nat /\ faults <= f
      BY Zenon, <1>6
    <3>3. t = 0 \/ (t = 1 /\ k = c)
      BY Zenon, <1>8
    <3>4. k = c => h + q + 1 <= 1 + faults + replays
      BY Zenon
    <3> HIDE DEF h, p, q, t, f
    <3>5. h + q + t <= 1 + f + replays
      BY <3>1, <3>2, <3>3, <3>4
    <3> QED
      BY Zenon, <3>5 DEF h, q, t, f
  <2> QED
    BY Zenon, <1>3, <2>1 DEF ItemInv
<1> QED
  BY Zenon, <1>9, <1>10 DEF CopiesInv

\* The first attempt uses the chance the new row is.
LEMMA FirstAttemptKeepsCopies == IndInv /\ CopiesInv /\ FewRows /\ FirstAttempt => CopiesInv'
<1> SUFFICES ASSUME IndInv, CopiesInv, FewRows, FirstAttempt PROVE CopiesInv'
  BY Zenon
<1> DEFINE c == <<job.id, job.k - 1>>
<1>0. /\ faults \in Nat /\ replays \in Nat
      /\ \A k \in Key : handoffs[k] \in Nat /\ Cardinality(Chances(rows[k])) \in Nat
  BY Zenon, Numbers DEF IndInv
<1>1. pc = "first" /\ Flip(c, 0) /\ batch' = batch /\ replays' = replays /\ handoffs' = handoffs
  BY Zenon DEF FirstAttempt, observed
<1>2. batch = {}
  BY Zenon, <1>1 DEF IndInv, BatchInv
<1>3. c \in Key /\ Active(c)
  <2>1. job \in JobType /\ job.id # 0 /\ job.k > 0 /\ job.k <= job.n /\ Active(c)
    BY <1>1 DEF IndInv, JobInv, Accepting, TypeOK
  <2>2. job.id \in 1 .. MaxMsgid /\ job.k - 1 \in 0 .. MaxDests - 1
    BY <2>1, BoundsAssumption DEF JobType
  <2> QED
    BY <2>1, <2>2 DEF Key
<1>4. ~Taken(c)
  BY Zenon, <1>1 DEF Taken
<1>5. /\ IsFiniteSet(Chances(rows[c]))
      /\ handoffs[c] + Cardinality(Chances(rows[c])) <= 1 + faults + replays
  BY <1>0, <1>3, <1>4 DEF CopiesInv, ChanceInv
<1>6. Cardinality(Chances(rows[c])) >= 1
  BY Zenon, <1>3, <1>5, ActiveHasOne DEF Active
<1>7. Cardinality(ItemsOf(batch', c)) = 0
  BY Zenon, <1>1, <1>2, NoItems
<1>8. handoffs[c] + Cardinality(ItemsOf(batch', c)) + 1 <= 1 + faults + replays
  BY <1>0, <1>3, <1>5, <1>6, <1>7
<1> HIDE DEF c
<1> QED
  BY Zenon, <1>1, <1>3, <1>8, FlipKeepsCopies

\* An attempt of the batch uses its item.
LEMMA DriveNextKeepsCopies == IndInv /\ CopiesInv /\ FewRows /\ DriveNext => CopiesInv'
<1> SUFFICES ASSUME IndInv, CopiesInv, FewRows, DriveNext PROVE CopiesInv'
  BY Zenon
<1>0. /\ faults \in Nat /\ replays \in Nat /\ pc = "batch"
      /\ \A k \in Key : handoffs[k] \in Nat /\ Cardinality(ItemsOf(batch, k)) \in Nat
  BY Zenon, Numbers DEF IndInv, DriveNext
<1>1. PICK i \in batch : Flip(i.key, i.attempts) /\ batch' = batch \ {i}
  BY Zenon DEF DriveNext
<1>2. replays' = replays /\ handoffs' = handoffs
  BY Zenon DEF DriveNext, observed
<1>3. i.key \in Key
  BY Zenon DEF IndInv, TypeOK, Item
<1>4. /\ IsFiniteSet(ItemsOf(batch, i.key)) /\ i \in ItemsOf(batch, i.key)
      /\ handoffs[i.key] + Cardinality(ItemsOf(batch, i.key)) <= 1 + faults + replays
  BY <1>0, <1>3 DEF CopiesInv, ItemInv, ItemsOf
<1>5. ItemsOf(batch', i.key) = ItemsOf(batch, i.key) \ {i}
  BY Zenon, <1>1 DEF ItemsOf
<1>6. Cardinality(ItemsOf(batch', i.key)) = Cardinality(ItemsOf(batch, i.key)) - 1
  BY Zenon, <1>4, <1>5, FS_RemoveElement
<1>7. handoffs[i.key] + Cardinality(ItemsOf(batch', i.key)) + 1 <= 1 + faults + replays
  BY <1>0, <1>3, <1>4, <1>6
<1> QED
  BY <1>0, <1>1, <1>2, <1>3, <1>7, FlipKeepsCopies

-----------------------------------------------------------------------------
(* The theorem                                                              *)

\* Nothing has been handed over and nothing is queued.
LEMMA InitCopies == Init => CopiesInv
<1> SUFFICES ASSUME Init PROVE CopiesInv
  BY Zenon
<1>1. \A k \in Key : rows[k] = {} /\ handoffs[k] = 0
  BY Zenon DEF Init
<1>2. faults = 0 /\ replays = 0 /\ pc = "down"
  BY Zenon DEF Init
<1>3. Chances({}) = {}
  BY Zenon DEF Chances
<1>4. IsFiniteSet(Chances({})) /\ Cardinality(Chances({})) = 0
  BY Zenon, <1>3, FS_EmptySet
<1> QED
  BY <1>1, <1>2, <1>4 DEF CopiesInv, ChanceInv, ItemInv, Taken

\* Every step keeps the count of chances.
LEMMA NextKeepsCopies == IndInv /\ CopiesInv /\ FewRows /\ [Next]_vars => CopiesInv'
<1> SUFFICES ASSUME IndInv, CopiesInv, FewRows, [Next]_vars PROVE CopiesInv'
  BY Zenon
<1>1. CASE UNCHANGED vars
  BY Zenon, <1>1 DEF vars, store, observed, CopiesInv, ChanceInv, ItemInv, Taken, Trying
<1> QED
  BY <1>1, OthersKeepCopies, TickKeepsCopies, AddRowKeepsCopies, RedriveKeepsCopies,
     ReplayKeepsCopies, RestartKeepsCopies, SendKeepsCopies, FinishKeepsCopies,
     FirstAttemptKeepsCopies, DriveNextKeepsCopies DEF Next

\* A delivery is handed to the relay at most once more than there were faults
\* and replays, for every bound on messages, attempts, faults and the batch, as
\* long as store_queue_set_status reads, and so deletes, all rows of a delivery.
THEOREM DuplicatesAreBounded == Spec /\ []FewRows => []DuplicatesBounded
<1>1. IndInv /\ CopiesInv => DuplicatesBounded
  <2> SUFFICES ASSUME IndInv, CopiesInv, NEW k \in Key
               PROVE  handoffs[k] <= 1 + faults + replays
    BY Zenon DEF DuplicatesBounded
  <2>0. /\ faults \in Nat /\ replays \in Nat /\ handoffs[k] \in Nat
        /\ Cardinality(Chances(rows[k])) \in Nat /\ IsFiniteSet(Chances(rows[k]))
    BY Zenon, Numbers DEF IndInv, CopiesInv, ChanceInv
  <2>1. CASE Taken(k)
    <3>1. \E r \in rows[k] : IsActive(r)
      BY Zenon, <2>1 DEF IndInv, CurInv, Active, Taken
    <3>2. Cardinality(Chances(rows[k])) >= 1
      BY Zenon, <2>0, <3>1, ActiveHasOne
    <3>3. handoffs[k] + Cardinality(Chances(rows[k])) <= 1 + faults + replays + 1
      BY Zenon, <2>1 DEF CopiesInv, ChanceInv
    <3> QED
      BY <2>0, <3>2, <3>3
  <2>2. CASE ~Taken(k)
    <3>1. handoffs[k] + Cardinality(Chances(rows[k])) <= 1 + faults + replays
      BY <2>0, <2>2 DEF CopiesInv, ChanceInv
    <3> QED
      BY <2>0, <3>1
  <2> QED
    BY Zenon, <2>1, <2>2
<1> QED
  BY <1>1, Invariance, InitCopies, NextKeepsCopies, PTL DEF Spec

-----------------------------------------------------------------------------
(* The route of a reply                                                     *)

\* Steps that begin no attempt, add no row and collect no item.
LEMMA QuietKeepsRoute ==
  ASSUME IndInv, RouteInv, ~StoreErrors,
         replays' = 0 => replays = 0, pc' # "down" => pc # "down",
         replies' = replies, reply_rows' = reply_rows, batch' \subseteq batch,
         handoffs' = handoffs, bounced' = bounced, pc' \notin {"send", "finish"},
         \A k \in Key : rows'[k] \subseteq rows[k],
         \A k \in Key : rows'[k] = {} => rows[k] = {} \/ ~Active(k)
  PROVE  RouteInv'
<1> SUFFICES ASSUME replays' = 0, pc' # "down", NEW k \in replies'
             PROVE  Steady(k)'
  BY Zenon DEF RouteInv
<1>1. Steady(k) /\ k \in Key
  BY Zenon DEF RouteInv, IndInv, TypeOK
<1>2. rows'[k] # {} \/ Resolved(k)'
  BY Zenon, <1>1 DEF Steady, Resolved, IndInv, TerminalInv
<1>3. \A r, s \in rows'[k] : r = s
  BY Zenon, <1>1 DEF Steady
<1>4. ItemsOf(batch', k) \subseteq ItemsOf(batch, k)
  BY Zenon DEF ItemsOf
<1>5. Active(k)' => Active(k)
  BY Zenon, <1>1 DEF Active
<1> QED
  BY Zenon, <1>1, <1>2, <1>3, <1>4, <1>5 DEF Steady

\* The loop, the acceptance but for its row, and the sweeps are such steps; a
\* restart forgets the replies, and a replay is excepted.
LEMMA OthersKeepRoute ==
  ASSUME IndInv, RouteInv, FewRows, ~StoreErrors,
         \/ TimerWake \/ OtherWake \/ LoopAgain \/ DriveEnd \/ Accept \/ Spool \/ Reply
         \/ Crash \/ Sweep \/ StartupGc \/ Replay \/ Restart
  PROVE  RouteInv'
<1>1. CASE \/ TimerWake \/ OtherWake \/ LoopAgain \/ DriveEnd \/ Accept \/ Spool \/ Reply
  <2>1. /\ rows' = rows /\ handoffs' = handoffs /\ bounced' = bounced /\ replays' = replays
        /\ replies' = replies /\ reply_rows' = reply_rows /\ batch' \in {batch, {}}
        /\ pc # "down" /\ pc' \notin {"send", "finish"}
    BY Zenon, <1>1 DEF TimerWake, OtherWake, LoopAgain, DriveEnd, Accept, Spool, Reply,
                Goes, Ends, Faulty, Refused, store, observed
  <2> QED
    BY Zenon, <2>1, QuietKeepsRoute
<1>2. CASE Crash
  BY Zenon, <1>2 DEF Crash, RouteInv
<1>3. CASE Sweep \/ StartupGc
  <2>1. /\ SpoolGc /\ handoffs' = handoffs /\ bounced' = bounced /\ replays' = replays
        /\ replies' = replies /\ reply_rows' = reply_rows /\ batch' = batch
        /\ pc \in {"sweep", "gc"}
    BY Zenon, <1>3 DEF Sweep, StartupGc, observed
  <2>2. /\ \A k \in Key : rows'[k] \subseteq rows[k]
        /\ \A k \in Key : Active(k) => rows'[k] = rows[k]
        /\ pc' \in {"down", IF pc = "gc" THEN "redrive" ELSE "poll"}
    BY Zenon, <2>1, SpoolGcEffect DEF IndInv
  <2>3. pc' \notin {"send", "finish"} /\ pc # "down"
    BY Zenon, <2>1, <2>2
  <2>4. \A k \in Key : rows'[k] = {} => rows[k] = {} \/ ~Active(k)
    BY Zenon, <2>2
  <2> QED
    BY <2>1, <2>2, <2>3, <2>4, QuietKeepsRoute
<1>4. CASE Replay
  <2>1. replays' = replays + 1 /\ replays \in Nat
    BY Zenon, <1>4 DEF Replay, IndInv, TypeOK
  <2>2. replays' # 0
    BY <2>1
  <2> QED
    BY Zenon, <2>2 DEF RouteInv
<1>5. CASE Restart
  <2>1. replies' = {}
    BY Zenon, <1>5 DEF Restart
  <2> QED
    BY Zenon, <2>1 DEF RouteInv
<1> QED
  BY Zenon, <1>1, <1>2, <1>3, <1>4, <1>5

\* A row enqueued for a reply comes with its mark, and a destination in the
\* making is no reply yet.
LEMMA AddRowKeepsRoute ==
  ASSUME IndInv, RouteInv, ~StoreErrors, AddRow
  PROVE  RouteInv'
<1>1. /\ pc = "add" /\ replays' = replays /\ batch' = batch /\ handoffs' = handoffs
      /\ bounced' = bounced /\ pc' = "first"
      /\ rows' = [rows EXCEPT ![JobKey] = @ \cup {QRow("queued", 0, 0)}]
      /\ reply_rows' = IF job.k \in job.reply THEN reply_rows \cup {JobKey} ELSE reply_rows
      /\ replies' = IF job.k \in job.reply THEN replies \cup {JobKey} ELSE replies
  BY Zenon DEF AddRow, Goes, Refused
<1>2. JobKey \in Key /\ rows[JobKey] = {} /\ ~Resolved(JobKey)
  <2>1. Accepting /\ job.k < job.n /\ job \in JobType
    BY <1>1 DEF IndInv, JobInv, Accepting, TypeOK
  <2>2. /\ job.id \in 1 .. MaxMsgid /\ job.k \in job.k .. MaxDests - 1
        /\ job.k \in 0 .. MaxDests - 1
    BY <2>1, BoundsAssumption DEF JobType, Accepting
  <2> QED
    BY <2>1, <2>2 DEF IndInv, JobInv, JobKey, Key
<1>3. rows'[JobKey] = {QRow("queued", 0, 0)} /\ \A k \in Key \ {JobKey} : rows'[k] = rows[k]
  BY Zenon, <1>1, <1>2 DEF IndInv, TypeOK
<1>4. batch = {}
  BY Zenon, <1>1 DEF IndInv, BatchInv
<1> SUFFICES ASSUME replays' = 0, NEW k \in replies'
             PROVE  Steady(k)'
  BY Zenon DEF RouteInv
<1>5. CASE k = JobKey
  <2>1. JobKey \notin replies
    BY Zenon, <1>1, <1>2 DEF RouteInv, Steady
  <2>2. k \in reply_rows'
    BY Zenon, <1>1, <1>5, <2>1
  <2>3. ItemsOf(batch', k) = {}
    BY Zenon, <1>1, <1>4 DEF ItemsOf
  <2> QED
    BY <1>1, <1>3, <1>5, <2>2, <2>3, SMTT(60) DEF Steady
<1>6. CASE k # JobKey
  <2>1. k \in replies /\ (k \in reply_rows' <=> k \in reply_rows) /\ k \in Key
    BY <1>1, <1>6 DEF IndInv, TypeOK
  <2>2. Steady(k) /\ rows'[k] = rows[k]
    BY <1>1, <1>3, <1>6, <2>1 DEF RouteInv
  <2>3. (Resolved(k)' <=> Resolved(k)) /\ (Active(k)' <=> Active(k))
    BY Zenon, <1>1, <2>2 DEF Resolved, Active
  <2> QED
    BY <1>1, <2>1, <2>2, <2>3 DEF Steady
<1> QED
  BY Zenon, <1>5, <1>6

\* The one row of a reply gives one item, and only a marked reply has a row to
\* collect.
LEMMA RedriveKeepsRoute ==
  ASSUME IndInv, RouteInv, ~StoreErrors, Redrive
  PROVE  RouteInv'
<1>1. /\ pc = "redrive" /\ rows' = rows /\ handoffs' = handoffs /\ bounced' = bounced
      /\ replays' = replays /\ replies' = replies /\ reply_rows' = reply_rows
      /\ \/ batch' = batch /\ pc' = "sweep"
         \/ batch' = FirstDue /\ pc' = "batch"
  BY Zenon DEF Redrive, Goes, Refused, observed
<1>2. CASE batch' = batch /\ pc' = "sweep"
  BY Zenon, <1>1, <1>2, QuietKeepsRoute
<1>3. CASE batch' = FirstDue /\ pc' = "batch"
  <2> SUFFICES ASSUME replays' = 0, NEW k \in replies'
               PROVE  Steady(k)'
    BY Zenon DEF RouteInv
  <2>1. Steady(k) /\ k \in Key
    BY Zenon, <1>1 DEF RouteInv, IndInv, TypeOK
  <2>2. \A i \in ItemsOf(batch', k) :
          \E r \in rows[k] : /\ r.status = "queued"
                             /\ i = [key |-> k, attempts |-> r.attempts, next_ts |-> r.next_ts]
    BY <1>3 DEF ItemsOf, FirstDue, Due
  <2>3. \A i, j \in ItemsOf(batch', k) : i = j
    BY Zenon, <2>1, <2>2 DEF Steady
  <2>4. k \notin reply_rows => ItemsOf(batch', k) = {}
    BY Zenon, <2>1, <2>2 DEF Steady, Active, IsActive
  <2>5. (Resolved(k)' <=> Resolved(k)) /\ (Active(k)' <=> Active(k))
    BY Zenon, <1>1 DEF Resolved, Active
  <2> QED
    BY <1>1, <1>3, <2>1, <2>3, <2>4, <2>5 DEF Steady
<1> QED
  BY Zenon, <1>1, <1>2, <1>3

\* An attempt begins on a reply that is marked and has no item left.
LEMMA FlipKeepsRoute ==
  ASSUME IndInv, RouteInv, FewRows, ~StoreErrors, NEW c \in Key, NEW a, Flip(c, a),
         pc \in {"first", "batch"}, handoffs' = handoffs, bounced' = bounced,
         replays' = replays, replies' = replies, reply_rows' = reply_rows,
         batch' \subseteq batch,
         replays = 0 /\ c \in replies => c \in reply_rows /\ ItemsOf(batch', c) = {}
  PROVE  RouteInv'
<1> DEFINE row == QRow("delivering", a, 0)
<1>1. /\ Transition(c, row, "send")
      /\ cur'.key = c
      /\ cur'.route = IF c \in reply_rows THEN "reply_relay" ELSE "relay"
  BY DEF Flip, Refused
<1> SUFFICES ASSUME replays' = 0, pc' # "down", NEW k \in replies'
             PROVE  Steady(k)'
  BY Zenon DEF RouteInv
<1>2. pc' = "send" /\ rows' = [rows EXCEPT ![c] = {row}]
  BY Zenon, <1>1, TransitionRead DEF Ends, Goes, Faulty
<1>3. rows'[c] = {row} /\ \A j \in Key \ {c} : rows'[j] = rows[j]
  BY <1>2 DEF IndInv, TypeOK
<1>4. Steady(k) /\ k \in Key
  BY Zenon DEF RouteInv, IndInv, TypeOK
<1>5. ItemsOf(batch', k) \subseteq ItemsOf(batch, k)
  BY Zenon DEF ItemsOf
<1>6. CASE k = c
  BY <1>1, <1>3, <1>6 DEF Steady
<1>7. CASE k # c
  <2>1. (Resolved(k)' <=> Resolved(k)) /\ (Active(k)' <=> Active(k)) /\ rows'[k] = rows[k]
    BY Zenon, <1>3, <1>4, <1>7 DEF Resolved, Active
  <2> QED
    BY <1>1, <1>4, <1>5, <1>7, <2>1 DEF Steady
<1> QED
  BY Zenon, <1>6, <1>7

\* The first attempt: the row just enqueued is active, so it is marked.
LEMMA FirstAttemptKeepsRoute ==
  ASSUME IndInv, RouteInv, FewRows, ~StoreErrors, FirstAttempt
  PROVE  RouteInv'
<1> DEFINE c == <<job.id, job.k - 1>>
<1>1. /\ pc = "first" /\ Flip(c, 0) /\ batch' = batch /\ replays' = replays
      /\ handoffs' = handoffs /\ bounced' = bounced /\ replies' = replies
      /\ reply_rows' = reply_rows
  BY Zenon DEF FirstAttempt, observed
<1>2. batch = {}
  BY Zenon, <1>1 DEF IndInv, BatchInv
<1>3. c \in Key /\ Active(c)
  <2>1. job \in JobType /\ job.id # 0 /\ job.k > 0 /\ job.k <= job.n /\ Active(c)
    BY <1>1 DEF IndInv, JobInv, Accepting, TypeOK
  <2>2. job.id \in 1 .. MaxMsgid /\ job.k - 1 \in 0 .. MaxDests - 1
    BY <2>1, BoundsAssumption DEF JobType
  <2> QED
    BY Zenon, <2>1, <2>2 DEF Key
<1>4. replays = 0 /\ c \in replies => c \in reply_rows
  BY Zenon, <1>1, <1>3 DEF RouteInv, Steady
<1>5. ItemsOf(batch', c) = {}
  BY Zenon, <1>1, <1>2 DEF ItemsOf
<1> HIDE DEF c
<1> QED
  BY Zenon, <1>1, <1>3, <1>4, <1>5, FlipKeepsRoute

\* An attempt of the batch: only a marked reply has an item, and only one.
LEMMA DriveNextKeepsRoute ==
  ASSUME IndInv, RouteInv, FewRows, ~StoreErrors, DriveNext
  PROVE  RouteInv'
<1>1. PICK i \in batch : Flip(i.key, i.attempts) /\ batch' = batch \ {i}
  BY Zenon DEF DriveNext
<1>2. /\ pc = "batch" /\ replays' = replays /\ handoffs' = handoffs /\ bounced' = bounced
      /\ replies' = replies /\ reply_rows' = reply_rows
  BY Zenon DEF DriveNext, observed
<1>3. i.key \in Key
  BY Zenon DEF IndInv, TypeOK, Item
<1>4. replays = 0 /\ i.key \in replies => i.key \in reply_rows /\ ItemsOf(batch', i.key) = {}
  <2> SUFFICES ASSUME replays = 0, i.key \in replies
               PROVE  i.key \in reply_rows /\ ItemsOf(batch', i.key) = {}
    BY Zenon
  <2>1. Steady(i.key) /\ i \in ItemsOf(batch, i.key)
    BY Zenon, <1>2 DEF RouteInv, ItemsOf
  <2>2. \A j \in ItemsOf(batch', i.key) : j \in ItemsOf(batch, i.key) /\ j # i
    BY Zenon, <1>1 DEF ItemsOf
  <2> QED
    BY Zenon, <2>1, <2>2 DEF Steady
<1> QED
  BY <1>1, <1>2, <1>3, <1>4, FlipKeepsRoute

\* Sending changes neither row, item nor route.
LEMMA SendKeepsRoute ==
  ASSUME IndInv, RouteInv, ~StoreErrors, Send
  PROVE  RouteInv'
<1>1. /\ pc = "send" /\ pc' = "finish" /\ rows' = rows /\ batch' = batch
      /\ replays' = replays /\ replies' = replies /\ reply_rows' = reply_rows
      /\ bounced' = bounced /\ cur \in CurType
  BY Zenon DEF Send, store, IndInv, TypeOK
<1>2. cur'.key = cur.key /\ cur'.route = cur.route
  BY Zenon, <1>1 DEF Send, CurType
<1>3. \A k \in Key : handoffs[k] \in Nat /\ (handoffs'[k] = handoffs[k] \/ handoffs'[k] = handoffs[k] + 1)
  BY DEF Send, IndInv, TypeOK
<1> SUFFICES ASSUME replays' = 0, NEW k \in replies'
             PROVE  Steady(k)'
  BY Zenon DEF RouteInv
<1>4. Steady(k) /\ k \in Key
  BY Zenon, <1>1 DEF RouteInv, IndInv, TypeOK
<1>5. (Resolved(k) => Resolved(k)') /\ (Active(k)' <=> Active(k))
  BY <1>1, <1>3, <1>4 DEF Resolved, Active
<1> QED
  BY <1>1, <1>2, <1>4, <1>5 DEF Steady

\* The mark goes with a verdict of the relay, and with it the last active row.
LEMMA FinishKeepsRoute ==
  ASSUME IndInv, RouteInv, FewRows, ~StoreErrors, Finish
  PROVE  RouteInv'
<1> DEFINE c == cur.key
<1>1. /\ pc = "finish" /\ handoffs' = handoffs /\ replays' = replays /\ batch' = batch
      /\ replies' = replies /\ reply_rows' = MarksAfter(cur)
      /\ c \in Key /\ cur.verdict \in {"ok", "temp", "perm"}
  BY Zenon DEF Finish, IndInv, CurInv, TypeOK, CurType
<1>2. /\ Transition(c, FinalRow(cur), Return)
      /\ bounced \subseteq bounced'
  BY Zenon DEF Finish, TransitionFails, Refused
<1> SUFFICES ASSUME replays' = 0, pc' # "down", NEW k \in replies'
             PROVE  Steady(k)'
  BY Zenon DEF RouteInv
<1>3. pc' = Return /\ rows' = [rows EXCEPT ![c] = {FinalRow(cur)}]
  BY Zenon, <1>1, <1>2, TransitionRead DEF Ends, Goes, Faulty
<1>4. pc' \notin {"send", "finish"}
  BY Zenon, <1>3 DEF Return
<1>5. rows'[c] = {FinalRow(cur)} /\ \A j \in Key \ {c} : rows'[j] = rows[j]
  BY <1>1, <1>3 DEF IndInv, TypeOK
<1>6. Steady(k) /\ k \in Key
  BY <1>1 DEF RouteInv, IndInv, TypeOK
<1>7. cur.verdict # "temp" => ~IsActive(FinalRow(cur))
  BY Zenon, <1>1 DEF FinalRow, IsActive, QRow
<1>8. CASE k = c
  <2>1. ItemsOf(batch', k) = {}
    BY Zenon, <1>1, <1>6, <1>8 DEF Steady
  <2>2. k \notin reply_rows' => ~Active(k)'
    <3>1. CASE cur.verdict = "temp"
      <4>1. reply_rows' = reply_rows
        BY Zenon, <1>1, <3>1 DEF MarksAfter
      <4>2. Active(c)
        BY Zenon, <1>1 DEF IndInv, CurInv
      <4> QED
        BY Zenon, <1>6, <1>8, <4>1, <4>2 DEF Steady
    <3>2. CASE cur.verdict # "temp"
      BY Zenon, <1>5, <1>7, <1>8, <3>2 DEF Active
    <3> QED
      BY Zenon, <3>1, <3>2
  <2> QED
    BY <1>4, <1>5, <1>8, <2>1, <2>2 DEF Steady
<1>9. CASE k # c
  <2>1. /\ rows'[k] = rows[k] /\ (k \in reply_rows' <=> k \in reply_rows)
    BY Zenon, <1>1, <1>5, <1>6, <1>9 DEF MarksAfter
  <2>2. (Resolved(k) => Resolved(k)') /\ (Active(k)' <=> Active(k))
    BY Zenon, <1>1, <1>2, <2>1 DEF Resolved, Active
  <2> QED
    BY <1>1, <1>4, <1>6, <2>1, <2>2 DEF Steady
<1> QED
  BY Zenon, <1>8, <1>9

\* Every step keeps the replies steady.
LEMMA NextKeepsRoute ==
  ASSUME IndInv, RouteInv, FewRows, [Next]_vars
  PROVE  RouteInv'
<1>1. CASE StoreErrors
  BY Zenon, <1>1 DEF RouteInv
<1>2. CASE UNCHANGED vars \/ Tick
  BY Zenon, <1>2 DEF vars, Tick, store, observed, RouteInv, Steady, Resolved, Active
<1>3. CASE ~StoreErrors /\ Next
  BY <1>2, <1>3, OthersKeepRoute, AddRowKeepsRoute, RedriveKeepsRoute,
     FirstAttemptKeepsRoute, DriveNextKeepsRoute, SendKeepsRoute, FinishKeepsRoute
  DEF Next
<1> QED
  BY Zenon, <1>1, <1>2, <1>3

\* As long as no store call fails and nothing is replayed, a reply enqueued
\* since the daemon started is only ever sent through reply_relay.  Again the
\* rows fit the arrays of store.c.
THEOREM ReplyRouteIsStable == Spec /\ []FewRows => [](~StoreErrors => ReplyRouteStable)
<1>1. Init => RouteInv
  BY Zenon DEF Init, RouteInv
<1>2. RouteInv => (~StoreErrors => ReplyRouteStable)
  BY Zenon DEF RouteInv, ReplyRouteStable, Steady
<1>3. IndInv /\ RouteInv /\ FewRows /\ [Next]_vars => RouteInv'
  BY Zenon, NextKeepsRoute
<1> QED
  BY <1>1, <1>2, <1>3, Invariance, PTL DEF Spec
=============================================================================
