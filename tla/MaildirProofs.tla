--------------------------- MODULE MaildirProofs ---------------------------
(***************************************************************************)
(* What holds of the maildir that imapd and jmapd share, for any messages, *)
(* any views of the two daemons and any number of operations, crashes and  *)
(* failed saves.                                                           *)
(***************************************************************************)
EXTENDS Maildir, FiniteSetTheorems, NaturalsInduction, TLAPS

-----------------------------------------------------------------------------
(* Maxima of finite sets of numbers, which Above and highestmodseq take.    *)

\* A set of numbers that is not empty has a least one.
LEMMA LeastNumber ==
  ASSUME NEW S \in SUBSET Nat, S # {}
  PROVE  \E n \in S : \A k \in S : n <= k
<1>1. PICK n \in S : \A k \in S : <<k, n>> \notin OpToRel(<, Nat)
  BY Zenon, NatLessThanWellFounded, WFMin
<1>2. \A k \in S : ~(k < n)
  BY Zenon, <1>1 DEF OpToRel
<1> QED BY <1>2

\* A bounded set of numbers has its maximum.
LEMMA BoundedMax ==
  ASSUME NEW S \in SUBSET Nat, S # {}, NEW u \in Nat, \A y \in S : y <= u
  PROVE  Max(S) \in S /\ \A y \in S : y <= Max(S)
<1> DEFINE U == {x \in Nat : \A y \in S : y <= x}
<1>1. U \in SUBSET Nat /\ u \in U
  BY Zenon
<1>2. PICK n \in U : \A k \in U : n <= k
  BY Zenon, <1>1, LeastNumber
<1>3. n \in S
  <2> SUFFICES ASSUME n \notin S PROVE FALSE
    BY Zenon
  <2>1. \A y \in S : y < n
    BY <1>2
  <2>4. PICK z \in S : TRUE
    BY Zenon
  <2>2. n \in Nat /\ n # 0
    BY <1>2, <2>1, <2>4
  <2>3. n - 1 \in U
    BY <1>2, <2>1, <2>2
  <2> QED BY <1>2, <2>3
<1>4. \E x \in S : \A y \in S : x >= y
  BY Zenon, <1>2, <1>3
<1>5. Max(S) \in S /\ \A y \in S : Max(S) >= y
  BY <1>4, Zenon DEF Max
<1> QED BY Zenon, <1>5

\* A finite set of numbers is bounded.
LEMMA FiniteIsBounded ==
  ASSUME NEW S \in SUBSET Nat, IsFiniteSet(S)
  PROVE  \E u \in Nat : \A y \in S : y <= u
<1> DEFINE Bad == {n \in Nat : \E f \in [1 .. n -> Nat] : \A u \in Nat : \E i \in 1 .. n : f[i] > u}
<1>1. Bad = {}
  <2> SUFFICES ASSUME Bad # {} PROVE FALSE
    BY Zenon
  <2>1. PICK n \in Bad : \A k \in Bad : n <= k
    BY Zenon, LeastNumber
  <2>2. PICK f \in [1 .. n -> Nat] : \A u \in Nat : \E i \in 1 .. n : f[i] > u
    BY Zenon, <2>1
  <2>3. n \in Nat /\ n # 0
    BY <2>1, <2>2
  <2> DEFINE g == [i \in 1 .. n - 1 |-> f[i]]
  <2>4. n - 1 \in Nat /\ ~(n <= n - 1)
    BY <2>3
  <2>9. n - 1 \notin Bad
    BY Zenon, <2>1, <2>4
  <2>5. g \in [1 .. n - 1 -> Nat]
    <3>1. \A i \in 1 .. n - 1 : i \in 1 .. n
      BY <2>3
    <3>2. \A i \in 1 .. n - 1 : f[i] \in Nat
      BY Zenon, <3>1
    <3> QED BY Zenon, <3>2
  <2>6. PICK u \in Nat : \A i \in 1 .. n - 1 : ~(g[i] > u)
    BY Zenon, <2>4, <2>5, <2>9
  <2>7. n \in 1 .. n /\ f[n] \in Nat
    BY <2>3
  <2> HIDE DEF Bad
  <2> DEFINE c == f[n]
             top == u + c
  <2>8. c \in Nat /\ u \in Nat /\ top \in Nat /\ c <= top /\ u <= top
    <3>1. c \in Nat /\ u \in Nat
      BY Zenon, <2>6, <2>7
    <3> HIDE DEF c
    <3> QED BY <3>1
  <2> HIDE DEF top
  <2>10. PICK i \in 1 .. n : f[i] > top
    BY Zenon, <2>2, <2>8
  <2>11. f[i] \in Nat
    BY Zenon, <2>10
  <2>12. CASE i = n
    BY <2>8, <2>10, <2>12
  <2>13. CASE i # n
    <3>1. i \in 1 .. n - 1
      BY <2>3, <2>10, <2>13
    <3>2. g[i] = f[i]
      BY Zenon, <3>1
    <3>3. ~(f[i] > u)
      BY Zenon, <3>1, <3>2, <2>6
    <3> HIDE DEF g
    <3> QED BY <2>8, <2>10, <2>11, <3>3
  <2> QED BY Zenon, <2>12, <2>13
<1>2. PICK n \in Nat : ExistsSurjection(1 .. n, S)
  BY Zenon, FS_NatSurjection
<1>3. PICK f \in Surjection(1 .. n, S) : TRUE
  BY Zenon, <1>2 DEF ExistsSurjection
<1>4. f \in [1 .. n -> S] /\ \A y \in S : \E i \in 1 .. n : f[i] = y
  BY Zenon, <1>3 DEF Surjection
<1>5. f \in [1 .. n -> Nat]
  BY Zenon, <1>4
<1>6. n \notin Bad
  BY Zenon, <1>1
<1>7. PICK u \in Nat : \A i \in 1 .. n : ~(f[i] > u)
  BY Zenon, <1>5, <1>6
<1> HIDE DEF Bad
<1>8. \A y \in S : y <= u
  <2> TAKE y \in S
  <2>1. PICK i \in 1 .. n : f[i] = y
    BY Zenon, <1>4
  <2> QED BY <2>1, <1>7
<1> QED BY Zenon, <1>8

\* A finite set of numbers that is not empty has its maximum.
LEMMA FiniteMax ==
  ASSUME NEW S \in SUBSET Nat, S # {}, IsFiniteSet(S)
  PROVE  Max(S) \in S /\ \A y \in S : y <= Max(S)
BY Zenon, FiniteIsBounded, BoundedMax

\* The larger of two numbers.
LEMMA MaxOfTwo ==
  ASSUME NEW a \in Nat, NEW b \in Nat
  PROVE  Max({a, b}) \in {a, b} /\ a <= Max({a, b}) /\ b <= Max({a, b})
<1>1. \E x \in {a, b} : \A y \in {a, b} : x >= y
  OBVIOUS
<1>2. Max({a, b}) \in {a, b} /\ \A y \in {a, b} : Max({a, b}) >= y
  BY <1>1, Zenon DEF Max
<1> QED BY Zenon, <1>2

-----------------------------------------------------------------------------
(* Files that move, and views that stay as they are                         *)

\* The fields of a view have their types.
LEMMA ViewFields ==
  ASSUME NEW w \in ViewType
  PROVE  /\ w.st \in Stage /\ w.left \in SUBSET (Base \X Place)
         /\ w.uidvalidity \in Nat /\ w.uidnext \in Nat /\ w.uidmap \in SUBSET Row
         /\ w.tomb \in SUBSET Base /\ w.msgs \in SUBSET Msg /\ w.highestmodseq \in Nat
         /\ w.dirty \in BOOLEAN /\ w.move \in BOOLEAN /\ w.fresh \in SUBSET Row
         /\ w.changed \in BOOLEAN /\ w.since \in SUBSET (Base \X Nat)
BY Zenon DEF ViewType

\* A row and a message have their fields.
LEMMA RowFields ==
  ASSUME NEW r \in Row
  PROVE  r.base \in Base /\ r.uid \in Nat /\ r.modseq \in Nat
BY Zenon DEF Row

LEMMA MsgFields ==
  ASSUME NEW m \in Msg
  PROVE  m.base \in Base /\ m.uid \in Nat /\ m.path \in Place
BY Zenon DEF Msg

\* A view that is not held.
LEMMA ClosedIsSound ==
  ASSUME NEW pl, NEW sy
  PROVE  Closed \in ViewType /\ ViewInv(Closed, pl, sy)
<1>1. Closed \in ViewType
  BY Zenon DEF Closed, ViewType, Stage
<1>2. Counted({}, 1)
  BY FS_EmptySet DEF Counted, UniqueUids
<1> QED BY Zenon, <1>1, <1>2 DEF Closed, ViewInv, MsgsInv, ScanInv, LeftInv, RowsInv, SinceInv,
           Reading

\* What files do while a view stays as it is: none returns to new/, and one
\* that returns to the mailbox is known by its stay.
Moves(pl, sy, pl2, sy2) ==
  \A b \in Base :
    /\ sy[b] <= sy2[b]
    /\ pl[b] # "new" /\ 0 < sy[b] => pl2[b] # "new"
    /\ sy2[b] = sy[b] /\ pl2[b] \notin {"away", "gone"} => pl[b] \notin {"away", "gone"}
    /\ sy2[b] = sy[b] /\ pl2[b] = "new" => pl[b] = "new"

LEMMA ViewIsStable ==
  ASSUME NEW w \in ViewType, NEW pl, NEW pl2, NEW sy \in [Base -> Nat],
         NEW sy2 \in [Base -> Nat], Moves(pl, sy, pl2, sy2), ViewInv(w, pl, sy)
  PROVE  ViewInv(w, pl2, sy2)
<1>0. \A m \in w.msgs : m.base \in Base
  BY Zenon, ViewFields, MsgFields
<1>1. MsgsInv(w, pl2, sy2)
  BY <1>0 DEF ViewInv, MsgsInv, Moves
<1>2. RowsInv(w, pl2)
  BY Zenon, <1>0 DEF ViewInv, MsgsInv, RowsInv, Moves
<1>3. \A x \in w.since : x[1] \in Base /\ x[2] \in Nat
  BY Zenon, ViewFields
<1>4. \A x \in w.since : x[2] <= sy2[x[1]]
  BY <1>3 DEF ViewInv, SinceInv, Moves
<1>5. ASSUME NEW b \in Base, <<b, sy2[b]>> \in w.since PROVE sy2[b] = sy[b]
  <2>1. sy2[b] <= sy[b]
    BY Zenon, <1>5 DEF ViewInv, SinceInv
  <2> QED BY <2>1 DEF Moves
<1>6. SinceInv(w, pl2, sy2)
  BY Zenon, <1>4, <1>5 DEF ViewInv, SinceInv, Moves
<1>7. LeftInv(w, pl2, sy2)
  <2>1. \A x \in w.left : x[1] \in Base
    BY Zenon, ViewFields
  <2>2. \A x \in w.left : 0 < sy[x[1]] => 0 < sy2[x[1]]
    BY <2>1 DEF Moves
  <2> QED BY Zenon, <2>1, <2>2 DEF ViewInv, LeftInv, Moves
<1> QED BY Zenon, <1>1, <1>2, <1>6, <1>7 DEF ViewInv

\* Nothing moves.
LEMMA NothingMoves ==
  ASSUME NEW pl, NEW sy \in [Base -> Nat] PROVE Moves(pl, sy, pl, sy)
BY DEF Moves

\* The initial state: no file, no sidecar, no view.
LEMMA InitIsSound == Init => IndInv
<1> SUFFICES ASSUME Init PROVE IndInv
  BY Zenon
<1>1. \A v \in View : view[v] = Closed
  BY Zenon DEF Init
<1>2. Sound({}, 1)
  BY FS_EmptySet DEF Sound, Counted, UniqueUids, OneRowEach
<1>3. TypeOK
  <2>1. view \in [View -> ViewType]
    BY Zenon, ClosedIsSound DEF Init
  <2>2. task \in [Daemon -> TaskType]
    BY Zenon DEF Init, TaskType
  <2>3. place \in [Base -> Place]
    BY Zenon DEF Init, Place
  <2>4. running \subseteq Daemon
    BY Zenon, BoundsAssumption DEF Init
  <2> QED BY <2>1, <2>2, <2>3, <2>4 DEF Init, TypeOK
<1>4. \A v \in View : ViewInv(view[v], place, stay)
  BY Zenon, <1>1, ClosedIsSound
<1>5. \A d \in Daemon : TaskInv(task[d])
  BY Zenon DEF Init, TaskInv, Idle
<1> QED BY Zenon, <1>2, <1>3, <1>4, <1>5 DEF Init, IndInv

-----------------------------------------------------------------------------
(* The steps that save nothing.  One lemma for each action: it keeps IndInv. *)

\* Views that a step leaves alone stay sound wherever the files go.
LEMMA OthersAreSound ==
  ASSUME IndInv, stay' \in [Base -> Nat], Moves(place, stay, place', stay'),
         NEW u \in View, view'[u] = view[u]
  PROVE  view'[u] \in ViewType /\ ViewInv(view'[u], place', stay')
<1>1. view[u] \in ViewType /\ ViewInv(view[u], place, stay) /\ stay \in [Base -> Nat]
  BY Zenon DEF IndInv, TypeOK
<1> QED BY Zenon, <1>1, ViewIsStable

\* A message file arrives, is moved or removed.
LEMMA DeliverKeeps == ASSUME IndInv, NEW b \in Base, Deliver(b) PROVE IndInv'
<1>1. /\ place \in [Base -> Place] /\ stay \in [Base -> Nat] /\ stay[b] = 0
      /\ place' = [place EXCEPT ![b] = "new"] /\ stay' = [stay EXCEPT ![b] = 1]
      /\ view' = view /\ disk' = disk /\ task' = task
  BY Zenon DEF IndInv, TypeOK, Deliver
<1>2. place' \in [Base -> Place] /\ stay' \in [Base -> Nat]
  BY Zenon, <1>1 DEF Place
<1>3. Moves(place, stay, place', stay')
  BY <1>1 DEF Moves
<1>4. \A c \in Base : place'[c] # "gone" => 0 < stay'[c]
  BY <1>1 DEF IndInv
<1>5. \A u \in View : ViewInv(view'[u], place', stay')
  BY Zenon, <1>1, <1>2, <1>3, OthersAreSound
<1>6. TypeOK'
  BY Zenon, <1>2 DEF IndInv, TypeOK, Deliver
<1> QED BY Zenon, <1>1, <1>4, <1>5, <1>6 DEF IndInv

LEMMA PutKeeps == ASSUME IndInv, NEW d \in Daemon, NEW b \in Base, Put(d, b) PROVE IndInv'
<1>1. /\ place \in [Base -> Place] /\ stay \in [Base -> Nat] /\ task \in [Daemon -> TaskType]
      /\ stay' = [stay EXCEPT ![b] = stay[b] + 1]
      /\ view' = view /\ disk' = disk /\ task' = [task EXCEPT ![d] = <<"file", b>>]
  BY Zenon DEF IndInv, TypeOK, Put
<1>2. PICK p \in Flag \cup (IF place[b] = "gone" THEN {"new"} ELSE {}) :
        place' = [place EXCEPT ![b] = p]
  BY Zenon DEF Put
<1>3. p \in Place /\ (p = "new" => stay[b] = 0)
  BY Zenon, <1>2, BoundsAssumption DEF Place, Put
<1>4. place' \in [Base -> Place] /\ stay' \in [Base -> Nat]
  BY <1>1, <1>2, <1>3
<1>5. Moves(place, stay, place', stay')
  BY <1>1, <1>2, <1>3 DEF Moves
<1>6. \A c \in Base : place'[c] # "gone" => 0 < stay'[c]
  BY <1>1, <1>2 DEF IndInv
<1>7. \A u \in View : ViewInv(view'[u], place', stay')
  BY Zenon, <1>1, <1>4, <1>5, OthersAreSound
<1>8. <<"file", b>> \in TaskType /\ TaskInv(<<"file", b>>)
  BY Zenon DEF TaskType, TaskInv
<1>9. task' \in [Daemon -> TaskType] /\ \A e \in Daemon : TaskInv(task'[e])
  BY Zenon, <1>1, <1>8 DEF IndInv
<1>10. TypeOK'
  BY Zenon, <1>4, <1>9 DEF IndInv, TypeOK, Put
<1> QED BY Zenon, <1>1, <1>6, <1>7, <1>9, <1>10 DEF IndInv

\* A step that leaves files, sidecar and views alone.
LEMMA TickKeeps == ASSUME IndInv, Tick PROVE IndInv'
<1>1. TypeOK'
  BY DEF IndInv, TypeOK, Tick
<1> QED BY Zenon, <1>1 DEF IndInv, Tick

\* A crash closes the views of its daemon.
LEMMA CrashKeeps == ASSUME IndInv, NEW d \in Daemon, Crash(d) PROVE IndInv'
<1>1. /\ view \in [View -> ViewType] /\ task \in [Daemon -> TaskType] /\ stay \in [Base -> Nat]
      /\ view' = [v \in View |-> IF DaemonOf(v) = d THEN Closed ELSE view[v]]
      /\ task' = [task EXCEPT ![d] = Idle]
      /\ place' = place /\ disk' = disk /\ stay' = stay
  BY Zenon DEF IndInv, TypeOK, Crash
<1>2. \A u \in View : view'[u] = Closed \/ view'[u] = view[u]
  BY Zenon, <1>1
<1>3. view' \in [View -> ViewType] /\ \A u \in View : ViewInv(view'[u], place', stay')
  BY Zenon, <1>1, <1>2, ClosedIsSound DEF IndInv
<1>4. Idle \in TaskType /\ TaskInv(Idle)
  BY Zenon DEF TaskType, TaskInv, Idle
<1>5. task' \in [Daemon -> TaskType] /\ \A e \in Daemon : TaskInv(task'[e])
  BY Zenon, <1>1, <1>4 DEF IndInv
<1>6. used' \in [opens : Nat, stores : Nat, crashes : Nat, faults : Nat, blind : Nat]
  BY DEF IndInv, TypeOK, Crash, Spend
<1>7. TypeOK'
  BY Zenon, <1>3, <1>5, <1>6 DEF IndInv, TypeOK, Crash
<1> QED BY Zenon, <1>1, <1>3, <1>5, <1>7 DEF IndInv

\* A scan begins with the rows of the sidecar.
LEMMA LoadKeeps == ASSUME IndInv, NEW v \in View, Load(v) PROVE IndInv'
<1>1. /\ view \in [View -> ViewType] /\ task \in [Daemon -> TaskType] /\ stay \in [Base -> Nat]
      /\ task' = [task EXCEPT ![DaemonOf(v)] = <<"scan", v>>]
      /\ place' = place /\ disk' = disk /\ stay' = stay
      /\ Sound(disk.rows, disk.un) /\ disk \in [uv : Nat, un : Nat, rows : SUBSET Row] /\ now \in Nat
  BY Zenon DEF IndInv, TypeOK, Load
<1> DEFINE since == {<<b, stay[b]>> : b \in {c \in Base : Here(c)}}
<1>2. PICK move \in BOOLEAN : view' = [view EXCEPT ![v] =
         [Closed EXCEPT !.st = "new", !.uidvalidity = Loaded.uv,
                        !.uidnext = Loaded.un, !.uidmap = Loaded.rows,
                        !.move = move, !.since = since]]
  BY Zenon DEF Load
<1> DEFINE w == view'[v]
<1>3. /\ w.st = "new" /\ w.uidvalidity = Loaded.uv /\ w.uidnext = disk.un /\ w.uidmap = disk.rows
      /\ w.msgs = {} /\ w.left = {} /\ w.fresh = {} /\ w.since = since
  BY Zenon, <1>1, <1>2 DEF Closed, Loaded
<1>4. Loaded.uv \in Nat /\ since \subseteq Base \X Nat
  BY <1>1 DEF Loaded
<1>5. w \in ViewType
  <2>1. Closed \in ViewType /\ "new" \in Stage
    BY Zenon, ClosedIsSound DEF Stage
  <2> QED BY Zenon, <1>1, <1>2, <1>4, <2>1 DEF ViewType, Loaded
<1> HIDE DEF w
<1>6. ViewInv(w, place, stay)
  <2>1. MsgsInv(w, place, stay) /\ ScanInv(w) /\ LeftInv(w, place, stay) /\ RowsInv(w, place)
    BY Zenon, <1>1, <1>3 DEF MsgsInv, ScanInv, LeftInv, RowsInv, Sound, OneRowEach
  <2>2. SinceInv(w, place, stay)
    BY <1>1, <1>3 DEF SinceInv
  <2> QED BY Zenon, <1>1, <1>3, <2>1, <2>2 DEF ViewInv, Sound
<1>7. view' \in [View -> ViewType] /\ \A u \in View : ViewInv(view'[u], place', stay')
  BY Zenon, <1>1, <1>2, <1>5, <1>6 DEF IndInv, w
<1>8. <<"scan", v>> \in TaskType /\ TaskInv(<<"scan", v>>)
  BY Zenon DEF TaskType, TaskInv
<1>9. task' \in [Daemon -> TaskType] /\ \A e \in Daemon : TaskInv(task'[e])
  BY Zenon, <1>1, <1>8 DEF IndInv
<1>10. used' \in [opens : Nat, stores : Nat, crashes : Nat, faults : Nat, blind : Nat]
  BY DEF IndInv, TypeOK, Load, Spend
<1>11. TypeOK'
  BY Zenon, <1>7, <1>9, <1>10 DEF IndInv, TypeOK, Load
<1> QED BY Zenon, <1>1, <1>7, <1>9, <1>11 DEF IndInv

\* mbox_register reads the sidecar, which has no row for its message.
LEMMA RegisterLoadKeeps ==
  ASSUME IndInv, NEW d \in Daemon, NEW b \in Base, RegisterLoad(d, b) PROVE IndInv'
<1>1. /\ task \in [Daemon -> TaskType] /\ told \subseteq [uv : Nat, uid : Nat, base : Base]
      /\ place' = place /\ disk' = disk /\ stay' = stay /\ view' = view
      /\ Sound(disk.rows, disk.un) /\ disk \in [uv : Nat, un : Nat, rows : SUBSET Row] /\ now \in Nat
  BY Zenon DEF IndInv, TypeOK, RegisterLoad
<1> DEFINE have == {r \in disk.rows : r.base = b}
           new  == [base |-> b, uid |-> disk.un, modseq |-> disk.un + 1]
           all  == disk.rows \cup {new}
           wait == <<"register", b, Loaded.uv, disk.un + 1, all>>
<1>2. Loaded.uv \in Nat /\ disk.un \in Nat /\ disk.rows \subseteq Row /\ disk.un > 0
  BY Zenon, <1>1 DEF Loaded, Sound, Counted
<1>3. new \in Row
  BY <1>2 DEF Row
<1>4. told' \subseteq [uv : Nat, uid : Nat, base : Base]
  <2>1. \A r \in disk.rows : [uv |-> Loaded.uv, uid |-> r.uid, base |-> r.base]
                               \in [uv : Nat, uid : Nat, base : Base]
    BY Zenon, <1>2, RowFields
  <2>2. CASE told' = told
    BY Zenon, <1>1, <2>2
  <2>3. CASE Tell(Loaded.uv, have)
    BY Zenon, <1>1, <2>1, <2>3 DEF Tell
  <2> QED BY Zenon, <2>2, <2>3 DEF RegisterLoad
<1>5. CASE have # {}
  <2>1. task' = [task EXCEPT ![d] = Idle]
    BY Zenon, <1>5 DEF RegisterLoad
  <2>2. Idle \in TaskType /\ TaskInv(Idle)
    BY Zenon DEF TaskType, TaskInv, Idle
  <2>3. task' \in [Daemon -> TaskType] /\ \A e \in Daemon : TaskInv(task'[e])
    BY Zenon, <1>1, <2>1, <2>2 DEF IndInv
  <2>4. TypeOK'
    BY Zenon, <1>4, <2>3 DEF IndInv, TypeOK, RegisterLoad
  <2> QED BY Zenon, <1>1, <2>3, <2>4 DEF IndInv
<1>6. CASE have = {}
  <2>1. task' = [task EXCEPT ![d] = wait]
    BY Zenon, <1>6 DEF RegisterLoad, Loaded
  <2>2. IsFiniteSet(all)
    BY Zenon, <1>1, FS_AddElement DEF Sound, Counted
  <2>3. UniqueUids(all)
    BY <1>1, <1>2, RowFields DEF Sound, Counted, UniqueUids
  <2>4. OneRowEach(all)
    BY <1>1, <1>6 DEF Sound, OneRowEach
  <2>5. \A r \in all : 0 < r.uid /\ r.uid < disk.un + 1
    BY <1>1, <1>2, RowFields DEF Sound, Counted
  <2>6. Sound(all, disk.un + 1)
    BY <1>2, <2>2, <2>3, <2>4, <2>5 DEF Sound, Counted
  <2>7. wait \in TaskType
    BY <1>2, <1>3 DEF TaskType
  <2> HIDE DEF all
  <2>8. TaskInv(wait)
    BY Zenon, <2>6 DEF TaskInv
  <2>9. task' \in [Daemon -> TaskType] /\ \A e \in Daemon : TaskInv(task'[e])
    BY Zenon, <1>1, <2>1, <2>7, <2>8 DEF IndInv
  <2>10. TypeOK'
    BY Zenon, <1>4, <2>9 DEF IndInv, TypeOK, RegisterLoad
  <2> QED BY Zenon, <1>1, <2>9, <2>10 DEF IndInv
<1> QED BY Zenon, <1>5, <1>6

-----------------------------------------------------------------------------
(* The passes of a scan                                                     *)

\* The stage after a directory.
Past(at) == IF at = "innew" THEN "cur" ELSE "prune"

\* What stays in a view while its scan reads names.
SameRows(w, x) ==
  /\ x.uidvalidity = w.uidvalidity /\ x.uidnext = w.uidnext /\ x.uidmap = w.uidmap
  /\ x.tomb = w.tomb /\ x.msgs = w.msgs /\ x.dirty = w.dirty /\ x.fresh = w.fresh
  /\ x.changed = w.changed

\* A step on one view that leaves all else alone.
Alters(v) == view' \in [View -> ViewType] /\ \A u \in View \ {v} : view'[u] = view[u]

\* What reading the names of a directory does to the view.
LEMMA ListEffect ==
  ASSUME IndInv, NEW v \in View, NEW n \in {1, 2}, NEW at \in Stage, NEW past \in Stage,
         List(v, n, at, past)
  PROVE  /\ Alters(v) /\ SameRows(view[v], view'[v]) /\ view'[v].since = view[v].since
         /\ view'[v].left = {<<b, place[b]>> : b \in Pass(n)}
         /\ view'[v].st = IF Pass(n) = {} THEN past ELSE at
<1> DEFINE w == view[v]
           names == {<<b, place[b]>> : b \in Pass(n)}
           st == IF names = {} THEN past ELSE at
<1>1. view \in [View -> ViewType] /\ w \in ViewType /\ place \in [Base -> Place]
  BY Zenon DEF IndInv, TypeOK
<1>2. view' = [view EXCEPT ![v] = [w EXCEPT !.left = names, !.st = st]]
  BY Zenon DEF List
<1>3. names \in SUBSET (Base \X Place) /\ st \in Stage
  BY <1>1 DEF Pass
<1>4. names = {} <=> Pass(n) = {}
  BY Zenon
<1> HIDE DEF names, st
<1>5. view'[v] \in ViewType
  BY Zenon, <1>1, <1>2, <1>3 DEF ViewType
<1>6. Alters(v)
  BY Zenon, <1>1, <1>2, <1>5 DEF Alters
<1>7. /\ SameRows(w, view'[v]) /\ view'[v].since = w.since /\ view'[v].left = names
      /\ view'[v].st = st
  BY Zenon, <1>1, <1>2 DEF ViewType, SameRows
<1> QED BY Zenon, <1>4, <1>6, <1>7 DEF names, st

\* A step on one view, with the files and the sidecar as they are.
LEMMA ScanStepKeeps ==
  ASSUME IndInv, NEW v \in View, Alters(v), ViewInv(view'[v], place, stay),
         UNCHANGED <<place, disk, task, running, now, used, stay, told>>
  PROVE  IndInv'
<1>1. \A u \in View : ViewInv(view'[u], place', stay')
  BY Zenon DEF IndInv, Alters
<1>2. TypeOK'
  BY Zenon DEF IndInv, TypeOK, Alters
<1> QED BY Zenon, <1>1, <1>2 DEF IndInv

\* A view in which the rows are as they were: its rows are counted and its
\* messages numbered still.
LEMMA SameRowsCounted ==
  ASSUME NEW w, NEW x, SameRows(w, x), ViewInv(w, place, stay)
  PROVE  Counted(x.uidmap, x.uidnext) /\ MsgsInv(x, place, stay)
BY Zenon DEF SameRows, ViewInv, MsgsInv

\* The names of new/ are read.
LEMMA ListNewKeeps == ASSUME IndInv, NEW v \in View, ListNew(v) PROVE IndInv'
<1> DEFINE w == view[v]
           x == view'[v]
<1>1. /\ w.st = "new" /\ List(v, 1, "innew", "cur")
      /\ UNCHANGED <<place, disk, task, running, now, used, stay, told>>
  BY Zenon DEF ListNew
<1>2. w \in ViewType /\ ViewInv(w, place, stay)
  BY Zenon DEF IndInv, TypeOK
<1>3. /\ Alters(v) /\ SameRows(w, x) /\ x.since = w.since
      /\ x.left = {<<b, place[b]>> : b \in Pass(1)}
      /\ x.st = IF Pass(1) = {} THEN "cur" ELSE "innew"
  <2>1. "innew" \in Stage /\ "cur" \in Stage
    BY Zenon DEF Stage
  <2> QED BY Zenon, <1>1, <2>1, ListEffect
<1>4. Pass(1) = {b \in Base : place[b] = "new"}
  BY Zenon DEF Pass
<1>5. x.msgs = {} /\ x.fresh = {} /\ OneRowEach(x.uidmap)
  <2>1. w.msgs = {} /\ w.fresh = {} /\ OneRowEach(w.uidmap \ w.fresh)
    BY Zenon, <1>1, <1>2 DEF ViewInv, ScanInv, Reading
  <2>2. w.uidmap \ w.fresh = w.uidmap
    BY Zenon, <2>1
  <2> QED BY Zenon, <1>3, <2>1, <2>2 DEF SameRows
<1> HIDE DEF x
<1>6. ScanInv(x)
  BY Zenon, <1>5 DEF ScanInv, OneRowEach
<1>7. LeftInv(x, place, stay)
  <2>1. ASSUME NEW z \in x.left PROVE 0 < stay[z[1]] /\ z = <<z[1], "new">>
    <3>1. PICK b \in Base : z = <<b, "new">> /\ place[b] = "new"
      BY <1>3, <1>4
    <3> QED BY <3>1 DEF IndInv
  <2>2. x.st # "incur"
    BY Zenon, <1>3
  <2> QED BY <1>5, <2>1, <2>2 DEF LeftInv, Bases
<1>8. SinceInv(x, place, stay)
  <2>1. \A y \in x.since : y[2] <= stay[y[1]]
    BY Zenon, <1>2, <1>3 DEF ViewInv, SinceInv
  <2>2. ASSUME NEW b \in Base, place[b] = "new" PROVE Pass(1) # {} /\ \E z \in x.left : z[1] = b
    <3>1. b \in Pass(1)
      BY Zenon, <1>4, <2>2
    <3>2. <<b, place[b]>> \in x.left
      BY Zenon, <1>3, <3>1
    <3> QED BY Zenon, <3>1, <3>2
  <2>3. x.st \in {"innew", "cur"} /\ (x.st = "cur" => Pass(1) = {})
    BY Zenon, <1>3
  <2> QED BY Zenon, <2>1, <2>2, <2>3 DEF SinceInv
<1>9. RowsInv(x, place)
  BY Zenon, <1>3 DEF RowsInv
<1>10. ViewInv(x, place, stay)
  BY Zenon, <1>2, <1>3, <1>6, <1>7, <1>8, <1>9, SameRowsCounted DEF ViewInv
<1> QED BY Zenon, <1>1, <1>3, <1>10, ScanStepKeeps DEF x

\* The names of cur/ are read: what the scan has met so far it met in new/.
LEMMA ListCurKeeps == ASSUME IndInv, NEW v \in View, ListCur(v) PROVE IndInv'
<1> DEFINE w == view[v]
           x == view'[v]
<1>1. /\ w.st = "cur" /\ List(v, 2, "incur", "prune")
      /\ UNCHANGED <<place, disk, task, running, now, used, stay, told>>
  BY Zenon DEF ListCur
<1>2. w \in ViewType /\ ViewInv(w, place, stay) /\ place \in [Base -> Place]
  BY Zenon DEF IndInv, TypeOK
<1>3. /\ Alters(v) /\ SameRows(w, x) /\ x.since = w.since
      /\ x.left = {<<b, place[b]>> : b \in Pass(2)}
      /\ x.st = IF Pass(2) = {} THEN "prune" ELSE "incur"
  <2>1. "incur" \in Stage /\ "prune" \in Stage
    BY Zenon DEF Stage
  <2> QED BY Zenon, <1>1, <2>1, ListEffect
<1>4. Pass(2) = {b \in Base : place[b] \in Flag} /\ "new" \notin Flag
  BY Zenon, BoundsAssumption DEF Pass
<1>5. /\ OneRowEach(x.uidmap \ x.fresh)
      /\ \A m \in x.msgs : m.path = "new"
      /\ \A m \in x.msgs, r \in x.uidmap \ x.fresh : m.base = r.base => m.uid = r.uid
  BY Zenon, <1>1, <1>2, <1>3 DEF ViewInv, ScanInv, SameRows, Reading
<1>6. x.st \in {"incur", "prune"} /\ (x.st = "prune" => Pass(2) = {})
  BY Zenon, <1>3
<1> HIDE DEF x
<1>7. ScanInv(x)
  BY Zenon, <1>5, <1>6 DEF ScanInv
<1>8. LeftInv(x, place, stay)
  <2>1. ASSUME NEW z \in x.left
        PROVE  /\ z[1] \in Base /\ z = <<z[1], place[z[1]]>> /\ z[2] = place[z[1]]
               /\ place[z[1]] \in Flag /\ 0 < stay[z[1]]
    <3>1. PICK b \in Base : z = <<b, place[b]>> /\ place[b] \in Flag
      BY <1>3, <1>4
    <3>2. place[b] # "gone"
      BY Zenon, <3>1, BoundsAssumption
    <3> QED BY Zenon, <3>1, <3>2 DEF IndInv
  <2> QED BY Zenon, <1>4, <1>5, <1>6, <2>1 DEF LeftInv
<1>9. SinceInv(x, place, stay)
  <2>1. \A y \in x.since : y[2] <= stay[y[1]]
    BY Zenon, <1>2, <1>3 DEF ViewInv, SinceInv
  <2>2. ASSUME NEW b \in Base, <<b, stay[b]>> \in x.since, place[b] \notin {"away", "gone"}
        PROVE  \/ b \in Bases(x.msgs)
               \/ Pass(2) # {} /\ \E z \in x.left : z[1] = b
    <3>1. CASE place[b] = "new"
      BY Zenon, <1>1, <1>2, <1>3, <2>2, <3>1 DEF ViewInv, SinceInv, SameRows
    <3>2. CASE place[b] # "new"
      <4>1. b \in Pass(2)
        BY Zenon, <1>2, <1>4, <2>2, <3>2 DEF Place
      <4>2. <<b, place[b]>> \in x.left
        BY Zenon, <1>3, <4>1
      <4> QED BY Zenon, <4>1, <4>2
    <3> QED BY Zenon, <3>1, <3>2
  <2> QED BY Zenon, <1>6, <2>1, <2>2 DEF SinceInv
<1>10. RowsInv(x, place)
  BY Zenon, <1>6 DEF RowsInv
<1>11. ViewInv(x, place, stay)
  BY Zenon, <1>2, <1>3, <1>7, <1>8, <1>9, <1>10, SameRowsCounted DEF ViewInv
<1> QED BY Zenon, <1>1, <1>3, <1>11, ScanStepKeeps DEF x

\* The row of a name that was met: a loaded one, or a new one under the next
\* uid for a base that none was loaded for.
RowMet(w, x, r, added, un) ==
  /\ r \in Row /\ r.base = x[1]
  /\ \/ r \in w.uidmap \ w.fresh /\ added = {} /\ un = w.uidnext
     \/ /\ added = {r} /\ r.uid = w.uidnext /\ un = w.uidnext + 1
        /\ \A q \in w.uidmap \ w.fresh : q.base # x[1]

\* What scan_subdir does to the view for a name whose file is there.
Met(v, x, st, r, added) ==
  LET w == view[v]
      y == view'[v]
  IN  /\ Alters(v) /\ RowMet(w, x, r, added, y.uidnext)
      /\ y.st = st /\ y.left = w.left \ {x} /\ y.since = w.since
      /\ y.uidvalidity = w.uidvalidity /\ y.tomb = w.tomb /\ y.dirty = w.dirty
      /\ y.uidmap = w.uidmap \cup added /\ y.fresh = w.fresh \cup added
      /\ y.changed = (w.changed \/ added # {})
      /\ y.msgs = w.msgs \cup {[base |-> x[1], uid |-> r.uid, path |-> x[2]]}

\* Of the rows that were loaded one at most is for a base.
LEMMA OneRowFor ==
  ASSUME NEW w \in ViewType, NEW b \in Base, OneRowEach(w.uidmap \ w.fresh),
         Counted(w.uidmap, w.uidnext)
  PROVE  \E r \in Row :
           /\ RowFor(w, b) = {r} /\ r.base = b
           /\ \/ r \in w.uidmap \ w.fresh
              \/ /\ r.uid = w.uidnext /\ r \notin w.uidmap
                 /\ \A q \in w.uidmap \ w.fresh : q.base # b
<1> DEFINE loaded == {r \in w.uidmap \ w.fresh : r.base = b}
           new    == [base |-> b, uid |-> w.uidnext, modseq |-> w.uidnext + 1]
<1>0. w.uidnext \in Nat /\ w.uidmap \in SUBSET Row
  BY Zenon, ViewFields
<1>1. CASE loaded = {}
  <2>1. RowFor(w, b) = {new}
    BY Zenon, <1>1 DEF RowFor
  <2>2. new \in Row /\ new.base = b /\ new.uid = w.uidnext
    BY <1>0 DEF Row
  <2>3. new \notin w.uidmap
    <3>1. ~(w.uidnext < w.uidnext)
      BY <1>0
    <3> QED BY Zenon, <2>2, <3>1 DEF Counted
  <2>4. \A q \in w.uidmap \ w.fresh : q.base # b
    BY Zenon, <1>1
  <2> HIDE DEF new
  <2> QED BY Zenon, <2>1, <2>2, <2>3, <2>4
<1>2. CASE loaded # {}
  <2>1. PICK r \in loaded : TRUE
    BY Zenon, <1>2
  <2>2. loaded = {r}
    BY Zenon, <2>1 DEF OneRowEach
  <2>3. RowFor(w, b) = {r}
    BY Zenon, <1>2, <2>2 DEF RowFor
  <2> QED BY Zenon, <1>0, <2>1, <2>3
<1> QED BY Zenon, <1>1, <1>2

LEMMA AddEffect ==
  ASSUME IndInv, NEW v \in View, view[v].st \in Reading, NEW x \in view[v].left, NEW st \in Stage,
         ScanAdd(v, x, st)
  PROVE  \E r, added : Met(v, x, st, r, added)
<1> DEFINE w == view[v]
<1>1. /\ view \in [View -> ViewType] /\ w \in ViewType /\ ViewInv(w, place, stay)
      /\ w.uidnext \in Nat /\ w.uidmap \in SUBSET Row /\ w.highestmodseq \in Nat
      /\ w.fresh \in SUBSET Row /\ w.msgs \in SUBSET Msg /\ x \in Base \X Place
      /\ w.changed \in BOOLEAN /\ w.left \in SUBSET (Base \X Place)
  <2>1. w \in ViewType /\ ViewInv(w, place, stay) /\ view \in [View -> ViewType]
    BY Zenon DEF IndInv, TypeOK
  <2> QED BY Zenon, <2>1, ViewFields
<1>2. x[1] \in Base /\ x[2] \in Place
  BY Zenon, <1>1
<1>3. PICK r \in Row :
        /\ RowFor(w, x[1]) = {r} /\ r.base = x[1]
        /\ \/ r \in w.uidmap \ w.fresh
           \/ /\ r.uid = w.uidnext /\ r \notin w.uidmap
              /\ \A q \in w.uidmap \ w.fresh : q.base # x[1]
  BY Zenon, <1>1, <1>2, OneRowFor DEF ViewInv, ScanInv
<1> DEFINE added == {r} \ w.uidmap
           un    == IF added = {} THEN w.uidnext ELSE w.uidnext + 1
           msg   == [base |-> x[1], uid |-> r.uid, path |-> x[2]]
           hi    == Max({w.highestmodseq, r.modseq})
<1>4. r.uid \in Nat /\ r.modseq \in Nat
  BY Zenon, <1>3, RowFields
<1>5. hi \in Nat
  BY Zenon, <1>1, <1>4, MaxOfTwo
<1>6. msg \in Msg /\ added \in SUBSET Row
  BY Zenon, <1>2, <1>3, <1>4 DEF Msg
<1>7. un \in Nat /\ RowMet(w, x, r, added, un)
  <2>1. un \in Nat
    BY <1>1
  <2>2. CASE r \in w.uidmap \ w.fresh
    <3>1. added = {} /\ un = w.uidnext
      BY Zenon, <2>2
    <3> HIDE DEF added, un
    <3> QED BY Zenon, <1>3, <2>1, <2>2, <3>1 DEF RowMet
  <2>3. CASE r \notin w.uidmap \ w.fresh
    <3>1. added = {r} /\ added # {}
      BY Zenon, <1>3, <2>3
    <3>2. un = w.uidnext + 1
      BY Zenon, <3>1
    <3> HIDE DEF added, un
    <3> QED BY Zenon, <1>3, <2>1, <2>3, <3>1, <3>2 DEF RowMet
  <2> HIDE DEF added, un
  <2> QED BY Zenon, <2>1, <2>2, <2>3
<1>8. view' = [view EXCEPT ![v] =
        [w EXCEPT !.st = st, !.left = w.left \ {x}, !.uidnext = un,
                  !.uidmap = w.uidmap \cup added, !.fresh = w.fresh \cup added,
                  !.changed = w.changed \/ added # {}, !.msgs = w.msgs \cup {msg},
                  !.highestmodseq = hi]]
  <2> DEFINE rows == RowFor(w, x[1])
             add  == rows \ w.uidmap
             ms   == {[base |-> x[1], uid |-> q.uid, path |-> x[2]] : q \in rows}
             md   == {w.highestmodseq} \cup {q.modseq : q \in rows}
  <2>1. view' = [view EXCEPT ![v] =
        [w EXCEPT !.st = st, !.left = w.left \ {x},
                  !.uidnext = IF add = {} THEN w.uidnext ELSE w.uidnext + 1,
                  !.uidmap = w.uidmap \cup add, !.fresh = w.fresh \cup add,
                  !.changed = w.changed \/ add # {}, !.msgs = w.msgs \cup ms,
                  !.highestmodseq = Max(md)]]
    BY Zenon DEF ScanAdd
  <2>2. add = added /\ ms = {msg} /\ md = {w.highestmodseq, r.modseq}
    <3>1. rows = {r}
      BY Zenon, <1>3
    <3> HIDE DEF rows
    <3> QED BY Zenon, <3>1
  <2> HIDE DEF add, ms, md, added, msg
  <2> QED BY Zenon, <2>1, <2>2
<1> HIDE DEF added, un, msg, hi
<1>9. view'[v] \in ViewType
  BY Zenon, <1>1, <1>5, <1>6, <1>7, <1>8 DEF ViewType
<1>10. Alters(v)
  BY Zenon, <1>1, <1>8, <1>9 DEF Alters
<1>11. /\ view'[v].st = st /\ view'[v].left = w.left \ {x} /\ view'[v].since = w.since
       /\ view'[v].uidvalidity = w.uidvalidity /\ view'[v].tomb = w.tomb
       /\ view'[v].dirty = w.dirty /\ view'[v].uidnext = un
       /\ view'[v].uidmap = w.uidmap \cup added /\ view'[v].fresh = w.fresh \cup added
       /\ view'[v].changed = (w.changed \/ added # {}) /\ view'[v].msgs = w.msgs \cup {msg}
  BY Zenon, <1>1, <1>8 DEF ViewType
<1>12. Met(v, x, st, r, added)
  BY Zenon, <1>7, <1>10, <1>11 DEF Met, msg
<1> QED BY Zenon, <1>12

\* A name that is met keeps the view's rows counted and its messages numbered.
LEMMA AddCounts ==
  ASSUME IndInv, NEW v \in View, NEW x \in view[v].left, place[x[1]] = x[2],
         x[2] \notin {"away", "gone"}, NEW st, NEW r, NEW added, Met(v, x, st, r, added)
  PROVE  /\ Counted(view'[v].uidmap, view'[v].uidnext)
         /\ \A m \in view'[v].msgs : /\ 0 < m.uid /\ m.uid < view'[v].uidnext
                                    /\ 0 < stay[m.base] /\ m.path \notin {"away", "gone"}
<1> DEFINE w  == view[v]
           y  == view'[v]
           to == y.uidnext
<1>1. /\ w \in ViewType /\ ViewInv(w, place, stay) /\ w.uidnext \in Nat /\ w.uidmap \in SUBSET Row
      /\ w.msgs \in SUBSET Msg /\ x[1] \in Base
  <2>1. w \in ViewType /\ ViewInv(w, place, stay)
    BY Zenon DEF IndInv, TypeOK
  <2>2. x \in Base \X Place
    BY Zenon, <2>1, ViewFields
  <2> QED BY Zenon, <2>1, <2>2, ViewFields
<1>2. Counted(w.uidmap, w.uidnext)
  BY Zenon, <1>1 DEF ViewInv
<1>3. RowMet(w, x, r, added, to) /\ y.uidmap = w.uidmap \cup added
      /\ y.msgs = w.msgs \cup {[base |-> x[1], uid |-> r.uid, path |-> x[2]]}
  BY Zenon DEF Met
<1> HIDE DEF y, to
<1>4. /\ r.uid \in Nat /\ to \in Nat /\ w.uidnext <= to /\ w.uidnext > 0 /\ to > 0
      /\ IsFiniteSet(added) /\ added \in SUBSET {r}
      /\ \A q \in added : q.uid = w.uidnext /\ w.uidnext < to
  <2>1. r.uid \in Nat /\ w.uidnext > 0
    BY Zenon, <1>2, <1>3, RowFields DEF RowMet, Counted
  <2>2. CASE added = {} /\ to = w.uidnext
    <3>1. w.uidnext <= w.uidnext
      BY <1>1
    <3> QED BY Zenon, <1>1, <2>1, <2>2, <3>1, FS_EmptySet
  <2>3. CASE added = {r} /\ r.uid = w.uidnext /\ to = w.uidnext + 1
    <3>1. to \in Nat /\ w.uidnext <= to /\ w.uidnext < to /\ to > 0
      BY <1>1, <2>3
    <3>2. IsFiniteSet({r})
      BY Zenon, FS_Singleton
    <3> QED BY Zenon, <2>1, <2>3, <3>1, <3>2
  <2> QED BY Zenon, <1>3, <2>2, <2>3 DEF RowMet
<1>5. \A q \in w.uidmap : q.uid \in Nat /\ 0 < q.uid /\ q.uid < to /\ q.uid # w.uidnext
  BY <1>1, <1>2, <1>4, RowFields, SMTT(30) DEF Counted
<1>6. \A q \in w.uidmap \cup added : 0 < q.uid /\ q.uid < to
  BY Zenon, <1>1, <1>4, <1>5
<1>7. UniqueUids(w.uidmap \cup added)
  BY Zenon, <1>2, <1>4, <1>5 DEF Counted, UniqueUids
<1>8. IsFiniteSet(w.uidmap \cup added)
  BY Zenon, <1>2, <1>4, FS_Union DEF Counted
<1>9. Counted(y.uidmap, to)
  BY Zenon, <1>3, <1>4, <1>6, <1>7, <1>8 DEF Counted
<1>10. 0 < r.uid /\ r.uid < to
  BY Zenon, <1>3, <1>6 DEF RowMet
<1>11. 0 < stay[x[1]]
  BY Zenon, <1>1 DEF IndInv
<1>12. ASSUME NEW m \in y.msgs
       PROVE  0 < m.uid /\ m.uid < to /\ 0 < stay[m.base] /\ m.path \notin {"away", "gone"}
  <2>1. CASE m \in w.msgs
    <3>1. /\ 0 < m.uid /\ m.uid < w.uidnext /\ 0 < stay[m.base] /\ m.uid \in Nat
          /\ m.path \notin {"away", "gone"}
      BY Zenon, <1>1, <2>1, MsgFields DEF ViewInv, MsgsInv
    <3>2. m.uid < to
      BY <1>1, <1>4, <3>1, SMTT(30)
    <3> QED BY Zenon, <3>1, <3>2
  <2>2. CASE m = [base |-> x[1], uid |-> r.uid, path |-> x[2]]
    BY Zenon, <1>10, <1>11, <2>2
  <2> QED BY Zenon, <1>3, <2>1, <2>2
<1> QED BY Zenon, <1>9, <1>12 DEF y, to

\* The step is one of the loop over a directory: the stage stays, or the name
\* was the last one and the directory is done.
Round(v, x, at, st) ==
  /\ view[v].st = at /\ x \in view[v].left
  /\ \/ st = at
     \/ st = Past(at) /\ view[v].left = {x}

\* A name that is met: its file was not met in this pass before.
LEMMA AddKeeps ==
  ASSUME IndInv, NEW v \in View, NEW x, NEW at \in {"innew", "incur"}, NEW st,
         Round(v, x, at, st), place[x[1]] = x[2], NEW r, NEW added, Met(v, x, st, r, added)
  PROVE  ViewInv(view'[v], place, stay)
<1> DEFINE w == view[v]
           y == view'[v]
           n == [base |-> x[1], uid |-> r.uid, path |-> x[2]]
<1>1. /\ w \in ViewType /\ ViewInv(w, place, stay) /\ w.st = at /\ x \in w.left
      /\ (st = at \/ (st = Past(at) /\ w.left = {x}))
  BY Zenon DEF IndInv, TypeOK, Round
<1>2. w.msgs \in SUBSET Msg /\ w.uidnext \in Nat /\ x[1] \in Base
  <2>1. x \in Base \X Place
    BY Zenon, <1>1, ViewFields
  <2> QED BY Zenon, <1>1, <2>1, ViewFields
<1>3. /\ y.st = st /\ y.left = w.left \ {x} /\ y.since = w.since
      /\ y.uidmap = w.uidmap \cup added /\ y.fresh = w.fresh \cup added
      /\ y.msgs = w.msgs \cup {n} /\ RowMet(w, x, r, added, y.uidnext)
  BY Zenon DEF Met
<1>4. n.base = x[1] /\ n.uid = r.uid /\ n.path = x[2] /\ r.uid \in Nat
  BY Zenon, <1>3, RowFields DEF RowMet
<1> HIDE DEF y, n
<1>5. /\ OneRowEach(w.uidmap \ w.fresh)
      /\ \A m \in w.msgs, q \in w.uidmap \ w.fresh : m.base = q.base => m.uid = q.uid
      /\ \A m \in w.msgs : m.uid < w.uidnext
  BY Zenon, <1>1 DEF ViewInv, ScanInv, Reading, MsgsInv
<1>6. /\ at = "innew" => x[2] = "new" /\ \A m \in w.msgs : m.base # x[1]
      /\ at = "incur" => /\ x[2] \in Flag /\ place[x[1]] # "new"
                         /\ \A m \in w.msgs : m.base = x[1] => m.path = "new"
  BY Zenon, <1>1 DEF ViewInv, LeftInv, Bases
<1>7. Counted(y.uidmap, y.uidnext)
      /\ \A m \in y.msgs : /\ 0 < m.uid /\ m.uid < y.uidnext
                           /\ 0 < stay[m.base] /\ m.path \notin {"away", "gone"}
  <2>1. x[2] \notin {"away", "gone"}
    BY Zenon, <1>6, BoundsAssumption
  <2> QED BY Zenon, <1>1, <2>1, AddCounts DEF y
<1>8. MsgsInv(y, place, stay)
  <2>1. ASSUME NEW m \in y.msgs, NEW k \in y.msgs, m.base = k.base, m.uid < k.uid
        PROVE  m.path = "new" /\ place[m.base] # "new"
    <3>1. CASE m \in w.msgs /\ k \in w.msgs
      BY Zenon, <1>1, <2>1, <3>1 DEF ViewInv, MsgsInv
    <3>2. CASE m \in w.msgs /\ k = n
      BY Zenon, <1>4, <1>6, <2>1, <3>2
    <3>3. CASE m = n /\ k \in w.msgs
      <4>1. k.uid \in Nat /\ k.uid < w.uidnext
        BY Zenon, <1>2, <1>5, <3>3, MsgFields
      <4>2. CASE r \in w.uidmap \ w.fresh
        <5>1. k.uid = r.uid
          BY Zenon, <1>3, <1>4, <1>5, <2>1, <3>3, <4>2 DEF RowMet
        <5>2. ~(r.uid < r.uid)
          BY <1>4
        <5> QED BY Zenon, <1>4, <2>1, <3>3, <5>1, <5>2
      <4>3. CASE r.uid = w.uidnext
        <5>1. ~(w.uidnext < k.uid)
          BY <1>2, <4>1
        <5> QED BY Zenon, <1>4, <2>1, <3>3, <4>3, <5>1
      <4> QED BY Zenon, <1>3, <4>2, <4>3 DEF RowMet
    <3>4. CASE m = n /\ k = n
      <4>1. ~(r.uid < r.uid)
        BY <1>4
      <4> QED BY Zenon, <1>4, <2>1, <3>4, <4>1
    <3> QED BY Zenon, <1>3, <3>1, <3>2, <3>3, <3>4
  <2> QED BY Zenon, <1>7, <2>1 DEF MsgsInv
<1>9. ScanInv(y)
  <2>1. y.uidmap \ y.fresh \subseteq w.uidmap \ w.fresh
    BY Zenon, <1>3
  <2>2. OneRowEach(y.uidmap \ y.fresh)
    BY Zenon, <1>5, <2>1 DEF OneRowEach
  <2>3. ASSUME NEW m \in y.msgs, NEW q \in y.uidmap \ y.fresh, m.base = q.base PROVE m.uid = q.uid
    <3>1. q \in w.uidmap \ w.fresh
      BY Zenon, <2>1
    <3>2. CASE m \in w.msgs
      BY Zenon, <1>5, <2>3, <3>1, <3>2
    <3>3. CASE m = n
      BY Zenon, <1>3, <1>4, <1>5, <2>3, <3>1, <3>3 DEF RowMet, OneRowEach
    <3> QED BY Zenon, <1>3, <3>2, <3>3
  <2>4. ASSUME st \in {"innew", "cur"}
        PROVE  /\ \A m, k \in y.msgs : m.base = k.base => m.uid = k.uid
               /\ \A m \in y.msgs : m.path = "new"
    <3>1. at = "innew"
      BY Zenon, <1>1, <2>4 DEF Past
    <3>2. /\ \A m, k \in w.msgs : m.base = k.base => m.uid = k.uid
          /\ \A m \in w.msgs : m.path = "new"
      BY Zenon, <1>1, <3>1 DEF ViewInv, ScanInv
    <3> QED BY Zenon, <1>3, <1>4, <1>6, <3>1, <3>2
  <2>5. st # "new"
    BY Zenon, <1>1 DEF Past
  <2> QED BY Zenon, <1>3, <2>2, <2>3, <2>4, <2>5 DEF ScanInv
<1>10. LeftInv(y, place, stay)
  <2>1. \A z \in y.left : z \in w.left /\ z[1] # x[1]
    BY Zenon, <1>1, <1>3 DEF ViewInv, LeftInv
  <2>2. ASSUME st = "innew", NEW z \in y.left
        PROVE  0 < stay[z[1]] /\ z[2] = "new" /\ z[1] \notin Bases(y.msgs)
    <3>1. at = "innew"
      BY Zenon, <1>1, <2>2 DEF Past
    <3>2. 0 < stay[z[1]] /\ z[2] = "new" /\ z[1] \notin Bases(w.msgs)
      BY Zenon, <1>1, <2>1, <3>1 DEF ViewInv, LeftInv
    <3> QED BY Zenon, <1>3, <1>4, <2>1, <3>2 DEF Bases
  <2>3. ASSUME st = "incur", NEW z \in y.left
        PROVE  /\ 0 < stay[z[1]] /\ z[2] \in Flag /\ place[z[1]] # "new"
               /\ \A m \in y.msgs : m.base = z[1] => m.path = "new"
    <3>1. at = "incur"
      BY Zenon, <1>1, <2>3 DEF Past
    <3>2. /\ 0 < stay[z[1]] /\ z[2] \in Flag /\ place[z[1]] # "new"
          /\ \A m \in w.msgs : m.base = z[1] => m.path = "new"
      BY Zenon, <1>1, <2>1, <3>1 DEF ViewInv, LeftInv
    <3> QED BY Zenon, <1>3, <1>4, <2>1, <3>2
  <2>4. \A z, u \in y.left : z[1] = u[1] => z = u
    BY Zenon, <1>1, <2>1 DEF ViewInv, LeftInv
  <2> QED BY Zenon, <1>3, <2>2, <2>3, <2>4 DEF LeftInv
<1>11. SinceInv(y, place, stay)
  <2>1. \A z \in y.since : z[2] <= stay[z[1]]
    BY Zenon, <1>1, <1>3 DEF ViewInv, SinceInv
  <2>2. ASSUME NEW b \in Base, <<b, stay[b]>> \in y.since, place[b] \notin {"away", "gone"},
               at = "incur" \/ place[b] = "new"
        PROVE  \/ b \in Bases(y.msgs)
               \/ st = at /\ \E z \in y.left : z[1] = b
    <3>1. b \in Bases(w.msgs) \/ \E z \in w.left : z[1] = b
      BY Zenon, <1>1, <1>3, <2>2 DEF ViewInv, SinceInv
    <3>2. CASE b \in Bases(w.msgs) \/ x[1] = b
      BY Zenon, <1>3, <1>4, <3>2 DEF Bases
    <3>3. ASSUME NEW z \in w.left, z[1] = b, x[1] # b PROVE st = at /\ z \in y.left
      BY Zenon, <1>1, <1>3, <3>3
    <3> QED BY Zenon, <3>1, <3>2, <3>3
  <2>3. /\ st \in {"innew", "cur"} => at = "innew"
        /\ st \in {"incur", "prune"} => at = "incur"
        /\ st \in {"innew", "cur", "incur", "prune"}
        /\ at # "cur" /\ at # "prune"
    BY Zenon, <1>1 DEF Past
  <2> QED BY Zenon, <1>3, <2>1, <2>2, <2>3 DEF SinceInv
<1>12. RowsInv(y, place)
  BY Zenon, <1>1, <1>3 DEF RowsInv, Past
<1> QED BY Zenon, <1>7, <1>8, <1>9, <1>10, <1>11, <1>12 DEF ViewInv, y

\* What since loses when a name is skipped.
Lost(x) == IF x[2] # "new" /\ place[x[1]] \in Flag THEN {<<x[1], stay[x[1]]>>} ELSE {}

\* What scan_subdir does to the view for a name whose file is not there.
LEMMA SkipEffect ==
  ASSUME IndInv, NEW v \in View, NEW x, NEW st \in Stage, ScanSkip(v, x, st)
  PROVE  /\ Alters(v) /\ SameRows(view[v], view'[v])
         /\ view'[v].st = st /\ view'[v].left = view[v].left \ {x}
         /\ view'[v].since = view[v].since \ Lost(x)
<1> DEFINE w == view[v]
           since == w.since \ Lost(x)
<1>1. view \in [View -> ViewType] /\ w \in ViewType
  BY Zenon DEF IndInv, TypeOK
<1>2. view' = [view EXCEPT ![v] = [w EXCEPT !.st = st, !.left = w.left \ {x}, !.since = since]]
  BY Zenon DEF ScanSkip, Lost
<1>3. since \in SUBSET (Base \X Nat) /\ w.left \ {x} \in SUBSET (Base \X Place)
  <2>1. w.since \in SUBSET (Base \X Nat) /\ w.left \in SUBSET (Base \X Place)
    BY Zenon, <1>1, ViewFields
  <2> QED BY Zenon, <2>1
<1> HIDE DEF since
<1>4. view'[v] \in ViewType
  BY Zenon, <1>1, <1>2, <1>3 DEF ViewType
<1>5. Alters(v)
  BY Zenon, <1>1, <1>2, <1>4 DEF Alters
<1>6. /\ SameRows(w, view'[v]) /\ view'[v].st = st /\ view'[v].left = w.left \ {x}
      /\ view'[v].since = since
  BY Zenon, <1>1, <1>2 DEF ViewType, SameRows
<1> QED BY Zenon, <1>5, <1>6 DEF since

\* A name that is skipped: the file has left the mailbox, or it has gone to cur/,
\* which is read later, or it has another name in cur/, and since says so.
LEMMA SkipKeeps ==
  ASSUME IndInv, NEW v \in View, NEW x, NEW at \in {"innew", "incur"}, NEW st \in Stage,
         Round(v, x, at, st), place[x[1]] # x[2], ScanSkip(v, x, st)
  PROVE  ViewInv(view'[v], place, stay)
<1> DEFINE w == view[v]
           y == view'[v]
<1>1. /\ w \in ViewType /\ ViewInv(w, place, stay) /\ w.st = at /\ x \in w.left
      /\ (st = at \/ (st = Past(at) /\ w.left = {x})) /\ place \in [Base -> Place]
  BY Zenon DEF IndInv, TypeOK, Round
<1>2. /\ SameRows(w, y) /\ y.st = st /\ y.left = w.left \ {x}
      /\ y.since = w.since \ Lost(x)
  BY Zenon, SkipEffect
<1> HIDE DEF y
<1>3. /\ y.uidmap = w.uidmap /\ y.fresh = w.fresh /\ y.msgs = w.msgs
  BY Zenon, <1>2 DEF SameRows
<1>4. /\ st \in {"innew", "cur"} => at = "innew"
      /\ st \in {"incur", "prune"} => at = "incur"
      /\ st \in {"innew", "cur", "incur", "prune"}
      /\ at # "cur" /\ at # "prune"
  BY Zenon, <1>1 DEF Past
<1>5. ScanInv(y)
  BY Zenon, <1>1, <1>2, <1>3, <1>4 DEF ViewInv, ScanInv, Reading
<1>6. LeftInv(y, place, stay)
  <2>1. \A z \in y.left : z \in w.left
    BY Zenon, <1>2
  <2> QED BY Zenon, <1>1, <1>2, <1>3, <1>4, <2>1 DEF ViewInv, LeftInv
<1>7. SinceInv(y, place, stay)
  <2>1. \A z \in y.since : z \in w.since
    BY Zenon, <1>2
  <2>2. \A z \in y.since : z[2] <= stay[z[1]]
    BY Zenon, <1>1, <2>1 DEF ViewInv, SinceInv
  <2>3. ASSUME NEW b \in Base, <<b, stay[b]>> \in y.since, place[b] \notin {"away", "gone"},
               at = "incur" \/ place[b] = "new"
        PROVE  \/ b \in Bases(y.msgs)
               \/ st = at /\ \E z \in y.left : z[1] = b
    <3>1. b \in Bases(w.msgs) \/ \E z \in w.left : z[1] = b
      BY Zenon, <1>1, <2>1, <2>3 DEF ViewInv, SinceInv
    <3>2. x[1] # b
      <4>1. CASE at = "innew"
        BY Zenon, <1>1, <2>3, <4>1 DEF ViewInv, LeftInv
      <4>2. CASE at = "incur"
        <5> SUFFICES ASSUME x[1] = b PROVE FALSE
          BY Zenon
        <5>1. x[2] \in Flag /\ place[b] # "new"
          BY Zenon, <1>1, <4>2 DEF ViewInv, LeftInv
        <5>2. x[2] # "new" /\ place[b] \in Flag
          BY Zenon, <1>1, <2>3, <5>1, BoundsAssumption DEF Place
        <5>3. y.since = w.since \ {<<b, stay[b]>>}
          BY Zenon, <1>2, <5>2 DEF Lost
        <5> QED BY Zenon, <2>3, <5>3
      <4> QED BY Zenon, <4>1, <4>2
    <3>3. ASSUME NEW z \in w.left, z[1] = b PROVE st = at /\ z \in y.left
      BY Zenon, <1>1, <1>2, <3>2, <3>3
    <3> QED BY Zenon, <1>3, <3>1, <3>3
  <2> QED BY Zenon, <1>2, <1>4, <2>2, <2>3 DEF SinceInv
<1>8. RowsInv(y, place)
  BY Zenon, <1>2, <1>4 DEF RowsInv
<1> QED BY Zenon, <1>1, <1>2, <1>5, <1>6, <1>7, <1>8, SameRowsCounted DEF ViewInv, y

\* A round of the loop over a directory.
LEMMA ScanRound ==
  ASSUME NEW v \in View, NEW at \in {"innew", "incur"}, ScanSubdir(v, at, Past(at))
  PROVE  \E x \in view[v].left : \E st \in Stage :
           /\ Round(v, x, at, st)
           /\ \/ place[x[1]] = x[2] /\ ScanAdd(v, x, st)
              \/ place[x[1]] # x[2] /\ ScanSkip(v, x, st)
<1>1. view[v].st = at /\ at \in Stage /\ Past(at) \in Stage
  BY Zenon DEF ScanSubdir, Stage, Past
<1>2. PICK x \in view[v].left :
        LET st == IF view[v].left = {x} THEN Past(at) ELSE at
        IN  \/ place[x[1]] = x[2] /\ ScanAdd(v, x, st)
            \/ place[x[1]] # x[2] /\ ScanSkip(v, x, st)
  BY Zenon DEF ScanSubdir
<1> DEFINE st == IF view[v].left = {x} THEN Past(at) ELSE at
<1>3. st \in Stage /\ Round(v, x, at, st)
  BY Zenon, <1>1, <1>2 DEF Round
<1> HIDE DEF st
<1> QED BY Zenon, <1>2, <1>3 DEF st

LEMMA ScanSubdirKeeps ==
  ASSUME IndInv, NEW v \in View, NEW at \in {"innew", "incur"}, ScanSubdir(v, at, Past(at))
  PROVE  IndInv'
<1>0. PICK x \in view[v].left : \E st \in Stage :
           /\ Round(v, x, at, st)
           /\ \/ place[x[1]] = x[2] /\ ScanAdd(v, x, st)
              \/ place[x[1]] # x[2] /\ ScanSkip(v, x, st)
  BY Zenon, ScanRound
<1>1. PICK st \in Stage :
           /\ Round(v, x, at, st)
           /\ \/ place[x[1]] = x[2] /\ ScanAdd(v, x, st)
              \/ place[x[1]] # x[2] /\ ScanSkip(v, x, st)
  BY Zenon, <1>0
<1>2. UNCHANGED <<place, disk, task, running, now, used, stay, told>>
  BY Zenon DEF ScanSubdir
<1>3. CASE place[x[1]] = x[2] /\ ScanAdd(v, x, st)
  <2>1. view[v].st \in Reading /\ x \in view[v].left
    BY Zenon, <1>1 DEF Round, Reading
  <2>2. PICK r, added : Met(v, x, st, r, added)
    BY Zenon, <1>3, <2>1, AddEffect
  <2>3. Alters(v) /\ ViewInv(view'[v], place, stay)
    BY Zenon, <1>1, <1>3, <2>2, AddKeeps DEF Met
  <2> QED BY Zenon, <1>2, <2>3, ScanStepKeeps
<1>4. CASE place[x[1]] # x[2] /\ ScanSkip(v, x, st)
  <2>1. Alters(v)
    BY Zenon, <1>4, SkipEffect
  <2>2. ViewInv(view'[v], place, stay)
    BY Zenon, <1>1, <1>4, SkipKeeps
  <2> QED BY Zenon, <1>2, <2>1, <2>2, ScanStepKeeps
<1> QED BY Zenon, <1>1, <1>3, <1>4

LEMMA ScanNewKeeps == ASSUME IndInv, NEW v \in View, ScanNew(v) PROVE IndInv'
<1>1. ScanSubdir(v, "innew", Past("innew"))
  BY Zenon DEF ScanNew, Past
<1> QED BY Zenon, <1>1, ScanSubdirKeeps

LEMMA ScanCurKeeps == ASSUME IndInv, NEW v \in View, ScanCur(v) PROVE IndInv'
<1>1. Past("incur") = "prune"
  BY DEF Past
<1>2. ScanSubdir(v, "incur", Past("incur"))
  BY Zenon, <1>1 DEF ScanCur
<1> QED BY Zenon, <1>2, ScanSubdirKeeps

\* Part of a table of rows is counted too.
LEMMA FewerRows ==
  ASSUME NEW R, NEW Q \in SUBSET R, NEW un, Counted(R, un)
  PROVE  Counted(Q, un)
<1>1. IsFiniteSet(Q)
  BY Zenon, FS_Subset DEF Counted
<1> QED BY Zenon, <1>1 DEF Counted, UniqueUids

\* What is said of a scan under way says nothing of one that is over.
LEMMA ScanIsOver ==
  ASSUME NEW w, NEW pl, NEW sy, w.st = "save" \/ w.st = "open"
  PROVE  ScanInv(w) /\ LeftInv(w, pl, sy)
BY Zenon DEF ScanInv, LeftInv, Reading

\* The prune keeps one row of a message, and the files of new/ go to cur/.
LEMMA PruneKeeps == ASSUME IndInv, NEW v \in View, Prune(v) PROVE IndInv'
<1> DEFINE w    == view[v]
           x    == view'[v]
           keep == {r \in w.uidmap : \E m \in w.msgs :
                     /\ m.base = r.base /\ m.uid = r.uid
                     /\ \A n \in w.msgs : n.base = r.base => n.uid <= r.uid}
           mv   == {m \in w.msgs : w.move /\ m.path = "new" /\ place[m.base] = "new"}
           out  == (w.msgs \ mv) \cup {[m EXCEPT !.path = NoFlag] : m \in mv}
<1>1. /\ w.st = "prune" /\ disk' = disk /\ task' = task /\ stay' = stay
      /\ place \in [Base -> Place] /\ stay \in [Base -> Nat] /\ view \in [View -> ViewType]
      /\ place' = [b \in Base |-> IF b \in Bases(mv) THEN NoFlag ELSE place[b]]
      /\ view' = [view EXCEPT ![v] =
           [w EXCEPT !.st = "save", !.uidmap = keep,
                     !.tomb = Bases(w.uidmap \ keep),
                     !.changed = @ \/ keep # w.uidmap, !.msgs = out]]
  BY Zenon DEF IndInv, TypeOK, Prune
<1>2. w \in ViewType /\ ViewInv(w, place, stay) /\ w.uidmap \in SUBSET Row /\ w.msgs \in SUBSET Msg
      /\ w.uidnext \in Nat
  <2>1. w \in ViewType /\ ViewInv(w, place, stay)
    BY Zenon DEF IndInv, TypeOK
  <2> QED BY Zenon, <2>1, ViewFields
<1>3. NoFlag \in Place /\ NoFlag \notin {"new", "away", "gone"}
  BY Zenon, BoundsAssumption DEF Place
<1>4. /\ \A y \in out : \E m \in w.msgs : /\ y.base = m.base /\ y.uid = m.uid
                                          /\ y = m \/ place[m.base] = "new"
      /\ \A m \in w.msgs : \E y \in out : y.base = m.base
  <2>1. \A m \in w.msgs : [m EXCEPT !.path = NoFlag].base = m.base /\ [m EXCEPT !.path = NoFlag].uid = m.uid
    BY Zenon, <1>2 DEF Msg
  <2>2. ASSUME NEW y \in out
        PROVE  \E m \in w.msgs : /\ y.base = m.base /\ y.uid = m.uid
                                 /\ y = m \/ place[m.base] = "new"
    <3>1. CASE y \in w.msgs
      BY Zenon, <3>1
    <3>2. CASE \E m \in mv : y = [m EXCEPT !.path = NoFlag]
      BY Zenon, <2>1, <3>2
    <3> QED BY Zenon, <2>2, <3>1, <3>2
  <2>3. ASSUME NEW m \in w.msgs PROVE \E y \in out : y.base = m.base
    <3>1. CASE m \in mv
      BY Zenon, <2>1, <3>1
    <3>2. CASE m \notin mv
      BY Zenon, <3>2
    <3> QED BY Zenon, <3>1, <3>2
  <2> QED BY Zenon, <2>2, <2>3
<1>5. out \in SUBSET Msg /\ Bases(w.uidmap \ keep) \in SUBSET Base
  BY <1>2, <1>3, RowFields DEF Msg, Bases
<1>6. \A b \in Base : b \in Bases(mv) => place[b] = "new"
  BY Zenon DEF Bases
<1> HIDE DEF mv, out
<1>7. keep \in SUBSET w.uidmap
  BY Zenon
<1>8. ASSUME NEW r \in keep
      PROVE  \E m \in w.msgs : /\ m.base = r.base /\ m.uid = r.uid
                               /\ \A n \in w.msgs : n.base = r.base => n.uid <= r.uid
  BY Zenon
<1> HIDE DEF keep
<1>9. OneRowEach(keep)
  <2> SUFFICES ASSUME NEW r \in keep, NEW q \in keep, r.base = q.base PROVE r = q
    BY Zenon DEF OneRowEach
  <2>1. r.uid <= q.uid /\ q.uid <= r.uid
    BY Zenon, <1>8
  <2>2. r.uid \in Nat /\ q.uid \in Nat /\ r \in w.uidmap /\ q \in w.uidmap
    BY Zenon, <1>2, <1>7, RowFields
  <2>3. r.uid = q.uid
    BY <2>1, <2>2
  <2> QED BY Zenon, <1>2, <2>2, <2>3 DEF ViewInv, Counted, UniqueUids
<1>10. x \in ViewType
  <2>1. "save" \in Stage /\ keep \in SUBSET Row
    BY Zenon, <1>2, <1>7 DEF Stage
  <2>2. (w.changed \/ keep # w.uidmap) \in BOOLEAN
    BY Zenon
  <2> QED BY Zenon, <1>1, <1>2, <1>5, <2>1, <2>2 DEF ViewType
<1>11. /\ x.st = "save" /\ x.since = w.since /\ x.uidmap = keep /\ x.uidnext = w.uidnext /\ x.msgs = out
       /\ view' \in [View -> ViewType] /\ \A u \in View \ {v} : view'[u] = view[u]
  BY <1>1, <1>2, <1>10 DEF ViewType
<1> HIDE DEF x
<1>12. Moves(place, stay, place', stay')
  BY <1>1, <1>3, <1>6 DEF Moves
<1>13. place' \in [Base -> Place]
  BY Zenon, <1>1, <1>3
<1>14. \A b \in Base : place'[b] # "gone" => 0 < stay'[b]
  BY Zenon, <1>1, <1>3, <1>6 DEF IndInv
<1>15. ASSUME NEW y \in out, NEW m \in w.msgs, NEW n \in w.msgs,
              y.base = m.base, y = m \/ place[m.base] = "new", m.base = n.base, m.uid < n.uid
       PROVE  y.path = "new" /\ place'[y.base] # "new"
  <2>1. m.path = "new" /\ place[m.base] # "new" /\ m.base \in Base
    BY Zenon, <1>2, <1>15, MsgFields DEF ViewInv, MsgsInv
  <2> QED BY Zenon, <1>1, <1>6, <1>15, <2>1
<1>16. MsgsInv(x, place', stay')
  <2>1. ASSUME NEW y \in out 
        PROVE  0 < y.uid /\ y.uid < x.uidnext /\ 0 < stay'[y.base] /\ y.path \notin {"away", "gone"}
    <3>1. PICK m \in w.msgs : y.base = m.base /\ y.uid = m.uid
      BY Zenon, <1>4
    <3>2. y \in w.msgs \/ y.path = NoFlag
      BY Zenon, <1>2 DEF out, mv, Msg
    <3> QED BY Zenon, <1>1, <1>2, <1>3, <1>11, <3>1, <3>2 DEF ViewInv, MsgsInv
  <2>2. ASSUME NEW y \in out, NEW z \in out, y.base = z.base, y.uid < z.uid
        PROVE  y.path = "new" /\ place'[y.base] # "new"
    <3>1. PICK m \in w.msgs : y.base = m.base /\ y.uid = m.uid /\ (y = m \/ place[m.base] = "new")
      BY Zenon, <1>4
    <3>2. PICK n \in w.msgs : z.base = n.base /\ z.uid = n.uid
      BY Zenon, <1>4
    <3> QED BY Zenon, <1>15, <2>2, <3>1, <3>2
  <2> QED BY Zenon, <1>11, <2>1, <2>2 DEF MsgsInv
<1>17. RowsInv(x, place')
  <2>1. ASSUME NEW r \in keep, NEW y \in out, r.base = y.base, r.uid # y.uid
        PROVE  y.path = "new" /\ place'[y.base] # "new"
    <3>1. PICK m \in w.msgs : y.base = m.base /\ y.uid = m.uid /\ (y = m \/ place[m.base] = "new")
      BY Zenon, <1>4
    <3>2. PICK n \in w.msgs : /\ n.base = r.base /\ n.uid = r.uid
                              /\ \A k \in w.msgs : k.base = r.base => k.uid <= r.uid
      BY Zenon, <1>8
    <3>3. m.uid \in Nat /\ n.uid \in Nat
      BY Zenon, <1>2, MsgFields
    <3>4. m.uid <= n.uid /\ m.uid # n.uid
      BY Zenon, <2>1, <3>1, <3>2
    <3>5. m.uid < n.uid
      BY <3>3, <3>4
    <3> QED BY Zenon, <1>15, <2>1, <3>1, <3>2, <3>5
  <2> QED BY Zenon, <1>9, <1>11, <2>1 DEF RowsInv
<1>18. SinceInv(x, place', stay')
  <2>1. ASSUME NEW b \in Base, <<b, stay[b]>> \in w.since, place'[b] \notin {"away", "gone"}
        PROVE  b \in Bases(out)
    <3>1. place[b] \notin {"away", "gone"}
      BY Zenon, <1>1, <1>6, <2>1
    <3>2. PICK m \in w.msgs : m.base = b
      BY Zenon, <1>1, <1>2, <2>1, <3>1 DEF ViewInv, SinceInv, Bases
    <3> QED BY Zenon, <1>4, <3>2 DEF Bases
  <2> QED BY Zenon, <1>1, <1>2, <1>11, <2>1 DEF ViewInv, SinceInv
<1>19. Counted(x.uidmap, x.uidnext)
  BY Zenon, <1>2, <1>7, <1>11, FewerRows DEF ViewInv
<1>20. ViewInv(x, place', stay')
  <2>1. x.st = "save" \/ x.st = "open"
    BY Zenon, <1>11
  <2>2. ScanInv(x) /\ LeftInv(x, place', stay')
    BY Zenon, <2>1, ScanIsOver
  <2> QED BY Zenon, <1>16, <1>17, <1>18, <1>19, <2>2 DEF ViewInv
<1>21. ASSUME NEW u \in View PROVE ViewInv(view'[u], place', stay')
  <2>1. CASE u = v
    BY Zenon, <1>20, <2>1 DEF x
  <2>2. CASE u # v
    BY Zenon, <1>1, <1>11, <1>12, <2>2, OthersAreSound
  <2> QED BY Zenon, <2>1, <2>2
<1>22. TypeOK'
  BY Zenon, <1>11, <1>13 DEF IndInv, TypeOK, Prune
<1> QED BY Zenon, <1>1, <1>14, <1>21, <1>22 DEF IndInv

-----------------------------------------------------------------------------
(* What clients do with an open view                                        *)

\* A step on the files keeps IndInv if it keeps the view it works on.
LEMMA ViewStepKeeps ==
  ASSUME IndInv, NEW v \in View, place' \in [Base -> Place], stay' = stay, disk' = disk,
         task' = task, view' \in [View -> ViewType], \A u \in View \ {v} : view'[u] = view[u],
         Moves(place, stay, place', stay),
         \A b \in Base : place'[b] # "gone" => place[b] # "gone",
         ViewInv(view'[v], place', stay), running' = running, now' = now, told' = told,
         used' \in [opens : Nat, stores : Nat, crashes : Nat, faults : Nat, blind : Nat]
  PROVE  IndInv'
<1>1. stay \in [Base -> Nat]
  BY Zenon DEF IndInv, TypeOK
<1>2. ASSUME NEW u \in View PROVE ViewInv(view'[u], place', stay')
  <2>1. CASE u = v
    BY Zenon, <2>1
  <2>2. CASE u # v
    <3>1. view'[u] = view[u]
      BY Zenon, <2>2
    <3> QED BY Zenon, <1>1, <3>1, OthersAreSound
  <2> QED BY Zenon, <2>1, <2>2
<1>3. \A b \in Base : place'[b] # "gone" => 0 < stay'[b]
  BY Zenon DEF IndInv
<1>4. TypeOK'
  BY Zenon DEF IndInv, TypeOK
<1> QED BY Zenon, <1>2, <1>3, <1>4 DEF IndInv

\* The flags of a message change, and with them the name of its file.
LEMMA StoreKeeps == ASSUME IndInv, NEW v \in View, Store(v) PROVE IndInv'
<1> DEFINE w  == view[v]
           x  == view'[v]
           hi == w.highestmodseq + 1
<1>1. /\ w.st = "open" /\ disk' = disk /\ task' = task /\ stay' = stay
      /\ running' = running /\ now' = now /\ told' = told
      /\ place \in [Base -> Place] /\ stay \in [Base -> Nat] /\ view \in [View -> ViewType]
  BY Zenon DEF IndInv, TypeOK, Store, Ready
<1>2. /\ w \in ViewType /\ ViewInv(w, place, stay) /\ w.uidmap \in SUBSET Row /\ w.msgs \in SUBSET Msg
      /\ w.uidnext \in Nat /\ hi \in Nat
  <2>1. w \in ViewType /\ ViewInv(w, place, stay)
    BY Zenon DEF IndInv, TypeOK
  <2>2. w.highestmodseq \in Nat
    BY Zenon, <2>1, ViewFields
  <2> QED BY <2>1, <2>2, ViewFields
<1>3. PICK m \in w.msgs, f \in Flag :
           /\ place[m.base] = m.path
           /\ place' = [place EXCEPT ![m.base] = f]
           /\ view' = [view EXCEPT ![v] =
                [w EXCEPT !.msgs = (@ \ {m}) \cup {[m EXCEPT !.path = f]},
                          !.highestmodseq = hi,
                          !.uidmap = {r \in @ : r.uid # m.uid} \cup
                            {[base |-> m.base, uid |-> m.uid, modseq |-> hi]},
                          !.dirty = TRUE]]
  BY Zenon DEF Store
<1> DEFINE y   == [m EXCEPT !.path = f]
           row == [base |-> m.base, uid |-> m.uid, modseq |-> hi]
           old == {r \in w.uidmap : r.uid # m.uid}
<1>4. m.base \in Base /\ m.uid \in Nat /\ m.path \in Place /\ m \in Msg
  BY Zenon, <1>2, <1>3, MsgFields
<1>5. f \in Place /\ f \notin {"new", "away", "gone"}
  BY Zenon, <1>3, BoundsAssumption DEF Place
<1>6. y \in Msg /\ y.base = m.base /\ y.uid = m.uid /\ row \in Row /\ row.base = m.base /\ row.uid = m.uid
  BY Zenon, <1>2, <1>4, <1>5 DEF Msg, Row
<1>7. /\ x.msgs = (w.msgs \ {m}) \cup {y} /\ x.uidmap = old \cup {row}
      /\ x.st = "open" /\ x.uidnext = w.uidnext /\ x.since = w.since
      /\ view' \in [View -> ViewType] /\ \A u \in View \ {v} : view'[u] = view[u]
  <2>1. (w.msgs \ {m}) \cup {y} \in SUBSET Msg /\ old \cup {row} \in SUBSET Row
    BY Zenon, <1>2, <1>6
  <2>2. view' = [view EXCEPT ![v] =
          [w EXCEPT !.msgs = (w.msgs \ {m}) \cup {y}, !.highestmodseq = hi,
                    !.uidmap = old \cup {row}, !.dirty = TRUE]]
    BY Zenon, <1>3
  <2> HIDE DEF y, old, row, hi
  <2>3. x \in ViewType
    BY Zenon, <1>1, <1>2, <2>1, <2>2 DEF ViewType
  <2> QED BY Zenon, <1>1, <1>2, <2>2, <2>3 DEF ViewType
<1> HIDE DEF x, y, row
<1>8. place' \in [Base -> Place] /\ place'[m.base] = f /\ \A b \in Base : b # m.base => place'[b] = place[b]
  BY Zenon, <1>1, <1>3, <1>4, <1>5
<1>9. place[m.base] \notin {"away", "gone"}
  BY Zenon, <1>2, <1>3 DEF ViewInv, MsgsInv
<1>10. Moves(place, stay, place', stay)
  BY <1>1, <1>5, <1>8, <1>9 DEF Moves
<1>11. \A r \in old : r.base # m.base
  BY Zenon, <1>1, <1>2, <1>3 DEF ViewInv, RowsInv
<1>12. /\ IsFiniteSet(w.uidmap) /\ UniqueUids(w.uidmap) /\ OneRowEach(w.uidmap) /\ w.uidnext > 0
       /\ \A r \in w.uidmap : 0 < r.uid /\ r.uid < w.uidnext
       /\ 0 < m.uid /\ m.uid < w.uidnext /\ 0 < stay[m.base]
  BY Zenon, <1>1, <1>2, <1>3 DEF ViewInv, RowsInv, Counted, MsgsInv
<1>13. Counted(x.uidmap, x.uidnext)
  <2>1. IsFiniteSet(old)
    BY Zenon, <1>12, FS_Subset
  <2>2. IsFiniteSet(old \cup {row})
    BY Zenon, <2>1, FS_AddElement
  <2> QED BY Zenon, <1>6, <1>7, <1>12, <2>2 DEF Counted, UniqueUids
<1>14. OneRowEach(x.uidmap)
  BY <1>6, <1>7, <1>11, <1>12, SMTT(30) DEF OneRowEach
<1>15. \A n \in w.msgs : /\ n.uid \in Nat
                         /\ n.base = m.base /\ n.uid # m.uid => n.path = "new" /\ n.uid < m.uid
  <2> TAKE n \in w.msgs
  <2>1. n.uid \in Nat
    BY Zenon, <1>2, MsgFields
  <2>2. n.base = m.base => ~(m.uid < n.uid)
    BY Zenon, <1>2, <1>3 DEF ViewInv, MsgsInv
  <2>3. n.base = m.base /\ n.uid < m.uid => n.path = "new"
    BY Zenon, <1>2, <1>3 DEF ViewInv, MsgsInv
  <2> QED BY <1>4, <2>1, <2>2, <2>3
<1>16. y.path = f
  BY Zenon, <1>4 DEF y, Msg
<1>17. MsgsInv(x, place', stay)
  <2>1. \A n \in x.msgs : 0 < n.uid /\ n.uid < x.uidnext /\ 0 < stay[n.base] /\ n.path \notin {"away", "gone"}
    BY Zenon, <1>2, <1>5, <1>6, <1>7, <1>12, <1>16 DEF ViewInv, MsgsInv
  <2>2. ASSUME NEW n \in x.msgs, NEW k \in x.msgs, n.base = k.base, n.uid < k.uid
        PROVE  n.path = "new" /\ place'[n.base] # "new"
    <3>1. CASE n = y /\ k = y
      BY <1>4, <1>6, <2>2, <3>1
    <3>2. CASE n = y /\ k \in w.msgs
      <4>1. ~(m.uid < k.uid)
        BY <1>4, <1>6, <1>15, <2>2, <3>2
      <4> QED BY Zenon, <1>6, <2>2, <3>2, <4>1
    <3>3. CASE n \in w.msgs /\ k = y
      BY <1>4, <1>5, <1>6, <1>8, <1>15, <2>2, <3>3, SMTT(30)
    <3>4. CASE n \in w.msgs /\ k \in w.msgs
      <4>1. n.path = "new" /\ place[n.base] # "new" /\ n.base \in Base
        BY Zenon, <1>2, <2>2, <3>4, MsgFields DEF ViewInv, MsgsInv
      <4> QED BY Zenon, <1>5, <1>8, <4>1
    <3> QED BY Zenon, <1>7, <3>1, <3>2, <3>3, <3>4
  <2> QED BY Zenon, <2>1, <2>2 DEF MsgsInv
<1>18. RowsInv(x, place')
  <2>1. ASSUME NEW r \in x.uidmap, NEW n \in x.msgs, r.base = n.base, r.uid # n.uid
        PROVE  n.path = "new" /\ place'[n.base] # "new"
    <3>1. CASE r = row
      <4>1. n \in w.msgs
        BY Zenon, <1>6, <1>7, <2>1, <3>1
      <4> QED BY Zenon, <1>5, <1>6, <1>8, <1>15, <2>1, <3>1, <4>1
    <3>2. CASE r \in old
      <4>1. n \in w.msgs
        BY Zenon, <1>6, <1>7, <1>11, <2>1, <3>2
      <4>2. n.path = "new" /\ place[n.base] # "new" /\ n.base \in Base
        BY Zenon, <1>1, <1>2, <2>1, <3>2, <4>1, MsgFields DEF ViewInv, RowsInv
      <4> QED BY Zenon, <1>5, <1>8, <4>2
    <3> QED BY Zenon, <1>7, <3>1, <3>2
  <2> QED BY Zenon, <1>14, <2>1 DEF RowsInv
<1>19. SinceInv(x, place', stay)
  BY Zenon, <1>2, <1>7 DEF ViewInv, SinceInv
<1>20. ViewInv(x, place', stay)
  <2>1. x.st = "save" \/ x.st = "open"
    BY Zenon, <1>7
  <2>2. ScanInv(x) /\ LeftInv(x, place', stay)
    BY Zenon, <2>1, ScanIsOver
  <2> QED BY Zenon, <1>13, <1>17, <1>18, <1>19, <2>2 DEF ViewInv
<1>21. used' \in [opens : Nat, stores : Nat, crashes : Nat, faults : Nat, blind : Nat]
  BY DEF IndInv, TypeOK, Store, Spend
<1>22. \A b \in Base : place'[b] # "gone" => place[b] # "gone"
  BY Zenon, <1>8, <1>9
<1> QED BY Zenon, <1>1, <1>7, <1>8, <1>10, <1>20, <1>21, <1>22, ViewStepKeeps DEF x

\* A message and its row leave the view.
LEMMA ForgetEffect ==
  ASSUME IndInv, NEW v \in View, NEW m \in view[v].msgs, view[v].st = "open", Forget(v, m),
         NEW pl, Moves(place, stay, pl, stay)
  PROVE  /\ view' \in [View -> ViewType] /\ \A u \in View \ {v} : view'[u] = view[u]
         /\ ViewInv(view'[v], pl, stay)
<1> DEFINE w   == view[v]
           x   == view'[v]
           out == {r \in w.uidmap : r.uid = m.uid}
<1>1. /\ view \in [View -> ViewType] /\ w \in ViewType /\ stay \in [Base -> Nat]
      /\ view' = [view EXCEPT ![v] = [w EXCEPT !.msgs = @ \ {m}, !.uidmap = @ \ out,
                  !.tomb = @ \cup Bases(out), !.dirty = @ \/ out # {}]]
  BY Zenon DEF IndInv, TypeOK, Forget
<1>2. Bases(out) \in SUBSET Base
  BY Zenon, <1>1, ViewFields, RowFields DEF Bases
<1>3. x \in ViewType
  <2>1. /\ w.msgs \ {m} \in SUBSET Msg /\ w.uidmap \ out \in SUBSET Row
        /\ w.tomb \cup Bases(out) \in SUBSET Base /\ (w.dirty \/ out # {}) \in BOOLEAN
    <3>1. w.msgs \in SUBSET Msg /\ w.uidmap \in SUBSET Row /\ w.tomb \in SUBSET Base
      BY Zenon, <1>1, ViewFields
    <3> QED BY Zenon, <1>2, <3>1
  <2> HIDE DEF out
  <2> QED BY Zenon, <1>1, <2>1 DEF ViewType
<1>4. /\ x.st = "open" /\ x.uidnext = w.uidnext /\ x.since = w.since
      /\ x.msgs \in SUBSET w.msgs /\ x.uidmap \in SUBSET w.uidmap
  BY Zenon, <1>1 DEF ViewType
<1>5. ViewInv(w, pl, stay)
  BY Zenon, <1>1, ViewIsStable DEF IndInv
<1> HIDE DEF x
<1>6. Counted(x.uidmap, x.uidnext)
  BY Zenon, <1>4, <1>5, FewerRows DEF ViewInv
<1>7. MsgsInv(x, pl, stay) /\ RowsInv(x, pl) /\ SinceInv(x, pl, stay)
  BY Zenon, <1>4, <1>5 DEF ViewInv, MsgsInv, RowsInv, SinceInv, OneRowEach
<1>8. ViewInv(x, pl, stay)
  <2>1. x.st = "save" \/ x.st = "open"
    BY Zenon, <1>4
  <2>2. ScanInv(x) /\ LeftInv(x, pl, stay)
    BY Zenon, <2>1, ScanIsOver
  <2> QED BY Zenon, <1>6, <1>7, <2>2 DEF ViewInv
<1> QED BY Zenon, <1>1, <1>3, <1>8 DEF x

LEMMA ExpungeKeeps == ASSUME IndInv, NEW v \in View, Expunge(v) PROVE IndInv'
<1>1. /\ view[v].st = "open" /\ disk' = disk /\ task' = task /\ stay' = stay
      /\ running' = running /\ now' = now /\ told' = told /\ used' = used
      /\ place \in [Base -> Place] /\ stay \in [Base -> Nat]
      /\ used \in [opens : Nat, stores : Nat, crashes : Nat, faults : Nat, blind : Nat]
  BY Zenon DEF IndInv, TypeOK, Expunge, Ready
<1>2. PICK m \in view[v].msgs :
       /\ Forget(v, m)
       /\ place' = IF place[m.base] = m.path THEN [place EXCEPT ![m.base] = "gone"] ELSE place
  BY Zenon DEF Expunge
<1>3. place' \in [Base -> Place] /\ \A b \in Base : place'[b] = place[b] \/ place'[b] = "gone"
  BY Zenon, <1>1, <1>2 DEF Place
<1>4. Moves(place, stay, place', stay)
  BY <1>1, <1>3 DEF Moves
<1>5. /\ view' \in [View -> ViewType] /\ \A u \in View \ {v} : view'[u] = view[u]
      /\ ViewInv(view'[v], place', stay)
  BY Zenon, <1>1, <1>2, <1>4, ForgetEffect
<1> QED BY Zenon, <1>1, <1>3, <1>4, <1>5, ViewStepKeeps

LEMMA MoveOutKeeps == ASSUME IndInv, NEW v \in View, MoveOut(v) PROVE IndInv'
<1>1. /\ view[v].st = "open" /\ disk' = disk /\ task' = task /\ stay' = stay
      /\ running' = running /\ now' = now /\ told' = told
      /\ place \in [Base -> Place] /\ stay \in [Base -> Nat] /\ view \in [View -> ViewType]
      /\ view[v] \in ViewType /\ ViewInv(view[v], place, stay)
  BY Zenon DEF IndInv, TypeOK, MoveOut, Ready
<1>2. PICK m \in view[v].msgs :
       /\ place[m.base] = m.path /\ place' = [place EXCEPT ![m.base] = "away"]
       /\ Forget(v, m) \/ view' = view
  BY Zenon DEF MoveOut
<1>3. used' \in [opens : Nat, stores : Nat, crashes : Nat, faults : Nat, blind : Nat]
  BY SMTT(30) DEF IndInv, TypeOK, MoveOut, Trouble, Spend
<1>4. m.path \notin {"away", "gone"}
  BY Zenon, <1>1, <1>2 DEF ViewInv, MsgsInv
<1>5. /\ place' \in [Base -> Place]
      /\ \A b \in Base : place'[b] = place[b] \/ (place'[b] = "away" /\ place[b] # "gone")
  BY Zenon, <1>1, <1>2, <1>4 DEF Place
<1>6. Moves(place, stay, place', stay)
  BY <1>1, <1>5 DEF Moves
<1>7. /\ view' \in [View -> ViewType] /\ \A u \in View \ {v} : view'[u] = view[u]
      /\ ViewInv(view'[v], place', stay)
  <2>1. CASE Forget(v, m)
    BY Zenon, <1>1, <1>2, <1>6, <2>1, ForgetEffect
  <2>2. CASE view' = view
    BY Zenon, <1>1, <1>6, <2>2, ViewIsStable
  <2> QED BY Zenon, <1>2, <2>1, <2>2
<1> QED BY Zenon, <1>1, <1>3, <1>5, <1>6, <1>7, ViewStepKeeps

-----------------------------------------------------------------------------
(* The merge of a snapshot into the sidecar                                 *)

\* The counter after a finite set of numbers.
LEMMA AboveAll ==
  ASSUME NEW n \in Nat, NEW S \in SUBSET Nat, IsFiniteSet(S)
  PROVE  Above(n, S) \in Nat /\ n <= Above(n, S) /\ \A x \in S : x < Above(n, S)
<1> DEFINE T == {x + 1 : x \in S}
           U == {n} \cup T
           g == [x \in S |-> x + 1]
<1>1. g \in Surjection(S, T)
  BY Zenon DEF Surjection
<1>2. IsFiniteSet(T)
  BY Zenon, <1>1, FS_Surjection
<1>3. IsFiniteSet(T \cup {n})
  BY Zenon, <1>2, FS_AddElement
<1>4. U = T \cup {n}
  BY Zenon
<1>5. U \in SUBSET Nat /\ U # {} /\ n \in U /\ \A x \in S : x + 1 \in U
  OBVIOUS
<1> HIDE DEF U
<1>6. Max(U) \in U /\ \A y \in U : y <= Max(U)
  BY Zenon, <1>3, <1>4, <1>5, FiniteMax
<1>7. Above(n, S) = Max(U)
  BY Zenon DEF Above, U
<1>8. \A x \in S : x + 1 <= Max(U)
  BY Zenon, <1>5, <1>6
<1>9. Max(U) \in Nat
  BY Zenon, <1>5, <1>6
<1> QED BY <1>5, <1>6, <1>7, <1>8, <1>9

\* Of at most two rows of a base the merge takes one.
LEMMA NewestRow ==
  ASSUME NEW dr \in SUBSET Row, NEW mr \in SUBSET Row, OneRowEach(dr), OneRowEach(mr),
         NEW b \in Bases(dr \cup mr)
  PROVE  Newest(dr, mr, b) \in dr \cup mr /\ Newest(dr, mr, b).base = b
<1> DEFINE of   == {r \in dr \cup mr : r.base = b}
           last == {r \in of : \A q \in of : q.modseq <= r.modseq}
<1>1. PICK r \in of : TRUE
  BY Zenon DEF Bases
<1>2. \A q \in of : q.modseq \in Nat
  BY Zenon, RowFields
<1>3. \A q, s \in of : (q \in dr /\ s \in dr) \/ (q \in mr /\ s \in mr) => q = s
  BY Zenon DEF OneRowEach
<1>4. \A q \in of : q \in dr \/ q \in mr
  BY Zenon
<1>5. last # {}
  <2>1. CASE \A q \in of : q.modseq <= r.modseq
    BY Zenon, <1>1, <2>1
  <2>2. CASE \E q \in of : ~(q.modseq <= r.modseq)
    <3>1. PICK q \in of : ~(q.modseq <= r.modseq)
      BY Zenon, <2>2
    <3> HIDE DEF of
    <3>2. q # r /\ r.modseq < q.modseq /\ q.modseq \in Nat /\ r.modseq \in Nat
      BY <1>1, <1>2, <3>1
    <3>3. \A s \in of : s = q \/ s = r
      BY Zenon, <1>1, <1>3, <1>4, <3>1, <3>2
    <3>4. \A s \in of : s.modseq <= q.modseq
      BY <3>2, <3>3
    <3>5. q \in last
      BY Zenon, <3>1, <3>4
    <3> QED BY Zenon, <3>5
  <2> QED BY Zenon, <2>1, <2>2
<1>6. \E s \in last : last \cap dr # {} => s \in dr
  BY Zenon, <1>5
<1>7. Newest(dr, mr, b) = CHOOSE s \in last : last \cap dr # {} => s \in dr
  BY Zenon DEF Newest
<1> HIDE DEF last
<1>8. Newest(dr, mr, b) \in last
  BY Zenon, <1>6, <1>7
<1> QED BY Zenon, <1>8 DEF last

\* The merge names every base of the two tables once, with a row of theirs.
LEMMA MergedRows ==
  ASSUME NEW dr \in SUBSET Row, NEW mr \in SUBSET Row, OneRowEach(dr), OneRowEach(mr)
  PROVE  /\ Merged(dr, mr) \in SUBSET (dr \cup mr) /\ OneRowEach(Merged(dr, mr))
         /\ Bases(Merged(dr, mr)) = Bases(dr \cup mr)
<1>1. \A b \in Bases(dr \cup mr) : Newest(dr, mr, b) \in dr \cup mr /\ Newest(dr, mr, b).base = b
  BY Zenon, NewestRow
<1>2. Merged(dr, mr) = {Newest(dr, mr, b) : b \in Bases(dr \cup mr)}
  BY Zenon DEF Merged
<1>3. Merged(dr, mr) \in SUBSET (dr \cup mr)
  BY Zenon, <1>1, <1>2
<1>4. OneRowEach(Merged(dr, mr))
  <2> SUFFICES ASSUME NEW r \in Merged(dr, mr), NEW q \in Merged(dr, mr), r.base = q.base
               PROVE  r = q
    BY Zenon DEF OneRowEach
  <2>1. PICK a \in Bases(dr \cup mr) : r = Newest(dr, mr, a)
    BY Zenon, <1>2
  <2>2. PICK c \in Bases(dr \cup mr) : q = Newest(dr, mr, c)
    BY Zenon, <1>2
  <2>3. r.base = a
    BY Zenon, <1>1, <2>1
  <2>4. q.base = c
    BY Zenon, <1>1, <2>2
  <2> QED BY Zenon, <2>1, <2>2, <2>3, <2>4
<1>5. Bases(Merged(dr, mr)) \subseteq Bases(dr \cup mr)
  BY Zenon, <1>3 DEF Bases
<1>6. Bases(dr \cup mr) \subseteq Bases(Merged(dr, mr))
  <2> SUFFICES ASSUME NEW b \in Bases(dr \cup mr) PROVE b \in Bases(Merged(dr, mr))
    BY Zenon
  <2>1. Newest(dr, mr, b) \in Merged(dr, mr)
    BY Zenon, <1>2
  <2>2. Newest(dr, mr, b).base = b
    BY Zenon, <1>1
  <2> QED BY Zenon, <2>1, <2>2 DEF Bases
<1> QED BY Zenon, <1>3, <1>4, <1>5, <1>6

\* The sidecar after a merge: sound, its counters not taken back, a row for
\* each base of the two tables, and their rows themselves if no uid is claimed
\* twice.
Written(uv, un, rows, tomb) ==
  LET dr == DiskRows(uv, tomb)
      mr == CallerRows(uv, rows, tomb)
  IN  /\ disk' \in [uv : Nat, un : Nat, rows : SUBSET Row] /\ Sound(disk'.rows, disk'.un)
      /\ disk'.uv = Max({uv, disk.uv}) /\ disk.uv <= disk'.uv /\ uv <= disk'.uv
      /\ disk.un <= disk'.un /\ un <= disk'.un
      /\ Bases(disk'.rows) = Bases(dr \cup mr)
      /\ UniqueUids(Merged(dr, mr)) => disk'.rows = Merged(dr, mr)

LEMMA MergeWrites ==
  ASSUME disk \in [uv : Nat, un : Nat, rows : SUBSET Row], Sound(disk.rows, disk.un),
         NEW uv \in Nat, NEW un \in Nat, NEW rows \in SUBSET Row, Sound(rows, un),
         NEW tomb, MergeSave(uv, un, rows, tomb)
  PROVE  Written(uv, un, rows, tomb)
<1> DEFINE dr     == DiskRows(uv, tomb)
           mr     == CallerRows(uv, rows, tomb)
           merged == Merged(dr, mr)
           from   == NextUid(un, merged)
<1>1. dr \in SUBSET disk.rows /\ mr \in SUBSET rows
  BY Zenon DEF DiskRows, CallerRows
<1>2. /\ disk.uv \in Nat /\ disk.un \in Nat /\ disk.rows \in SUBSET Row
      /\ IsFiniteSet(disk.rows) /\ IsFiniteSet(rows) /\ un > 0
      /\ OneRowEach(disk.rows) /\ OneRowEach(rows)
      /\ \A r \in disk.rows : 0 < r.uid
      /\ \A r \in rows : 0 < r.uid
  BY Zenon DEF Sound, Counted
<1>3. dr \in SUBSET Row /\ mr \in SUBSET Row /\ OneRowEach(dr) /\ OneRowEach(mr)
  BY Zenon, <1>1, <1>2 DEF OneRowEach
<1>4. IsFiniteSet(dr \cup mr)
  <2>1. IsFiniteSet(dr) /\ IsFiniteSet(mr)
    BY Zenon, <1>1, <1>2, FS_Subset
  <2> QED BY Zenon, <2>1, FS_Union
<1>5. PICK K \in SUBSET merged :
        /\ Keeps(merged, Bases(dr), K)
        /\ LET lost == merged \ K
               to   == from + Cardinality(lost) - 1
           IN  \E f \in Injection(lost, from .. to) :
                 disk' = [uv   |-> Max({uv, disk.uv}),
                          un   |-> to + 1,
                          rows |-> K \cup {[base |-> r.base, uid |-> f[r],
                                            modseq |-> f[r] + 1] : r \in lost}]
  BY Zenon DEF MergeSave
<1> HIDE DEF dr, mr
<1>6. merged \in SUBSET (dr \cup mr) /\ OneRowEach(merged) /\ Bases(merged) = Bases(dr \cup mr)
  BY Zenon, <1>3, MergedRows
<1>7. merged \in SUBSET Row /\ IsFiniteSet(merged) /\ \A r \in merged : 0 < r.uid
  <2>1. IsFiniteSet(merged)
    BY Zenon, <1>4, <1>6, FS_Subset
  <2>2. \A r \in dr \cup mr : 0 < r.uid
    BY Zenon, <1>1, <1>2
  <2> QED BY Zenon, <1>3, <1>6, <2>1, <2>2
<1> HIDE DEF merged
<1>8. /\ from \in Nat /\ un <= from /\ disk.un <= from /\ \A r \in merged : r.uid < from
  <2> DEFINE U == Uids(merged)
             g == [r \in merged |-> r.uid]
             n == Max({un, disk.un})
  <2>1. g \in Surjection(merged, U)
    BY Zenon DEF Surjection, Uids
  <2>2. IsFiniteSet(U)
    BY Zenon, <1>7, <2>1, FS_Surjection
  <2>3. U \in SUBSET Nat
    BY Zenon, <1>7, RowFields DEF Uids
  <2>4. n \in {un, disk.un} /\ un <= n /\ disk.un <= n
    BY Zenon, <1>2, MaxOfTwo
  <2> HIDE DEF n
  <2>5. n \in Nat
    BY Zenon, <1>2, <2>4
  <2> HIDE DEF U
  <2>6. Above(n, U) \in Nat /\ n <= Above(n, U) /\ \A x \in U : x < Above(n, U)
    BY Zenon, <2>2, <2>3, <2>5, AboveAll
  <2>7. from = Above(n, U)
    BY Zenon DEF NextUid, n, U
  <2> HIDE DEF from
  <2>8. \A r \in merged : r.uid \in U
    BY Zenon DEF U, Uids
  <2>9. un <= from /\ disk.un <= from /\ from \in Nat
    BY <1>2, <2>4, <2>5, <2>6, <2>7
  <2> QED BY Zenon, <2>6, <2>7, <2>8, <2>9
<1> HIDE DEF from
<1> DEFINE lost == merged \ K
           c    == Cardinality(lost)
           to   == from + c - 1
<1>9. IsFiniteSet(lost) /\ c \in Nat /\ IsFiniteSet(K)
  <2>1. IsFiniteSet(lost)
    BY Zenon, <1>7, FS_Difference
  <2> HIDE DEF lost
  <2> QED BY Zenon, <1>7, <2>1, FS_CardinalityType, FS_Subset
<1>10. PICK f \in Injection(lost, from .. to) :
         disk' = [uv   |-> Max({uv, disk.uv}), un |-> to + 1,
                  rows |-> K \cup {[base |-> r.base, uid |-> f[r], modseq |-> f[r] + 1] : r \in lost}]
  BY Zenon, <1>5
<1> HIDE DEF c
<1>11. to + 1 = from + c
  BY <1>8, <1>9
<1> HIDE DEF to
<1> DEFINE N == {[base |-> r.base, uid |-> f[r], modseq |-> f[r] + 1] : r \in lost}
           h == [r \in lost |-> [base |-> r.base, uid |-> f[r], modseq |-> f[r] + 1]]
<1>12. \A r, q \in lost : f[r] = f[q] => r = q
  BY Zenon, <1>10 DEF Injection, IsInjective
<1>13. \A r \in lost : f[r] \in Nat /\ from <= f[r] /\ f[r] < to + 1
  <2>1. f \in [lost -> from .. to]
    BY Zenon, <1>10 DEF Injection
  <2>2. to \in Int
    BY <1>8, <1>9 DEF to
  <2> HIDE DEF lost
  <2> QED BY <1>8, <2>1, <2>2
<1>14. to + 1 \in Nat /\ from <= to + 1
  BY <1>8, <1>9, <1>11
<1>15. \A r \in N : \E q \in lost : r.base = q.base /\ r.uid = f[q] /\ r.modseq = f[q] + 1
  BY SMTT(30)
<1>16. \A q \in lost : \E r \in N : r.base = q.base
  <2> SUFFICES ASSUME NEW q \in lost PROVE \E r \in N : r.base = q.base
    BY Zenon
  <2> DEFINE r == [base |-> q.base, uid |-> f[q], modseq |-> f[q] + 1]
  <2>1. r \in N /\ r.base = q.base
    BY Zenon
  <2> HIDE DEF r, N
  <2> QED BY Zenon, <2>1
<1>17. N \in SUBSET Row
  <2>1. \A r \in lost : r.base \in Base /\ f[r] \in Nat
    BY Zenon, <1>7, <1>13, RowFields
  <2> HIDE DEF lost
  <2> QED BY <2>1 DEF Row
<1>18. IsFiniteSet(N)
  <2>1. h \in Surjection(lost, N)
    BY Zenon DEF Surjection
  <2> QED BY Zenon, <1>9, <2>1, FS_Surjection
<1>19. UniqueUids(N) /\ OneRowEach(N)
  <2>1. \A r, q \in N : r.uid = q.uid => r = q
    BY <1>12
  <2>2. \A r, q \in N : r.base = q.base => r = q
    BY <1>6, SMTT(30) DEF OneRowEach
  <2> QED BY Zenon, <2>1, <2>2 DEF UniqueUids, OneRowEach
<1>20. disk'.rows = K \cup N /\ disk'.un = to + 1 /\ disk'.uv = Max({uv, disk.uv})
  BY Zenon, <1>10
<1>21. Max({uv, disk.uv}) \in Nat /\ uv <= Max({uv, disk.uv}) /\ disk.uv <= Max({uv, disk.uv})
  BY Zenon, <1>2, MaxOfTwo
<1>22. disk' \in [uv : Nat, un : Nat, rows : SUBSET Row]
  <2>1. K \cup N \in SUBSET Row
    BY Zenon, <1>5, <1>7, <1>17
  <2> HIDE DEF N
  <2> QED BY Zenon, <1>10, <1>14, <1>21, <2>1 DEF N
<1>23. UniqueUids(K)
  <2> SUFFICES ASSUME NEW r \in K, NEW q \in K, r.uid = q.uid PROVE r = q
    BY Zenon DEF UniqueUids
  <2> DEFINE claim == {s \in merged : s.uid = r.uid}
  <2>1. r \in merged /\ q \in merged
    BY Zenon, <1>5
  <2>2. PICK k \in claim : K \cap claim = {k}
    BY Zenon, <1>5, <2>1 DEF Keeps
  <2>3. r \in K \cap claim /\ q \in K \cap claim
    BY Zenon, <2>1
  <2> QED BY Zenon, <2>2, <2>3
<1> HIDE DEF N, h
<1>24. UniqueUids(K \cup N)
  <2>1. \A r \in K, q \in N : r.uid # q.uid
    <3> SUFFICES ASSUME NEW r \in K, NEW q \in N PROVE r.uid # q.uid
      BY Zenon
    <3>1. PICK s \in lost : q.uid = f[s]
      BY Zenon, <1>15
    <3>2. from <= q.uid /\ r.uid < from
      BY Zenon, <1>5, <1>8, <1>13, <3>1
    <3>3. r.uid \in Nat /\ q.uid \in Nat
      BY Zenon, <1>5, <1>7, <1>17, RowFields
    <3> QED BY <1>8, <3>2, <3>3
  <2> QED BY Zenon, <1>19, <1>23, <2>1 DEF UniqueUids
<1>25. OneRowEach(K \cup N)
  <2>1. \A r \in K, q \in N : r.base # q.base
    <3> SUFFICES ASSUME NEW r \in K, NEW q \in N, r.base = q.base PROVE FALSE
      BY Zenon
    <3>1. PICK s \in lost : q.base = s.base
      BY Zenon, <1>15
    <3>2. r = s
      BY Zenon, <1>5, <1>6, <3>1 DEF OneRowEach
    <3> QED BY Zenon, <3>1, <3>2
  <2>2. OneRowEach(K)
    BY Zenon, <1>5, <1>6 DEF OneRowEach
  <2> QED BY Zenon, <1>19, <2>1, <2>2 DEF OneRowEach
<1>26. \A r \in K \cup N : 0 < r.uid /\ r.uid < to + 1
  <2>1. ASSUME NEW r \in K PROVE 0 < r.uid /\ r.uid < to + 1
    <3>1. 0 < r.uid /\ r.uid < from /\ r.uid \in Nat
      BY Zenon, <1>5, <1>7, <1>8, RowFields
    <3> QED BY <1>8, <1>14, <3>1
  <2>2. ASSUME NEW r \in N PROVE 0 < r.uid /\ r.uid < to + 1
    <3>1. PICK s \in lost : r.uid = f[s]
      BY Zenon, <1>15
    <3>2. r.uid \in Nat /\ from <= r.uid /\ r.uid < to + 1
      BY Zenon, <1>13, <3>1
    <3> QED BY <1>2, <1>8, <3>2
  <2> QED BY Zenon, <2>1, <2>2
<1>27. IsFiniteSet(K \cup N)
  BY Zenon, <1>9, <1>18, FS_Union
<1>28. to + 1 > 0 /\ disk.un <= to + 1 /\ un <= to + 1
  BY <1>2, <1>8, <1>14
<1>29. Sound(disk'.rows, disk'.un)
  BY Zenon, <1>20, <1>24, <1>25, <1>26, <1>27, <1>28 DEF Sound, Counted
<1>30. Bases(disk'.rows) = Bases(dr \cup mr)
  <2>1. Bases(K \cup N) \subseteq Bases(merged)
    <3> SUFFICES ASSUME NEW r \in K \cup N PROVE r.base \in Bases(merged)
      BY Zenon DEF Bases
    <3>1. CASE r \in K
      BY Zenon, <1>5, <3>1 DEF Bases
    <3>2. CASE r \in N
      BY Zenon, <1>15, <3>2 DEF Bases
    <3> QED BY Zenon, <3>1, <3>2
  <2>2. Bases(merged) \subseteq Bases(K \cup N)
    <3> SUFFICES ASSUME NEW r \in merged PROVE r.base \in Bases(K \cup N)
      BY Zenon DEF Bases
    <3>1. CASE r \in K
      BY Zenon, <3>1 DEF Bases
    <3>2. CASE r \in lost
      <4>1. PICK q \in N : q.base = r.base
        BY Zenon, <1>16, <3>2
      <4> QED BY Zenon, <4>1 DEF Bases
    <3> QED BY Zenon, <3>1, <3>2
  <2>3. Bases(K \cup N) = Bases(merged)
    BY Zenon, <2>1, <2>2
  <2> QED BY Zenon, <1>6, <1>20, <2>3
<1>31. ASSUME UniqueUids(merged) PROVE disk'.rows = merged
  <2>1. ASSUME NEW r \in merged PROVE r \in K
    <3> DEFINE claim == {s \in merged : s.uid = r.uid}
    <3>1. PICK k \in claim : K \cap claim = {k}
      BY Zenon, <1>5 DEF Keeps
    <3>2. k = r
      BY Zenon, <1>31, <3>1 DEF UniqueUids
    <3> QED BY Zenon, <3>1, <3>2
  <2>2. K = merged
    BY Zenon, <1>5, <2>1
  <2>3. N = {}
    BY Zenon, <2>2 DEF N
  <2> QED BY Zenon, <1>20, <2>2, <2>3
<1> QED BY Zenon, <1>20, <1>21, <1>22, <1>28, <1>29, <1>30, <1>31 DEF Written, dr, mr, merged

\* A save that returns leaves a sound sidecar, with the lock or without; one
\* that fails leaves the sidecar as it is.
LEMMA SaveIsSound ==
  ASSUME IndInv, NEW uv \in Nat, NEW un \in Nat, NEW rows \in SUBSET Row, Sound(rows, un),
         NEW tomb, NEW ok, Save(uv, un, rows, tomb, ok)
  PROVE  /\ disk' \in [uv : Nat, un : Nat, rows : SUBSET Row] /\ Sound(disk'.rows, disk'.un)
         /\ used' \in [opens : Nat, stores : Nat, crashes : Nat, faults : Nat, blind : Nat]
         /\ \/ ok /\ used' = used /\ Written(uv, un, rows, tomb)
            \/ ok /\ used'.blind = used.blind + 1 /\ disk' = [uv |-> uv, un |-> un, rows |-> rows]
            \/ ~ok /\ used'.blind = used.blind /\ disk' = disk
<1>1. /\ disk \in [uv : Nat, un : Nat, rows : SUBSET Row] /\ Sound(disk.rows, disk.un)
      /\ used \in [opens : Nat, stores : Nat, crashes : Nat, faults : Nat, blind : Nat]
  BY Zenon DEF IndInv, TypeOK
<1>2. CASE ok /\ MergeSave(uv, un, rows, tomb) /\ UNCHANGED used
  <2>1. Written(uv, un, rows, tomb)
    BY Zenon, <1>1, <1>2, MergeWrites
  <2> QED BY Zenon, <1>1, <1>2, <2>1 DEF Written
<1>3. CASE ok /\ Trouble("blind") /\ BlindSave(uv, un, rows)
  BY <1>1, <1>3, SMTT(30) DEF Trouble, Spend, BlindSave
<1>4. CASE ~ok /\ Trouble("faults") /\ UNCHANGED disk
  BY <1>1, <1>4, SMTT(30) DEF Trouble, Spend
<1> QED BY Zenon, <1>2, <1>3, <1>4 DEF Save

\* A view between its scan and its close holds a sound snapshot.
LEMMA SnapshotIsSound ==
  ASSUME IndInv, NEW v \in View, view[v].st \in {"save", "open"}
  PROVE  /\ view[v].uidvalidity \in Nat /\ view[v].uidnext \in Nat /\ view[v].uidmap \in SUBSET Row
         /\ Sound(view[v].uidmap, view[v].uidnext) /\ view[v].msgs \in SUBSET Msg
         /\ view[v] \in ViewType /\ view \in [View -> ViewType]
<1>1. view[v] \in ViewType /\ ViewInv(view[v], place, stay) /\ view \in [View -> ViewType]
  BY Zenon DEF IndInv, TypeOK
<1>2. Sound(view[v].uidmap, view[v].uidnext)
  BY Zenon, <1>1 DEF ViewInv, RowsInv, Sound
<1> QED BY Zenon, <1>1, <1>2, ViewFields

\* A step on the sidecar that moves no file keeps IndInv if the sidecar and
\* the view it works on are sound.
LEMMA SaveStepKeeps ==
  ASSUME IndInv, place' = place, stay' = stay, now' = now, running' = running,
         disk' \in [uv : Nat, un : Nat, rows : SUBSET Row], Sound(disk'.rows, disk'.un),
         used' \in [opens : Nat, stores : Nat, crashes : Nat, faults : Nat, blind : Nat],
         view' \in [View -> ViewType], \A v \in View : ViewInv(view'[v], place, stay),
         task' \in [Daemon -> TaskType], \A d \in Daemon : TaskInv(task'[d]),
         told' \subseteq [uv : Nat, uid : Nat, base : Base]
  PROVE  IndInv'
<1>1. TypeOK'
  BY Zenon DEF IndInv, TypeOK
<1> QED BY Zenon, <1>1 DEF IndInv

\* The view that a scan leaves open.
LEMMA OpenEffect ==
  ASSUME IndInv, NEW v \in View, view[v].st = "save", Open(v)
  PROVE  /\ view' \in [View -> ViewType] /\ \A u \in View : ViewInv(view'[u], place, stay)
         /\ \A u \in View \ {v} : view'[u] = view[u]
         /\ view'[v].st = "open" /\ view'[v].uidvalidity = view[v].uidvalidity
         /\ view'[v].uidnext = view[v].uidnext /\ view'[v].uidmap = view[v].uidmap
         /\ view'[v].tomb = view[v].tomb /\ view'[v].msgs = view[v].msgs
         /\ view'[v].dirty = view[v].dirty /\ view'[v].fresh = {} /\ view'[v].since = {}
         /\ told' \subseteq [uv : Nat, uid : Nat, base : Base]
<1> DEFINE w == view[v]
           x == view'[v]
<1>1. /\ w \in ViewType /\ view \in [View -> ViewType] /\ w.uidvalidity \in Nat
      /\ w.msgs \in SUBSET Msg /\ ViewInv(w, place, stay)
  BY Zenon, SnapshotIsSound DEF IndInv
<1>2. view' = [view EXCEPT ![v] = [w EXCEPT !.st = "open", !.move = FALSE, !.fresh = {},
                                            !.changed = FALSE, !.since = {}]]
  BY Zenon DEF Open
<1>3. x \in ViewType
  BY Zenon, <1>1, <1>2 DEF ViewType, Stage
<1>4. /\ x.st = "open" /\ x.uidvalidity = w.uidvalidity /\ x.uidnext = w.uidnext
      /\ x.uidmap = w.uidmap /\ x.tomb = w.tomb /\ x.msgs = w.msgs /\ x.dirty = w.dirty
      /\ x.fresh = {} /\ x.since = {}
      /\ view' \in [View -> ViewType] /\ \A u \in View \ {v} : view'[u] = view[u]
  BY Zenon, <1>1, <1>2, <1>3 DEF ViewType
<1> HIDE DEF x
<1>5. ViewInv(x, place, stay)
  <2>1. x.st = "save" \/ x.st = "open"
    BY Zenon, <1>4
  <2>2. ScanInv(x) /\ LeftInv(x, place, stay)
    BY Zenon, <2>1, ScanIsOver
  <2>3. MsgsInv(x, place, stay)
    BY Zenon, <1>1, <1>4 DEF ViewInv, MsgsInv
  <2>5. RowsInv(w, place) => RowsInv(x, place)
    BY <1>4 DEF RowsInv
  <2>4. SinceInv(x, place, stay)
    BY Zenon, <1>4 DEF SinceInv
  <2> QED BY Zenon, <1>1, <1>4, <2>2, <2>3, <2>4, <2>5 DEF ViewInv
<1>6. \A u \in View : ViewInv(view'[u], place, stay)
  BY Zenon, <1>4, <1>5 DEF IndInv, x
<1>7. told' \subseteq [uv : Nat, uid : Nat, base : Base]
  <2>1. told \subseteq [uv : Nat, uid : Nat, base : Base]
    BY Zenon DEF IndInv, TypeOK
  <2>2. \A m \in w.msgs : [uv |-> w.uidvalidity, uid |-> m.uid, base |-> m.base]
                            \in [uv : Nat, uid : Nat, base : Base]
    BY Zenon, <1>1, MsgFields
  <2>3. CASE told' = told
    BY Zenon, <2>1, <2>3
  <2>4. CASE Tell(w.uidvalidity, w.msgs)
    BY Zenon, <2>1, <2>2, <2>4 DEF Tell
  <2> QED BY Zenon, <2>3, <2>4 DEF Open
<1> QED BY Zenon, <1>4, <1>6, <1>7 DEF x

\* A daemon that becomes idle.
LEMMA IdleKeeps ==
  ASSUME IndInv, NEW d \in Daemon, task' = [task EXCEPT ![d] = Idle]
  PROVE  task' \in [Daemon -> TaskType] /\ \A e \in Daemon : TaskInv(task'[e])
<1>1. Idle \in TaskType /\ TaskInv(Idle)
  BY Zenon DEF TaskType, TaskInv, Idle
<1> QED BY Zenon, <1>1 DEF IndInv, TypeOK

\* The end of a scan.
LEMMA SaveScanKeeps == ASSUME IndInv, NEW v \in View, SaveScan(v) PROVE IndInv'
<1> DEFINE w == view[v]
<1>1. /\ w.st = "save" /\ place' = place /\ running' = running /\ now' = now /\ stay' = stay
      /\ DaemonOf(v) \in Daemon /\ task' = [task EXCEPT ![DaemonOf(v)] = Idle]
  BY Zenon DEF SaveScan, DaemonOf, Daemon
<1>2. /\ w.uidvalidity \in Nat /\ w.uidnext \in Nat /\ w.uidmap \in SUBSET Row
      /\ Sound(w.uidmap, w.uidnext) /\ view \in [View -> ViewType]
  BY Zenon, <1>1, SnapshotIsSound
<1>3. task' \in [Daemon -> TaskType] /\ \A e \in Daemon : TaskInv(task'[e])
  BY Zenon, <1>1, IdleKeeps
<1>4. CASE Open(v) /\ UNCHANGED <<disk, used>>
  <2>1. /\ disk' \in [uv : Nat, un : Nat, rows : SUBSET Row] /\ Sound(disk'.rows, disk'.un)
        /\ used' \in [opens : Nat, stores : Nat, crashes : Nat, faults : Nat, blind : Nat]
    BY Zenon, <1>4 DEF IndInv, TypeOK
  <2> QED BY Zenon, <1>1, <1>3, <1>4, <2>1, OpenEffect, SaveStepKeeps
<1>5. CASE Open(v) /\ Save(w.uidvalidity, w.uidnext, w.uidmap, w.tomb, TRUE)
  <2>1. /\ disk' \in [uv : Nat, un : Nat, rows : SUBSET Row] /\ Sound(disk'.rows, disk'.un)
        /\ used' \in [opens : Nat, stores : Nat, crashes : Nat, faults : Nat, blind : Nat]
    BY Zenon, <1>2, <1>5, SaveIsSound
  <2> QED BY Zenon, <1>1, <1>3, <1>5, <2>1, OpenEffect, SaveStepKeeps
<1>6. CASE /\ Save(w.uidvalidity, w.uidnext, w.uidmap, w.tomb, FALSE)
           /\ view' = [view EXCEPT ![v] = Closed] /\ UNCHANGED told
  <2>1. /\ disk' \in [uv : Nat, un : Nat, rows : SUBSET Row] /\ Sound(disk'.rows, disk'.un)
        /\ used' \in [opens : Nat, stores : Nat, crashes : Nat, faults : Nat, blind : Nat]
    BY Zenon, <1>2, <1>6, SaveIsSound
  <2>2. view' \in [View -> ViewType] /\ \A u \in View : ViewInv(view'[u], place, stay)
    BY Zenon, <1>2, <1>6, ClosedIsSound DEF IndInv
  <2>3. told' \subseteq [uv : Nat, uid : Nat, base : Base]
    BY Zenon, <1>6 DEF IndInv, TypeOK
  <2> QED BY Zenon, <1>1, <1>3, <2>1, <2>2, <2>3, SaveStepKeeps
<1> QED BY Zenon, <1>4, <1>5, <1>6 DEF SaveScan

\* A view is closed.
LEMMA CloseKeeps == ASSUME IndInv, NEW v \in View, Close(v) PROVE IndInv'
<1> DEFINE w == view[v]
<1>1. /\ w.st = "open" /\ place' = place /\ running' = running /\ now' = now /\ stay' = stay
      /\ task' = task /\ told' = told /\ view' = [view EXCEPT ![v] = Closed]
  BY Zenon DEF Close, Ready
<1>2. /\ w.uidvalidity \in Nat /\ w.uidnext \in Nat /\ w.uidmap \in SUBSET Row
      /\ Sound(w.uidmap, w.uidnext) /\ view \in [View -> ViewType]
  BY Zenon, <1>1, SnapshotIsSound
<1>3. /\ disk' \in [uv : Nat, un : Nat, rows : SUBSET Row] /\ Sound(disk'.rows, disk'.un)
      /\ used' \in [opens : Nat, stores : Nat, crashes : Nat, faults : Nat, blind : Nat]
  <2>1. CASE UNCHANGED <<disk, used>>
    BY Zenon, <2>1 DEF IndInv, TypeOK
  <2>2. CASE \E ok \in BOOLEAN : Save(w.uidvalidity, w.uidnext, w.uidmap, w.tomb, ok)
    BY Zenon, <1>2, <2>2, SaveIsSound
  <2> QED BY Zenon, <2>1, <2>2 DEF Close
<1>4. view' \in [View -> ViewType] /\ \A u \in View : ViewInv(view'[u], place, stay)
  BY Zenon, <1>1, <1>2, ClosedIsSound DEF IndInv
<1>5. /\ task' \in [Daemon -> TaskType] /\ \A e \in Daemon : TaskInv(task'[e])
      /\ told' \subseteq [uv : Nat, uid : Nat, base : Base]
  BY Zenon, <1>1 DEF IndInv, TypeOK
<1> QED BY Zenon, <1>1, <1>3, <1>4, <1>5, SaveStepKeeps

\* mbox_register saves the row of its message.
LEMMA RegisterSaveKeeps ==
  ASSUME IndInv, NEW d \in Daemon, NEW b \in Base, RegisterSave(d, b) PROVE IndInv'
<1> DEFINE t == task[d]
<1>1. /\ t[1] = "register" /\ place' = place /\ running' = running /\ now' = now
      /\ stay' = stay /\ view' = view /\ task' = [task EXCEPT ![d] = Idle]
  BY Zenon DEF RegisterSave
<1>2. t[3] \in Nat /\ t[4] \in Nat /\ t[5] \in SUBSET Row /\ Sound(t[5], t[4])
  <2>1. t \in TaskType /\ TaskInv(t)
    BY Zenon DEF IndInv, TypeOK
  <2>2. t \in {"register"} \X Base \X Nat \X Nat \X SUBSET Row
    BY <1>1, <2>1 DEF TaskType, Idle
  <2> QED BY Zenon, <1>1, <2>1, <2>2 DEF TaskInv
<1>3. PICK ok \in BOOLEAN :
       /\ Save(t[3], t[4], t[5], {}, ok)
       /\ told' = told \/ Tell(t[3], {r \in disk'.rows : r.base = b})
  BY Zenon DEF RegisterSave
<1>4. /\ disk' \in [uv : Nat, un : Nat, rows : SUBSET Row] /\ Sound(disk'.rows, disk'.un)
      /\ used' \in [opens : Nat, stores : Nat, crashes : Nat, faults : Nat, blind : Nat]
  BY Zenon, <1>2, <1>3, SaveIsSound
<1>5. told' \subseteq [uv : Nat, uid : Nat, base : Base]
  <2>1. told \subseteq [uv : Nat, uid : Nat, base : Base]
    BY Zenon DEF IndInv, TypeOK
  <2>2. \A r \in disk'.rows : [uv |-> t[3], uid |-> r.uid, base |-> r.base]
                                \in [uv : Nat, uid : Nat, base : Base]
    <3>1. disk'.rows \in SUBSET Row
      BY Zenon, <1>4
    <3> QED BY Zenon, <1>2, <3>1, RowFields
  <2>3. CASE told' = told
    BY Zenon, <2>1, <2>3
  <2>4. CASE Tell(t[3], {r \in disk'.rows : r.base = b})
    BY Zenon, <2>1, <2>2, <2>4 DEF Tell
  <2> QED BY Zenon, <1>3, <2>3, <2>4
<1>6. task' \in [Daemon -> TaskType] /\ \A e \in Daemon : TaskInv(task'[e])
  BY Zenon, <1>1, IdleKeeps
<1>7. view' \in [View -> ViewType] /\ \A u \in View : ViewInv(view'[u], place, stay)
  BY Zenon, <1>1 DEF IndInv, TypeOK
<1> QED BY Zenon, <1>1, <1>4, <1>5, <1>6, <1>7, SaveStepKeeps

-----------------------------------------------------------------------------
(* The invariant holds                                                      *)

LEMMA NextKeeps == ASSUME IndInv, [Next]_vars PROVE IndInv'
<1>1. CASE UNCHANGED vars
  BY Zenon, <1>1 DEF vars, IndInv, TypeOK
<1>2. ASSUME NEW v \in View, Load(v) PROVE IndInv'
  BY Zenon, <1>2, LoadKeeps
<1>3. ASSUME NEW v \in View, ListNew(v) \/ ScanNew(v) PROVE IndInv'
  BY Zenon, <1>3, ListNewKeeps, ScanNewKeeps
<1>4. ASSUME NEW v \in View, ListCur(v) \/ ScanCur(v) PROVE IndInv'
  BY Zenon, <1>4, ListCurKeeps, ScanCurKeeps
<1>5. ASSUME NEW v \in View, Prune(v) PROVE IndInv'
  BY Zenon, <1>5, PruneKeeps
<1>6. ASSUME NEW v \in View, SaveScan(v) PROVE IndInv'
  BY Zenon, <1>6, SaveScanKeeps
<1>7. ASSUME NEW v \in View, Store(v) PROVE IndInv'
  BY Zenon, <1>7, StoreKeeps
<1>8. ASSUME NEW v \in View, Expunge(v) PROVE IndInv'
  BY Zenon, <1>8, ExpungeKeeps
<1>9. ASSUME NEW v \in View, MoveOut(v) PROVE IndInv'
  BY Zenon, <1>9, MoveOutKeeps
<1>10. ASSUME NEW v \in View, Close(v) PROVE IndInv'
  BY Zenon, <1>10, CloseKeeps
<1>11. ASSUME NEW b \in Base, Deliver(b) PROVE IndInv'
  BY Zenon, <1>11, DeliverKeeps
<1>12. ASSUME NEW d \in running PROVE d \in Daemon
  BY Zenon, <1>12 DEF IndInv, TypeOK
<1>13. ASSUME NEW d \in running, Crash(d) PROVE IndInv'
  BY Zenon, <1>12, <1>13, CrashKeeps
<1>14. ASSUME NEW d \in running, NEW b \in Base, Put(d, b) PROVE IndInv'
  BY Zenon, <1>12, <1>14, PutKeeps
<1>15. ASSUME NEW d \in running, NEW b \in Base, RegisterLoad(d, b) PROVE IndInv'
  BY Zenon, <1>12, <1>15, RegisterLoadKeeps
<1>16. ASSUME NEW d \in running, NEW b \in Base, RegisterSave(d, b) PROVE IndInv'
  BY Zenon, <1>12, <1>16, RegisterSaveKeeps
<1>17. CASE Tick
  BY Zenon, <1>17, TickKeeps
<1> QED BY Zenon, <1>1, <1>2, <1>3, <1>4, <1>5, <1>6, <1>7, <1>8, <1>9, <1>10, <1>11, <1>13,
           <1>14, <1>15, <1>16, <1>17 DEF Next

\* IndInv holds of every behaviour, for any sets of messages and views.
THEOREM Invariance == Spec => []IndInv
<1>1. IndInv /\ [Next]_vars => IndInv'
  BY Zenon, NextKeeps
<1> QED BY InitIsSound, <1>1, PTL DEF Spec

\* Everything keeps its shape, the sidecar is sound whoever wrote it last, with
\* or without the lock, and a scan misses no message that was in the mailbox
\* all along, although the other daemon moves files meanwhile, except one that a
\* STORE of the other daemon renames between the readdir of cur/ and the stat of
\* its name (uidlist_merge, mbox_scan).
THEOREM SidecarAndScanHolds == Spec => []SidecarAndScan
<1>1. IndInv => SidecarAndScan
  <2> SUFFICES ASSUME IndInv PROVE SidecarAndScan
    BY Zenon
  <2>1. SidecarSound
    BY Zenon DEF IndInv, Sound, Counted, UniqueUids, OneRowEach, SidecarSound
  <2>2. ScanComplete
    BY Zenon DEF IndInv, ViewInv, SinceInv, ScanComplete, Here
  <2> QED BY Zenon, <2>1, <2>2 DEF IndInv, SidecarAndScan
<1> QED BY Invariance, <1>1, PTL

-----------------------------------------------------------------------------
(* What a save may do to the work of others                                 *)

\* Only the end of a scan, a close and a registration write the sidecar.
LEMMA WhoWrites ==
  ASSUME IndInv, [Next]_vars
  PROVE  \/ disk' = disk
         \/ \E v \in View : SaveScan(v) \/ Close(v)
         \/ \E d \in Daemon, b \in Base : RegisterSave(d, b)
<1>1. CASE UNCHANGED vars
  BY Zenon, <1>1 DEF vars
<1>2. ASSUME NEW v \in View, \/ Load(v) \/ ListNew(v) \/ ScanNew(v) \/ ListCur(v)
                             \/ ScanCur(v) \/ Prune(v) \/ Store(v) \/ Expunge(v) \/ MoveOut(v)
      PROVE  disk' = disk
  BY Zenon, <1>2 DEF Load, ListNew, ScanNew, ListCur, ScanCur, ScanSubdir, Prune, Store, Expunge,
     MoveOut
<1>3. ASSUME NEW b \in Base, Deliver(b) PROVE disk' = disk
  BY Zenon, <1>3 DEF Deliver
<1>4. ASSUME NEW d \in running, NEW b \in Base, Crash(d) \/ Put(d, b) \/ RegisterLoad(d, b)
      PROVE  disk' = disk
  BY Zenon, <1>4 DEF Crash, Put, RegisterLoad
<1>5. ASSUME NEW d \in running, Crash(d) PROVE disk' = disk
  BY Zenon, <1>5 DEF Crash
<1>6. CASE Tick
  BY Zenon, <1>6 DEF Tick
<1>7. running \subseteq Daemon
  BY Zenon DEF IndInv, TypeOK
<1> QED BY Zenon, <1>1, <1>2, <1>3, <1>4, <1>5, <1>6, <1>7 DEF Next

\* A step by which a view writes the sidecar under the lock, or fails to.
LEMMA ViewWrites ==
  ASSUME IndInv, NEW v \in View, SaveScan(v) \/ Close(v), used'.blind = used.blind
  PROVE  /\ view[v].st \in {"save", "open"} /\ view'[v] # view[v]
         /\ \A u \in View \ {v} : view'[u] = view[u]
         /\ disk' = disk \/ Written(view[v].uidvalidity, view[v].uidnext, view[v].uidmap, view[v].tomb)
<1> DEFINE w == view[v]
<1>1. w.st \in {"save", "open"}
  BY Zenon DEF SaveScan, Close, Ready
<1>2. /\ w.uidvalidity \in Nat /\ w.uidnext \in Nat /\ w.uidmap \in SUBSET Row
      /\ Sound(w.uidmap, w.uidnext) /\ view \in [View -> ViewType]
  BY Zenon, <1>1, SnapshotIsSound
<1>3. /\ view'[v].st # w.st /\ \A u \in View \ {v} : view'[u] = view[u]
  <2>1. CASE SaveScan(v)
    <3>1. w.st = "save"
      BY Zenon, <2>1 DEF SaveScan
    <3>2. CASE Open(v)
      BY Zenon, <3>1, <3>2, OpenEffect
    <3>3. CASE view' = [view EXCEPT ![v] = Closed]
      BY Zenon, <1>2, <3>1, <3>3 DEF Closed
    <3> QED BY Zenon, <2>1, <3>2, <3>3 DEF SaveScan
  <2>2. CASE Close(v)
    BY Zenon, <1>2, <2>2 DEF Close, Ready, Closed
  <2> QED BY Zenon, <2>1, <2>2
<1>4. disk' = disk \/ Written(w.uidvalidity, w.uidnext, w.uidmap, w.tomb)
  <2>1. CASE disk' = disk
    BY Zenon, <2>1
  <2>2. ASSUME NEW ok \in BOOLEAN, Save(w.uidvalidity, w.uidnext, w.uidmap, w.tomb, ok)
        PROVE  disk' = disk \/ Written(w.uidvalidity, w.uidnext, w.uidmap, w.tomb)
    <3>1. used.blind \in Nat
      BY Zenon DEF IndInv, TypeOK
    <3>2. used'.blind # used.blind + 1
      BY <3>1
    <3> QED BY Zenon, <1>2, <2>2, <3>2, SaveIsSound
  <2> QED BY Zenon, <2>1, <2>2 DEF SaveScan, Close
<1> QED BY Zenon, <1>1, <1>3, <1>4

\* A registration under the lock.
LEMMA RegistrationWrites ==
  ASSUME IndInv, NEW d \in Daemon, NEW b \in Base, RegisterSave(d, b), used'.blind = used.blind
  PROVE  /\ view' = view
         /\ \/ disk' = disk
            \/ task[d][3] \in Nat /\ Written(task[d][3], task[d][4], task[d][5], {})
<1> DEFINE t == task[d]
<1>1. t[1] = "register" /\ view' = view /\ \E ok \in BOOLEAN : Save(t[3], t[4], t[5], {}, ok)
  BY Zenon DEF RegisterSave
<1>2. t[3] \in Nat /\ t[4] \in Nat /\ t[5] \in SUBSET Row /\ Sound(t[5], t[4])
  <2>1. t \in TaskType /\ TaskInv(t)
    BY Zenon DEF IndInv, TypeOK
  <2>2. t \in {"register"} \X Base \X Nat \X Nat \X SUBSET Row
    BY <1>1, <2>1 DEF TaskType, Idle
  <2> QED BY Zenon, <1>1, <2>1, <2>2 DEF TaskInv
<1>3. used.blind \in Nat
  BY Zenon DEF IndInv, TypeOK
<1>4. used'.blind # used.blind + 1
  BY <1>3
<1>5. PICK ok \in BOOLEAN : Save(t[3], t[4], t[5], {}, ok)
  BY Zenon, <1>1
<1>6. \/ ok /\ used' = used /\ Written(t[3], t[4], t[5], {})
      \/ ok /\ used'.blind = used.blind + 1 /\ disk' = [uv |-> t[3], un |-> t[4], rows |-> t[5]]
      \/ ~ok /\ used'.blind = used.blind /\ disk' = disk
  BY Zenon, <1>2, <1>5, SaveIsSound
<1> QED BY Zenon, <1>1, <1>2, <1>4, <1>6

\* What a merge drops of the current generation is tombstoned.
LEMMA MergeDrops ==
  ASSUME disk.uv \in Nat, NEW uv \in Nat, NEW un, NEW rows, NEW tomb,
         Written(uv, un, rows, tomb), disk'.uv = disk.uv, NEW b \in Bases(disk.rows) \ Bases(disk'.rows)
  PROVE  b \in tomb
<1>1. ~(disk.uv < uv)
  BY SMTT(30) DEF Written
<1>2. DiskRows(uv, tomb) = {r \in disk.rows : r.base \notin tomb}
  BY Zenon, <1>1 DEF DiskRows
<1>3. Bases(disk'.rows) = Bases(DiskRows(uv, tomb) \cup CallerRows(uv, rows, tomb))
  BY Zenon DEF Written
<1>4. PICK r \in disk.rows : r.base = b
  BY Zenon DEF Bases
<1>5. r \notin DiskRows(uv, tomb)
  BY Zenon, <1>3, <1>4 DEF Bases
<1> QED BY Zenon, <1>2, <1>4, <1>5

\* A merge for an older generation only drops rows.
LEMMA MergeOfTheDead ==
  ASSUME disk \in [uv : Nat, un : Nat, rows : SUBSET Row], Sound(disk.rows, disk.un),
         NEW uv \in Nat, NEW un, NEW rows, NEW tomb, Written(uv, un, rows, tomb), uv < disk.uv
  PROVE  disk'.rows \subseteq disk.rows
<1> DEFINE dr == DiskRows(uv, tomb)
           mr == CallerRows(uv, rows, tomb)
<1>1. mr = {} /\ dr \in SUBSET disk.rows
  BY Zenon DEF CallerRows, DiskRows
<1>2. OneRowEach(dr) /\ OneRowEach({}) /\ UniqueUids(disk.rows)
  BY Zenon, <1>1 DEF Sound, Counted, OneRowEach
<1>3. dr \in SUBSET Row
  BY Zenon, <1>1
<1> HIDE DEF dr, mr
<1>4. Merged(dr, mr) \in SUBSET (dr \cup mr)
  BY Zenon, <1>1, <1>2, <1>3, MergedRows
<1>5. Merged(dr, mr) \in SUBSET disk.rows
  BY Zenon, <1>1, <1>4
<1>6. UniqueUids(Merged(dr, mr))
  BY Zenon, <1>2, <1>5 DEF UniqueUids
<1> QED BY Zenon, <1>5, <1>6 DEF Written, dr, mr

\* A save under the lock takes no counter back and drops or adds no row that is
\* not its own, however old the snapshot that it merges (imapd_uidlist_save,
\* uidlist_merge).
THEOREM RowsAreKept == Spec => RowsKept
<1> DEFINE Locked  == used'.blind = used.blind
           Forward == Locked => disk.un <= disk'.un /\ disk.uv <= disk'.uv
           Survive == Locked /\ disk'.uv = disk.uv =>
                        \A b \in Bases(disk.rows) \ Bases(disk'.rows) :
                          \E v \in View : view'[v] # view[v] /\ b \in view[v].tomb
           Silent  == Locked =>
                        \A v \in View : view'[v] # view[v] /\ view[v].st \in {"save", "open"}
                                        /\ view[v].uidvalidity < disk.uv
                                          => disk'.rows \subseteq disk.rows
<1>1. ASSUME IndInv, [Next]_vars PROVE Forward /\ Survive /\ Silent
  <2>1. disk \in [uv : Nat, un : Nat, rows : SUBSET Row] /\ Sound(disk.rows, disk.un)
        /\ disk.uv \in Nat /\ disk.un \in Nat
    BY Zenon, <1>1 DEF IndInv, TypeOK
  <2>2. CASE disk' = disk
    BY <2>1, <2>2, SMTT(30)
  <2>3. ASSUME NEW v \in View, SaveScan(v) \/ Close(v), Locked, disk' # disk
        PROVE  Forward /\ Survive /\ Silent
    <3> DEFINE w == view[v]
    <3>1. /\ w.st \in {"save", "open"} /\ view'[v] # w
          /\ \A u \in View \ {v} : view'[u] = view[u]
          /\ Written(w.uidvalidity, w.uidnext, w.uidmap, w.tomb)
      BY Zenon, <1>1, <2>3, ViewWrites
    <3>2. w.uidvalidity \in Nat
      BY Zenon, <1>1, <3>1, SnapshotIsSound
    <3>3. Forward
      BY Zenon, <3>1 DEF Written
    <3>4. Survive
      BY Zenon, <2>1, <3>1, <3>2, MergeDrops
    <3>5. Silent
      BY Zenon, <2>1, <3>1, <3>2, MergeOfTheDead
    <3> QED BY Zenon, <3>3, <3>4, <3>5
  <2>4. ASSUME NEW d \in Daemon, NEW b \in Base, RegisterSave(d, b), Locked, disk' # disk
        PROVE  Forward /\ Survive /\ Silent
    <3> DEFINE t == task[d]
    <3>1. view' = view /\ t[3] \in Nat /\ Written(t[3], t[4], t[5], {})
      BY Zenon, <1>1, <2>4, RegistrationWrites
    <3>2. Forward
      BY Zenon, <3>1 DEF Written
    <3>3. disk'.uv = disk.uv => Bases(disk.rows) \ Bases(disk'.rows) = {}
      BY <2>1, <3>1, MergeDrops, SMTT(30)
    <3> QED BY Zenon, <3>1, <3>2, <3>3
  <2> QED BY Zenon, <1>1, <2>2, <2>3, <2>4, WhoWrites
<1>2. IndInv /\ [Next]_vars => [Forward]_vars /\ [Survive]_vars /\ [Silent]_vars
  BY Zenon, <1>1
<1> HIDE DEF Locked, Forward, Survive, Silent
<1>3. Spec => [][Forward]_vars /\ [][Survive]_vars /\ [][Silent]_vars
  BY Invariance, <1>2, PTL DEF Spec
<1> QED BY Zenon, <1>3 DEF RowsKept, NeverRewinds, RowsSurvive, DeadGenerationSilent, Locked, Forward, Survive, Silent
=============================================================================
