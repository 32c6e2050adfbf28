--------------------------- MODULE MaildirAlone ----------------------------
(***************************************************************************)
(* What holds, for any messages, any sessions and any number of operations *)
(* and crashes, of a maildir that imapd has to itself: a uid names one     *)
(* message, and a scan registers what it finds.                            *)
(***************************************************************************)
EXTENDS MaildirProofs

-----------------------------------------------------------------------------
(* imapd alone: one thing at a time.  One lemma for each kind of action: it  *)
(* keeps AloneInv.                                                           *)

\* While the daemon is not in a scan no view is.
LEMMA NoScan ==
  ASSUME AloneInv, task["imapd"][1] # "scan"
  PROVE  \A v \in View : ~Scanning(view[v])
BY SMTT(30) DEF AloneInv

\* After a step that leaves no scan behind.
LEMMA AloneRest ==
  ASSUME \A v \in View : view'[v].st \in {"closed", "open"},
         \A v \in View : view'[v].st # "closed" => DaemonOf(v) = "imapd",
         AloneRegister(task'["imapd"], disk')
  PROVE  AloneInv'
<1>1. \A v \in View : ~Scanning(view'[v])
  BY Zenon DEF Scanning, Reading
<1> QED BY Zenon, <1>1 DEF AloneInv

\* After a step of the scan.
LEMMA AloneScanStep ==
  ASSUME AloneInv, NEW v \in View, Scanning(view[v]), \A u \in View \ {v} : view'[u] = view[u],
         task' = task, disk' = disk, AloneScan(view'[v], disk, place')
  PROVE  AloneInv'
<1>1. task["imapd"] = <<"scan", v>> /\ DaemonOf(v) = "imapd"
  <2>1. view[v].st # "closed"
    BY Zenon DEF Scanning, Reading
  <2> QED BY Zenon, <2>1 DEF AloneInv
<1>2. \A u \in View \ {v} : ~Scanning(view[u])
  BY <1>1, SMTT(30) DEF AloneInv
<1>3. AloneRegister(task'["imapd"], disk')
  BY <1>1, SMTT(30) DEF AloneRegister
<1>4. ASSUME NEW u \in View, Scanning(view'[u])
      PROVE  task'["imapd"] = <<"scan", u>> /\ AloneScan(view'[u], disk', place')
  <2>1. u = v
    BY Zenon, <1>2, <1>4
  <2> QED BY Zenon, <1>1, <2>1
<1>5. \A u \in View : view'[u].st # "closed" => DaemonOf(u) = "imapd"
  BY Zenon, <1>1 DEF AloneInv
<1> QED BY Zenon, <1>3, <1>4, <1>5 DEF AloneInv

\* The states of views.
LEMMA ViewStates ==
  ASSUME IndInv
  PROVE  /\ view \in [View -> ViewType]
         /\ \A v \in View : Scanning(view[v]) \/ view[v].st \in {"closed", "open"}
<1>1. view \in [View -> ViewType]
  BY Zenon DEF IndInv, TypeOK
<1>2. \A v \in View : view[v].st \in Stage
  BY Zenon, <1>1, ViewFields
<1> QED BY Zenon, <1>1, <1>2 DEF Scanning, Stage, Reading

\* A view that is open while its daemon is free: imapd's, and nothing is in
\* progress.
LEMMA AloneReady ==
  ASSUME IndInv, AloneInv, NEW v \in View, Ready(v)
  PROVE  /\ DaemonOf(v) = "imapd" /\ task["imapd"] = Idle
         /\ \A u \in View : view[u].st \in {"closed", "open"}
<1>1. DaemonOf(v) = "imapd" /\ task["imapd"] = Idle
  BY Zenon DEF AloneInv, Ready, Free
<1>2. task["imapd"][1] # "scan"
  BY <1>1 DEF Idle
<1> QED BY Zenon, <1>1, <1>2, NoScan, ViewStates

LEMMA AloneLoad == ASSUME IndInv, Alone, AloneInv, NEW v \in View, Load(v) PROVE AloneInv'
<1>1. /\ DaemonOf(v) = "imapd" /\ task["imapd"] = Idle /\ task \in [Daemon -> TaskType]
      /\ task' = [task EXCEPT ![DaemonOf(v)] = <<"scan", v>>] /\ disk' = disk /\ place' = place
      /\ view \in [View -> ViewType]
      /\ Sound(disk.rows, disk.un) /\ disk \in [uv : Nat, un : Nat, rows : SUBSET Row]
      /\ now \in Nat \ {0}
  BY Zenon DEF IndInv, TypeOK, Load, Free, Alone
<1>2. \A u \in View : ~Scanning(view[u])
  BY <1>1, NoScan DEF Idle
<1> DEFINE w == view'[v]
<1>3. /\ w.st = "new" /\ w.uidvalidity = Loaded.uv /\ w.uidnext = disk.un /\ w.uidmap = disk.rows
      /\ w.msgs = {} /\ w.fresh = {} /\ w.tomb = {} /\ w.changed = FALSE /\ w.dirty = FALSE
      /\ \A u \in View \ {v} : view'[u] = view[u]
  BY <1>1 DEF Load, Closed, Loaded
<1> HIDE DEF w
<1>4. Loaded.uv > 0 /\ disk.uv \in {0, Loaded.uv}
  BY <1>1, SMTT(30) DEF Loaded
<1>5. disk.un \in Nat /\ OneRowEach(disk.rows)
  BY Zenon, <1>1 DEF Sound
<1>6. AloneScan(w, disk, place)
  BY <1>3, <1>4, <1>5, SMTT(30) DEF AloneScan
<1>7. task'["imapd"] = <<"scan", v>>
  BY Zenon, <1>1 DEF Daemon
<1>8. AloneRegister(task'["imapd"], disk')
  BY <1>7 DEF AloneRegister
<1>9. ASSUME NEW u \in View, Scanning(view'[u])
      PROVE  task'["imapd"] = <<"scan", u>> /\ AloneScan(view'[u], disk', place')
  <2>1. u = v
    BY Zenon, <1>2, <1>3, <1>9
  <2> QED BY Zenon, <1>1, <1>6, <1>7, <2>1 DEF w
<1>10. \A u \in View : view'[u].st # "closed" => DaemonOf(u) = "imapd"
  BY Zenon, <1>1, <1>3 DEF AloneInv
<1> QED BY Zenon, <1>8, <1>9, <1>10 DEF AloneInv

\* Reading the names of a directory.
LEMMA AloneList ==
  ASSUME IndInv, NEW v \in View, view[v].st \in {"new", "cur"}, AloneScan(view[v], disk, place),
         SameRows(view[v], view'[v]), view'[v].st \in {"innew", "cur", "incur", "prune"},
         view'[v].st \in {"innew", "cur"} => \A r \in view[v].fresh : place[r.base] = "new",
         \A x \in view'[v].left : x[1] \notin Bases(view[v].fresh)
  PROVE  AloneScan(view'[v], disk, place)
<1>1. view[v].st # "save"
  BY Zenon
<1> QED BY Zenon, <1>1 DEF AloneScan, SameRows

LEMMA AloneListNew == ASSUME IndInv, AloneInv, NEW v \in View, ListNew(v) PROVE AloneInv'
<1> DEFINE w == view[v]
<1>1. /\ w.st = "new" /\ disk' = disk /\ place' = place /\ task' = task
      /\ List(v, 1, "innew", "cur")
  BY Zenon DEF ListNew
<1>2. /\ Alters(v) /\ SameRows(w, view'[v])
      /\ view'[v].st = IF Pass(1) = {} THEN "cur" ELSE "innew"
  <2>1. "innew" \in Stage /\ "cur" \in Stage
    BY Zenon DEF Stage
  <2> QED BY Zenon, <1>1, <2>1, ListEffect
<1>3. Scanning(w) /\ AloneScan(w, disk, place)
  BY Zenon, <1>1 DEF AloneInv, Scanning, Reading
<1>4. w.fresh = {} /\ Bases(w.fresh) = {}
  BY Zenon, <1>1 DEF IndInv, ViewInv, ScanInv, Bases
<1>5. view'[v].st \in {"innew", "cur"}
  BY Zenon, <1>2
<1>6. AloneScan(view'[v], disk, place)
  BY Zenon, <1>1, <1>2, <1>3, <1>4, <1>5, AloneList
<1> QED BY Zenon, <1>1, <1>2, <1>3, <1>6, AloneScanStep DEF Alters

\* What the first pass added is still in new/ and is not met again.
LEMMA AloneListCur == ASSUME IndInv, AloneInv, NEW v \in View, ListCur(v) PROVE AloneInv'
<1> DEFINE w == view[v]
<1>1. /\ w.st = "cur" /\ disk' = disk /\ place' = place /\ task' = task
      /\ List(v, 2, "incur", "prune")
  BY Zenon DEF ListCur
<1>2. /\ Alters(v) /\ SameRows(w, view'[v])
      /\ view'[v].left = {<<b, place[b]>> : b \in Pass(2)}
      /\ view'[v].st = IF Pass(2) = {} THEN "prune" ELSE "incur"
  <2>1. "incur" \in Stage /\ "prune" \in Stage
    BY Zenon DEF Stage
  <2> QED BY Zenon, <1>1, <2>1, ListEffect
<1>3. Scanning(w) /\ AloneScan(w, disk, place)
  BY Zenon, <1>1 DEF AloneInv, Scanning, Reading
<1>4. \A b \in Pass(2) : place[b] # "new"
  BY Zenon, BoundsAssumption DEF Pass
<1>5. \A r \in w.fresh : place[r.base] = "new"
  BY Zenon, <1>1, <1>3 DEF AloneScan
<1>6. \A x \in view'[v].left : x[1] \notin Bases(w.fresh)
  BY <1>2, <1>4, <1>5 DEF Bases
<1>7. view'[v].st \in {"incur", "prune"}
  BY Zenon, <1>2
<1>8. AloneScan(view'[v], disk, place)
  BY Zenon, <1>1, <1>2, <1>3, <1>5, <1>6, <1>7, AloneList
<1> QED BY Zenon, <1>1, <1>2, <1>3, <1>8, AloneScanStep DEF Alters

\* A name that is met: a row that is added is for a base that has none.
LEMMA AloneAdd ==
  ASSUME IndInv, NEW v \in View, AloneScan(view[v], disk, place), NEW x,
         NEW at \in {"innew", "incur"}, NEW st, Round(v, x, at, st), place[x[1]] = x[2],
         NEW r, NEW added, Met(v, x, st, r, added)
  PROVE  AloneScan(view'[v], disk, place)
<1> DEFINE w == view[v]
           y == view'[v]
           n == [base |-> x[1], uid |-> r.uid, path |-> x[2]]
<1>1. /\ w \in ViewType /\ ViewInv(w, place, stay) /\ w.st = at /\ x \in w.left
      /\ (st = at \/ st = Past(at))
  BY Zenon DEF IndInv, TypeOK, Round
<1>2. w.uidnext \in Nat /\ disk.un \in Nat /\ w.changed \in BOOLEAN
  BY Zenon, <1>1, ViewFields DEF IndInv, TypeOK
<1>3. /\ RowMet(w, x, r, added, y.uidnext) /\ y.st = st /\ y.left = w.left \ {x}
      /\ y.uidvalidity = w.uidvalidity /\ y.tomb = w.tomb /\ y.dirty = w.dirty
      /\ y.uidmap = w.uidmap \cup added /\ y.fresh = w.fresh \cup added
      /\ y.changed = (w.changed \/ added # {}) /\ y.msgs = w.msgs \cup {n}
  BY Zenon DEF Met
<1>4. n.base = r.base /\ n.uid = r.uid
  BY Zenon, <1>3 DEF RowMet
<1> HIDE DEF y, n
<1>5. disk.un <= w.uidnext /\ w.tomb = {} /\ OneRowEach(w.uidmap)
  BY Zenon, <1>1 DEF AloneScan
<1>6. disk.un <= y.uidnext /\ \A q \in added : disk.un <= q.uid /\ q = r
  <2>1. CASE added = {} /\ y.uidnext = w.uidnext
    BY Zenon, <1>5, <2>1
  <2>2. CASE added = {r} /\ r.uid = w.uidnext /\ y.uidnext = w.uidnext + 1
    <3>1. disk.un <= w.uidnext + 1
      BY <1>2, <1>5
    <3> QED BY Zenon, <1>5, <2>2, <3>1
  <2> QED BY Zenon, <1>3, <2>1, <2>2 DEF RowMet
<1>7. \A q \in w.fresh : q.base # x[1]
  BY Zenon, <1>1 DEF AloneScan, Bases
<1>8. ASSUME NEW p \in added, NEW q \in w.uidmap PROVE p.base # q.base
  <2>1. p.base = x[1] /\ \A u \in w.uidmap \ w.fresh : u.base # x[1]
    BY Zenon, <1>3, <1>8 DEF RowMet
  <2>2. CASE q \in w.fresh
    BY Zenon, <1>7, <2>1, <2>2
  <2>3. CASE q \notin w.fresh
    BY Zenon, <2>1, <2>3
  <2> QED BY Zenon, <2>2, <2>3
<1>9. OneRowEach(y.uidmap)
  BY Zenon, <1>3, <1>5, <1>6, <1>8 DEF OneRowEach
<1>10. \A m \in y.msgs : \E q \in y.uidmap : q.base = m.base /\ q.uid = m.uid
  <2>1. r \in y.uidmap
    BY Zenon, <1>3 DEF RowMet
  <2> QED BY Zenon, <1>3, <1>4, <2>1 DEF AloneScan
<1>11. \A q \in y.uidmap : q \in disk.rows \/ disk.un <= q.uid
  BY Zenon, <1>3, <1>6 DEF AloneScan
<1>12. ~y.changed => y.uidmap = disk.rows
  BY Zenon, <1>2, <1>3 DEF AloneScan
<1>13. ASSUME st \in {"innew", "cur"} PROVE \A q \in y.fresh : place[q.base] = "new"
  <2>1. at = "innew"
    BY Zenon, <1>1, <1>13 DEF Past
  <2>2. x[2] = "new" /\ \A q \in w.fresh : place[q.base] = "new"
    BY Zenon, <1>1, <2>1 DEF ViewInv, LeftInv, AloneScan
  <2> QED BY Zenon, <1>3, <1>6, <2>2 DEF RowMet
<1>14. \A z \in y.left : z[1] \notin Bases(y.fresh)
  <2>1. \A z \in y.left : z \in w.left /\ z[1] # x[1]
    BY Zenon, <1>1, <1>3 DEF ViewInv, LeftInv
  <2>2. \A z \in y.left, q \in w.fresh : q.base # z[1]
    BY Zenon, <1>1, <2>1 DEF AloneScan, Bases
  <2> QED BY Zenon, <1>3, <1>6, <2>1, <2>2 DEF RowMet, Bases
<1>15. y.tomb = {} /\ y.tomb \cap Bases(y.uidmap) = {}
  BY Zenon, <1>3, <1>5
<1>16. y.uidvalidity > 0 /\ disk.uv \in {0, y.uidvalidity} /\ ~y.dirty
  BY Zenon, <1>3 DEF AloneScan
<1> QED BY Zenon, <1>3, <1>6, <1>9, <1>10, <1>11, <1>12, <1>13, <1>14, <1>15, <1>16 DEF AloneScan, y

\* A name that is skipped.
LEMMA AloneSkip ==
  ASSUME IndInv, NEW v \in View, AloneScan(view[v], disk, place), NEW x,
         NEW at \in {"innew", "incur"}, NEW st \in Stage, Round(v, x, at, st), ScanSkip(v, x, st)
  PROVE  AloneScan(view'[v], disk, place)
<1> DEFINE w == view[v]
           y == view'[v]
<1>1. w.st = at /\ (st = at \/ st = Past(at))
  BY Zenon DEF Round
<1>2. SameRows(w, y) /\ y.st = st /\ y.left = w.left \ {x}
  BY Zenon, SkipEffect
<1> HIDE DEF y
<1>3. /\ w.st \in {"innew", "incur"} /\ w.st # "save"
      /\ st \in {"innew", "cur"} => w.st = "innew"
  BY Zenon, <1>1 DEF Past
<1>4. \A z \in y.left : z[1] \notin Bases(y.fresh)
  BY Zenon, <1>2, <1>3 DEF AloneScan, SameRows
<1>5. y.st \in {"innew", "cur"} => \A q \in y.fresh : place[q.base] = "new"
  BY Zenon, <1>2, <1>3 DEF AloneScan, SameRows
<1> QED BY Zenon, <1>2, <1>3, <1>4, <1>5 DEF AloneScan, SameRows, y

LEMMA AloneScanSubdir ==
  ASSUME IndInv, AloneInv, NEW v \in View, NEW at \in {"innew", "incur"},
         ScanSubdir(v, at, Past(at))
  PROVE  AloneInv'
<1>1. PICK x \in view[v].left : \E st \in Stage :
           /\ Round(v, x, at, st)
           /\ \/ place[x[1]] = x[2] /\ ScanAdd(v, x, st)
              \/ place[x[1]] # x[2] /\ ScanSkip(v, x, st)
  BY Zenon, ScanRound
<1>2. PICK st \in Stage :
           /\ Round(v, x, at, st)
           /\ \/ place[x[1]] = x[2] /\ ScanAdd(v, x, st)
              \/ place[x[1]] # x[2] /\ ScanSkip(v, x, st)
  BY Zenon, <1>1
<1>3. /\ disk' = disk /\ place' = place /\ task' = task /\ view[v].st \in Reading
  BY Zenon DEF ScanSubdir, Reading
<1>4. Scanning(view[v]) /\ AloneScan(view[v], disk, place)
  BY Zenon, <1>3 DEF AloneInv, Scanning
<1>5. CASE place[x[1]] = x[2] /\ ScanAdd(v, x, st)
  <2>1. PICK r, added : Met(v, x, st, r, added)
    BY Zenon, <1>3, <1>5, AddEffect
  <2>2. Alters(v) /\ AloneScan(view'[v], disk, place)
    BY Zenon, <1>2, <1>4, <1>5, <2>1, AloneAdd DEF Met
  <2> QED BY Zenon, <1>3, <1>4, <2>2, AloneScanStep DEF Alters
<1>6. CASE ScanSkip(v, x, st)
  <2>1. Alters(v)
    BY Zenon, <1>6, SkipEffect
  <2>2. AloneScan(view'[v], disk, place)
    BY Zenon, <1>2, <1>4, <1>6, AloneSkip
  <2> QED BY Zenon, <1>3, <1>4, <2>1, <2>2, AloneScanStep DEF Alters
<1> QED BY Zenon, <1>2, <1>5, <1>6

LEMMA AloneReading ==
  ASSUME IndInv, AloneInv, NEW v \in View, ListNew(v) \/ ScanNew(v) \/ ListCur(v) \/ ScanCur(v)
  PROVE  AloneInv'
<1>1. Past("innew") = "cur" /\ Past("incur") = "prune"
  BY DEF Past
<1>2. CASE ScanNew(v)
  BY Zenon, <1>1, <1>2, AloneScanSubdir DEF ScanNew
<1>3. CASE ScanCur(v)
  BY Zenon, <1>1, <1>3, AloneScanSubdir DEF ScanCur
<1> QED BY Zenon, <1>2, <1>3, AloneListNew, AloneListCur

\* A view whose scan reads a directory stays one whose scan is not over.
LEMMA ReadingStep ==
  ASSUME IndInv, NEW v \in View, ListNew(v) \/ ScanNew(v) \/ ListCur(v) \/ ScanCur(v)
  PROVE  /\ Alters(v) /\ view[v].st \in Reading /\ view'[v].st # "open"
         /\ disk' = disk /\ told' = told /\ used' = used /\ running' = running
<1>1. Past("innew") = "cur" /\ Past("incur") = "prune"
  BY DEF Past
<1>2. /\ view[v].st \in Reading
      /\ disk' = disk /\ told' = told /\ used' = used /\ running' = running
  BY Zenon DEF ListNew, ScanNew, ListCur, ScanCur, ScanSubdir, Reading
<1>3. ASSUME NEW at \in {"innew", "incur"}, ScanSubdir(v, at, Past(at))
      PROVE  Alters(v) /\ view'[v].st # "open"
  <2>1. PICK x \in view[v].left : \E st \in Stage :
             /\ Round(v, x, at, st)
             /\ \/ place[x[1]] = x[2] /\ ScanAdd(v, x, st)
                \/ place[x[1]] # x[2] /\ ScanSkip(v, x, st)
    BY Zenon, <1>3, ScanRound
  <2>2. PICK st \in Stage :
             /\ Round(v, x, at, st)
             /\ \/ place[x[1]] = x[2] /\ ScanAdd(v, x, st)
                \/ place[x[1]] # x[2] /\ ScanSkip(v, x, st)
    BY Zenon, <2>1
  <2>3. st # "open"
    BY Zenon, <2>2 DEF Round, Past
  <2>4. CASE ScanAdd(v, x, st)
    <3>1. PICK r, added : Met(v, x, st, r, added)
      BY Zenon, <1>2, <2>4, AddEffect
    <3> QED BY Zenon, <2>3, <3>1 DEF Met
  <2>5. CASE ScanSkip(v, x, st)
    BY Zenon, <2>3, <2>5, SkipEffect
  <2> QED BY Zenon, <2>2, <2>4, <2>5
<1>4. CASE ListNew(v)
  <2>1. "innew" \in Stage /\ "cur" \in Stage
    BY Zenon DEF Stage
  <2>2. List(v, 1, "innew", "cur")
    BY Zenon, <1>4 DEF ListNew
  <2>3. Alters(v) /\ view'[v].st = IF Pass(1) = {} THEN "cur" ELSE "innew"
    BY Zenon, <2>1, <2>2, ListEffect
  <2> QED BY Zenon, <1>2, <2>3
<1>5. CASE ListCur(v)
  <2>1. "incur" \in Stage /\ "prune" \in Stage
    BY Zenon DEF Stage
  <2>2. List(v, 2, "incur", "prune")
    BY Zenon, <1>5 DEF ListCur
  <2>3. Alters(v) /\ view'[v].st = IF Pass(2) = {} THEN "prune" ELSE "incur"
    BY Zenon, <2>1, <2>2, ListEffect
  <2> QED BY Zenon, <1>2, <2>3
<1>6. CASE ScanNew(v)
  BY Zenon, <1>1, <1>2, <1>3, <1>6 DEF ScanNew
<1>7. CASE ScanCur(v)
  BY Zenon, <1>1, <1>2, <1>3, <1>7 DEF ScanCur
<1> QED BY Zenon, <1>4, <1>5, <1>6, <1>7

\* The prune drops the rows of bases without a file, and no others.
LEMMA AlonePrune == ASSUME IndInv, AloneInv, NEW v \in View, Prune(v) PROVE AloneInv'
<1> DEFINE w    == view[v]
           x    == view'[v]
           keep == {r \in w.uidmap : \E m \in w.msgs :
                     /\ m.base = r.base /\ m.uid = r.uid
                     /\ \A n \in w.msgs : n.base = r.base => n.uid <= r.uid}
           mv   == {m \in w.msgs : w.move /\ m.path = "new" /\ place[m.base] = "new"}
           out  == (w.msgs \ mv) \cup {[m EXCEPT !.path = NoFlag] : m \in mv}
<1>1. /\ w.st = "prune" /\ disk' = disk /\ task' = task /\ view \in [View -> ViewType]
      /\ view' = [view EXCEPT ![v] =
           [w EXCEPT !.st = "save", !.uidmap = keep,
                     !.tomb = Bases(w.uidmap \ keep),
                     !.changed = @ \/ keep # w.uidmap, !.msgs = out]]
  BY Zenon DEF IndInv, TypeOK, Prune
<1>2. w \in ViewType /\ w.uidmap \in SUBSET Row /\ w.msgs \in SUBSET Msg /\ w.changed \in BOOLEAN
  <2>1. w \in ViewType
    BY Zenon, <1>1
  <2> QED BY Zenon, <2>1, ViewFields
<1>3. Scanning(w) /\ AloneScan(w, disk, place)
  BY Zenon, <1>1 DEF AloneInv, Scanning
<1>4. \A y \in out : \E m \in w.msgs : y.base = m.base /\ y.uid = m.uid
  BY Zenon, <1>2 DEF Msg
<1>5. \A m \in w.msgs : \E r \in keep : r.base = m.base /\ r.uid = m.uid
  <2> SUFFICES ASSUME NEW m \in w.msgs PROVE \E r \in keep : r.base = m.base /\ r.uid = m.uid
    BY Zenon
  <2>1. PICK r \in w.uidmap : r.base = m.base /\ r.uid = m.uid
    BY Zenon, <1>3 DEF AloneScan
  <2>2. ASSUME NEW n \in w.msgs, n.base = r.base PROVE n.uid <= r.uid
    <3>1. PICK q \in w.uidmap : q.base = n.base /\ q.uid = n.uid
      BY Zenon, <1>3 DEF AloneScan
    <3>2. q = r
      BY <1>3, <2>1, <2>2, <3>1 DEF AloneScan, OneRowEach
    <3>3. r.uid \in Nat
      BY Zenon, <1>2, <2>1, RowFields
    <3> QED BY <3>1, <3>2, <3>3
  <2>3. r \in keep
    BY Zenon, <2>1, <2>2
  <2> QED BY Zenon, <2>1, <2>3
<1>6. keep \in SUBSET w.uidmap
  BY Zenon
<1> HIDE DEF keep, mv, out
<1>7. /\ x.st = "save" /\ x.uidvalidity = w.uidvalidity /\ x.dirty = w.dirty
      /\ x.uidnext = w.uidnext /\ x.uidmap = keep /\ x.msgs = out
      /\ x.tomb = Bases(w.uidmap \ keep) /\ x.changed = (w.changed \/ keep # w.uidmap)
      /\ \A u \in View \ {v} : view'[u] = view[u]
  BY Zenon, <1>1, <1>2 DEF ViewType
<1> HIDE DEF x
<1>8. x.tomb \cap Bases(x.uidmap) = {}
  BY <1>3, <1>6, <1>7, SMTT(30) DEF AloneScan, OneRowEach, Bases
<1>9. OneRowEach(x.uidmap) /\ \A r \in x.uidmap : r \in disk.rows \/ disk.un <= r.uid
  BY Zenon, <1>3, <1>6, <1>7 DEF AloneScan, OneRowEach
<1>10. ~x.changed => x.uidmap = disk.rows
  BY Zenon, <1>2, <1>3, <1>7 DEF AloneScan
<1>11. \A y \in x.msgs : \E r \in x.uidmap : r.base = y.base /\ r.uid = y.uid
  <2> SUFFICES ASSUME NEW y \in out PROVE \E r \in keep : r.base = y.base /\ r.uid = y.uid
    BY Zenon, <1>7
  <2>1. PICK m \in w.msgs : y.base = m.base /\ y.uid = m.uid
    BY Zenon, <1>4
  <2> QED BY Zenon, <1>5, <2>1
<1>12. AloneScan(x, disk, place')
  BY Zenon, <1>3, <1>7, <1>8, <1>9, <1>10, <1>11 DEF AloneScan
<1> QED BY Zenon, <1>1, <1>3, <1>7, <1>12, AloneScanStep DEF x

\* No task is in the middle of a registration.
LEMMA NoRegister == ASSUME NEW dk PROVE AloneRegister(Idle, dk)
BY Zenon DEF AloneRegister, Idle

LEMMA AloneSaveScan == ASSUME IndInv, AloneInv, NEW v \in View, SaveScan(v) PROVE AloneInv'
<1>1. view[v].st = "save" /\ task' = [task EXCEPT ![DaemonOf(v)] = Idle]
      /\ task \in [Daemon -> TaskType] /\ view \in [View -> ViewType]
  BY Zenon DEF IndInv, TypeOK, SaveScan
<1>2. task["imapd"] = <<"scan", v>> /\ DaemonOf(v) = "imapd"
  BY Zenon, <1>1 DEF AloneInv, Scanning
<1>3. task'["imapd"] = Idle
  BY Zenon, <1>1, <1>2 DEF Daemon
<1>4. \A u \in View \ {v} : ~Scanning(view[u])
  BY <1>2, SMTT(30) DEF AloneInv
<1>5. view'[v].st \in {"closed", "open"} /\ \A u \in View \ {v} : view'[u] = view[u]
  <2>1. CASE Open(v)
    BY Zenon, <1>1, <2>1, OpenEffect
  <2>2. CASE view' = [view EXCEPT ![v] = Closed]
    BY Zenon, <1>1, <2>2 DEF Closed
  <2> QED BY Zenon, <2>1, <2>2 DEF SaveScan
<1>6. \A u \in View : view'[u].st \in {"closed", "open"}
  BY Zenon, <1>4, <1>5, ViewStates
<1>7. \A u \in View : view'[u].st # "closed" => DaemonOf(u) = "imapd"
  BY Zenon, <1>2, <1>5 DEF AloneInv
<1> QED BY Zenon, <1>3, <1>6, <1>7, NoRegister, AloneRest

\* A flag change leaves the view open and gives no message another uid.
LEMMA StoreEffect ==
  ASSUME IndInv, NEW v \in View, Store(v)
  PROVE  /\ view'[v].st = "open" /\ view'[v].uidvalidity = view[v].uidvalidity
         /\ \A u \in View \ {v} : view'[u] = view[u]
         /\ view[v].msgs # {} /\ Pairs(view'[v].msgs) \subseteq Pairs(view[v].msgs)
         /\ Pairs(view'[v].uidmap) \subseteq Pairs(view[v].uidmap) \cup Pairs(view[v].msgs)
<1> DEFINE w  == view[v]
           x  == view'[v]
           hi == w.highestmodseq + 1
<1>1. w.st = "open" /\ view \in [View -> ViewType] /\ w \in ViewType /\ w.msgs \in SUBSET Msg
  <2>1. w.st = "open" /\ view \in [View -> ViewType] /\ w \in ViewType
    BY Zenon DEF IndInv, TypeOK, Store, Ready
  <2> QED BY Zenon, <2>1, ViewFields
<1>2. PICK m \in w.msgs, f \in Flag :
           /\ place[m.base] = m.path
           /\ place' = [place EXCEPT ![m.base] = f]
           /\ view' = [view EXCEPT ![v] =
                [w EXCEPT !.msgs = (@ \ {m}) \cup {[m EXCEPT !.path = f]},
                          !.highestmodseq = hi,
                          !.uidmap = {r \in @ : r.uid # m.uid} \cup
                            {[base |-> m.base, uid |-> m.uid, modseq |-> hi]},
                          !.dirty = TRUE]]
  BY Zenon DEF Store
<1> DEFINE y   == [m EXCEPT !.path = f]
           row == [base |-> m.base, uid |-> m.uid, modseq |-> hi]
           old == {r \in w.uidmap : r.uid # m.uid}
<1>3. y.base = m.base /\ y.uid = m.uid /\ row.base = m.base /\ row.uid = m.uid /\ m \in w.msgs
  BY Zenon, <1>1, <1>2 DEF Msg
<1>4. /\ x.st = "open" /\ x.uidvalidity = w.uidvalidity /\ \A u \in View \ {v} : view'[u] = view[u]
      /\ x.msgs = (w.msgs \ {m}) \cup {y} /\ x.uidmap = old \cup {row}
  BY Zenon, <1>1, <1>2 DEF ViewType
<1> HIDE DEF x, y, row
<1>5. Pairs(x.msgs) \subseteq Pairs(w.msgs)
  BY <1>3, <1>4, SMTT(30) DEF Pairs
<1>6. Pairs(x.uidmap) \subseteq Pairs(w.uidmap) \cup Pairs(w.msgs)
  BY <1>3, <1>4, SMTT(30) DEF Pairs
<1> QED BY Zenon, <1>3, <1>4, <1>5, <1>6 DEF x

\* What clients do with an open view.
LEMMA AloneClient ==
  ASSUME IndInv, AloneInv, NEW v \in View, Store(v) \/ Expunge(v) \/ MoveOut(v) \/ Close(v)
  PROVE  AloneInv'
<1>1. Ready(v) /\ task' = task
  BY Zenon DEF Store, Expunge, MoveOut, Close
<1>2. /\ DaemonOf(v) = "imapd" /\ task["imapd"] = Idle
      /\ \A u \in View : view[u].st \in {"closed", "open"}
  BY Zenon, <1>1, AloneReady
<1>3. view \in [View -> ViewType] /\ view[v] \in ViewType
  BY Zenon DEF IndInv, TypeOK
<1>4. ASSUME NEW m, Forget(v, m)
      PROVE  view'[v].st = view[v].st /\ \A u \in View \ {v} : view'[u] = view[u]
  BY Zenon, <1>3, <1>4 DEF Forget, ViewType
<1>5. view'[v].st \in {"closed", "open"} /\ \A u \in View \ {v} : view'[u] = view[u]
  <2>1. CASE Store(v)
    BY Zenon, <2>1, StoreEffect
  <2>2. CASE Expunge(v)
    BY Zenon, <1>2, <1>4, <2>2 DEF Expunge
  <2>3. CASE MoveOut(v)
    BY Zenon, <1>2, <1>4, <2>3 DEF MoveOut
  <2>4. CASE Close(v)
    BY Zenon, <1>3, <2>4 DEF Close, Closed
  <2> QED BY Zenon, <2>1, <2>2, <2>3, <2>4
<1>6. \A u \in View : view'[u].st \in {"closed", "open"}
  BY Zenon, <1>2, <1>5
<1>7. \A u \in View : view'[u].st # "closed" => DaemonOf(u) = "imapd"
  BY Zenon, <1>2, <1>5 DEF AloneInv
<1> QED BY Zenon, <1>1, <1>2, <1>6, <1>7, NoRegister, AloneRest

\* Messages that arrive, and what imapd does to register them.
LEMMA AloneArrival ==
  ASSUME IndInv, Alone, AloneInv, NEW d \in running, NEW b \in Base,
         Deliver(b) \/ Put(d, b) \/ RegisterLoad(d, b) \/ RegisterSave(d, b)
  PROVE  AloneInv'
<1>1. d = "imapd" /\ task \in [Daemon -> TaskType] /\ now \in Nat \ {0}
      /\ disk \in [uv : Nat, un : Nat, rows : SUBSET Row] /\ "imapd" \in Daemon
  BY Zenon DEF IndInv, TypeOK, Alone, Daemon
<1>2. task["imapd"][1] # "scan" /\ view' = view
  BY <1>1, SMTT(30) DEF Deliver, Put, RegisterLoad, RegisterSave, Free, Idle
<1>3. /\ \A u \in View : view'[u].st \in {"closed", "open"}
      /\ \A u \in View : view'[u].st # "closed" => DaemonOf(u) = "imapd"
  BY Zenon, <1>2, NoScan, ViewStates DEF AloneInv
<1>4. AloneRegister(task'["imapd"], disk')
  <2>1. CASE Deliver(b)
    BY <2>1, SMTT(30) DEF Deliver, Free, AloneRegister, Idle
  <2>2. CASE Put(d, b)
    BY Zenon, <1>1, <2>2 DEF Put, AloneRegister
  <2>3. CASE RegisterLoad(d, b)
    <3> DEFINE new  == [base |-> b, uid |-> Loaded.un, modseq |-> Loaded.un + 1]
               wait == <<"register", b, Loaded.uv, Loaded.un + 1, Loaded.rows \cup {new}>>
    <3>1. disk' = disk /\ task'["imapd"] \in {Idle, wait}
      BY Zenon, <1>1, <2>3 DEF RegisterLoad
    <3>2. Loaded.uv > 0 /\ disk.uv \in {0, Loaded.uv} /\ Loaded.un = disk.un /\ Loaded.rows = disk.rows
      BY <1>1 DEF Loaded
    <3>3. disk.un \in Nat /\ new.uid = disk.un
      BY Zenon, <1>1, <3>2
    <3> HIDE DEF new
    <3>4. \A r \in Loaded.rows \cup {new} : r \in disk.rows \/ disk.un <= r.uid
      BY <3>2, <3>3
    <3>5. disk.un <= Loaded.un + 1
      BY <3>2, <3>3
    <3>6. AloneRegister(wait, disk)
      BY Zenon, <3>2, <3>4, <3>5 DEF AloneRegister
    <3> QED BY Zenon, <3>1, <3>6, NoRegister
  <2>4. CASE RegisterSave(d, b)
    BY Zenon, <1>1, <2>4, NoRegister DEF RegisterSave
  <2> QED BY Zenon, <2>1, <2>2, <2>3, <2>4
<1> QED BY Zenon, <1>3, <1>4, AloneRest

LEMMA AloneCrash == ASSUME IndInv, Alone, AloneInv, NEW d \in running, Crash(d) PROVE AloneInv'
<1>1. d = "imapd" /\ task \in [Daemon -> TaskType] /\ "imapd" \in Daemon
  BY Zenon DEF IndInv, TypeOK, Alone, Daemon
<1>2. /\ view' = [v \in View |-> IF DaemonOf(v) = d THEN Closed ELSE view[v]]
      /\ task' = [task EXCEPT ![d] = Idle]
  BY Zenon DEF Crash
<1>3. \A v \in View : view'[v].st = "closed"
  BY Zenon, <1>1, <1>2 DEF AloneInv, Closed
<1>4. task'["imapd"] = Idle
  BY Zenon, <1>1, <1>2
<1> QED BY Zenon, <1>3, <1>4, NoRegister, AloneRest

-----------------------------------------------------------------------------
(* imapd alone, every save under the lock: one message per uid.  One lemma   *)
(* for each kind of action: it keeps NamesInv.                               *)

\* Names are numbers and bases.
LEMMA NamesAreTyped == ASSUME IndInv PROVE Names(told, disk, view) \in SUBSET (Nat \X Base)
<1>1. Pairs(told) \in SUBSET (Nat \X Base)
  BY DEF IndInv, TypeOK, Pairs
<1>2. \A R \in SUBSET Row : Pairs(R) \in SUBSET (Nat \X Base)
  BY RowFields DEF Pairs
<1>3. \A M \in SUBSET Msg : Pairs(M) \in SUBSET (Nat \X Base)
  BY MsgFields DEF Pairs
<1>4. disk.rows \in SUBSET Row /\ \A v \in View : view[v].uidmap \in SUBSET Row /\ view[v].msgs \in SUBSET Msg
  BY Zenon, ViewFields DEF IndInv, TypeOK
<1>5. Pairs(disk.rows) \in SUBSET (Nat \X Base)
  BY Zenon, <1>2, <1>4
<1>6. \A v \in View : Pairs(view[v].uidmap) \in SUBSET (Nat \X Base) /\ Pairs(view[v].msgs) \in SUBSET (Nat \X Base)
  BY Zenon, <1>2, <1>3, <1>4
<1> QED BY Zenon, <1>1, <1>5, <1>6 DEF Names

\* What is a name.
LEMMA NamesHold ==
  ASSUME NEW tl, NEW dk, NEW vw
  PROVE  /\ Pairs(tl) \in SUBSET Names(tl, dk, vw) /\ Pairs(dk.rows) \in SUBSET Names(tl, dk, vw)
         /\ \A v \in View : vw[v].st = "open" =>
              /\ Pairs(vw[v].uidmap) \in SUBSET Names(tl, dk, vw)
              /\ Pairs(vw[v].msgs) \in SUBSET Names(tl, dk, vw)
BY DEF Names

\* Names are within a set if all of their sources are.
LEMMA NamesWithin ==
  ASSUME NEW tl, NEW dk, NEW vw, NEW X, Pairs(tl) \in SUBSET X, Pairs(dk.rows) \in SUBSET X,
         \A v \in View : vw[v].st = "open" =>
           Pairs(vw[v].uidmap) \in SUBSET X /\ Pairs(vw[v].msgs) \in SUBSET X
  PROVE  Names(tl, dk, vw) \in SUBSET X
BY Zenon DEF Names

\* Rows with uids that were not given out may join the names.
LEMMA NamesGrow ==
  ASSUME NEW N \in SUBSET (Nat \X Base), NEW un \in Nat, OneNameEach(N, un),
         NEW R \in SUBSET Row, UniqueUids(R), \A r \in R : <<r.uid, r.base>> \in N \/ un <= r.uid,
         NEW un2 \in Nat, un <= un2, \A r \in R : r.uid < un2,
         NEW M \in SUBSET (N \cup Pairs(R))
  PROVE  OneNameEach(M, un2)
<1>1. ASSUME NEW x \in M PROVE x \in N \/ \E r \in R : x = <<r.uid, r.base>> /\ un <= r.uid
  BY Zenon DEF Pairs
<1>2. \A x \in N : x[1] \in Nat /\ x[1] < un
  BY Zenon DEF OneNameEach
<1>3. \A r \in R : r.uid \in Nat
  BY Zenon, RowFields
<1>4. ASSUME NEW x \in M PROVE x[1] < un2
  <2>1. CASE x \in N
    BY <1>2, <2>1
  <2>2. CASE \E r \in R : x = <<r.uid, r.base>> /\ un <= r.uid
    BY <2>2
  <2> QED BY Zenon, <1>1, <2>1, <2>2
<1>5. ASSUME NEW x \in M, NEW y \in M, x[1] = y[1] PROVE x[2] = y[2]
  <2>1. CASE x \in N /\ y \in N
    BY Zenon, <1>5, <2>1 DEF OneNameEach
  <2>2. ASSUME NEW z \in N, NEW r \in R, z[1] = r.uid, un <= r.uid PROVE FALSE
    BY <1>2, <1>3, <2>2
  <2>3. CASE x \in N /\ y \notin N
    <3>1. PICK r \in R : y = <<r.uid, r.base>> /\ un <= r.uid
      BY Zenon, <1>1, <2>3
    <3> QED BY Zenon, <1>5, <2>2, <2>3, <3>1
  <2>4. CASE x \notin N /\ y \in N
    <3>1. PICK r \in R : x = <<r.uid, r.base>> /\ un <= r.uid
      BY Zenon, <1>1, <2>4
    <3> QED BY Zenon, <1>5, <2>2, <2>4, <3>1
  <2>5. CASE x \notin N /\ y \notin N
    <3>1. PICK r \in R : x = <<r.uid, r.base>>
      BY Zenon, <1>1, <2>5
    <3>2. PICK q \in R : y = <<q.uid, q.base>>
      BY Zenon, <1>1, <2>5
    <3>3. r.uid = q.uid
      BY Zenon, <1>5, <3>1, <3>2
    <3>4. r = q
      BY Zenon, <3>3 DEF UniqueUids
    <3> QED BY Zenon, <3>1, <3>2, <3>4
  <2> QED BY Zenon, <2>1, <2>3, <2>4, <2>5
<1> QED BY Zenon, <1>4, <1>5 DEF OneNameEach

\* Fewer names, or a counter that has gone on.
LEMMA NamesShrink ==
  ASSUME NEW N \in SUBSET (Nat \X Base), NEW un \in Nat, OneNameEach(N, un),
         NEW un2 \in Nat, un <= un2, NEW M \in SUBSET N
  PROVE  OneNameEach(M, un2)
BY DEF OneNameEach

\* A step that leaves the sidecar alone, tells of its rows at most, and leaves
\* in the open views only what was there.
LEMMA NamesStay ==
  ASSUME IndInv, NamesInv(told, disk, view), disk' = disk,
         \A t \in told' : t \in told \/ (t.uv = disk.uv /\ disk.uv > 0),
         Pairs(told') \in SUBSET Names(told, disk, view),
         \A v \in View : view'[v].st = "open" =>
           /\ Pairs(view'[v].uidmap) \in SUBSET Names(told, disk, view)
           /\ Pairs(view'[v].msgs) \in SUBSET Names(told, disk, view)
           /\ \/ view'[v].uidvalidity = disk.uv /\ disk.uv > 0
              \/ view'[v].uidmap = {} /\ view'[v].msgs = {} /\ ~view'[v].dirty
  PROVE  NamesInv(told', disk', view')
<1> DEFINE N == Names(told, disk, view)
           M == Names(told', disk', view')
<1>1. N \in SUBSET (Nat \X Base) /\ OneNameEach(N, disk.un) /\ disk.un \in Nat
  BY Zenon, NamesAreTyped DEF IndInv, TypeOK, NamesInv
<1>2. Pairs(disk'.rows) \in SUBSET N
  BY Zenon, NamesHold
<1>3. M \in SUBSET N
  BY Zenon, <1>2, NamesWithin
<1> HIDE DEF N, M
<1>4. OneNameEach(M, disk'.un)
  BY <1>1, <1>3, NamesShrink, SMTT(30)
<1>5. \A t \in told' : t.uv = disk'.uv /\ disk'.uv > 0
  BY Zenon DEF NamesInv
<1>6. disk'.uv = 0 => disk'.rows = {}
  BY Zenon DEF NamesInv
<1> QED BY Zenon, <1>4, <1>5, <1>6 DEF NamesInv, M

\* A step that leaves every open view as it was, or closes it.
LEMMA NamesQuiet ==
  ASSUME IndInv, NamesInv(told, disk, view), disk' = disk, told' = told,
         \A v \in View : view'[v].st = "open" => view'[v] = view[v]
  PROVE  NamesInv(told', disk', view')
<1>1. ASSUME NEW v \in View, view'[v].st = "open"
      PROVE  /\ Pairs(view'[v].uidmap) \in SUBSET Names(told, disk, view)
             /\ Pairs(view'[v].msgs) \in SUBSET Names(told, disk, view)
             /\ \/ view'[v].uidvalidity = disk.uv /\ disk.uv > 0
                \/ view'[v].uidmap = {} /\ view'[v].msgs = {} /\ ~view'[v].dirty
  <2>1. view'[v] = view[v] /\ view[v].st = "open"
    BY Zenon, <1>1
  <2>2. /\ Pairs(view[v].uidmap) \in SUBSET Names(told, disk, view)
        /\ Pairs(view[v].msgs) \in SUBSET Names(told, disk, view)
    BY Zenon, <2>1, NamesHold
  <2> QED BY Zenon, <2>1, <2>2 DEF NamesInv
<1>2. Pairs(told') \in SUBSET Names(told, disk, view) /\ \A t \in told' : t \in told
  BY Zenon, NamesHold
<1> QED BY Zenon, <1>1, <1>2, NamesStay

\* A client's step on an open view.
LEMMA NamesClient ==
  ASSUME IndInv, NamesInv(told, disk, view), NEW v \in View, Store(v) \/ Expunge(v) \/ MoveOut(v)
  PROVE  NamesInv(told', disk', view')
<1> DEFINE w == view[v]
           N == Names(told, disk, view)
<1>1. /\ w.st = "open" /\ disk' = disk /\ told' = told /\ view \in [View -> ViewType] /\ w \in ViewType
  BY Zenon DEF IndInv, TypeOK, Store, Expunge, MoveOut, Ready
<1>2. Pairs(w.uidmap) \in SUBSET N /\ Pairs(w.msgs) \in SUBSET N /\ Pairs(told') \in SUBSET N
  BY Zenon, <1>1, NamesHold
<1>3. w.msgs # {} => w.uidvalidity = disk.uv /\ disk.uv > 0
  BY Zenon, <1>1 DEF NamesInv
<1>4. CASE view' = view
  BY Zenon, <1>1, <1>4, NamesQuiet
<1>5. CASE /\ w.msgs # {} /\ view'[v].uidvalidity = w.uidvalidity
           /\ \A u \in View \ {v} : view'[u] = view[u]
           /\ Pairs(view'[v].msgs) \in SUBSET N /\ Pairs(view'[v].uidmap) \in SUBSET N
  <2>1. ASSUME NEW u \in View, view'[u].st = "open"
        PROVE  /\ Pairs(view'[u].uidmap) \in SUBSET N
               /\ Pairs(view'[u].msgs) \in SUBSET N
               /\ \/ view'[u].uidvalidity = disk.uv /\ disk.uv > 0
                  \/ view'[u].uidmap = {} /\ view'[u].msgs = {} /\ ~view'[u].dirty
    <3>1. CASE u = v
      BY Zenon, <1>3, <1>5, <3>1
    <3>2. CASE u # v
      <4>1. view'[u] = view[u] /\ view[u].st = "open"
        BY Zenon, <1>5, <2>1, <3>2
      <4>2. Pairs(view[u].uidmap) \in SUBSET N /\ Pairs(view[u].msgs) \in SUBSET N
        BY Zenon, <4>1, NamesHold
      <4> QED BY Zenon, <4>1, <4>2 DEF NamesInv
    <3> QED BY Zenon, <3>1, <3>2
  <2> HIDE DEF N
  <2>2. \A t \in told' : t \in told
    BY Zenon, <1>1
  <2>3. disk' = disk
    BY Zenon, <1>1
  <2> QED BY Zenon, <1>2, <2>1, <2>2, <2>3, NamesStay DEF N
<1>6. ASSUME NEW m \in w.msgs, Forget(v, m)
      PROVE  /\ view'[v].uidvalidity = w.uidvalidity /\ \A u \in View \ {v} : view'[u] = view[u]
             /\ Pairs(view'[v].msgs) \in SUBSET N /\ Pairs(view'[v].uidmap) \in SUBSET N
  <2>1. /\ view'[v].uidvalidity = w.uidvalidity /\ \A u \in View \ {v} : view'[u] = view[u]
        /\ view'[v].msgs \in SUBSET w.msgs /\ view'[v].uidmap \in SUBSET w.uidmap
    BY Zenon, <1>1, <1>6 DEF Forget, ViewType
  <2>2. Pairs(view'[v].msgs) \in SUBSET Pairs(w.msgs) /\ Pairs(view'[v].uidmap) \in SUBSET Pairs(w.uidmap)
    BY Zenon, <2>1 DEF Pairs
  <2> HIDE DEF N
  <2> QED BY Zenon, <1>2, <2>1, <2>2
<1> HIDE DEF N
<1>7. CASE Store(v)
  BY Zenon, <1>2, <1>5, <1>7, StoreEffect
<1>8. CASE Expunge(v)
  BY Zenon, <1>5, <1>6, <1>8 DEF Expunge
<1>9. CASE MoveOut(v)
  BY Zenon, <1>4, <1>5, <1>6, <1>9 DEF MoveOut
<1> QED BY Zenon, <1>7, <1>8, <1>9

\* A merge of two tables that agree on their uids is within their union.
LEMMA MergeWithoutClash ==
  ASSUME disk \in [uv : Nat, un : Nat, rows : SUBSET Row], Sound(disk.rows, disk.un),
         NEW uv, NEW un, NEW rows \in SUBSET Row, Sound(rows, un), NEW tomb,
         Written(uv, un, rows, tomb),
         \A r \in disk.rows, q \in rows : r.uid = q.uid => r.base = q.base
  PROVE  disk'.rows \in SUBSET (disk.rows \cup rows)
<1> DEFINE dr == DiskRows(uv, tomb)
           mr == CallerRows(uv, rows, tomb)
<1>1. dr \in SUBSET disk.rows /\ mr \in SUBSET rows
  BY Zenon DEF CallerRows, DiskRows
<1>2. OneRowEach(dr) /\ OneRowEach(mr) /\ dr \in SUBSET Row /\ mr \in SUBSET Row
  BY Zenon, <1>1 DEF Sound, OneRowEach
<1> HIDE DEF dr, mr
<1>3. Merged(dr, mr) \in SUBSET (dr \cup mr) /\ OneRowEach(Merged(dr, mr))
  BY Zenon, <1>2, MergedRows
<1>4. \A r, q \in dr \cup mr : r.uid = q.uid => r.base = q.base
  <2>1. UniqueUids(disk.rows) /\ UniqueUids(rows)
    BY Zenon DEF Sound, Counted
  <2> QED BY Zenon, <1>1, <2>1 DEF UniqueUids
<1>5. UniqueUids(Merged(dr, mr))
  BY Zenon, <1>3, <1>4 DEF UniqueUids, OneRowEach
<1>6. disk'.rows = Merged(dr, mr)
  BY Zenon, <1>5 DEF Written, dr, mr
<1> QED BY Zenon, <1>1, <1>3, <1>6

\* A save of rows that are the sidecar's or have uids past its counter: the
\* names after it are those from before and the ones of the rows.
LEMMA NamesSaved ==
  ASSUME IndInv, NamesInv(told, disk, view), NEW uv \in Nat, uv > 0, disk.uv \in {0, uv},
         NEW un \in Nat, NEW rows \in SUBSET Row, Sound(rows, un), NEW tomb,
         \A r \in rows : r \in disk.rows \/ disk.un <= r.uid, Written(uv, un, rows, tomb)
  PROVE  /\ disk'.uv = uv /\ disk'.rows \in SUBSET (disk.rows \cup rows)
         /\ Pairs(disk'.rows) \in SUBSET (Names(told, disk, view) \cup Pairs(rows))
         /\ \A M \in SUBSET (Names(told, disk, view) \cup Pairs(rows)) : OneNameEach(M, disk'.un)
<1> DEFINE N == Names(told, disk, view)
<1>1. /\ disk \in [uv : Nat, un : Nat, rows : SUBSET Row] /\ Sound(disk.rows, disk.un)
      /\ disk.un \in Nat /\ disk.uv \in Nat /\ disk.rows \in SUBSET Row
  BY Zenon DEF IndInv, TypeOK
<1>2. disk'.uv = uv
  <2>1. disk'.uv \in {uv, disk.uv} /\ uv <= disk'.uv
    BY Zenon, <1>1, MaxOfTwo DEF Written
  <2> QED BY <2>1, SMTT(30)
<1>3. disk'.rows \in SUBSET (disk.rows \cup rows)
  <2>1. ASSUME NEW r \in disk.rows, NEW q \in rows, r.uid = q.uid PROVE r.base = q.base
    <3>1. CASE q \in disk.rows
      BY Zenon, <1>1, <2>1, <3>1 DEF Sound, Counted, UniqueUids
    <3>2. CASE disk.un <= q.uid
      <4>1. r.uid < disk.un /\ r.uid \in Nat
        BY Zenon, <1>1, RowFields DEF Sound, Counted
      <4> QED BY <1>1, <2>1, <3>2, <4>1
    <3> QED BY Zenon, <3>1, <3>2
  <2> QED BY Zenon, <1>1, <2>1, MergeWithoutClash
<1>4. N \in SUBSET (Nat \X Base) /\ OneNameEach(N, disk.un) /\ Pairs(disk.rows) \in SUBSET N
  BY Zenon, NamesAreTyped, NamesHold DEF NamesInv
<1>5. Pairs(disk'.rows) \in SUBSET (N \cup Pairs(rows))
  <2>1. Pairs(disk'.rows) \in SUBSET (Pairs(disk.rows) \cup Pairs(rows))
    BY Zenon, <1>3 DEF Pairs
  <2> HIDE DEF N
  <2> QED BY Zenon, <1>4, <2>1
<1>6. \A r \in rows : <<r.uid, r.base>> \in N \/ disk.un <= r.uid
  <2>1. \A r \in disk.rows : <<r.uid, r.base>> \in Pairs(disk.rows)
    BY Zenon DEF Pairs
  <2> HIDE DEF N
  <2> QED BY Zenon, <1>4, <2>1
<1>7. UniqueUids(rows) /\ disk'.un \in Nat /\ disk.un <= disk'.un /\ \A r \in rows : r.uid < disk'.un
  <2>1. UniqueUids(rows) /\ \A r \in rows : r.uid < un
    BY Zenon DEF Sound, Counted
  <2>2. disk'.un \in Nat /\ disk.un <= disk'.un /\ un <= disk'.un
    BY Zenon DEF Written
  <2>3. \A r \in rows : r.uid \in Nat
    BY Zenon, RowFields
  <2> QED BY <2>1, <2>2, <2>3, SMTT(30)
<1> HIDE DEF N
<1>8. \A M \in SUBSET (N \cup Pairs(rows)) : OneNameEach(M, disk'.un)
  BY Zenon, <1>1, <1>4, <1>6, <1>7, NamesGrow
<1> QED BY Zenon, <1>2, <1>3, <1>5, <1>8 DEF N

\* After such a save.
LEMMA NamesAfterSave ==
  ASSUME IndInv, NamesInv(told, disk, view), NEW uv \in Nat, uv > 0, disk.uv \in {0, uv},
         disk'.uv = uv, NEW X, \A M \in SUBSET X : OneNameEach(M, disk'.un),
         Names(told, disk, view) \in SUBSET X, Pairs(disk'.rows) \in SUBSET X,
         Pairs(told') \in SUBSET X, \A t \in told' : t \in told \/ t.uv = uv,
         \A v \in View : view'[v].st = "open" => 
           \/ view'[v] = view[v]
           \/ /\ view'[v].uidvalidity = uv
              /\ Pairs(view'[v].uidmap) \in SUBSET X /\ Pairs(view'[v].msgs) \in SUBSET X
  PROVE  NamesInv(told', disk', view')
<1> DEFINE M == Names(told', disk', view')
<1>1. ASSUME NEW v \in View, view'[v].st = "open"
      PROVE  /\ Pairs(view'[v].uidmap) \in SUBSET X /\ Pairs(view'[v].msgs) \in SUBSET X
             /\ \/ view'[v].uidvalidity = uv
                \/ view'[v].uidmap = {} /\ view'[v].msgs = {} /\ ~view'[v].dirty
  <2>1. CASE view'[v] = view[v]
    <3>1. view[v].st = "open"
      BY Zenon, <1>1, <2>1
    <3>2. /\ Pairs(view[v].uidmap) \in SUBSET Names(told, disk, view)
          /\ Pairs(view[v].msgs) \in SUBSET Names(told, disk, view)
      BY Zenon, <3>1, NamesHold
    <3>3. \/ view[v].uidvalidity = uv
          \/ view[v].uidmap = {} /\ view[v].msgs = {} /\ ~view[v].dirty
      BY <3>1, SMTT(30) DEF NamesInv
    <3> QED BY Zenon, <2>1, <3>2, <3>3
  <2>2. CASE view'[v] # view[v]
    BY Zenon, <1>1, <2>2
  <2> QED BY Zenon, <2>1, <2>2
<1>2. M \in SUBSET X
  BY Zenon, <1>1, NamesWithin
<1> HIDE DEF M
<1>3. OneNameEach(M, disk'.un)
  BY Zenon, <1>2
<1>4. \A t \in told' : t.uv = uv
  BY SMTT(30) DEF NamesInv
<1> QED BY <1>1, <1>3, <1>4, SMTT(30) DEF NamesInv, M

\* The end of a scan.
LEMMA NamesSaveScan ==
  ASSUME IndInv, AloneInv, NamesInv(told, disk, view), used'.blind = used.blind,
         NEW v \in View, SaveScan(v)
  PROVE  NamesInv(told', disk', view')
<1> DEFINE w == view[v]
           N == Names(told, disk, view)
           X == N \cup Pairs(w.uidmap)
<1>1. w.st = "save"
  BY Zenon DEF SaveScan
<1>2. /\ w.uidvalidity \in Nat /\ w.uidnext \in Nat /\ w.uidmap \in SUBSET Row
      /\ Sound(w.uidmap, w.uidnext) /\ view \in [View -> ViewType]
  BY Zenon, <1>1, SnapshotIsSound
<1>3. AloneScan(w, disk, place)
  BY Zenon, <1>1 DEF AloneInv, Scanning
<1>4. Pairs(w.msgs) \in SUBSET Pairs(w.uidmap)
  <2> SUFFICES ASSUME NEW m \in w.msgs PROVE <<m.uid, m.base>> \in Pairs(w.uidmap)
    BY Zenon DEF Pairs
  <2>1. PICK r \in w.uidmap : r.base = m.base /\ r.uid = m.uid
    BY Zenon, <1>3 DEF AloneScan
  <2> QED BY Zenon, <2>1 DEF Pairs
<1>5. ASSUME Open(v)
      PROVE  /\ Pairs(told') \in SUBSET (Pairs(told) \cup Pairs(w.msgs))
             /\ \A t \in told' : t \in told \/ (t.uv = w.uidvalidity /\ w.msgs # {})
             /\ \A u \in View \ {v} : view'[u] = view[u]
             /\ view'[v].uidvalidity = w.uidvalidity /\ view'[v].uidmap = w.uidmap
             /\ view'[v].msgs = w.msgs /\ view'[v].dirty = w.dirty
  <2>1. told' = told \/ Tell(w.uidvalidity, w.msgs)
    BY Zenon, <1>5 DEF Open
  <2>2. Pairs(told') \in SUBSET (Pairs(told) \cup Pairs(w.msgs))
    BY <2>1, SMTT(30) DEF Tell, Pairs
  <2>3. \A t \in told' : t \in told \/ (t.uv = w.uidvalidity /\ w.msgs # {})
    BY <2>1 DEF Tell
  <2> QED BY <1>1, <1>5, <2>2, <2>3, OpenEffect
<1>6. Pairs(told) \in SUBSET N /\ Pairs(disk.rows) \in SUBSET N
  BY Zenon, NamesHold
<1>7. CASE ~w.changed /\ Open(v) /\ UNCHANGED <<disk, used>>
  <2>1. w.uidmap = disk.rows
    BY Zenon, <1>3, <1>7 DEF AloneScan
  <2>2. Pairs(w.uidmap) \in SUBSET N /\ Pairs(w.msgs) \in SUBSET N /\ Pairs(told') \in SUBSET N
    <3> HIDE DEF N
    <3> QED BY Zenon, <1>4, <1>5, <1>6, <1>7, <2>1
  <2>3. disk.uv = 0 => w.uidmap = {} /\ w.msgs = {}
    BY Zenon, <1>3, <2>1 DEF NamesInv, AloneScan
  <2>4. \/ w.uidvalidity = disk.uv /\ disk.uv > 0
        \/ w.uidmap = {} /\ w.msgs = {} /\ ~w.dirty
    BY Zenon, <1>3, <2>3 DEF AloneScan
  <2>5. \A t \in told' : t \in told \/ (t.uv = disk.uv /\ disk.uv > 0)
    BY Zenon, <1>5, <1>7, <2>4
  <2>6. ASSUME NEW u \in View, view'[u].st = "open"
        PROVE  /\ Pairs(view'[u].uidmap) \in SUBSET N
               /\ Pairs(view'[u].msgs) \in SUBSET N
               /\ \/ view'[u].uidvalidity = disk.uv /\ disk.uv > 0
                  \/ view'[u].uidmap = {} /\ view'[u].msgs = {} /\ ~view'[u].dirty
    <3>1. CASE u = v
      <4> HIDE DEF N
      <4> QED BY Zenon, <1>5, <1>7, <2>2, <2>4, <3>1
    <3>2. CASE u # v
      <4>1. view'[u] = view[u] /\ view[u].st = "open"
        BY Zenon, <1>5, <1>7, <2>6, <3>2
      <4>2. Pairs(view[u].uidmap) \in SUBSET N /\ Pairs(view[u].msgs) \in SUBSET N
        BY Zenon, <4>1, NamesHold
      <4> QED BY Zenon, <4>1, <4>2 DEF NamesInv
    <3> QED BY Zenon, <3>1, <3>2
  <2>7. disk' = disk
    BY Zenon, <1>7
  <2> HIDE DEF N
  <2> QED BY Zenon, <2>2, <2>5, <2>6, <2>7, NamesStay DEF N
<1>8. CASE Written(w.uidvalidity, w.uidnext, w.uidmap, w.tomb) /\ Open(v)
  <2>1. w.uidvalidity > 0 /\ disk.uv \in {0, w.uidvalidity}
        /\ \A r \in w.uidmap : r \in disk.rows \/ disk.un <= r.uid
    BY Zenon, <1>3 DEF AloneScan
  <2>2. /\ disk'.uv = w.uidvalidity /\ Pairs(disk'.rows) \in SUBSET X
        /\ \A M \in SUBSET X : OneNameEach(M, disk'.un)
    BY <1>2, <1>8, <2>1, NamesSaved
  <2>3. N \in SUBSET X /\ Pairs(w.uidmap) \in SUBSET X
    BY Zenon
  <2> HIDE DEF N, X
  <2>4. Pairs(told') \in SUBSET X /\ Pairs(w.msgs) \in SUBSET X
    BY Zenon, <1>4, <1>5, <1>6, <1>8, <2>3
  <2>5. \A t \in told' : t \in told \/ t.uv = w.uidvalidity
    BY Zenon, <1>5, <1>8
  <2>6. \A u \in View : view'[u].st = "open" => 
           \/ view'[u] = view[u]
           \/ /\ view'[u].uidvalidity = w.uidvalidity
              /\ Pairs(view'[u].uidmap) \in SUBSET X /\ Pairs(view'[u].msgs) \in SUBSET X
    BY Zenon, <1>5, <1>8, <2>3, <2>4
  <2> QED BY <1>2, <2>1, <2>2, <2>3, <2>4, <2>5, <2>6, NamesAfterSave DEF N
<1>9. CASE disk' = disk /\ view' = [view EXCEPT ![v] = Closed] /\ UNCHANGED told
  <2>1. \A u \in View : view'[u].st = "open" => view'[u] = view[u]
    BY Zenon, <1>2, <1>9 DEF Closed
  <2> QED BY Zenon, <1>9, <2>1, NamesQuiet
<1>10. used'.blind # used.blind + 1
  BY DEF IndInv, TypeOK
<1>11. ASSUME Save(w.uidvalidity, w.uidnext, w.uidmap, w.tomb, TRUE)
       PROVE  Written(w.uidvalidity, w.uidnext, w.uidmap, w.tomb)
  BY Zenon, <1>2, <1>10, <1>11, SaveIsSound
<1>12. ASSUME Save(w.uidvalidity, w.uidnext, w.uidmap, w.tomb, FALSE) PROVE disk' = disk
  BY Zenon, <1>2, <1>12, SaveIsSound
<1> HIDE DEF N, X
<1> QED BY Zenon, <1>7, <1>8, <1>9, <1>11, <1>12 DEF SaveScan

\* A close saves a view of the current generation, whose uids are in use.
LEMMA NamesClose ==
  ASSUME IndInv, NamesInv(told, disk, view), used'.blind = used.blind, NEW v \in View, Close(v)
  PROVE  NamesInv(told', disk', view')
<1> DEFINE w == view[v]
           N == Names(told, disk, view)
<1>1. w.st = "open" /\ told' = told /\ view' = [view EXCEPT ![v] = Closed]
  BY Zenon DEF Close, Ready
<1>2. /\ w.uidvalidity \in Nat /\ w.uidnext \in Nat /\ w.uidmap \in SUBSET Row
      /\ Sound(w.uidmap, w.uidnext) /\ view \in [View -> ViewType]
  BY Zenon, <1>1, SnapshotIsSound
<1>3. \A u \in View : view'[u].st = "open" => view'[u] = view[u]
  BY Zenon, <1>1, <1>2 DEF Closed
<1>4. CASE disk' = disk
  BY Zenon, <1>1, <1>3, <1>4, NamesQuiet
<1>5. CASE w.dirty /\ Written(w.uidvalidity, w.uidnext, w.uidmap, w.tomb)
  <2>1. /\ disk \in [uv : Nat, un : Nat, rows : SUBSET Row] /\ Sound(disk.rows, disk.un)
        /\ disk.un \in Nat /\ disk.uv \in Nat
    BY Zenon DEF IndInv, TypeOK
  <2>2. w.uidvalidity = disk.uv /\ disk.uv > 0
    BY Zenon, <1>1, <1>5 DEF NamesInv
  <2>3. /\ N \in SUBSET (Nat \X Base) /\ OneNameEach(N, disk.un)
        /\ Pairs(disk.rows) \in SUBSET N /\ Pairs(w.uidmap) \in SUBSET N /\ Pairs(told) \in SUBSET N
    BY Zenon, <1>1, NamesAreTyped, NamesHold DEF NamesInv
  <2> HIDE DEF N
  <2>4. ASSUME NEW r \in disk.rows, NEW q \in w.uidmap, r.uid = q.uid PROVE r.base = q.base
    <3> DEFINE x == <<r.uid, r.base>>
               y == <<q.uid, q.base>>
    <3>1. x \in N /\ y \in N
      BY Zenon, <2>3 DEF Pairs
    <3>2. x[1] = r.uid /\ x[2] = r.base /\ y[1] = q.uid /\ y[2] = q.base
      BY Zenon
    <3> HIDE DEF x, y
    <3>3. x[2] = y[2]
      BY Zenon, <2>3, <2>4, <3>1, <3>2 DEF OneNameEach
    <3> QED BY Zenon, <3>2, <3>3
  <2>5. disk'.rows \in SUBSET (disk.rows \cup w.uidmap)
    BY Zenon, <1>2, <1>5, <2>1, <2>4, MergeWithoutClash
  <2>6. Pairs(disk'.rows) \in SUBSET N
    <3>1. Pairs(disk'.rows) \in SUBSET (Pairs(disk.rows) \cup Pairs(w.uidmap))
      BY Zenon, <2>5 DEF Pairs
    <3> QED BY Zenon, <2>3, <3>1
  <2>7. disk'.uv = disk.uv /\ disk'.un \in Nat /\ disk.un <= disk'.un
    <3>1. disk'.uv \in {disk.uv} /\ disk'.un \in Nat /\ disk.un <= disk'.un
      BY <1>5, <2>1, <2>2, MaxOfTwo, SMTT(30) DEF Written
    <3> QED BY Zenon, <3>1
  <2>8. \A M \in SUBSET N : OneNameEach(M, disk'.un)
    BY Zenon, <2>1, <2>3, <2>7, NamesShrink
  <2>9. Pairs(told') \in SUBSET N /\ \A t \in told' : t \in told \/ t.uv = disk.uv
    BY Zenon, <1>1, <2>3
  <2>10. disk.uv \in {0, disk.uv} /\ N \in SUBSET N
    BY Zenon
  <2>11. \A u \in View : view'[u].st = "open" => 
           \/ view'[u] = view[u]
           \/ /\ view'[u].uidvalidity = disk.uv
              /\ Pairs(view'[u].uidmap) \in SUBSET N /\ Pairs(view'[u].msgs) \in SUBSET N
    BY Zenon, <1>3
  <2> QED BY <2>1, <2>2, <2>6, <2>7, <2>8, <2>9, <2>10, <2>11, NamesAfterSave DEF N
<1>6. used'.blind # used.blind + 1
  BY DEF IndInv, TypeOK
<1>7. ASSUME NEW ok \in BOOLEAN, Save(w.uidvalidity, w.uidnext, w.uidmap, w.tomb, ok)
      PROVE  Written(w.uidvalidity, w.uidnext, w.uidmap, w.tomb) \/ disk' = disk
  BY Zenon, <1>2, <1>6, <1>7, SaveIsSound
<1> HIDE DEF N
<1> QED BY Zenon, <1>4, <1>5, <1>7 DEF Close

\* A registration tells of the row that the message had, or of its new one.
LEMMA NamesRegisterLoad ==
  ASSUME IndInv, NamesInv(told, disk, view), NEW d, NEW b \in Base, RegisterLoad(d, b)
  PROVE  NamesInv(told', disk', view')
<1> DEFINE have == {r \in disk.rows : r.base = b}
           N == Names(told, disk, view)
<1>1. disk' = disk /\ view' = view
  BY Zenon DEF RegisterLoad
<1>2. CASE told' = told
  BY Zenon, <1>1, <1>2, NamesQuiet
<1>3. CASE have # {} /\ Tell(Loaded.uv, have)
  <2>1. disk.uv > 0 /\ Loaded.uv = disk.uv
    <3>1. disk.rows # {} /\ disk.uv \in Nat
      BY Zenon, <1>3 DEF IndInv, TypeOK
    <3> QED BY <3>1, SMTT(30) DEF NamesInv, Loaded
  <2>2. Pairs(told') \in SUBSET (Pairs(told) \cup Pairs(disk.rows))
    BY <1>3, SMTT(30) DEF Tell, Pairs
  <2>3. \A t \in told' : t \in told \/ (t.uv = disk.uv /\ disk.uv > 0)
    BY <1>3, <2>1, SMTT(30) DEF Tell
  <2>4. Pairs(told) \in SUBSET N /\ Pairs(disk.rows) \in SUBSET N
    BY Zenon, NamesHold
  <2>5. \A u \in View : view'[u].st = "open" =>
          /\ Pairs(view'[u].uidmap) \in SUBSET N /\ Pairs(view'[u].msgs) \in SUBSET N
          /\ \/ view'[u].uidvalidity = disk.uv /\ disk.uv > 0
             \/ view'[u].uidmap = {} /\ view'[u].msgs = {} /\ ~view'[u].dirty
    BY Zenon, <1>1, NamesHold DEF NamesInv
  <2> HIDE DEF N
  <2>6. Pairs(told') \in SUBSET N
    BY Zenon, <2>2, <2>4
  <2> QED BY Zenon, <1>1, <2>3, <2>5, <2>6, NamesStay DEF N
<1> QED BY Zenon, <1>2, <1>3 DEF RegisterLoad

LEMMA NamesRegisterSave ==
  ASSUME IndInv, Alone, AloneInv, NamesInv(told, disk, view), used'.blind = used.blind,
         NEW d \in running, NEW b \in Base, RegisterSave(d, b)
  PROVE  NamesInv(told', disk', view')
<1> DEFINE t == task[d]
           N == Names(told, disk, view)
           X == N \cup Pairs(t[5])
<1>1. d = "imapd" /\ d \in Daemon /\ t[1] = "register" /\ view' = view
  BY Zenon DEF Alone, Daemon, RegisterSave
<1>2. t[3] \in Nat /\ t[4] \in Nat /\ t[5] \in SUBSET Row /\ Sound(t[5], t[4])
  <2>1. t \in TaskType /\ TaskInv(t)
    BY Zenon, <1>1 DEF IndInv, TypeOK
  <2>2. t \in {"register"} \X Base \X Nat \X Nat \X SUBSET Row
    BY <1>1, <2>1, SMTT(30) DEF TaskType, Idle
  <2> QED BY Zenon, <1>1, <2>1, <2>2 DEF TaskInv
<1>3. /\ t[3] > 0 /\ disk.uv \in {0, t[3]}
      /\ \A r \in t[5] : r \in disk.rows \/ disk.un <= r.uid
  BY Zenon, <1>1 DEF AloneInv, AloneRegister
<1>4. PICK ok \in BOOLEAN :
       /\ Save(t[3], t[4], t[5], {}, ok)
       /\ told' = told \/ (ok /\ Tell(t[3], {r \in disk'.rows : r.base = b}))
  BY Zenon DEF RegisterSave
<1>5. used'.blind # used.blind + 1
  BY DEF IndInv, TypeOK
<1>6. (ok /\ Written(t[3], t[4], t[5], {})) \/ (~ok /\ disk' = disk)
  BY <1>2, <1>4, <1>5, SaveIsSound, SMTT(30)
<1>7. CASE ~ok /\ disk' = disk
  BY Zenon, <1>1, <1>4, <1>7, NamesQuiet
<1>8. CASE Written(t[3], t[4], t[5], {})
  <2>1. /\ disk'.uv = t[3] /\ Pairs(disk'.rows) \in SUBSET X
        /\ \A M \in SUBSET X : OneNameEach(M, disk'.un)
    BY <1>2, <1>3, <1>8, NamesSaved, SMTT(30)
  <2>2. N \in SUBSET X /\ Pairs(told) \in SUBSET N
    BY Zenon, NamesHold
  <2> HIDE DEF N, X
  <2>3. Pairs(told') \in SUBSET (Pairs(told) \cup Pairs(disk'.rows))
    BY <1>4, SMTT(30) DEF Tell, Pairs
  <2>4. \A s \in told' : s \in told \/ s.uv = t[3]
    BY <1>4, SMTT(30) DEF Tell
  <2>5. Pairs(told') \in SUBSET X
    BY Zenon, <2>1, <2>2, <2>3
  <2> QED BY <1>1, <1>2, <1>3, <2>1, <2>2, <2>4, <2>5, NamesAfterSave DEF N
<1> HIDE DEF N, X
<1> QED BY Zenon, <1>6, <1>7, <1>8

-----------------------------------------------------------------------------
(* imapd alone: the invariant holds                                         *)

\* The daemons that run stay the same, and blind saves are counted.
LEMMA RunningStays ==
  ASSUME IndInv, [Next]_vars
  PROVE  running' = running /\ used.blind \in Nat /\ used'.blind \in {used.blind, used.blind + 1}
<1>1. /\ used \in [opens : Nat, stores : Nat, crashes : Nat, faults : Nat, blind : Nat]
      /\ used.blind \in Nat
  BY Zenon DEF IndInv, TypeOK
<1>2. ASSUME NEW k \in {"opens", "stores", "crashes", "faults", "blind"}, Spend(k)
      PROVE  used'.blind \in {used.blind, used.blind + 1}
  BY Zenon, <1>1, <1>2 DEF Spend
<1>3. ASSUME NEW a, NEW b, NEW c, NEW e, NEW ok, Save(a, b, c, e, ok)
      PROVE  used'.blind \in {used.blind, used.blind + 1}
  BY Zenon, <1>2, <1>3 DEF Save, Trouble
<1>4. CASE UNCHANGED vars
  <2>1. used' = used /\ running' = running
    BY Zenon, <1>4 DEF vars
  <2> QED BY Zenon, <1>1, <2>1
<1>5. ASSUME NEW v \in View, \/ Load(v) \/ ListNew(v) \/ ScanNew(v) \/ ListCur(v)
                             \/ ScanCur(v) \/ Prune(v)
      PROVE  running' = running /\ used'.blind \in {used.blind, used.blind + 1}
  BY Zenon, <1>2, <1>5, ReadingStep DEF Load, Prune
<1>6. ASSUME NEW v \in View, Store(v) \/ Expunge(v) \/ MoveOut(v)
      PROVE  running' = running /\ used'.blind \in {used.blind, used.blind + 1}
  BY Zenon, <1>2, <1>6 DEF Store, Expunge, MoveOut, Trouble
<1>7. ASSUME NEW v \in View, SaveScan(v) \/ Close(v)
      PROVE  running' = running /\ used'.blind \in {used.blind, used.blind + 1}
  BY Zenon, <1>3, <1>7 DEF SaveScan, Close
<1>8. ASSUME NEW b \in Base, Deliver(b)
      PROVE  running' = running /\ used'.blind \in {used.blind, used.blind + 1}
  BY Zenon, <1>8 DEF Deliver
<1>9. ASSUME NEW d \in running, Crash(d)
      PROVE  running' = running /\ used'.blind \in {used.blind, used.blind + 1}
  BY Zenon, <1>2, <1>9 DEF Crash
<1>10. ASSUME NEW d \in running, NEW b \in Base, Put(d, b) \/ RegisterLoad(d, b) \/ RegisterSave(d, b)
       PROVE  running' = running /\ used'.blind \in {used.blind, used.blind + 1}
  BY Zenon, <1>3, <1>10 DEF Put, RegisterLoad, RegisterSave
<1>11. CASE Tick
  BY Zenon, <1>1, <1>11 DEF Tick
<1> QED BY Zenon, <1>1, <1>4, <1>5, <1>6, <1>7, <1>8, <1>9, <1>10, <1>11 DEF Next

\* AloneInv is kept.
LEMMA AloneKeeps == ASSUME IndInv, Alone, AloneInv, [Next]_vars PROVE AloneInv'
<1>1. CASE UNCHANGED vars
  BY Zenon, <1>1 DEF vars, AloneInv
<1>2. CASE Tick
  BY Zenon, <1>2 DEF Tick, AloneInv
<1>3. ASSUME NEW v \in View, Load(v) PROVE AloneInv'
  BY Zenon, <1>3, AloneLoad
<1>4. ASSUME NEW v \in View, ListNew(v) \/ ScanNew(v) \/ ListCur(v) \/ ScanCur(v) PROVE AloneInv'
  BY Zenon, <1>4, AloneReading
<1>6. ASSUME NEW v \in View, Prune(v) PROVE AloneInv'
  BY Zenon, <1>6, AlonePrune
<1>7. ASSUME NEW v \in View, SaveScan(v) PROVE AloneInv'
  BY Zenon, <1>7, AloneSaveScan
<1>8. ASSUME NEW v \in View, Store(v) \/ Expunge(v) \/ MoveOut(v) \/ Close(v) PROVE AloneInv'
  BY Zenon, <1>8, AloneClient
<1>9. ASSUME NEW b \in Base, Deliver(b) PROVE AloneInv'
  <2>1. "imapd" \in running
    BY Zenon DEF Alone
  <2> QED BY Zenon, <1>9, <2>1, AloneArrival
<1>10. ASSUME NEW d \in running, NEW b \in Base, Put(d, b) \/ RegisterLoad(d, b) \/ RegisterSave(d, b)
       PROVE  AloneInv'
  BY Zenon, <1>10, AloneArrival
<1>11. ASSUME NEW d \in running, Crash(d) PROVE AloneInv'
  BY Zenon, <1>11, AloneCrash
<1> QED BY Zenon, <1>1, <1>2, <1>3, <1>4, <1>6, <1>7, <1>8, <1>9, <1>10, <1>11 DEF Next

\* NamesInv is kept by every step but a blind save.
LEMMA NamesKeep ==
  ASSUME IndInv, Alone, AloneInv, NamesInv(told, disk, view), [Next]_vars, used'.blind = used.blind
  PROVE  NamesInv(told', disk', view')
<1> DEFINE Same == /\ disk' = disk /\ told' = told
                   /\ \A v \in View : view'[v].st = "open" => view'[v] = view[v]
<1>0. ASSUME Same PROVE NamesInv(told', disk', view')
  BY Zenon, <1>0, NamesQuiet
<1>1. CASE UNCHANGED vars
  BY Zenon, <1>0, <1>1 DEF vars
<1>2. CASE Tick
  BY Zenon, <1>0, <1>2 DEF Tick
<1>3. ASSUME NEW v \in View, Load(v) PROVE Same
  <2>1. view \in [View -> ViewType]
    BY Zenon DEF IndInv, TypeOK
  <2> QED BY <1>3, <2>1 DEF Load, Closed
<1>4. ASSUME NEW v \in View, ListNew(v) \/ ScanNew(v) \/ ListCur(v) \/ ScanCur(v) PROVE Same
  BY Zenon, <1>4, ReadingStep DEF Alters
<1>6. ASSUME NEW v \in View, Prune(v) PROVE Same
  <2>1. view \in [View -> ViewType] /\ view[v] \in ViewType
    BY Zenon DEF IndInv, TypeOK
  <2>2. view'[v].st = "save" /\ \A u \in View \ {v} : view'[u] = view[u]
    BY Zenon, <1>6, <2>1 DEF Prune, ViewType
  <2> QED BY Zenon, <1>6, <2>2 DEF Prune
<1>7. ASSUME NEW v \in View, SaveScan(v) PROVE NamesInv(told', disk', view')
  BY Zenon, <1>7, NamesSaveScan
<1>8. ASSUME NEW v \in View, Store(v) \/ Expunge(v) \/ MoveOut(v) PROVE NamesInv(told', disk', view')
  BY Zenon, <1>8, NamesClient
<1>9. ASSUME NEW v \in View, Close(v) PROVE NamesInv(told', disk', view')
  BY Zenon, <1>9, NamesClose
<1>10. ASSUME NEW b \in Base, Deliver(b) PROVE Same
  BY Zenon, <1>10 DEF Deliver
<1>11. ASSUME NEW d \in running, NEW b \in Base, Put(d, b) PROVE Same
  BY Zenon, <1>11 DEF Put
<1>12. ASSUME NEW d \in running, NEW b \in Base, RegisterLoad(d, b) PROVE NamesInv(told', disk', view')
  BY Zenon, <1>12, NamesRegisterLoad
<1>13. ASSUME NEW d \in running, NEW b \in Base, RegisterSave(d, b) PROVE NamesInv(told', disk', view')
  BY Zenon, <1>13, NamesRegisterSave
<1>14. ASSUME NEW d \in running, Crash(d) PROVE Same
  BY Zenon, <1>14 DEF Crash, Closed
<1> HIDE DEF Same
<1> QED BY Zenon, <1>0, <1>1, <1>2, <1>3, <1>4, <1>6, <1>7, <1>8, <1>9, <1>10, <1>11, <1>12,
           <1>13, <1>14 DEF Next

\* AloneIndInv holds of every behaviour.
THEOREM AloneInvariance == Spec => []AloneIndInv
<1>1. Init => AloneIndInv
  <2> SUFFICES ASSUME Init PROVE AloneIndInv
    BY Zenon
  <2>1. \A v \in View : view[v].st = "closed"
    BY Zenon DEF Init, Closed
  <2>2. task["imapd"] = Idle
    BY Zenon DEF Init, Daemon
  <2>3. AloneInv
    <3>1. \A v \in View : ~Scanning(view[v])
      BY Zenon, <2>1 DEF Scanning, Reading
    <3> QED BY Zenon, <2>1, <2>2, <3>1, NoRegister DEF AloneInv
  <2>4. told = {} /\ disk.rows = {}
    BY Zenon DEF Init
  <2>5. Names(told, disk, view) = {}
    BY Zenon, <2>1, <2>4 DEF Names, Pairs
  <2>6. OneNameEach({}, disk.un)
    BY Zenon DEF OneNameEach
  <2>7. NamesInv(told, disk, view)
    BY <2>1, <2>4, <2>5, <2>6 DEF NamesInv
  <2> QED BY Zenon, <2>3, <2>7 DEF AloneIndInv
<1>2. ASSUME IndInv, AloneIndInv, [Next]_vars PROVE AloneIndInv'
  <2>1. running' = running /\ used.blind \in Nat /\ used'.blind \in {used.blind, used.blind + 1}
    BY Zenon, <1>2, RunningStays
  <2>2. Alone' <=> Alone
    BY Zenon, <2>1 DEF Alone
  <2>3. ASSUME Alone PROVE AloneInv'
    BY Zenon, <1>2, <2>3, AloneKeeps DEF AloneIndInv
  <2>4. ASSUME Alone, used'.blind = 0 PROVE NamesInv(told', disk', view')
    <3>1. used'.blind = used.blind /\ used.blind = 0
      BY <2>1, <2>4
    <3>2. AloneInv /\ NamesInv(told, disk, view)
      BY Zenon, <1>2, <2>4, <3>1 DEF AloneIndInv
    <3> QED BY <1>2, <2>4, <3>1, <3>2, NamesKeep
  <2> QED BY Zenon, <2>2, <2>3, <2>4 DEF AloneIndInv
<1>3. IndInv /\ AloneIndInv /\ [Next]_vars => AloneIndInv'
  BY Zenon, <1>2
<1> QED BY Invariance, <1>1, <1>3, PTL DEF Spec

\* On a tree that only imapd uses, and as long as every save has had the lock,
\* a uid never names two messages to its clients under one uidvalidity,
\* whatever crashes and however many saves fail (scan_subdir, mbox_register,
\* uidlist_merge).
THEOREM OneMessagePerUidAlone == Spec => []AloneOneMessagePerUid
<1>1. AloneIndInv => AloneOneMessagePerUid
  <2> SUFFICES ASSUME AloneIndInv, Alone, used.blind = 0, NEW s \in told, NEW t \in told,
                      s.uid = t.uid
               PROVE  s.base = t.base
    BY Zenon DEF AloneOneMessagePerUid, OneMessagePerUid
  <2> DEFINE N == Names(told, disk, view)
             x == <<s.uid, s.base>>
             y == <<t.uid, t.base>>
  <2>1. OneNameEach(N, disk.un)
    BY Zenon DEF AloneIndInv, NamesInv
  <2>2. x \in Pairs(told) /\ y \in Pairs(told)
    BY Zenon DEF Pairs
  <2>3. Pairs(told) \in SUBSET N
    BY Zenon, NamesHold
  <2>4. x[1] = y[1] /\ x[2] = s.base /\ y[2] = t.base
    BY Zenon
  <2> HIDE DEF N, x, y
  <2>5. x[2] = y[2]
    BY <2>1, <2>2, <2>3, <2>4 DEF OneNameEach
  <2> QED BY Zenon, <2>4, <2>5
<1> QED BY AloneInvariance, <1>1, PTL

\* A view becomes open at the end of its scan only.
LEMMA WhoOpens ==
  ASSUME IndInv, [Next]_vars, NEW v \in View, view[v].st = "save", view'[v].st = "open"
  PROVE  SaveScan(v) /\ Open(v)
<1>1. view \in [View -> ViewType] /\ \A u \in View : view[u] \in ViewType
  BY Zenon DEF IndInv, TypeOK
<1>2. view' # view
  BY Zenon
<1>3. ASSUME NEW u \in View, Load(u) \/ Close(u) PROVE FALSE
  BY Zenon, <1>1, <1>3 DEF Load, Close, Ready, Closed
<1>4. ASSUME NEW u \in View, ListNew(u) \/ ScanNew(u) \/ ListCur(u) \/ ScanCur(u) PROVE FALSE
  <2>1. Alters(u) /\ view'[u].st # "open"
    BY Zenon, <1>4, ReadingStep
  <2>2. u # v /\ view'[v] = view[v]
    BY Zenon, <2>1 DEF Alters
  <2> QED BY Zenon, <2>2
<1>5. ASSUME NEW u \in View, Prune(u) PROVE FALSE
  BY Zenon, <1>1, <1>5 DEF Prune
<1>6. ASSUME NEW u \in View, Store(u) PROVE FALSE
  <2>1. u # v
    BY Zenon, <1>6 DEF Store, Ready
  <2> QED BY <1>6, <2>1, StoreEffect
<1>7. ASSUME NEW u \in View, Expunge(u) \/ MoveOut(u) PROVE FALSE
  BY Zenon, <1>1, <1>7 DEF Expunge, MoveOut, Ready, Forget
<1>8. ASSUME NEW d \in running, Crash(d) PROVE FALSE
  BY Zenon, <1>8 DEF Crash, Closed
<1>9. ASSUME NEW u \in View, SaveScan(u) PROVE u = v /\ Open(v)
  <2>1. CASE Open(u)
    BY Zenon, <1>1, <2>1 DEF Open
  <2>2. CASE view' = [view EXCEPT ![u] = Closed]
    BY Zenon, <1>1, <2>2 DEF Closed
  <2> QED BY <1>9, <2>1, <2>2 DEF SaveScan
<1>10. ASSUME NEW b \in Base, Deliver(b) PROVE FALSE
  BY Zenon, <1>2, <1>10 DEF Deliver
<1>11. ASSUME NEW d \in running, NEW b \in Base, Put(d, b) \/ RegisterLoad(d, b) \/ RegisterSave(d, b)
       PROVE  FALSE
  BY Zenon, <1>2, <1>11 DEF Put, RegisterLoad, RegisterSave
<1>12. ~Tick /\ ~UNCHANGED vars
  BY Zenon, <1>2 DEF Tick, vars
<1> QED BY Zenon, <1>3, <1>4, <1>5, <1>6, <1>7, <1>8, <1>9, <1>10, <1>11, <1>12 DEF Next

\* On a tree that only imapd uses, every scan that succeeds leaves a row in the
\* sidecar for each message that it found and that is still there, even when it
\* writes without the lock (mbox_scan, imapd_uidlist_save).
THEOREM ScanRegistersAlone == Spec => AloneScanRegisters
<1> DEFINE Registers == Alone => \A v \in View : view[v].st = "save" /\ view'[v].st = "open" =>
                          \A b \in Bases(view[v].msgs) : Here(b) => b \in Bases(disk'.rows)
<1>1. ASSUME IndInv, AloneIndInv, [Next]_vars PROVE Registers
  <2> SUFFICES ASSUME Alone, NEW v \in View, view[v].st = "save", view'[v].st = "open",
                      NEW b \in Bases(view[v].msgs)
               PROVE  b \in Bases(disk'.rows)
    BY Zenon
  <2> DEFINE w == view[v]
  <2>1. SaveScan(v) /\ Open(v)
    BY Zenon, <1>1, WhoOpens
  <2>2. /\ w.uidvalidity \in Nat /\ w.uidnext \in Nat /\ w.uidmap \in SUBSET Row
        /\ Sound(w.uidmap, w.uidnext) /\ view \in [View -> ViewType]
    BY Zenon, <1>1, SnapshotIsSound
  <2>3. AloneScan(w, disk, place)
    BY Zenon, <1>1 DEF AloneIndInv, AloneInv, Scanning
  <2>4. PICK r \in w.uidmap : r.base = b
    BY Zenon, <2>3 DEF AloneScan, Bases
  <2>5. CASE disk'.rows = w.uidmap
    BY Zenon, <2>4, <2>5 DEF Bases
  <2>6. CASE Written(w.uidvalidity, w.uidnext, w.uidmap, w.tomb)
    <3> DEFINE dr == DiskRows(w.uidvalidity, w.tomb)
               mr == CallerRows(w.uidvalidity, w.uidmap, w.tomb)
    <3>1. ~(disk.uv > w.uidvalidity)
      BY <2>2, <2>3, SMTT(30) DEF AloneScan
    <3>2. r.base \notin w.tomb
      BY <2>3, <2>4, SMTT(30) DEF AloneScan, Bases
    <3>3. r \in mr
      BY Zenon, <2>4, <3>1, <3>2 DEF CallerRows
    <3> HIDE DEF dr, mr
    <3>4. r.base \in Bases(dr \cup mr)
      BY Zenon, <3>3 DEF Bases
    <3> QED BY Zenon, <2>4, <2>6, <3>4 DEF Written, dr, mr
  <2>7. CASE ~w.changed /\ disk' = disk
    BY Zenon, <2>3, <2>5, <2>7 DEF AloneScan
  <2>8. ASSUME Save(w.uidvalidity, w.uidnext, w.uidmap, w.tomb, TRUE)
        PROVE  Written(w.uidvalidity, w.uidnext, w.uidmap, w.tomb) \/ disk'.rows = w.uidmap
    <3>1. \/ Written(w.uidvalidity, w.uidnext, w.uidmap, w.tomb)
          \/ disk' = [uv |-> w.uidvalidity, un |-> w.uidnext, rows |-> w.uidmap]
      BY Zenon, <1>1, <2>2, <2>8, SaveIsSound
    <3> QED BY <3>1, SMTT(30)
  <2>9. view' # [view EXCEPT ![v] = Closed]
    BY <2>2, SMTT(30) DEF Closed
  <2> QED BY <2>1, <2>5, <2>6, <2>7, <2>8, <2>9 DEF SaveScan
<1>2. IndInv /\ AloneIndInv /\ [Next]_vars => [Registers]_vars
  BY Zenon, <1>1
<1> HIDE DEF Registers
<1>3. Spec => [][Registers]_vars
  BY Invariance, AloneInvariance, <1>2, PTL DEF Spec
<1> QED BY Zenon, <1>3 DEF AloneScanRegisters, Registers

=============================================================================
