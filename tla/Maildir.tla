------------------------------ MODULE Maildir ------------------------------
(***************************************************************************)
(* One mailbox of the maildir tree that imapd and jmapd share              *)
(* (imap_maildir.c): the message files in new/ and cur/, the uidlist       *)
(* sidecar that holds their uids, and the views the two daemons have of    *)
(* both.                                                                   *)
(*                                                                         *)
(* Each daemon serves its clients from one poll loop, so its operations on *)
(* the mailbox never interleave with each other.  They interleave with     *)
(* those of the other daemon between any two system calls: an operation is *)
(* cut where it reads or writes the directory or the sidecar.  A sidecar   *)
(* save holds the lock over read, merge and write and is one step.  A scan *)
(* reads the names of a directory in one step, as getdents does for a      *)
(* directory that fits its buffer, and stats each name in a later one.  In *)
(* a larger directory a file renamed while it is read may also come under  *)
(* both names or under neither; that is left out.                          *)
(***************************************************************************)
EXTENDS Integers, FiniteSets, FiniteSetsExt, Functions

CONSTANTS
  Base,        \* maildir base names
  Deployments, \* which daemons may run on the tree: "imapd", "jmapd" or both
  ImapView,    \* views imapd may hold: SELECTed sessions, STATUS, POP3
  JmapView,    \* views jmapd may hold: one per request
  Flag,        \* what the info suffix of a file in cur/ may say
  NoFlag,      \* the one that says nothing
  MaxOpens,    \* bound: scans of the mailbox
  MaxStores,   \* bound: flag changes
  MaxCrashes,  \* bound: crashes of a daemon
  MaxFaults,   \* bound: sidecar saves that fail or go without the lock, and
               \* registrations that fail
  MaxReturns,  \* bound: times a message comes back after a MOVE
  MaxTime      \* bound: the clock a fresh uidvalidity is taken from

Daemon == {"imapd", "jmapd"}

ASSUME BoundsAssumption ==
  /\ IsFiniteSet(Base) /\ Deployments \subseteq SUBSET Daemon
  /\ ImapView \cap JmapView = {}
  /\ NoFlag \in Flag /\ Flag \cap {"new", "gone", "away"} = {}
  /\ MaxOpens \in Nat /\ MaxStores \in Nat /\ MaxCrashes \in Nat
  /\ MaxFaults \in Nat /\ MaxReturns \in Nat /\ MaxTime \in Nat \ {0}

VARIABLES
  place,   \* where the file of each base is
  disk,    \* the sidecar; uv = 0 when there is none
  view,    \* Mbox: the view held under each name
  task,    \* what each daemon is in the middle of
  running, \* the daemons that run on this tree
  now,     \* time(NULL)
  used,    \* what has been used of the bounds
  stay,    \* observer: how often each base has come back
  told     \* observer: uids told to a client

vars == <<place, disk, view, task, running, now, used, stay, told>>

-----------------------------------------------------------------------------
(* Files, sidecar rows and views                                            *)

View   == ImapView \cup JmapView
DaemonOf(v) == IF v \in ImapView THEN "imapd" ELSE "jmapd"

\* A file is in new/, in cur/ under its flags, in another mailbox, or nowhere.
Place   == {"new", "away", "gone"} \cup Flag
Here(b) == place[b] \notin {"away", "gone"}

Row  == [base : Base, uid : Nat, modseq : Nat]
Bases(R) == {r.base : r \in R}
RowOf(R, b) == CHOOSE r \in R : r.base = b

\* The next value after all those of S, and at least n.
Above(n, S) == Max({n} \cup {x + 1 : x \in S})
Uids(R)     == {r.uid : r \in R}

\* left, fresh and since serve the scan only: the names that it has read and not
\* yet looked at, the rows it added, and (an observer) the files that were there
\* when it began.
Closed == [st |-> "closed", uidvalidity |-> 0, uidnext |-> 1, uidmap |-> {},
           tomb |-> {}, msgs |-> {}, highestmodseq |-> 0, dirty |-> FALSE,
           move |-> FALSE, left |-> {}, fresh |-> {}, changed |-> FALSE, since |-> {}]

\* A daemon is idle, in mbox_scan for a view, or in mbox_register for a base.
Idle    == <<"idle">>
Free(d) == task[d] = Idle

Spend(what) == used' = [used EXCEPT ![what] = @ + 1]

\* A call that fails, or a save that has to do without the lock.
Trouble(what) == used.faults + used.blind < MaxFaults /\ Spend(what)

-----------------------------------------------------------------------------
(* The sidecar: uidlist_load, uidlist_merge and imapd_uidlist_save          *)

BugUidnextFromRows == [uv |-> IF disk.uv = 0 THEN now ELSE disk.uv,
                       un |-> Above(1, Uids(disk.rows)), rows |-> disk.rows]

\* What uidlist_load leaves in its caller's defaults and row array.
Loaded == [uv |-> IF disk.uv = 0 THEN now ELSE disk.uv,
           un |-> disk.un, rows |-> disk.rows]

BugBlindMerge(uv, tomb) == {}
BugKeepDeadRows(uv, rows, tomb) == {r \in rows : r.base \notin tomb}

\* The rows of the sidecar and of the caller that take part in a merge: the
\* generation with the larger uidvalidity has its rows kept, tombstoned bases
\* are dropped from both.
DiskRows(uv, tomb) ==
  {r \in IF disk.uv < uv THEN {} ELSE disk.rows : r.base \notin tomb}
CallerRows(uv, rows, tomb) ==
  {r \in IF disk.uv > uv THEN {} ELSE rows : r.base \notin tomb}

BugUnionRows(dr, mr) == dr \cup mr

\* One row per base, the one with the higher modseq; on a tie the disk's.
Newest(dr, mr, b) ==
  LET of   == {r \in dr \cup mr : r.base = b}
      last == {r \in of : \A q \in of : q.modseq <= r.modseq}
  IN  CHOOSE r \in last : last \cap dr # {} => r \in dr

Merged(dr, mr) == {Newest(dr, mr, b) : b \in Bases(dr \cup mr)}

BugShareUid(merged, first, K) == K = merged

\* Of the rows that claim one uid the first keeps it, and bases of the file
\* come before the others.  The order within each part is left open.
Keeps(merged, first, K) ==
  \A r \in merged :
    LET claim == {q \in merged : q.uid = r.uid}
    IN  \E k \in claim : /\ K \cap claim = {k}
                         /\ k.base \in first \/ Bases(claim) \cap first = {}

BugRewind(un, merged) == Above(un, Uids(merged))

\* uidnext never goes back, and is past every uid that is written.
NextUid(un, merged) == Above(Max({un, disk.un}), Uids(merged))

\* Reads the sidecar, merges the caller's snapshot into it and writes the
\* result; rows that lost their uid are given the next ones.
MergeSave(uv, un, rows, tomb) ==
  LET dr     == DiskRows(uv, tomb)
      mr     == CallerRows(uv, rows, tomb)
      merged == Merged(dr, mr)
      from   == NextUid(un, merged)
  IN  \E K \in SUBSET merged :
        /\ Keeps(merged, Bases(dr), K)
        /\ LET lost == merged \ K
               to   == from + Cardinality(lost) - 1
           IN  \E f \in Injection(lost, from .. to) :
                 disk' = [uv   |-> Max({uv, disk.uv}),
                          un   |-> to + 1,
                          rows |-> K \cup {[base |-> r.base, uid |-> f[r],
                                            modseq |-> f[r] + 1] : r \in lost}]

\* Without the lock the snapshot is written as it is.
BlindSave(uv, un, rows) == disk' = [uv |-> uv, un |-> un, rows |-> rows]

\* imapd_uidlist_save; ok says whether it returns 0.
Save(uv, un, rows, tomb, ok) ==
  \/ ok /\ MergeSave(uv, un, rows, tomb) /\ UNCHANGED used
  \/ ok /\ Trouble("blind") /\ BlindSave(uv, un, rows)
  \/ ~ok /\ Trouble("faults") /\ UNCHANGED disk

-----------------------------------------------------------------------------
(* Scanning: imapd_mbox_open and imapd_mbox_peek                            *)

Init ==
  /\ place = [b \in Base |-> "gone"]
  /\ disk = [uv |-> 0, un |-> 1, rows |-> {}]
  /\ view = [v \in View |-> Closed]
  /\ task = [d \in Daemon |-> Idle]
  /\ running \in Deployments
  /\ now = 1
  /\ used = [opens |-> 0, stores |-> 0, crashes |-> 0, faults |-> 0, blind |-> 0]
  /\ stay = [b \in Base |-> 0]
  /\ told = {}

\* Only SELECT and EXAMINE move what is in new/ to cur/.
Load(v) ==
  /\ view[v].st = "closed" /\ DaemonOf(v) \in running /\ Free(DaemonOf(v))
  /\ used.opens < MaxOpens /\ Spend("opens")
  /\ \E move \in IF v \in ImapView THEN BOOLEAN ELSE {FALSE} :
       view' = [view EXCEPT ![v] =
         [Closed EXCEPT !.st = "new", !.uidvalidity = Loaded.uv,
                        !.uidnext = Loaded.un, !.uidmap = Loaded.rows,
                        !.move = move,
                        !.since = {<<b, stay[b]>> : b \in {c \in Base : Here(c)}}]]
  /\ task' = [task EXCEPT ![DaemonOf(v)] = <<"scan", v>>]
  /\ UNCHANGED <<place, disk, running, now, stay, told>>

BugCurFirst(n) == {b \in Base : place[b] \in <<Flag, {"new"}>>[n]}

\* The files that the first and the second pass of mbox_scan read.
Pass(n) == {b \in Base : place[b] \in <<{"new"}, Flag>>[n]}

\* opendir and readdir of new/ or cur/: the names there now, each with where
\* stat will look for its file.  The scan is then in the directory.
List(v, n, at, past) ==
  LET names == {<<b, place[b]>> : b \in Pass(n)}
  IN  view' = [view EXCEPT ![v] = [@ EXCEPT !.left = names,
                                            !.st = IF names = {} THEN past ELSE at]]

\* The row of a base among those that were loaded (the hash of mbox_scan does
\* not get the rows that the scan adds), or else a new one.
RowFor(w, b) ==
  LET loaded == {r \in w.uidmap \ w.fresh : r.base = b}
  IN  IF loaded # {} THEN loaded
      ELSE {[base |-> b, uid |-> w.uidnext, modseq |-> w.uidnext + 1]}

BugNotChanged(v, x, st) ==
  LET w     == view[v]
      rows  == RowFor(w, x[1])
      added == rows \ w.uidmap
  IN  view' = [view EXCEPT ![v] =
        [w EXCEPT !.st = st, !.left = @ \ {x},
                  !.uidnext = IF added = {} THEN @ ELSE @ + 1,
                  !.uidmap = @ \cup added, !.fresh = @ \cup added,
                  !.msgs = @ \cup {[base |-> x[1], uid |-> r.uid, path |-> x[2]] : r \in rows},
                  !.highestmodseq = Max({@} \cup {r.modseq : r \in rows})]]

\* scan_subdir on a name whose file is there: a base without a row is given the
\* next uid.
ScanAdd(v, x, st) ==
  LET w     == view[v]
      rows  == RowFor(w, x[1])
      added == rows \ w.uidmap
  IN  view' = [view EXCEPT ![v] =
        [w EXCEPT !.st = st, !.left = @ \ {x},
                  !.uidnext = IF added = {} THEN @ ELSE @ + 1,
                  !.uidmap = @ \cup added,
                  !.fresh = @ \cup added,
                  !.changed = @ \/ added # {},
                  !.msgs = @ \cup {[base |-> x[1], uid |-> r.uid, path |-> x[2]] : r \in rows},
                  !.highestmodseq = Max({@} \cup {r.modseq : r \in rows})]]

\* scan_subdir on a name whose file is gone from there: stat fails and the name
\* is skipped.  A message that is still in cur/, under other flags than the name
\* said, is lost to this scan, and since says so.
ScanSkip(v, x, st) ==
  LET w    == view[v]
      lost == IF x[2] # "new" /\ place[x[1]] \in Flag THEN {<<x[1], stay[x[1]]>>} ELSE {}
  IN  view' = [view EXCEPT ![v] =
        [w EXCEPT !.st = st, !.left = @ \ {x}, !.since = @ \ lost]]

\* One round of the loop over the names, in any order; the last one ends the
\* directory.
ScanSubdir(v, at, past) ==
  /\ view[v].st = at
  /\ \E x \in view[v].left :
       LET st == IF view[v].left = {x} THEN past ELSE at
       IN  \/ place[x[1]] = x[2] /\ ScanAdd(v, x, st)
           \/ place[x[1]] # x[2] /\ ScanSkip(v, x, st)
  /\ UNCHANGED <<place, disk, task, running, now, used, stay, told>>

ListNew(v) ==
  /\ view[v].st = "new" /\ List(v, 1, "innew", "cur")
  /\ UNCHANGED <<place, disk, task, running, now, used, stay, told>>

ListCur(v) ==
  /\ view[v].st = "cur" /\ List(v, 2, "incur", "prune")
  /\ UNCHANGED <<place, disk, task, running, now, used, stay, told>>

ScanNew(v) == ScanSubdir(v, "innew", "cur")
ScanCur(v) == ScanSubdir(v, "incur", "prune")

\* A row stays if its uid is the last one the view has for its base.  The
\* others are dropped and their bases tombstoned.  Then new/ moves to cur/.
Prune(v) ==
  LET w    == view[v]
      keep == {r \in w.uidmap : \E m \in w.msgs :
                 /\ m.base = r.base /\ m.uid = r.uid
                 /\ \A n \in w.msgs : n.base = r.base => n.uid <= r.uid}
      mv   == {m \in w.msgs : w.move /\ m.path = "new" /\ place[m.base] = "new"}
  IN  /\ w.st = "prune"
      /\ view' = [view EXCEPT ![v] =
           [w EXCEPT !.st = "save", !.uidmap = keep,
                     !.tomb = Bases(w.uidmap \ keep),
                     !.changed = @ \/ keep # w.uidmap,
                     !.msgs = (@ \ mv) \cup {[m EXCEPT !.path = NoFlag] : m \in mv}]]
      /\ place' = [b \in Base |-> IF b \in Bases(mv) THEN NoFlag ELSE place[b]]
      /\ UNCHANGED <<disk, task, running, now, used, stay, told>>

\* What an IMAP client is told of a mailbox it opens.
Tell(uv, R) ==
  told' = told \cup {[uv |-> uv, uid |-> r.uid, base |-> r.base] : r \in R}

Open(v) ==
  LET w == view[v]
  IN  /\ view' = [view EXCEPT ![v] =
           [w EXCEPT !.st = "open", !.move = FALSE, !.fresh = {},
                     !.changed = FALSE, !.since = {}]]
      /\ IF v \in ImapView
         THEN Tell(w.uidvalidity, w.msgs)
         ELSE UNCHANGED told

\* The end of mbox_scan: a changed map is saved at once, and the view is
\* given up if that fails.
SaveScan(v) ==
  LET w == view[v]
  IN  /\ w.st = "save"
      /\ task' = [task EXCEPT ![DaemonOf(v)] = Idle]
      /\ \/ ~w.changed /\ Open(v) /\ UNCHANGED <<disk, used>>
         \/ /\ w.changed
            /\ Save(w.uidvalidity, w.uidnext, w.uidmap, w.tomb, TRUE)
            /\ Open(v)
         \/ /\ w.changed
            /\ Save(w.uidvalidity, w.uidnext, w.uidmap, w.tomb, FALSE)
            /\ view' = [view EXCEPT ![v] = Closed]
            /\ UNCHANGED told
      /\ UNCHANGED <<place, running, now, stay>>

-----------------------------------------------------------------------------
(* What a client does with an open view                                     *)

Ready(v) == view[v].st = "open" /\ Free(DaemonOf(v))

\* imapd_mbox_store: the file is renamed to its new flags, which fails if it
\* is no longer where the view saw it, and its modseq is raised in memory.
Store(v) ==
  LET w  == view[v]
      hi == w.highestmodseq + 1
  IN  /\ Ready(v) /\ used.stores < MaxStores /\ Spend("stores")
      /\ \E m \in w.msgs, f \in Flag :
           /\ place[m.base] = m.path
           /\ place' = [place EXCEPT ![m.base] = f]
           /\ view' = [view EXCEPT ![v] =
                [w EXCEPT !.msgs = (@ \ {m}) \cup {[m EXCEPT !.path = f]},
                          !.highestmodseq = hi,
                          !.uidmap = {r \in @ : r.uid # m.uid} \cup
                            {[base |-> m.base, uid |-> m.uid, modseq |-> hi]},
                          !.dirty = TRUE]]
      /\ UNCHANGED <<disk, task, running, now, stay, told>>

\* uidmap_remove and the removal of the message from the view.
Forget(v, m) ==
  LET w   == view[v]
      out == {r \in w.uidmap : r.uid = m.uid}
  IN  view' = [view EXCEPT ![v] =
        [w EXCEPT !.msgs = @ \ {m}, !.uidmap = @ \ out,
                  !.tomb = @ \cup Bases(out), !.dirty = @ \/ out # {}]]

\* imapd_mbox_expunge: the result of the unlink is ignored.
Expunge(v) ==
  /\ Ready(v)
  /\ \E m \in view[v].msgs :
       /\ Forget(v, m)
       /\ place' = IF place[m.base] = m.path THEN [place EXCEPT ![m.base] = "gone"]
                   ELSE place
  /\ UNCHANGED <<disk, task, running, now, used, stay, told>>

\* imapd_mbox_file out of this mailbox: the rename must succeed, and the view
\* keeps the message if the other mailbox could not register it.
MoveOut(v) ==
  /\ Ready(v)
  /\ \E m \in view[v].msgs :
       /\ place[m.base] = m.path
       /\ place' = [place EXCEPT ![m.base] = "away"]
       /\ \/ Forget(v, m) /\ UNCHANGED used
          \/ Trouble("faults") /\ UNCHANGED view
  /\ UNCHANGED <<disk, task, running, now, stay, told>>

\* imapd_mbox_close: what STORE and EXPUNGE changed is saved now, whatever
\* comes of it.
Close(v) ==
  LET w == view[v]
  IN  /\ Ready(v)
      /\ view' = [view EXCEPT ![v] = Closed]
      /\ \/ ~w.dirty /\ UNCHANGED <<disk, used>>
         \/ /\ w.dirty
            /\ \E ok \in BOOLEAN :
                 Save(w.uidvalidity, w.uidnext, w.uidmap, w.tomb, ok)
      /\ UNCHANGED <<place, task, running, now, stay, told>>

-----------------------------------------------------------------------------
(* Messages that arrive                                                     *)

BugLeftInTmp(b) ==
  /\ "imapd" \in running /\ Free("imapd")
  /\ place[b] = "gone" /\ stay[b] = 0
  /\ place' = [place EXCEPT ![b] = "tmp"]
  /\ stay' = [stay EXCEPT ![b] = 1]
  /\ UNCHANGED <<disk, view, task, running, now, used, told>>

\* Ingest: imapd_mbox_deliver renames a new file into new/.
Deliver(b) ==
  /\ "imapd" \in running /\ Free("imapd")
  /\ place[b] = "gone" /\ stay[b] = 0
  /\ place' = [place EXCEPT ![b] = "new"]
  /\ stay' = [stay EXCEPT ![b] = 1]
  /\ UNCHANGED <<disk, view, task, running, now, used, told>>

\* The file half of imapd_mbox_deliver_uid (APPEND, Email/set create), into
\* new/ or with its flags into cur/, and of imapd_mbox_file into this mailbox,
\* under its flags into cur/.
Put(d, b) ==
  /\ Free(d)
  /\ \/ place[b] = "gone" /\ stay[b] = 0
     \/ place[b] = "away" /\ stay[b] <= MaxReturns
  /\ \E p \in Flag \cup (IF place[b] = "gone" THEN {"new"} ELSE {}) :
       place' = [place EXCEPT ![b] = p]
  /\ stay' = [stay EXCEPT ![b] = @ + 1]
  /\ task' = [task EXCEPT ![d] = <<"file", b>>]
  /\ UNCHANGED <<disk, view, running, now, used, told>>

\* mbox_register up to the save.  A base that already has a row keeps it.
RegisterLoad(d, b) ==
  LET have == {r \in disk.rows : r.base = b}
      new  == [base |-> b, uid |-> Loaded.un, modseq |-> Loaded.un + 1]
  IN  /\ task[d] = <<"file", b>>
      /\ IF have # {}
         THEN /\ task' = [task EXCEPT ![d] = Idle]
              /\ IF d = "imapd" THEN Tell(Loaded.uv, have) ELSE UNCHANGED told
         ELSE /\ task' = [task EXCEPT ![d] =
                   <<"register", b, Loaded.uv, Loaded.un + 1,
                     Loaded.rows \cup {new}>>]
              /\ UNCHANGED told
      /\ UNCHANGED <<place, disk, view, running, now, used, stay>>

\* The rest of mbox_register: the uid reported is the one in the saved file.
RegisterSave(d, b) ==
  /\ task[d][1] = "register" /\ task[d][2] = b
  /\ task' = [task EXCEPT ![d] = Idle]
  /\ \E ok \in BOOLEAN :
       /\ Save(task[d][3], task[d][4], task[d][5], {}, ok)
       /\ IF ok /\ d = "imapd"
          THEN Tell(task[d][3], {r \in disk'.rows : r.base = b})
          ELSE UNCHANGED told
  /\ UNCHANGED <<place, view, running, now, stay>>

-----------------------------------------------------------------------------
\* A daemon dies: its views go without a save.
Crash(d) ==
  /\ used.crashes < MaxCrashes /\ Spend("crashes")
  /\ view' = [v \in View |-> IF DaemonOf(v) = d THEN Closed ELSE view[v]]
  /\ task' = [task EXCEPT ![d] = Idle]
  /\ UNCHANGED <<place, disk, running, now, stay, told>>

Tick == now < MaxTime /\ now' = now + 1
        /\ UNCHANGED <<place, disk, view, task, running, used, stay, told>>

Next ==
  \/ \E v \in View : \/ Load(v) \/ ListNew(v) \/ ScanNew(v) \/ ListCur(v) \/ ScanCur(v)
                     \/ Prune(v) \/ SaveScan(v)
                     \/ Store(v) \/ Expunge(v) \/ MoveOut(v) \/ Close(v)
  \/ \E b \in Base : Deliver(b)
  \/ \E d \in running : \/ Crash(d)
                        \/ \E b \in Base : Put(d, b) \/ RegisterLoad(d, b) \/ RegisterSave(d, b)
  \/ Tick

Spec == Init /\ [][Next]_vars

-----------------------------------------------------------------------------
(* Properties                                                               *)

Msg      == [base : Base, uid : Nat, path : Place]
Stage    == {"closed", "new", "innew", "cur", "incur", "prune", "save", "open"}
ViewType == [st : Stage,
             uidvalidity : Nat, uidnext : Nat, uidmap : SUBSET Row,
             tomb : SUBSET Base, msgs : SUBSET Msg, highestmodseq : Nat,
             dirty : BOOLEAN, move : BOOLEAN, left : SUBSET (Base \X Place),
             fresh : SUBSET Row,
             changed : BOOLEAN, since : SUBSET (Base \X Nat)]
TaskType == {Idle} \cup ({"scan"} \X View) \cup ({"file"} \X Base)
            \cup ({"register"} \X Base \X Nat \X Nat \X SUBSET Row)

\* The files, the sidecar, the views and the tasks have the shape the code
\* gives them.
TypeOK ==
  /\ place \in [Base -> Place]
  /\ disk \in [uv : Nat, un : Nat, rows : SUBSET Row]
  /\ view \in [View -> ViewType]
  /\ task \in [Daemon -> TaskType]
  /\ running \subseteq Daemon
  /\ now \in Nat \ {0}
  /\ used \in [opens : Nat, stores : Nat, crashes : Nat, faults : Nat, blind : Nat]
  /\ stay \in [Base -> Nat]
  /\ told \subseteq [uv : Nat, uid : Nat, base : Base]

\* The sidecar names each message once, gives no uid to two messages, and its
\* uidnext is past every uid it holds, whoever wrote it last and with or
\* without the lock (uidlist_merge, imapd_uidlist_save).
SidecarSound ==
  /\ \A r, q \in disk.rows : r.uid = q.uid \/ r.base = q.base => r = q
  /\ \A r \in disk.rows : 0 < r.uid /\ r.uid < disk.un

\* No save under the lock takes uidnext or uidvalidity back, however old the
\* snapshot it merges (imapd_uidlist_save).
NeverRewinds ==
  [][used'.blind = used.blind =>
       disk.un <= disk'.un /\ disk.uv <= disk'.uv]_vars

\* A save under the lock drops a row of the current generation only if its
\* writer tombstoned the base: what the other daemon registered after the
\* snapshot was taken survives (imapd_uidlist_save).
RowsSurvive ==
  [][used'.blind = used.blind /\ disk'.uv = disk.uv =>
       \A b \in Bases(disk.rows) \ Bases(disk'.rows) :
         \E v \in View : view'[v] # view[v] /\ b \in view[v].tomb]_vars

\* A daemon whose view is of an older generation adds nothing to the sidecar:
\* its uids belong to a namespace that is gone (uidlist_merge).
DeadGenerationSilent ==
  [][used'.blind = used.blind =>
       \A v \in View : view'[v] # view[v] /\ view[v].st \in {"save", "open"}
                       /\ view[v].uidvalidity < disk.uv
                         => disk'.rows \subseteq disk.rows]_vars

\* What a save may do to the work of others: it takes no counter back and drops
\* or adds no row that is not its own, in its own generation or in an older one
\* (uidlist_merge).
RowsKept == NeverRewinds /\ RowsSurvive /\ DeadGenerationSilent

\* A scan sees every message that is in the mailbox from its start to its end,
\* although the other daemon may move it from new/ to cur/ meanwhile: new/ is
\* read before cur/ (mbox_scan).  It does not claim it of a message whose flags
\* a STORE of the other daemon changes after the scan has read the name in cur/
\* and before it stats it (imap_maildir.c:1623): the scan misses that one, and
\* its prune takes the file for gone, drops the row and tombstones the base
\* (1805), so that the message comes back under a new uid.
ScanComplete ==
  \A v \in View : view[v].st \in {"prune", "save"} =>
    \A b \in Base : Here(b) /\ <<b, stay[b]>> \in view[v].since
                      => b \in Bases(view[v].msgs)

\* Under one uidvalidity a uid never names two messages to the clients of
\* imapd (scan_subdir, mbox_register, uidlist_merge).
OneMessagePerUid ==
  \A s, t \in told : s.uv = t.uv /\ s.uid = t.uid => s.base = t.base

\* Everything keeps its shape, the sidecar is sound whoever wrote it last, and
\* a scan misses no message that was there all along except one renamed by a
\* STORE between readdir and stat, whatever daemons run (uidlist_merge,
\* mbox_scan).
SidecarAndScan == TypeOK /\ SidecarSound /\ ScanComplete

\* Only imapd uses the tree.
Alone == running = {"imapd"}

\* On a tree that only imapd uses, and as long as every save has had the lock,
\* a uid never names two messages to its clients under one uidvalidity
\* (scan_subdir, mbox_register, uidlist_merge).
AloneOneMessagePerUid == Alone /\ used.blind = 0 => OneMessagePerUid

\* On a tree that only imapd uses, every scan that succeeds leaves a row in the
\* sidecar for each message it found and that is still there (mbox_scan).
AloneScanRegisters ==
  [][Alone => \A v \in View : view[v].st = "save" /\ view'[v].st = "open" =>
       \A b \in Bases(view[v].msgs) : Here(b) => b \in Bases(disk'.rows)]_vars

-----------------------------------------------------------------------------
(* The inductive invariant behind SidecarAndScan and RowsKept               *)

\* The stages at which a scan is at the directories.
Reading == {"new", "innew", "cur", "incur"}

UniqueUids(R) == \A r, q \in R : r.uid = q.uid => r = q
OneRowEach(R) == \A r, q \in R : r.base = q.base => r = q

\* Rows that were given out from a counter that now stands at un.
Counted(R, un) ==
  /\ IsFiniteSet(R) /\ un > 0 /\ UniqueUids(R)
  /\ \A r \in R : 0 < r.uid /\ r.uid < un

Sound(R, un) == Counted(R, un) /\ OneRowEach(R)

\* The uids of a view's messages come from its counter, their paths from the
\* two directories.  A message that a scan
\* met twice was met in new/ first and has left it for good.
MsgsInv(w, pl, sy) ==
  /\ \A m \in w.msgs :
       0 < m.uid /\ m.uid < w.uidnext /\ 0 < sy[m.base] /\ m.path \notin {"away", "gone"}
  /\ \A m, n \in w.msgs : m.base = n.base /\ m.uid < n.uid =>
       m.path = "new" /\ pl[m.base] # "new"

\* How far a scan has come with the rows: the loaded ones and those of the
\* first pass name a message once each, both passes together need not.
ScanInv(w) ==
  /\ w.st = "new" => w.msgs = {} /\ w.fresh = {}
  /\ w.st \in Reading =>
       /\ OneRowEach(w.uidmap \ w.fresh)
       /\ \A m \in w.msgs, r \in w.uidmap \ w.fresh : m.base = r.base => m.uid = r.uid
  /\ w.st \in {"innew", "cur"} =>
       /\ \A m, n \in w.msgs : m.base = n.base => m.uid = n.uid
       /\ \A m \in w.msgs : m.path = "new"

\* The names that are still to be looked at: one for each file, which this pass
\* has not met.  No file returns from cur/ to new/.
LeftInv(w, pl, sy) ==
  /\ w.st \in {"innew", "incur"} => \A x, y \in w.left : x[1] = y[1] => x = y
  /\ w.st = "innew" => \A x \in w.left :
       0 < sy[x[1]] /\ x[2] = "new" /\ x[1] \notin Bases(w.msgs)
  /\ w.st = "incur" => \A x \in w.left :
       /\ 0 < sy[x[1]] /\ x[2] \in Flag /\ pl[x[1]] # "new"
       /\ \A m \in w.msgs : m.base = x[1] => m.path = "new"

\* What the scan leaves names a message once.  Where a message of the view and
\* the row of its base differ, the file cannot be reached by the message.
RowsInv(w, pl) ==
  w.st \in {"save", "open"} =>
    /\ OneRowEach(w.uidmap)
    /\ \A r \in w.uidmap, m \in w.msgs : r.base = m.base /\ r.uid # m.uid =>
         m.path = "new" /\ pl[m.base] # "new"

\* A message that has been there since the scan began is in the part that is
\* still to be read, or in the view.
SinceInv(w, pl, sy) ==
  /\ \A x \in w.since : x[2] <= sy[x[1]]
  /\ \A b \in Base : <<b, sy[b]>> \in w.since =>
       /\ w.st = "innew" /\ pl[b] = "new" => b \in Bases(w.msgs) \/ \E x \in w.left : x[1] = b
       /\ w.st = "cur" /\ pl[b] = "new" => b \in Bases(w.msgs)
       /\ w.st = "incur" /\ pl[b] \notin {"away", "gone"} =>
            b \in Bases(w.msgs) \/ \E x \in w.left : x[1] = b
       /\ w.st \in {"prune", "save"} /\ pl[b] \notin {"away", "gone"} => b \in Bases(w.msgs)

ViewInv(w, pl, sy) ==
  /\ Counted(w.uidmap, w.uidnext)
  /\ MsgsInv(w, pl, sy) /\ ScanInv(w) /\ LeftInv(w, pl, sy) /\ RowsInv(w, pl)
  /\ SinceInv(w, pl, sy)

TaskInv(t) == t[1] = "register" => Sound(t[5], t[4])

IndInv ==
  /\ TypeOK
  /\ \A b \in Base : place[b] # "gone" => 0 < stay[b]
  /\ Sound(disk.rows, disk.un)
  /\ \A v \in View : ViewInv(view[v], place, stay)
  /\ \A d \in Daemon : TaskInv(task[d])

-----------------------------------------------------------------------------
(* What imapd alone adds to it: nothing happens to the files and the        *)
(* sidecar while it scans or registers                                      *)

Scanning(w) == w.st \in Reading \cup {"prune", "save"}

\* A scan in progress: its rows are those of the sidecar or have a uid that the
\* sidecar has not given out, and each of its messages has one of them.
AloneScan(w, dk, pl) ==
  /\ w.uidvalidity > 0 /\ dk.uv \in {0, w.uidvalidity} /\ ~w.dirty
  /\ dk.un <= w.uidnext /\ OneRowEach(w.uidmap)
  /\ \A r \in w.uidmap : r \in dk.rows \/ dk.un <= r.uid
  /\ \A m \in w.msgs : \E r \in w.uidmap : r.base = m.base /\ r.uid = m.uid
  /\ w.tomb \cap Bases(w.uidmap) = {} /\ (w.st # "save" => w.tomb = {})
  /\ ~w.changed => w.uidmap = dk.rows
  /\ w.st \in {"innew", "cur"} => \A r \in w.fresh : pl[r.base] = "new"
  /\ w.st \in {"innew", "incur"} => \A x \in w.left : x[1] \notin Bases(w.fresh)

\* A registration in progress: the rows of the sidecar and one more.
AloneRegister(t, dk) ==
  t[1] = "register" =>
    /\ t[3] > 0 /\ dk.uv \in {0, t[3]} /\ dk.un <= t[4]
    /\ \A r \in t[5] : r \in dk.rows \/ dk.un <= r.uid

\* imapd does one thing at a time, and jmapd nothing.
AloneInv ==
  /\ \A v \in View : view[v].st # "closed" => DaemonOf(v) = "imapd"
  /\ \A v \in View : Scanning(view[v]) =>
       task["imapd"] = <<"scan", v>> /\ AloneScan(view[v], disk, place)
  /\ AloneRegister(task["imapd"], disk)

\* The uids in use and their messages: what clients were told, what the sidecar
\* holds, and what the open views hold.
Pairs(R) == {<<r.uid, r.base>> : r \in R}
Names(tl, dk, vw) ==
  Pairs(tl) \cup Pairs(dk.rows) \cup
  UNION {Pairs(vw[v].uidmap) \cup Pairs(vw[v].msgs) : v \in {u \in View : vw[u].st = "open"}}

OneNameEach(N, un) ==
  /\ \A x \in N : x[1] < un
  /\ \A x, y \in N : x[1] = y[1] => x[2] = y[2]

\* Without blind saves there is one generation, and views of no generation are
\* empty.
NamesInv(tl, dk, vw) ==
  /\ OneNameEach(Names(tl, dk, vw), dk.un)
  /\ \A t \in tl : t.uv = dk.uv /\ dk.uv > 0
  /\ dk.uv = 0 => dk.rows = {}
  /\ \A v \in View : vw[v].st = "open" =>
       \/ vw[v].uidvalidity = dk.uv /\ dk.uv > 0
       \/ vw[v].uidmap = {} /\ vw[v].msgs = {} /\ ~vw[v].dirty

AloneIndInv == Alone => AloneInv /\ (used.blind = 0 => NamesInv(told, disk, view))

=============================================================================
