------------------------- MODULE JmapStateProofs -------------------------
(* The state strings of jmapd are honest, and reading moves none of them: the *)
(* two invariants of JmapState, for every number of messages, changes, failed *)
(* writes and crashes.                                                        *)
EXTENDS JmapState, FiniteSetTheorems, TLAPS

\* The files of a mailbox can be counted.
LEMMA Countable ==
  ASSUME NEW S
  PROVE  /\ IsFiniteSet(Files(S)) /\ Cardinality(Files(S)) \in Nat
         /\ IsFiniteSet(Files(S)') /\ Cardinality(Files(S)') \in Nat
<1>1. Files(S) \in SUBSET Msg /\ Files(S)' \in SUBSET Msg
  BY Zenon DEF Files
<1>2. IsFiniteSet(Msg)
  BY Zenon, StateAssumption
<1>3. IsFiniteSet(Files(S)) /\ IsFiniteSet(Files(S)')
  BY Zenon, <1>1, <1>2, FS_Subset
<1> QED
  BY Zenon, <1>3, FS_CardinalityType

\* Their number, and what jmapd_state_fingerprint makes of them.
LEMMA CountType ==
  /\ Here \in Nat /\ Here' \in Nat
  /\ mtime \in Nat => Fingerprint \in [new : Nat, cur : Nat, mtime : Nat]
  /\ mtime' \in Nat => Fingerprint' \in [new : Nat, cur : Nat, mtime : Nat]
<1> DEFINE n == Cardinality(Files({"new"}))
           c == Cardinality(Files(Cur))
<1>1. n \in Nat /\ c \in Nat /\ n' \in Nat /\ c' \in Nat
  BY Zenon, Countable
<1> QED
  BY <1>1 DEF Here, Fingerprint

-----------------------------------------------------------------------------
(* Steps that leave jmapd-state alone                                         *)

\* Nothing was taken away behind the sidecar's back: it was saved, or a change
\* still waits for its save, or files were only added.
OnlyAdded ==
  /\ mtime <= mtime'
  /\ mtime' = mtime /\ ~late' => /\ ~late /\ Here <= Here'
                                 /\ Here' = Here => Content' = Content

\* A request ends or goes on with the record it has.
SameRecord == req'.pc = "idle" \/ (req.pc # "idle" /\ req'.st = req.st)

\* The record of jmapd-state stays as good as it was.
LEMMA RecordStays ==
  ASSUME IndInv, TypeOK', UNCHANGED file, Moved, OnlyAdded,
         SameRecord \/ UNCHANGED req
  PROVE  RecordInv'
<1>1. Here \in Nat /\ Here' \in Nat
  BY Zenon, CountType
<1>2. moves' \in {moves, moves + 1} /\ (Fingerprint' # Fingerprint => moves' = moves + 1)
  BY DEF Moved, IndInv, TypeOK
<1> QED
  BY <1>1, <1>2 DEF IndInv, TypeOK, RecordInv, OnlyAdded, SameRecord, Known

\* A client keeps what it can rely on.
LEMMA ClientStays ==
  ASSUME IndInv, TypeOK', UNCHANGED <<file, client>>, OnlyAdded
  PROVE  ClientInv'
<1>1. Here \in Nat /\ Here' \in Nat
  BY Zenon, CountType
<1> QED
  BY <1>1 DEF IndInv, TypeOK, RecordInv, ClientInv, OnlyAdded, Known

\* What the client of an Email/set under way can rely on stays, when nothing
\* happens to the mailbox, and is not asked for otherwise.
LEMMA SetStays ==
  ASSUME IndInv, UNCHANGED <<client, req>>, Content' = Content
  PROVE  SetInv'
BY Zenon DEF IndInv, SetInv
LEMMA SetNotAsked ==
  ASSUME req'.crossed \/ req'.pc \in {"idle", "get"}
  PROVE  SetInv'
BY Zenon DEF SetInv

\* A request that imapd crosses is the same request.
LEMMA CrossedRequest ==
  ASSUME TypeOK, req' = Crossed
  PROVE  /\ req'.pc = req.pc /\ req'.msg = req.msg /\ req'.new = req.new /\ req'.st = req.st
         /\ req'.crossed \in BOOLEAN /\ SameRecord /\ SetInv'
<1>1. CASE req.pc = "idle"
  <2>1. req' = req
    BY Zenon, <1>1 DEF Crossed
  <2> QED
    BY Zenon, <1>1, <2>1, SetNotAsked DEF TypeOK, SameRecord
<1>2. CASE req.pc # "idle"
  <2>1. req' = [req EXCEPT !.crossed = TRUE]
    BY Zenon, <1>2 DEF Crossed
  <2>2. req'.pc = req.pc /\ req'.msg = req.msg /\ req'.new = req.new /\ req'.st = req.st
    BY <2>1 DEF TypeOK
  <2>3. req'.crossed
    BY <2>1 DEF TypeOK
  <2>4. req'.crossed \in BOOLEAN
    BY <2>1 DEF TypeOK
  <2> QED
    BY Zenon, <1>2, <2>2, <2>3, <2>4, SetNotAsked DEF SameRecord
<1> QED
  BY Zenon, <1>1, <1>2

\* A file that is neither in new/ nor in cur/ counts nowhere.
LEMMA AddedFile ==
  ASSUME TypeOK, NEW m \in Msg, box[m] = "none", box' = [box EXCEPT ![m] = "new"]
  PROVE  Here' = Here + 1
<1>1. Files({"new"})' = Files({"new"}) \cup {m} /\ m \notin Files({"new"})
  BY Zenon DEF TypeOK, Files, Cur
<1>2. Files(Cur)' = Files(Cur)
  BY Zenon DEF TypeOK, Files, Cur
<1>3. Cardinality(Files({"new"})') = Cardinality(Files({"new"})) + 1
  BY Zenon, <1>1, Countable, FS_AddElement
<1> QED
  BY <1>2, <1>3, Countable DEF Here

\* What SELECT moves from new/ to cur/ is counted once before and once after.
LEMMA MovedFiles ==
  ASSUME TypeOK, box' = [m \in Msg |-> IF box[m] = "new" THEN "plain" ELSE box[m]]
  PROVE  Here' = Here /\ Content' = Content
<1>1. Files({"new"})' = {} /\ Files(Cur)' = Files({"new"}) \cup Files(Cur)
  BY Zenon DEF TypeOK, Files, Cur
<1>2. Files({"new"}) \cap Files(Cur) = {}
  BY Zenon DEF Files, Cur
<1>3. Cardinality(Files({"new"})') = 0
  BY Zenon, <1>1, FS_EmptySet
<1>4. Cardinality(Files(Cur)') = Cardinality(Files({"new"})) + Cardinality(Files(Cur))
  <2> DEFINE n == Files({"new"})
             c == Files(Cur)
  <2>1. IsFiniteSet(n) /\ IsFiniteSet(c) /\ n \cap c = {}
    BY Zenon, <1>2, Countable
  <2> HIDE DEF n, c
  <2>2. Cardinality(n) \in Nat /\ Cardinality(c) \in Nat
    BY Zenon, <2>1, FS_CardinalityType
  <2>3. Cardinality(n \cup c) = Cardinality(n) + Cardinality(c) - Cardinality(n \cap c)
    BY Zenon, <2>1, FS_Union
  <2>4. Cardinality(n \cap c) = 0
    BY Zenon, <2>1, FS_EmptySet
  <2>5. Cardinality(n \cup c) = Cardinality(n) + Cardinality(c)
    <3> DEFINE x == Cardinality(n)
               y == Cardinality(c)
    <3>1. Cardinality(n \cup c) = x + y - 0 /\ x \in Nat /\ y \in Nat
      BY Zenon, <2>2, <2>3, <2>4
    <3> HIDE DEF x, y
    <3>2. x + y - 0 = x + y
      BY <3>1
    <3> QED
      BY Zenon, <3>1, <3>2 DEF x, y
  <2> QED
    BY Zenon, <1>1, <2>5 DEF n, c
<1>5. Here' = Here
  BY <1>3, <1>4, Countable DEF Here
<1>6. Content' = Content
  BY Zenon DEF TypeOK, Content, Cur
<1> QED
  BY Zenon, <1>5, <1>6

\* mbox_scan saves the sidecar or leaves it.
LEMMA ScanType ==
  ASSUME TypeOK, Scan
  PROVE  /\ rows' \subseteq Msg /\ mtime' \in Nat /\ late' \in BOOLEAN
         /\ mtime <= mtime' /\ (mtime' = mtime => late' = late)
<1>1. CASE Files({"new"} \cup Cur) # rows
  <2>1. rows' = Files({"new"} \cup Cur) /\ mtime' = mtime + 1 /\ late' = FALSE
    BY Zenon, <1>1 DEF Scan, Saved
  <2>2. rows' \subseteq Msg /\ mtime' \in Nat /\ mtime <= mtime' /\ mtime' # mtime
    BY <2>1 DEF TypeOK, Files
  <2>3. late' \in BOOLEAN
    BY <2>1, Zenon
  <2> QED
    BY <2>2, <2>3, Zenon
<1>2. CASE Files({"new"} \cup Cur) = rows
  BY <1>2 DEF TypeOK, Scan
<1> QED
  BY Zenon, <1>1, <1>2

-----------------------------------------------------------------------------
(* The steps of imapd                                                         *)

\* A delivery keeps the invariant.
LEMMA DeliverKeeps == IndInv /\ (\E m \in Msg : Deliver(m)) => IndInv'
<1> SUFFICES ASSUME IndInv, NEW m \in Msg, Deliver(m) PROVE IndInv'
  BY Zenon
<1> USE DEF Deliver
<1>0. req' = Crossed /\ TypeOK
  BY Zenon DEF IndInv
<1>1. TypeOK'
  <2>1. box' \in [Msg -> {"none", "new", "gone"} \cup Cur]
    BY Zenon DEF IndInv, TypeOK, Cur
  <2>2. moves' \in Nat
    BY DEF IndInv, TypeOK, Moved
  <2> QED
    BY Zenon, <1>0, <2>1, <2>2, CrossedRequest DEF IndInv, TypeOK
<1>2. Here' = Here + 1 /\ Here \in Nat
  BY Zenon, AddedFile, CountType DEF IndInv
<1>3. OnlyAdded
  BY <1>2 DEF OnlyAdded, IndInv, TypeOK
<1> QED
  BY Zenon, <1>0, <1>1, <1>3, CrossedRequest, RecordStays, ClientStays DEF IndInv

\* A SELECT keeps it.
LEMMA SelectKeeps == IndInv /\ Select => IndInv'
<1> SUFFICES ASSUME IndInv, Select PROVE IndInv'
  BY Zenon
<1> USE DEF Select
<1>1. TypeOK'
  BY ScanType DEF IndInv, TypeOK, Moved, Cur
<1>2. Here' = Here /\ Content' = Content /\ Here \in Nat
  BY Zenon, MovedFiles, CountType DEF IndInv
<1>3. OnlyAdded
  BY <1>2, ScanType DEF OnlyAdded, IndInv, TypeOK
<1> QED
  BY Zenon, <1>1, <1>2, <1>3, RecordStays, ClientStays, SetStays DEF IndInv

\* STORE and EXPUNGE keep it.
LEMMA StoreOrExpungeKeeps == IndInv /\ (\E m \in Msg : StoreOrExpunge(m)) => IndInv'
<1> SUFFICES ASSUME IndInv, NEW m \in Msg, StoreOrExpunge(m) PROVE IndInv'
  BY Zenon
<1> USE DEF StoreOrExpunge
<1>0. req' = Crossed /\ TypeOK
  BY Zenon DEF IndInv
<1>1. TypeOK'
  <2>1. box' \in [Msg -> {"none", "new", "gone"} \cup Cur]
    BY Zenon DEF IndInv, TypeOK, Cur
  <2>2. moves' \in Nat
    BY DEF IndInv, TypeOK, Moved
  <2>3. late' \in BOOLEAN
    BY Zenon
  <2> QED
    BY Zenon, <1>0, <2>1, <2>2, <2>3, CrossedRequest DEF IndInv, TypeOK
<1>2. OnlyAdded
  BY DEF OnlyAdded, IndInv, TypeOK
<1> QED
  BY Zenon, <1>0, <1>1, <1>2, CrossedRequest, RecordStays, ClientStays DEF IndInv

\* The end of an IMAP session keeps it.
LEMMA CloseKeeps == IndInv /\ Close => IndInv'
<1> SUFFICES ASSUME IndInv, Close PROVE IndInv'
  BY Zenon
<1> USE DEF Close
<1>1. TypeOK'
  <2>1. rows' \subseteq Msg /\ mtime' \in Nat /\ late' \in BOOLEAN
    <3>1. CASE session = "dirty"
      <4>1. rows' = rows \ Files({"gone"}) /\ mtime' = mtime + 1 /\ late' = FALSE
        BY Zenon, <3>1 DEF Saved
      <4>2. late' \in BOOLEAN
        BY <4>1, Zenon
      <4>3. rows' \subseteq Msg /\ mtime' \in Nat
        BY <4>1 DEF IndInv, TypeOK
      <4> QED
        BY <4>2, <4>3, Zenon
    <3>2. CASE session # "dirty" BY Zenon, <3>2 DEF IndInv, TypeOK
    <3> QED BY Zenon, <3>1, <3>2
  <2>2. moves' \in Nat
    BY DEF IndInv, TypeOK, Moved
  <2> QED
    BY Zenon, <2>1, <2>2 DEF IndInv, TypeOK
<1>2. Here' = Here /\ Content' = Content /\ Here \in Nat
  BY Zenon, CountType DEF Here, Content, Files
<1>3. OnlyAdded
  BY <1>2 DEF OnlyAdded, IndInv, TypeOK, Saved
<1> QED
  BY Zenon, <1>1, <1>2, <1>3, RecordStays, ClientStays, SetStays DEF IndInv

\* A step that touches neither the maildir nor jmapd-state.
LEMMA Elsewhere ==
  ASSUME IndInv, UNCHANGED <<maildir, file, client, moves>>, UNCHANGED req \/ req' = None
  PROVE  IndInv'
<1>1. TypeOK'
  <2>1. CASE UNCHANGED req
    BY Zenon, <2>1 DEF IndInv, TypeOK, maildir
  <2>2. CASE req' = None
    BY Zenon, <2>2 DEF IndInv, TypeOK, maildir, None, NoFp
  <2> QED
    BY Zenon, <2>1, <2>2
<1>2. Here' = Here /\ Content' = Content /\ Fingerprint' = Fingerprint /\ Here \in Nat
  BY Zenon, CountType DEF Here, Content, Fingerprint, Files, maildir
<1>3. OnlyAdded
  BY <1>2 DEF OnlyAdded, IndInv, TypeOK, maildir
<1>4. Moved
  BY <1>2 DEF Moved, IndInv, TypeOK
<1>5. SameRecord \/ UNCHANGED req
  BY DEF SameRecord, None
<1>6. SetInv'
  <2>1. CASE UNCHANGED req
    BY Zenon, <1>2, <2>1, SetStays
  <2>2. CASE req' = None
    <3>1. req'.pc = "idle"
      BY Zenon, <2>2 DEF None
    <3> QED
      BY Zenon, <3>1, SetNotAsked
  <2> QED
    BY Zenon, <2>1, <2>2
<1> QED
  BY Zenon, <1>1, <1>3, <1>4, <1>5, <1>6, RecordStays, ClientStays DEF IndInv

-----------------------------------------------------------------------------
(* The steps of jmapd                                                         *)

\* jmapd_state_sync: the record it starts from, and the one it may leave behind.
LEMMA SyncedType ==
  ASSUME IndInv
  PROVE  /\ Synced \in [have : BOOLEAN, email : Nat, fp : [new : Nat, cur : Nat, mtime : Nat]]
         /\ file.email <= Synced.email /\ Synced.email <= moves
         /\ file.have => \/ Synced = file
                         \/ /\ file.fp # Fingerprint /\ Synced.have
                            /\ Synced.email = file.email + 1 /\ Synced.fp = Fingerprint
<1>1. Fingerprint \in [new : Nat, cur : Nat, mtime : Nat]
  BY Zenon, CountType DEF IndInv, TypeOK
<1>2. CASE ~file.have
  <2>1. Synced = [file EXCEPT !.have = TRUE, !.fp = Fingerprint]
    BY Zenon, <1>2 DEF Synced
  <2>2. Synced = [have |-> TRUE, email |-> file.email, fp |-> Fingerprint]
    BY Zenon, <2>1 DEF IndInv, TypeOK
  <2>3. Synced \in [have : BOOLEAN, email : Nat, fp : [new : Nat, cur : Nat, mtime : Nat]]
    BY Zenon, <1>1, <2>2 DEF IndInv, TypeOK
  <2> QED
    BY <1>2, <2>2, <2>3 DEF IndInv, TypeOK, RecordInv
<1>3. CASE file.have /\ file.fp = Fingerprint
  BY <1>3 DEF IndInv, TypeOK, RecordInv, Synced
<1>4. CASE file.have /\ file.fp # Fingerprint
  <2>1. Synced = [file EXCEPT !.email = @ + 1, !.fp = Fingerprint]
    BY Zenon, <1>4 DEF Synced, Raised
  <2>2. Synced = [have |-> file.have, email |-> file.email + 1, fp |-> Fingerprint]
    BY Zenon, <2>1 DEF IndInv, TypeOK
  <2>3. Synced \in [have : BOOLEAN, email : Nat, fp : [new : Nat, cur : Nat, mtime : Nat]]
    BY <1>1, <2>2 DEF IndInv, TypeOK
  <2> QED
    BY <1>4, <2>2, <2>3 DEF IndInv, TypeOK, RecordInv
<1> QED
  BY Zenon, <1>2, <1>3, <1>4

\* A client whose state a request finds unmoved is right.
LEMMA RightNow ==
  ASSUME IndInv, client.sure, ~late, Synced.email = client.state
  PROVE  client.box = Content
<1>1. Synced = file \/ Synced.email = file.email + 1
  BY Zenon, SyncedType DEF IndInv, ClientInv
<1>2. Synced = file
  BY <1>1 DEF IndInv, ClientInv, TypeOK
<1>3. file.fp = Fingerprint
  BY Zenon, <1>2, CountType DEF Synced, Raised, IndInv, ClientInv, TypeOK
<1>4. file.fp.mtime = mtime /\ Known = Here
  BY <1>3 DEF Known, Here, Fingerprint
<1> QED
  BY Zenon, <1>2, <1>4 DEF IndInv, ClientInv

\* The start of a request, of either kind.
LEMMA SyncKeeps ==
  ASSUME IndInv, NEW pc \in {"get", "set"}, NEW m, NEW new, Sync(pc, m, new),
         pc = "set" => m \in Msg /\ new \in Cur \cup {"gone"}
  PROVE  IndInv'
<1> USE DEF Sync
<1>1. /\ req'.pc = pc /\ req'.msg = m /\ req'.new = new /\ req'.st = Synced
      /\ req'.crossed = late
  BY Zenon
<1>2. file' = file \/ (file.have /\ file' = Synced)
  BY Zenon
<1>3. TypeOK'
  BY Zenon, <1>1, <1>2, SyncedType DEF IndInv, TypeOK, maildir
<1>4. Here' = Here /\ Content' = Content /\ Fingerprint' = Fingerprint /\ Here \in Nat
  BY Zenon, CountType DEF Here, Content, Fingerprint, Files, maildir
<1>5. Fingerprint.new + Fingerprint.cur = Here /\ Fingerprint.mtime = mtime
  BY Zenon DEF Fingerprint, Here
<1>6. RecordInv'
  BY <1>1, <1>2, <1>4, <1>5, SyncedType DEF IndInv, TypeOK, RecordInv, Known, maildir
<1>7. ClientInv'
  BY <1>2, <1>4, SyncedType DEF IndInv, TypeOK, ClientInv, Known, maildir
<1>8. SetInv'
  BY Zenon, <1>1, <1>4, RightNow DEF SetInv
<1> QED
  BY Zenon, <1>3, <1>6, <1>7, <1>8 DEF IndInv

\* A client that is told a state on record, and is right if it is sure of it.
LEMMA AnswerSound ==
  ASSUME NEW state \in Int, NEW content, NEW of, Answer(state, content, of),
         of => content = Content'
  PROVE  ClientInv' /\ client'.state \in Int /\ client'.sure \in BOOLEAN
<1> DEFINE sure == of /\ file'.have /\ file'.email = state
<1>1. client' = [state |-> state, box |-> content, sure |-> sure]
  BY Zenon DEF Answer
<1>2. client'.state = state /\ client'.box = content /\ client'.sure = sure
  BY Zenon, <1>1
<1>3. sure \in BOOLEAN
  BY Zenon
<1>4. client'.sure => file'.have /\ file'.email = client'.state /\ client'.box = Content'
  BY Zenon, <1>2
<1>5. ClientInv'
  BY <1>2, <1>4 DEF ClientInv
<1> QED
  BY Zenon, <1>2, <1>3, <1>5

\* A request that only reads keeps it.
LEMMA ReadKeeps == IndInv /\ Read => IndInv'
<1> SUFFICES ASSUME IndInv, Read PROVE IndInv'
  BY Zenon
<1> USE DEF Read
<1>1. TypeOK'
  BY ScanType DEF IndInv, TypeOK, Moved, Answer, None, NoFp
<1>2. Here' = Here /\ Content' = Content /\ Here \in Nat
  BY Zenon, CountType DEF Here, Content, Files
<1>3. OnlyAdded
  BY <1>2, ScanType DEF OnlyAdded, IndInv, TypeOK
<1>4. RecordInv'
  BY Zenon, <1>1, <1>3, RecordStays DEF SameRecord, None
<1>5. ClientInv'
  <2>1. req.st.email \in Int
    BY DEF IndInv, TypeOK
  <2>2. Answer(req.st.email, Content, TRUE) /\ (TRUE => Content = Content')
    BY Zenon, <1>2
  <2> QED
    BY Zenon, <2>1, <2>2, AnswerSound
<1>6. req'.pc = "idle"
  BY Zenon DEF None
<1>7. SetInv'
  BY Zenon, <1>6, SetNotAsked
<1> QED
  BY Zenon, <1>1, <1>4, <1>5, <1>7 DEF IndInv

\* The writes of Email/set: the sidecar is saved, or nothing was to be written.
LEMMA WriteKeeps == IndInv /\ Write => IndInv'
<1> SUFFICES ASSUME IndInv, Write PROVE IndInv'
  BY Zenon
<1> DEFINE create == box[req.msg] = "none"
           writes == IF create THEN req.new # "gone"
                               ELSE Content[req.msg] \notin {"gone", req.new}
<1>0. /\ req.pc = "set" /\ req.msg \in Msg /\ req.new \in Cur \cup {"gone"}
      /\ UNCHANGED <<session, file, client>> /\ Moved
  BY Zenon DEF Write, IndInv, TypeOK
<1>1. CASE writes
  <2>1. /\ box' = [box EXCEPT ![req.msg] =
                     IF create /\ req.new = "plain" THEN "new" ELSE req.new]
        /\ Saved({m \in Msg : box'[m] \notin {"none", "gone"}})
        /\ req' = [req EXCEPT !.pc = "bump"]
    BY Zenon, <1>1 DEF Write
  <2>2. box' \in [Msg -> {"none", "new", "gone"} \cup Cur]
    BY Zenon, <1>0, <2>1 DEF IndInv, TypeOK, Cur
  <2>3. rows' \subseteq Msg /\ mtime' = mtime + 1 /\ mtime' \in Nat
    BY <2>1 DEF Saved, IndInv, TypeOK
  <2>4. late' \in BOOLEAN
    BY <2>1, Zenon DEF Saved
  <2>5. moves' \in Nat
    BY <1>0 DEF Moved, IndInv, TypeOK
  <2>6. /\ req'.pc = "bump" /\ req'.msg = req.msg /\ req'.new = req.new /\ req'.st = req.st
        /\ req'.crossed = req.crossed
    BY <2>1 DEF IndInv, TypeOK
  <2>7. TypeOK'
    BY Zenon, <1>0, <2>2, <2>3, <2>4, <2>5, <2>6 DEF IndInv, TypeOK
  <2>8. OnlyAdded
    BY <2>3 DEF OnlyAdded, IndInv, TypeOK
  <2>9. Content' = [Content EXCEPT ![req.msg] = req.new]
    <3>1. ASSUME NEW m \in Msg PROVE Content'[m] = [Content EXCEPT ![req.msg] = req.new][m]
      <4>1. CASE m = req.msg
        BY <1>0, <2>1, <4>1 DEF IndInv, TypeOK, Content, Cur
      <4>2. CASE m # req.msg
        <5>1. box'[m] = box[m]
          BY Zenon, <2>1, <4>2 DEF IndInv, TypeOK
        <5> QED
          BY Zenon, <4>2, <5>1 DEF Content
      <4> QED
        BY Zenon, <4>1, <4>2
    <3> QED
      BY Zenon, <3>1 DEF Content
  <2>10. SetInv'
    BY Zenon, <1>0, <2>6, <2>9 DEF IndInv, SetInv
  <2> QED
    BY Zenon, <1>0, <2>6, <2>7, <2>8, <2>10, RecordStays, ClientStays DEF IndInv, SameRecord
<1>2. CASE ~writes
  <2>1. Scan /\ req' = None /\ UNCHANGED box
    BY Zenon, <1>2 DEF Write
  <2>2. TypeOK'
    BY <1>0, <2>1, ScanType DEF IndInv, TypeOK, Moved, None, NoFp
  <2>3. Here' = Here /\ Content' = Content /\ Here \in Nat
    BY Zenon, <2>1, CountType DEF Here, Content, Files
  <2>4. OnlyAdded
    BY <2>1, <2>3, ScanType DEF OnlyAdded, IndInv, TypeOK
  <2>5. SetInv'
    BY Zenon, <2>1, SetNotAsked DEF None
  <2> QED
    BY Zenon, <1>0, <2>1, <2>2, <2>4, <2>5, RecordStays, ClientStays DEF IndInv, SameRecord, None
<1> QED
  BY Zenon, <1>1, <1>2

\* The commit of Email/set.
LEMMA BumpKeeps == IndInv /\ Bump => IndInv'
<1> SUFFICES ASSUME IndInv, Bump PROVE IndInv'
  BY Zenon
<1>1. /\ req.pc = "bump" /\ UNCHANGED <<box, rows, mtime, late>>
      /\ moves' = moves + 1 /\ req' = None /\ moves \in Nat
      /\ req.st.email \in Nat /\ req.msg \in Msg
      /\ file.email <= req.st.email /\ req.st.email <= moves
  BY Zenon DEF Bump, maildir, IndInv, TypeOK, RecordInv
<1>2. /\ Fingerprint \in [new : Nat, cur : Nat, mtime : Nat] /\ Here \in Nat
      /\ Fingerprint' = Fingerprint /\ Here' = Here /\ Content' = Content
      /\ Fingerprint.new + Fingerprint.cur = Here /\ Fingerprint.mtime = mtime
  <2>1. Fingerprint \in [new : Nat, cur : Nat, mtime : Nat] /\ Here \in Nat
    BY Zenon, CountType DEF IndInv, TypeOK
  <2>2. Fingerprint' = Fingerprint /\ Here' = Here /\ Content' = Content
    BY Zenon, <1>1 DEF Here, Content, Fingerprint, Files
  <2>3. Fingerprint.new + Fingerprint.cur = Here /\ Fingerprint.mtime = mtime
    BY Zenon DEF Here, Fingerprint
  <2> QED
    BY Zenon, <2>1, <2>2, <2>3
<1>3. \/ file' = file
      \/ /\ file'.have /\ file'.email = req.st.email + 1 /\ file'.fp = Fingerprint
         /\ file' \in [have : BOOLEAN, email : Nat, fp : [new : Nat, cur : Nat, mtime : Nat]]
  <2>1. CASE file' = Bumped(req.st)
    <3>1. file' = [have |-> TRUE, email |-> req.st.email + 1, fp |-> Fingerprint]
      BY Zenon, <2>1 DEF Bumped
    <3> QED
      BY <1>1, <1>2, <3>1
  <2> QED
    BY Zenon, <2>1 DEF Bump
<1> DEFINE now == [client.box EXCEPT ![req.msg] = req.new]
           sure == client.sure /\ ~req.crossed
<1>4. \/ UNCHANGED client
      \/ client.state = req.st.email /\ Answer(req.st.email + 1, now, sure)
  BY Zenon DEF Bump
<1>9. ASSUME client.state = req.st.email, sure PROVE now = Content'
  BY Zenon, <1>1, <1>2, <1>9 DEF IndInv, SetInv
<1> HIDE DEF now, sure
<1>5. client'.state \in Int /\ client'.sure \in BOOLEAN
  <2>1. CASE UNCHANGED client
    BY Zenon, <2>1 DEF IndInv, TypeOK
  <2>2. CASE client.state = req.st.email /\ Answer(req.st.email + 1, now, sure)
    BY <1>1, <1>9, <2>2, AnswerSound
  <2> QED
    BY Zenon, <1>4, <2>1, <2>2
<1>6. TypeOK'
  BY <1>1, <1>3, <1>5 DEF IndInv, TypeOK, None, NoFp
<1>7. RecordInv'
  BY <1>1, <1>2, <1>3 DEF IndInv, TypeOK, RecordInv, None, Known
<1>8. ClientInv'
  <2>1. CASE UNCHANGED client
    BY <1>1, <1>2, <1>3, <2>1 DEF IndInv, TypeOK, ClientInv, Known
  <2>2. CASE client.state = req.st.email /\ Answer(req.st.email + 1, now, sure)
    BY <1>1, <1>9, <2>2, AnswerSound
  <2> QED
    BY Zenon, <1>4, <2>1, <2>2
<1>10. SetInv'
  BY Zenon, <1>1, SetNotAsked DEF None
<1> QED
  BY Zenon, <1>6, <1>7, <1>8, <1>10 DEF IndInv

-----------------------------------------------------------------------------
(* The theorems                                                               *)

\* It holds at the start.
LEMMA InitInv == Init => IndInv
<1> SUFFICES ASSUME Init PROVE IndInv
  BY Zenon
<1> USE DEF Init
<1>0. NoFp \in [new : Nat, cur : Nat, mtime : Nat]
  BY Zenon DEF NoFp
<1>1. TypeOK
  <2>1. file \in [have : BOOLEAN, email : Nat, fp : [new : Nat, cur : Nat, mtime : Nat]]
        /\ req.st = file /\ req.pc = "idle"
    BY Zenon, <1>0 DEF None
  <2>2. late \in BOOLEAN /\ client.sure \in BOOLEAN /\ req.crossed \in BOOLEAN
    BY Zenon DEF None
  <2>3. client.state \in Int /\ box \in [Msg -> {"none", "new", "gone"} \cup Cur]
    OBVIOUS
  <2> QED
    BY Zenon, <2>1, <2>2, <2>3 DEF TypeOK
<1>2. RecordInv
  BY DEF RecordInv, None, NoFp
<1>3. ClientInv
  BY Zenon DEF ClientInv
<1>4. SetInv
  BY Zenon DEF SetInv
<1> QED
  BY Zenon, <1>1, <1>2, <1>3, <1>4 DEF IndInv

\* Every step keeps it.
LEMMA NextKeeps == IndInv /\ [Next]_vars => IndInv'
<1> SUFFICES ASSUME IndInv, [Next]_vars PROVE IndInv'
  BY Zenon
<1>1. CASE \E m \in Msg : Deliver(m)
  BY Zenon, <1>1, DeliverKeeps
<1>2. CASE \E m \in Msg : StoreOrExpunge(m)
  BY Zenon, <1>2, StoreOrExpungeKeeps
<1>3. ASSUME NEW m \in Msg, NEW new \in Cur \cup {"gone"}, Set(m, new) PROVE IndInv'
  BY Zenon, <1>3, SyncKeeps DEF Set
<1>4. CASE Select
  BY Zenon, <1>4, SelectKeeps
<1>5. CASE Close
  BY Zenon, <1>5, CloseKeeps
<1>6. CASE CrashImapd
  BY Zenon, <1>6, Elsewhere DEF CrashImapd
<1>7. CASE Get
  BY Zenon, <1>7, SyncKeeps DEF Get
<1>8. CASE Read
  BY Zenon, <1>8, ReadKeeps
<1>9. CASE StateMismatch \/ CrashJmapd
  BY Zenon, <1>9, Elsewhere DEF StateMismatch, CrashJmapd
<1>10. CASE Write
  BY Zenon, <1>10, WriteKeeps
<1>11. CASE Bump
  BY Zenon, <1>11, BumpKeeps
<1>12. CASE UNCHANGED vars
  BY Zenon, <1>12, Elsewhere DEF vars, maildir
<1> QED
  BY Zenon, <1>1, <1>2, <1>3, <1>4, <1>5, <1>6, <1>7, <1>8, <1>9, <1>10, <1>11, <1>12 DEF Next

\* The inductive invariant holds in every reachable state.
THEOREM Invariance == Spec => []IndInv
  BY InitInv, NextKeeps, PTL DEF Spec

\* A client that has read the mailbox, followed its own changes and is told the
\* state it holds has the mailbox as it is (jmapd_state_sync, jmapd_state_bump).
\* Not covered are a change of imapd still waiting for its save, a state whose
\* save failed, and an Email/set that imapd crossed: the bump adopts the
\* fingerprint with the change in it, and the client never hears of it.
THEOREM Honest == Spec => []StateIsHonest
<1>1. IndInv => StateIsHonest
  <2> SUFFICES ASSUME IndInv, req.pc = "idle", client.sure, ~late, Synced.email = client.state
               PROVE  client.box = Content
    BY Zenon DEF StateIsHonest
  <2> QED
    BY Zenon, RightNow
<1> QED
  BY <1>1, Invariance, PTL

\* The counter never runs ahead of what happened (jmapd_state_sync,
\* jmapd_state_bump): however many clients read, they raise it at most once for
\* each change of the fingerprint and each commit.
THEOREM NoStorm == Spec => []NoRefreshStorm
<1>1. IndInv => NoRefreshStorm
  BY Zenon DEF IndInv, RecordInv, NoRefreshStorm
<1> QED
  BY <1>1, Invariance, PTL
=============================================================================
