---------------------------- MODULE JmapState ----------------------------
(***************************************************************************)
(* The state strings of jmapd (jmap_state.c): a counter per account, kept  *)
(* in jmapd-state together with a fingerprint of the maildir.  A request   *)
(* that finds another fingerprint takes it that imapd changed something    *)
(* and raises the counter; a request that changes something raises it      *)
(* itself.  A client that is answered the state it holds keeps what it     *)
(* has.                                                                    *)
(*                                                                         *)
(* The three counters of an account always move together and are one here. *)
(* imapd is what the fingerprint can tell of it: Maildir has the details.  *)
(***************************************************************************)
EXTENDS Integers, FiniteSets

CONSTANTS
  Msg,         \* messages
  MaxChanges,  \* bound: changes made by imapd and by Email/set
  MaxFaults    \* bound: writes of jmapd-state that fail, and crashes of imapd

ASSUME StateAssumption ==
  IsFiniteSet(Msg) /\ MaxChanges \in Nat /\ MaxFaults \in Nat

VARIABLES
  box,      \* the mailbox: none yet, in new/, in cur/ with its keyword, or gone
  rows,     \* the messages that have a row in the uidlist sidecar
  mtime,    \* of the sidecar: it differs after every save
  session,  \* imapd: no mailbox open, open, or open with changes to save
  file,     \* jmapd-state
  req,      \* the request the poll loop of jmapd works on
  client,   \* what a client holds; sure: nothing it was told has been doubtful
  late,     \* observer: imapd changed something and no sidecar save followed
  moves,    \* observer: how often the fingerprint moved and Email/set committed
  used      \* what has been spent of the bounds

vars == <<box, rows, mtime, session, file, req, client, late, moves, used>>
maildir == <<box, rows, mtime, late>>

Files(S) == {m \in Msg : box[m] \in S}
Cur      == {"plain", "seen"}

BugFingerprint == [new |-> Cardinality(Files({"new"})),
                   cur |-> Cardinality(Files(Cur)), mtime |-> 0]

\* jmapd_state_fingerprint: entry counts, and the time of the sidecar.
Fingerprint == [new |-> Cardinality(Files({"new"})),
                cur |-> Cardinality(Files(Cur)), mtime |-> mtime]

\* What Email/get shows: new/ and cur/ look alike, and so do a message that was
\* deleted and one that never came.
Content == [m \in Msg |-> CASE box[m] = "new"  -> "plain"
                            [] box[m] = "none" -> "gone"
                            [] OTHER           -> box[m]]

Change == used.changes < MaxChanges /\ used' = [used EXCEPT !.changes = @ + 1]
Fault  == used.faults < MaxFaults /\ used' = [used EXCEPT !.faults = @ + 1]

\* A save of the sidecar.
Saved(r) == rows' = r /\ mtime' = mtime + 1 /\ late' = FALSE
Moved    == moves' = moves + IF Fingerprint' = Fingerprint THEN 0 ELSE 1

\* mbox_scan: every file gets a row and rows without a file go; the sidecar is
\* saved if that changes it.
Scan == LET here == Files({"new"} \cup Cur)
        IN  IF here # rows THEN Saved(here) ELSE UNCHANGED <<rows, mtime, late>>

-----------------------------------------------------------------------------
(* imapd                                                                    *)

\* A change by imapd falls into the request that is being answered, if any.
Crossed == IF req.pc = "idle" THEN req ELSE [req EXCEPT !.crossed = TRUE]

\* Ingest puts a file into new/ and leaves the sidecar alone.
Deliver(m) ==
  /\ box[m] = "none" /\ Change
  /\ box' = [box EXCEPT ![m] = "new"]
  /\ req' = Crossed
  /\ UNCHANGED <<rows, mtime, session, file, client, late>>
  /\ Moved

\* SELECT gives every file a row, and moves new/ to cur/.
Select ==
  /\ session = "closed" /\ Change
  /\ session' = "open"
  /\ box' = [m \in Msg |-> IF box[m] = "new" THEN "plain" ELSE box[m]]
  /\ Scan /\ Moved
  /\ UNCHANGED <<file, req, client>>

\* STORE renames the file and EXPUNGE unlinks it; the sidecar has to wait.
StoreOrExpunge(m) ==
  /\ session # "closed" /\ m \in rows /\ box[m] \in Cur /\ Change
  /\ \E new \in (Cur \cup {"gone"}) \ {box[m]} : box' = [box EXCEPT ![m] = new]
  /\ session' = "dirty" /\ late' = TRUE /\ req' = Crossed
  /\ UNCHANGED <<rows, mtime, file, client>>
  /\ Moved

\* imapd_mbox_close saves what was changed.
Close ==
  /\ session # "closed"
  /\ session' = "closed"
  /\ IF session = "dirty" THEN Saved(rows \ Files({"gone"}))
                          ELSE UNCHANGED <<rows, mtime, late>>
  /\ UNCHANGED <<box, file, req, client, used>>
  /\ Moved

\* A crash of imapd: the changes stay and the save does not come.
CrashImapd ==
  /\ session # "closed" /\ Fault
  /\ session' = "closed"
  /\ UNCHANGED <<maildir, file, req, client, moves>>

-----------------------------------------------------------------------------
(* jmapd                                                                    *)

NoFp == [new |-> 0, cur |-> 0, mtime |-> 0]
None == [pc |-> "idle", msg |-> "none", new |-> "none", crossed |-> FALSE,
         st |-> [have |-> FALSE, email |-> 0, fp |-> NoFp]]

BugForgetFp == [file EXCEPT !.email = @ + 1]

\* jmapd_state_sync when the fingerprint is not the one on record.
Raised == [file EXCEPT !.email = @ + 1, !.fp = Fingerprint]

\* jmapd_state_load and jmapd_state_sync.  The first fingerprint is adopted and
\* moves nothing.
Synced == IF ~file.have THEN [file EXCEPT !.have = TRUE, !.fp = Fingerprint]
          ELSE IF file.fp = Fingerprint THEN file
          ELSE Raised

\* The start of every request.  Only a fingerprint that moved is written to
\* jmapd-state, and a failed write is not noticed.  crossed is an observer: a
\* change by imapd has no save yet, or comes before the request is answered.
Sync(pc, m, new) ==
  /\ req.pc = "idle"
  /\ req' = [pc |-> pc, msg |-> m, new |-> new, crossed |-> late, st |-> Synced]
  /\ \/ file' = (IF file.have THEN Synced ELSE file) /\ UNCHANGED used
     \/ file.have /\ Synced # file /\ Fault /\ UNCHANGED file
  /\ UNCHANGED <<maildir, session, client, moves>>

\* A client that is told a new state, and what it takes the mailbox to be.
Answer(state, content, sure) ==
  client' = [state |-> state, box |-> content,
             sure |-> sure /\ file'.have /\ file'.email = state]

\* Email/get: the state, and then a scan of the mailbox.
Get  == Sync("get", "none", "none")
Read ==
  /\ req.pc = "get"
  /\ UNCHANGED <<box, session, file, used>>
  /\ Scan /\ Answer(req.st.email, Content, TRUE)
  /\ req' = None
  /\ Moved

\* Email/set of one message: create, change of a keyword, or destroy.  A client
\* may ask for ifInState.
Set(m, new) == used.changes < MaxChanges /\ Sync("set", m, new)
StateMismatch ==
  /\ req.pc = "set" /\ req.st.email # client.state
  /\ req' = None
  /\ UNCHANGED <<maildir, session, file, client, moves, used>>

\* The writes, and the save of the sidecar at their end; or there is nothing to
\* write and the counter stays.  What is created without a keyword goes to new/.
Write ==
  LET create == box[req.msg] = "none"
  IN
  /\ req.pc = "set"
  /\ IF IF create THEN req.new # "gone"
                  ELSE Content[req.msg] \notin {"gone", req.new}
     THEN /\ used' = [used EXCEPT !.changes = @ + 1]
          /\ box' = [box EXCEPT ![req.msg] =
                       IF create /\ req.new = "plain" THEN "new" ELSE req.new]
          /\ Saved({m \in Msg : box'[m] \notin {"none", "gone"}})
          /\ req' = [req EXCEPT !.pc = "bump"]
     ELSE Scan /\ req' = None /\ UNCHANGED <<box, used>>
  /\ UNCHANGED <<session, file, client>>
  /\ Moved

\* jmapd_state_bump adopts the fingerprint as it is now.
Bumped(st) == [have |-> TRUE, email |-> st.email + 1, fp |-> Fingerprint]

\* The commit and the response.  A client that held the old state has made the
\* same change and goes on to the new state; it cannot tell a request that imapd
\* crossed from one that it did not.
Bump ==
  /\ req.pc = "bump" /\ UNCHANGED <<maildir, session>>
  /\ \/ file' = Bumped(req.st) /\ UNCHANGED used
     \/ Fault /\ UNCHANGED file
  /\ moves' = moves + 1
  /\ IF client.state = req.st.email
     THEN Answer(req.st.email + 1, [client.box EXCEPT ![req.msg] = req.new],
                 client.sure /\ ~req.crossed)
     ELSE UNCHANGED client
  /\ req' = None

\* A crash of jmapd in the middle of a request.
CrashJmapd ==
  /\ req # None /\ Fault
  /\ req' = None
  /\ UNCHANGED <<maildir, session, file, client, moves>>

-----------------------------------------------------------------------------
Init ==
  /\ box = [m \in Msg |-> "none"] /\ rows = {} /\ mtime = 0 /\ late = FALSE
  /\ session = "closed"
  /\ file = [have |-> FALSE, email |-> 0, fp |-> NoFp]
  /\ req = None
  /\ client = [state |-> -1, box |-> Content, sure |-> FALSE]
  /\ moves = 0 /\ used = [changes |-> 0, faults |-> 0]

Next ==
  \/ \E m \in Msg : \/ Deliver(m) \/ StoreOrExpunge(m)
                    \/ \E new \in Cur \cup {"gone"} : Set(m, new)
  \/ Select \/ Close \/ CrashImapd
  \/ Get \/ Read \/ StateMismatch \/ Write \/ Bump \/ CrashJmapd

Spec == Init /\ [][Next]_vars

-----------------------------------------------------------------------------
(* Properties                                                               *)

\* The state has the shape of the files and of the request.
TypeOK ==
  LET Fp == [new : Nat, cur : Nat, mtime : Nat]
      St == [have : BOOLEAN, email : Nat, fp : Fp]
  IN  /\ box \in [Msg -> {"none", "new", "gone"} \cup Cur]
      /\ rows \subseteq Msg /\ mtime \in Nat /\ late \in BOOLEAN
      /\ file \in St /\ req.st \in St
      /\ req.pc \in {"idle", "get", "set", "bump"} /\ req.crossed \in BOOLEAN
      /\ req.pc \in {"set", "bump"} => req.msg \in Msg /\ req.new \in Cur \cup {"gone"}
      /\ client.state \in Int /\ client.sure \in BOOLEAN
      /\ moves \in Nat

\* A client that has read the mailbox, followed its own changes, and is then told
\* the state it holds, has the mailbox as it is (jmapd_state_sync,
\* jmapd_state_bump).  What this leaves out: a flag change or an expunge of imapd
\* that still waits for the save at the close of its mailbox; a state whose save
\* failed; and a client whose own Email/set imapd crossed with a change between
\* the sync and the bump.  The bump adopts the fingerprint as it is then, with
\* that change in it, so no later request sees it move: such a client keeps a
\* wrong mailbox under a current state until something else changes.
StateIsHonest ==
  req.pc = "idle" /\ client.sure /\ ~late /\ Synced.email = client.state
    => client.box = Content

\* The counter moves at most once for every change of the fingerprint and every
\* commit: clients that only read do not make each other refresh for ever.
NoRefreshStorm == file.email <= moves

-----------------------------------------------------------------------------
(* The inductive invariant                                                  *)

Here  == Cardinality(Files({"new"})) + Cardinality(Files(Cur))
Known == file.fp.new + file.fp.cur

\* What the record of jmapd-state is worth: the counter is behind the changes
\* seen so far, and behind by one if the fingerprint has moved since; a request
\* carries the counter on record or the next one.
RecordInv ==
  /\ file.email <= moves
  /\ file.have /\ file.fp # Fingerprint => file.email < moves
  /\ req.pc # "idle" => file.email <= req.st.email /\ req.st.email <= moves
  /\ file.fp.mtime <= mtime
  \* since the sidecar was last saved, files have only been added
  /\ file.have /\ file.fp.mtime = mtime /\ ~late => Known <= Here

\* What a client that was right can rely on, as long as its state is the one on
\* record, no save has come and none is due, and no file was added.
ClientInv ==
  client.sure =>
    /\ file.have /\ client.state <= file.email
    /\ client.state = file.email /\ file.fp.mtime = mtime /\ ~late /\ Known = Here
         => client.box = Content

\* The same while an Email/set is under way that imapd has not crossed.
SetInv ==
  client.sure /\ ~req.crossed /\ client.state = req.st.email =>
    /\ req.pc = "set" => client.box = Content
    /\ req.pc = "bump" => [client.box EXCEPT ![req.msg] = req.new] = Content

IndInv == TypeOK /\ RecordInv /\ ClientInv /\ SetInv
=============================================================================
