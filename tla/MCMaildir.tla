----------------------------- MODULE MCMaildir -----------------------------
(* Instances of Maildir for TLC: imapd alone, and imapd beside jmapd.         *)
EXTENDS Maildir, TLC

\* Base names and the views of imapd are interchangeable.
Symmetry == Permutations(Base) \cup Permutations(ImapView)

MCDeployments == {{"imapd"}, {"imapd", "jmapd"}}
BothDaemons   == {{"imapd", "jmapd"}}

\* imapd alone: two sessions, a flag change, a crash or a call that fails,
\* one of the messages coming back after a MOVE, one second.
AloneBounds ==
  /\ used'.blind = 0 /\ now' = 1 /\ used'.stores + used'.crashes + used'.faults <= 1
  /\ \E b \in Base : stay'[b] <= 1

\* Beside jmapd: one session of each, a save that fails or goes without the
\* lock or a flag change, two seconds.  The second begins before there is a
\* sidecar (the time is read only to name its generation), and after a fault in
\* one session only.  Nothing comes back, and so a message leaves by EXPUNGE
\* only: a MOVE would do the same to the files.
SharedBounds ==
  /\ used'.opens <= 2 /\ used'.crashes = 0
  /\ used'.stores + used'.faults + used'.blind <= 1
  /\ now' # now => disk.uv = 0
  /\ now' = 1 \/ used'.stores + used'.faults + used'.blind = 0 \/ used'.opens <= 1
  /\ \A b \in Base : /\ stay'[b] <= 1 /\ place'[b] # "away"
                     /\ place'[b] \in Flag \ {NoFlag} => used'.stores = 1
  /\ Cardinality({v \in ImapView : view'[v].st # "closed"}) <= 1

MCNext == /\ Next
          /\ Alone => AloneBounds
          /\ ~Alone => SharedBounds
MCSpec == Init /\ [][MCNext]_vars
=============================================================================
