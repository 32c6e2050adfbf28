--------------------------- MODULE MCImapSession ---------------------------
(* Two IMAP clients, and an IMAP and a POP3 client, of one user: with every *)
(* command, and with few kinds of commands more of them.                    *)
EXTENDS ImapSession, TLC

CONSTANTS alice, bob

Everything == {"select", "noop", "idle", "store", "expunge", "close", "copy", "move",
               "fetch", "append", "delete", "status", "leave", "pop3"}

Two(asks, max)  == {[imap |-> {alice, bob}, pop |-> {}, asks |-> asks, max |-> max]}
Both(asks, max) == {[imap |-> {s}, pop |-> {alice, bob} \ {s}, asks |-> asks, max |-> max] :
                     s \in {alice, bob}}

MCScenarios ==
  Two(Everything, 3) \cup Both(Everything, 3)
  \cup Two({"select", "noop", "store", "expunge"}, 6)
  \cup Two({"select", "noop", "move"}, 6)
  \cup Two({"store", "move", "fetch", "copy"}, 4)
  \cup Two({"noop", "store", "expunge", "append"}, 5)
  \cup Both({"noop", "store", "expunge", "pop3"}, 5)
MCSymmetry == Permutations({alice, bob})
MCMsg == 1..3
=============================================================================
