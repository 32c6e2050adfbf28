--------------------------- MODULE MCJmapSubmit ---------------------------
(* Small instances of JmapSubmit: a draft to two recipients and one to one. *)
EXTENDS JmapSubmit

MCEmail == {"d1", "d2"}
MCRcpts == [e \in MCEmail |-> IF e = "d1" THEN 2 ELSE 1]
MCSize  == [e \in MCEmail |-> 1]
=============================================================================
