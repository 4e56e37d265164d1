----------------------------- MODULE MCSessions -----------------------------
(***************************************************************************)
(* Instances of Sessions for TLC: two pages, of one browser or of two.         *)
(***************************************************************************)
EXTENDS Sessions

CONSTANTS c1, c2

MCClients    == {c1, c2}
MCOwnerships == {<<c1, c1>>, <<c1, c2>>}

=============================================================================
