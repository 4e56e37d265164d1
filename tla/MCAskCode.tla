----------------------------- MODULE MCAskCode ------------------------------
(* Small instances of AskCode. *)
EXTENDS AskCode

One(way, text, repos) == [way |-> way, text |-> text, repos |-> repos]
Plain == One("stream", "text", <<>>)
MCAsks ==
  {<<One("stream", t, <<"a">>), One("stream", "text", <<"a">>)>> : t \in {"blank", "text"}}
    \cup {<<Plain, One(w, "text", <<"a">>)>> : w \in {"socket", "once"}}
    \cup {<<Plain, One("stream", "blank", <<"a", "b">>)>>, <<Plain, One("stream", "none", <<"a", "a">>)>>}
=============================================================================
