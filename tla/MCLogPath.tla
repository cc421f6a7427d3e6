----------------------------- MODULE MCLogPath -----------------------------
(* LogPath with two producers and a ring of two slots: one of them can be  *)
(* overtaken between its two loads by the other, which makes it help.      *)
EXTENDS LogPath

CONSTANTS p1, p2

MCProducers == {p1, p2}
MCMaxCalls  == p1 :> 1 @@ p2 :> 2

=============================================================================
