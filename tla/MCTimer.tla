------------------------------ MODULE MCTimer ------------------------------
(***************************************************************************)
(* Instances of Timer for TLC.                                             *)
(***************************************************************************)
EXTENDS Timer, TLC

CONSTANTS a1, main, t1

OneActor   == {a1}
MainAndOne == {main, t1}
OneTimer   == {t1}
BothKinds  == {"User", "Timeout"}

\* The actor that sends passes itself as the sender.
OwnOnly == (a1 :> {a1}) @@ (main :> {}) @@ (t1 :> {})

\* The actor and main may each send or call once, and one of them keeps a
\* timer that sends twice, so that a periodic one goes round its loop.
Twice == (a1 :> 1) @@ (main :> 1) @@ (t1 :> 2)
=============================================================================
