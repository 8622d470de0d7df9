----------------------------- MODULE MCManager -----------------------------
(***************************************************************************)
(* Instances of Manager for TLC.                                           *)
(***************************************************************************)
EXTENDS Manager, TLC

CONSTANTS a1, a2, main

TwoActors == {a1, a2}
OnlyMain  == {main}
Nobody    == {}
AllKinds  == {"User", "Start", "Shutdown"}

\* The actor that sends passes itself as the sender.
OwnOnly == (a1 :> {a1}) @@ (a2 :> {}) @@ (main :> {})

\* An actor sends one message; Main starts both actors and shuts one down, or
\* starts one, or sends itself.
Mixed == (a1 :> 1) @@ (a2 :> 0) @@ (main :> 3)
=============================================================================
