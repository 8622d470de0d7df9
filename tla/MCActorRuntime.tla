--------------------------- MODULE MCActorRuntime ---------------------------
(***************************************************************************)
(* Instances of ActorRuntime for TLC.                                      *)
(***************************************************************************)
EXTENDS ActorRuntime, TLC

CONSTANTS a1, a2, c1

TwoActors == {a1, a2}
OneClient == {c1}
OnlyA1    == {a1}
UserOnly  == {"User"}

\* Everybody may do one send, call or reply.
OneEach == [p \in Procs |-> 1]

\* The client has replies sent to a1, and a2 has them sent to a third party.
AnyoneToA1 == (a1 :> {a1}) @@ (a2 :> {a1}) @@ (c1 :> {a1})
=============================================================================
