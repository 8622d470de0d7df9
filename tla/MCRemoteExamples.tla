-------------------------- MODULE MCRemoteExamples --------------------------
(***************************************************************************)
(* The example programs for TLC.                                           *)
(***************************************************************************)
EXTENDS RemoteExamples, TLC

Both       == {client, server}
OnePerSide == {asker, answerer}
ItsOwn     == (client :> {asker}) @@ (server :> {answerer})
AllTypes   == {"Ping", "Pong", "UnknownMessage", Reject}
Itself     == [t \in Types |-> t]
Alike      == {<<t, t>> : t \in Types}
Nothing    == [p \in Procs |-> {}]
=============================================================================
