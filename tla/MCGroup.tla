------------------------------ MODULE MCGroup ------------------------------
(***************************************************************************)
(* Instances of Group for TLC.                                             *)
(***************************************************************************)
EXTENDS Group, TLC

CONSTANTS m1, main, x1, w1, w2

OneMember  == {m1}
OnlyMain   == {main}
OneExtra   == {x1}
TwoWorkers == {w1, w2}

\* Of three envelopes in all: start() and shutdown() take one of Main each, with
\* the others it sends to the member or calls it; the member may call itself, or
\* send to itself and reply.
Shares == (m1 :> 2) @@ (main :> 3)

\* The member passes itself as the sender.
OwnOnly == (m1 :> {m1}) @@ (main :> {})
=============================================================================
