------------------------------ MODULE MCRemote ------------------------------
(***************************************************************************)
(* Instances of Remote for TLC.                                            *)
(***************************************************************************)
EXTENDS RemoteRefinement, TLC

CONSTANTS p, q, a, b, Ping, Ping2

Two       == {p, q}
BothNames == {a, b}
AllTypes  == {Ping, Ping2, Reject}

\* Two versions of Ping travel under one name, and neither reads the other.
NamedAlike == [t \in Types |-> IF t = Reject THEN "Reject" ELSE "Ping"]
OnlyItself == {<<t, t>> : t \in Types}

\* p changes to the other version in the middle; q has not registered Reject,
\* and may do so.
NoReject     == (p :> {Ping, Reject}) @@ (q :> {Ping})
RejectLater  == (p :> {Ping2}) @@ (q :> {Reject})

\* The same, and q has registered nothing yet.
NothingYet   == (p :> {Ping, Reject}) @@ (q :> {})
AllLater     == (p :> {Ping2}) @@ (q :> {Ping, Reject})

\* p and q have been built with different versions.
TwoVersions  == (p :> {Ping2, Reject}) @@ (q :> {Ping, Reject})
Nothing      == [x \in Procs |-> {}]

\* Both processes have an actor a; b of q is not in its ActorRegistry.
Homes == (p :> {a}) @@ (q :> {a, b})
OnlyA == [x \in Procs |-> {a}]
PToQ  == (p :> {[actor |-> x, endpoint |-> q] : x \in BothNames}) @@ (q :> {})
AToA  == (p :> {[actor |-> a, endpoint |-> q]}) @@ (q :> {})
QToB  == (p :> {}) @@ (q :> {[actor |-> b, endpoint |-> q]})
=============================================================================
