------------------------------ MODULE FastSend ------------------------------
(***************************************************************************)
(* What fast_send promises, without mailboxes, contexts or channels.       *)
(*                                                                         *)
(* A call is queued at its callee, then served, and ends with an answer or *)
(* with a refusal (None).  A callee serves one call at a time.  A call is  *)
(* refused for three reasons only: the callee was dead when it was made,   *)
(* the callee died, or the callee took another message without having      *)
(* answered.  In particular a queued call is never lost by a live callee.  *)
(***************************************************************************)
CONSTANTS Actors, Procs, None

VARIABLES
  life,   \* of each actor: "absent", "alive" or "dead"
  rpc,    \* of each process: how far the call it is in has come
  callee  \* of each process: whom it called

vars == <<life, rpc, callee>>

Pending(b) == {p \in Procs : rpc[p] \in {"queued", "served"} /\ callee[p] = b}
Served(b)  == {p \in Procs : rpc[p] = "served" /\ callee[p] = b}

Refuse(calls) == [p \in Procs |-> IF p \in calls THEN "refused" ELSE rpc[p]]

Init ==
  /\ life   = [b \in Actors |-> "absent"]
  /\ rpc    = [p \in Procs |-> "idle"]
  /\ callee = [p \in Procs |-> None]

Create(b) ==
  /\ life[b] = "absent"
  /\ life' = [life EXCEPT ![b] = "alive"]
  /\ UNCHANGED <<rpc, callee>>

Request(p, b) ==
  /\ rpc[p] = "idle" /\ life[b] # "absent"
  /\ rpc'    = [rpc EXCEPT ![p] = IF life[b] = "alive" THEN "queued" ELSE "refused"]
  /\ callee' = [callee EXCEPT ![p] = b]
  /\ UNCHANGED life

\* b takes the call of p, and gives up the one it did not answer.
Serve(b, p) ==
  /\ rpc[p] = "queued" /\ callee[p] = b
  /\ rpc' = [Refuse(Served(b)) EXCEPT ![p] = "served"]
  /\ UNCHANGED <<life, callee>>

\* b takes a message that is not a call.
GiveUp(b) ==
  /\ rpc' = Refuse(Served(b))
  /\ UNCHANGED <<life, callee>>

Answer(p) ==
  /\ rpc[p] = "served"
  /\ rpc' = [rpc EXCEPT ![p] = "answered"]
  /\ UNCHANGED <<life, callee>>

Die(b) ==
  /\ life[b] = "alive"
  /\ life' = [life EXCEPT ![b] = "dead"]
  /\ rpc'  = Refuse(Pending(b))
  /\ UNCHANGED callee

Return(p) ==
  /\ rpc[p] \in {"answered", "refused"}
  /\ rpc'    = [rpc EXCEPT ![p] = "idle"]
  /\ callee' = [callee EXCEPT ![p] = None]
  /\ UNCHANGED life

Next ==
  \/ \E b \in Actors : Create(b) \/ GiveUp(b) \/ Die(b)
  \/ \E b \in Actors, p \in Procs : Request(p, b) \/ Serve(b, p)
  \/ \E p \in Procs : Answer(p) \/ Return(p)

Spec == Init /\ [][Next]_vars
=============================================================================
