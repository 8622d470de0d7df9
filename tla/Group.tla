------------------------------- MODULE Group -------------------------------
(***************************************************************************)
(* Thread pools: src/src/group.rs.                                         *)
(*                                                                         *)
(* The members of a Group have neither mailbox nor thread.  Behind every   *)
(* reference to a member a forwarder thread moves envelopes from a channel *)
(* of its own to the queue that all workers share.  A worker takes an      *)
(* envelope under the lock of the receiver and dispatches it under the     *)
(* lock of the member.  Both locks are std Mutexes: a panic while one is   *)
(* held poisons it, and whoever locks it then panics in turn.              *)
(*                                                                         *)
(* Main owns the Group.  The Group keeps the queue's receiver and a sender *)
(* of it, so no channel is ever closed: the Disconnected branch of the     *)
(* workers and the error branch of the forwarders are not modelled.        *)
(***************************************************************************)
EXTENDS Envelopes, Sequences, FiniteSets, Functions

CONSTANTS
  Main,       \* the thread that owns the Group
  Extras,     \* references made by get_ref()
  Workers,    \* worker threads, over all calls of start()
  NumWorkers, \* how many of them one start() spawns
  Passes,     \* bound: the members each process passes as a sender
  MaxSends,   \* bound: how many envelopes each process may send
  MaxInAll    \* bound: how many they may send together

ASSUME GroupAssumption == /\ Main \in Clients
                          /\ Extras \cap Procs = {} /\ None \notin Extras \cup Workers
                          /\ NumWorkers \in Nat
                          /\ Passes \in [Procs -> SUBSET Actors]
                          /\ MaxSends \in [Procs -> Nat] /\ MaxInAll \in Nat

\* A reference is named by the member that add() returned it for, or is one
\* of get_ref().
Refs == Actors \cup Extras

VARIABLES
  actors_builder, \* members added since the last start()
  actors,         \* the map given to the workers of the last start()
  actor_refs,     \* the references that add() returned
  dest,           \* the member a reference leads to
  wrapper,        \* the channel between a reference and its forwarder
  queue,          \* the shared queue of GroupEnvelopes
  running,        \* the flag of the group
  rx,             \* the worker that holds the receiver's lock, draining
  poisoned,       \* members whose lock is poisoned
  rx_poisoned,    \* the receiver's lock is poisoned
  wpc,            \* where each worker is
  hand,           \* the GroupEnvelope each worker has taken
  known,          \* the map each worker was given
  context,        \* the ActorContext of each member
  call,           \* the fast_send each process is in
  sent,           \* envelopes sent so far by each process
  at,             \* the method of Group that Main executes, or "user"
  todo,           \* references that the current loop has still to send to
  to_end,         \* members that wait() has still to end()
  ended           \* history: members whose end() was called

mapVars    == <<actors_builder, actors, actor_refs, dest>>
queueVars  == <<wrapper, queue>>
workerVars == <<rx, poisoned, rx_poisoned, wpc, hand, known>>
userVars   == <<context, call, sent>>
mainVars   == <<running, at, todo, to_end, ended>>
vars == <<mapVars, queueVars, workerVars, userVars, mainVars>>

NoHand == [ref |-> None, env |-> [msg |-> "User", from |-> None, n |-> 0,
                                  sender |-> None, sync |-> FALSE]]

NoCall == [st |-> "idle", callee |-> None, answer |-> NoChannel]

Elements(s) == {s[i] : i \in DOMAIN s}
Finished    == {"done", "dead"}

Init ==
  /\ actors_builder = {} /\ actors = {} /\ actor_refs = <<>>
  /\ dest    = [r \in Refs |-> None]
  /\ wrapper = [r \in Refs |-> <<>>] /\ queue = <<>>
  /\ running = TRUE
  /\ rx = None /\ poisoned = {} /\ rx_poisoned = FALSE
  /\ wpc     = [w \in Workers |-> "absent"]
  /\ hand    = [w \in Workers |-> NoHand]
  /\ known   = [w \in Workers |-> {}]
  /\ context = [m \in Actors |-> NewContext]
  /\ call    = [p \in Procs |-> NoCall]
  /\ sent    = [p \in Procs |-> 0]
  /\ at = "user" /\ todo = <<>> /\ to_end = {} /\ ended = {}
-----------------------------------------------------------------------------
\* w runs the handler of m, under its lock.
Handles(w, m) == wpc[w] = "handle" /\ dest[hand[w].ref] = m

\* p executes user code and is not blocked in a fast_send.
Runs(p) == /\ call[p].st = "idle"
           /\ p \in Actors => \E w \in Workers : Handles(w, p)
           /\ p = Main => at = "user"

\* The Sender ch is dropped: a caller that was waiting on it sees its channel
\* closed.
Close(ch) ==
  [p \in Procs |-> IF call[p].st = "open" /\ ch = [to |-> p, n |-> sent[p]]
                   THEN [call[p] EXCEPT !.st = "closed"]
                   ELSE call[p]]

\* Bound: p may send k envelopes more.  What start() or shutdown() has still to
\* send is set aside.
MaySend(p, k) ==
  /\ sent[p] + k <= MaxSends[p]
  /\ FoldFunction(+, k + Len(todo), sent) <= MaxInAll

\* LocalActorRef::send puts the envelope into the channel of the forwarder.
Post(p, r, e) ==
  /\ dest[r] # None
  /\ wrapper' = [wrapper EXCEPT ![r] = Append(@, e)]
  /\ sent'    = [sent EXCEPT ![p] = @ + 1]

Send(p, r, msg, sender) == Post(p, r, NewEnvelope(msg, p, sent[p] + 1, sender))

UserSends(p, r, sender) ==
  /\ Runs(p) /\ MaySend(p, 1) /\ Send(p, r, "User", sender)
  /\ UNCHANGED <<mapVars, queue, workerVars, context, call, mainVars>>

\* LocalActorRef::fast_send up to reply_rx.recv().
FastSend(p, r, sender) ==
  /\ Runs(p) /\ MaySend(p, 1)
  /\ Post(p, r, NewSyncEnvelope("User", p, sent[p] + 1, sender))
  /\ call' = [call EXCEPT ![p] = [st |-> "open", callee |-> dest[r], answer |-> NoChannel]]
  /\ UNCHANGED <<mapVars, queue, workerVars, context, mainVars>>

FastSendReturns(p) ==
  /\ call[p].st \in {"value", "closed"}
  /\ call' = [call EXCEPT ![p] = NoCall]
  /\ UNCHANGED <<mapVars, queueVars, workerVars, context, sent, mainVars>>

\* What p can pass as the sender: no reference, its own (ctx.self_ref()) or
\* that to another member.
Senders(p) == {None} \cup {m \in Passes[p] : dest[m] # None}

Sends(p) ==
  \E r \in Refs, sender \in Senders(p) :
    UserSends(p, r, sender) \/ FastSend(p, r, sender)

\* Mutant: the envelope goes to the front.
MutJumpsQueue(g) == <<g>> \o queue

\* The shared queue is an mpsc channel.
Enqueued(g) == Append(queue, g)

\* The forwarder of r: from its channel to the shared queue.
Forward(r) ==
  /\ wrapper[r] # <<>>
  /\ queue'   = Enqueued([ref |-> r, env |-> Head(wrapper[r])])
  /\ wrapper' = [wrapper EXCEPT ![r] = Tail(@)]
  /\ UNCHANGED <<mapVars, workerVars, userVars, mainVars>>
-----------------------------------------------------------------------------
\* add(name, actor), under a new name: a member and a reference to it.
Add(m) ==
  /\ Runs(Main) /\ dest[m] = None
  /\ actors_builder' = actors_builder \cup {m}
  /\ actor_refs'     = Append(actor_refs, m)
  /\ dest'           = [dest EXCEPT ![m] = m]
  /\ UNCHANGED <<actors, queueVars, workerVars, userVars, mainVars>>

\* get_ref(name) makes a reference, with a forwarder of its own.
GetRef(x, m) ==
  /\ Runs(Main) /\ x \in Extras /\ dest[x] = None
  /\ m \in actors_builder \cup actors
  /\ dest' = [dest EXCEPT ![x] = m]
  /\ UNCHANGED <<actors_builder, actors, actor_refs, queueVars, workerVars, userVars, mainVars>>

Unused == {w \in Workers : wpc[w] = "absent"}

\* start() takes the members added so far, calls their init(), which no one
\* observes, and goes on to send Start.
StartEnter ==
  /\ Runs(Main) /\ MaySend(Main, Len(actor_refs)) /\ Cardinality(Unused) >= NumWorkers
  /\ actors' = actors_builder /\ actors_builder' = {}
  /\ at' = "start" /\ todo' = actor_refs
  /\ UNCHANGED <<actor_refs, dest, queueVars, workerVars, userVars, running, to_end, ended>>

\* shutdown() starts to send Shutdown.
ShutdownEnter ==
  /\ Runs(Main) /\ MaySend(Main, Len(actor_refs))
  /\ at' = "shutdown" /\ todo' = actor_refs
  /\ UNCHANGED <<mapVars, queueVars, workerVars, userVars, running, to_end, ended>>

\* An iteration of one of their loops over actor_refs.
SendToNext ==
  /\ at \in {"start", "shutdown"} /\ todo # <<>>
  /\ Send(Main, Head(todo), IF at = "start" THEN "Start" ELSE "Shutdown", None)
  /\ todo' = Tail(todo)
  /\ UNCHANGED <<mapVars, queue, workerVars, context, call, running, at, to_end, ended>>

\* start() spawns its workers and returns.
SpawnWorkers ==
  /\ at = "start" /\ todo = <<>>
  /\ \E W \in SUBSET Unused :
       /\ Cardinality(W) = NumWorkers
       /\ wpc'   = [w \in Workers |-> IF w \in W THEN "check" ELSE wpc[w]]
       /\ known' = [w \in Workers |-> IF w \in W THEN actors ELSE known[w]]
  /\ at' = "user"
  /\ UNCHANGED <<mapVars, queueVars, rx, poisoned, rx_poisoned, hand, userVars,
                 running, todo, to_end, ended>>

\* shutdown() clears the flag and returns.
StopWorkers ==
  /\ at = "shutdown" /\ todo = <<>>
  /\ running' = FALSE /\ at' = "user"
  /\ UNCHANGED <<mapVars, queueVars, workerVars, userVars, todo, to_end, ended>>

WaitEnter ==
  /\ Runs(Main)
  /\ at' = "wait" /\ to_end' = actors
  /\ UNCHANGED <<mapVars, queueVars, workerVars, userVars, running, todo, ended>>

\* Mutant: nobody takes the lock of a member.
MutFree(m) == TRUE

\* The lock of m can be had.
Free(m) == \A w \in Workers : ~Handles(w, m)

\* Mutant: lock() takes the member out of a poisoned lock.
MutIntoInner(m) == TRUE

\* lock().unwrap() on the lock of m succeeds.
Healthy(m) == m \notin poisoned

\* wait() calls end() of a member, under its lock; it panics if that lock is
\* poisoned.
EndMember(m) ==
  /\ at = "wait" /\ m \in to_end /\ Free(m)
  /\ \/ /\ Healthy(m)
        /\ ended' = ended \cup {m} /\ to_end' = to_end \ {m} /\ UNCHANGED at
     \/ /\ ~Healthy(m)
        /\ at' = "panicked" /\ to_end' = {} /\ UNCHANGED ended
  /\ UNCHANGED <<mapVars, queueVars, workerVars, userVars, running, todo>>

\* wait() has joined all workers.
WaitReturns ==
  /\ at = "wait" /\ to_end = {}
  /\ \A w \in Workers \ Unused : wpc[w] \in Finished
  /\ at' = "user"
  /\ UNCHANGED <<mapVars, queueVars, workerVars, userVars, running, todo, to_end, ended>>
-----------------------------------------------------------------------------
\* The lock of the receiver can be had.
RxFree == rx = None

\* Mutant: a worker does not look at the flag.
MutKeepsTaking == "take"

\* The top of worker_loop.
AfterCheck == IF running THEN "take" ELSE "drain"

CheckRunning(w) ==
  /\ wpc[w] = "check"
  /\ wpc' = [wpc EXCEPT ![w] = AfterCheck]
  /\ UNCHANGED <<mapVars, queueVars, rx, poisoned, rx_poisoned, hand, known, userVars, mainVars>>

\* Mutant: the envelope for an unknown member is kept somewhere for ever.
MutForgets(e) == call

\* What the callers see when a worker drops an envelope.
AfterDiscard(e) == Close(ReplyChannel(e))

\* Mutant: the worker looks the member up in the group, not in its own map.
MutLooksEverywhere(w, m) == dest[m] # None

\* actors.get(&destination) finds the member.
Finds(w, m) == m \in known[w]

\* A worker takes the next envelope; one for a member that is not in its map
\* is dropped.  While draining it keeps the receiver's lock for the dispatch.
TakeNext(w) ==
  /\ wpc[w] \in {"take", "drain"} /\ RxFree /\ ~rx_poisoned /\ queue # <<>>
  /\ queue' = Tail(queue)
  /\ \/ /\ Finds(w, dest[Head(queue).ref])
        /\ hand' = [hand EXCEPT ![w] = Head(queue)]
        /\ rx'   = IF wpc[w] = "drain" THEN w ELSE rx
        /\ wpc'  = [wpc EXCEPT ![w] = "lock"]
        /\ UNCHANGED call
     \/ /\ ~Finds(w, dest[Head(queue).ref])
        /\ call' = AfterDiscard(Head(queue).env)
        /\ wpc'  = [wpc EXCEPT ![w] = IF @ = "drain" THEN "drain" ELSE "check"]
        /\ UNCHANGED <<hand, rx>>
  /\ UNCHANGED <<mapVars, wrapper, poisoned, rx_poisoned, known, context, sent, mainVars>>

\* try_recv finds nothing: sleep and retry, or the drain is over.
FindNothing(w) ==
  /\ wpc[w] \in {"take", "drain"} /\ RxFree /\ ~rx_poisoned /\ queue = <<>>
  /\ wpc' = [wpc EXCEPT ![w] = IF @ = "drain" THEN "done" ELSE "check"]
  /\ UNCHANGED <<mapVars, queueVars, rx, poisoned, rx_poisoned, hand, known, userVars, mainVars>>

\* lock().unwrap() on a poisoned receiver.
DieOnReceiver(w) ==
  /\ wpc[w] \in {"take", "drain"} /\ RxFree /\ rx_poisoned
  /\ wpc' = [wpc EXCEPT ![w] = "dead"]
  /\ UNCHANGED <<mapVars, queueVars, rx, poisoned, rx_poisoned, hand, known, userVars, mainVars>>

\* The worker lets go of what it holds, the receiver's lock included.
LetGo(w, to) ==
  /\ wpc'  = [wpc EXCEPT ![w] = to]
  /\ hand' = [hand EXCEPT ![w] = NoHand]
  /\ rx'   = IF rx = w THEN None ELSE rx

\* dispatch_to_actor: the lock, the context, and then the handler.
Dispatch(w) ==
  LET e == hand[w].env
      m == dest[hand[w].ref]
  IN /\ wpc[w] = "lock" /\ Free(m) /\ Healthy(m)
     /\ context' = [context EXCEPT ![m] = PrepareForEnvelope(@, e)]
     /\ call'    = Close(context[m].reply)
     /\ wpc'     = [wpc EXCEPT ![w] = "handle"]
     /\ UNCHANGED <<mapVars, queueVars, rx, poisoned, rx_poisoned, hand, known, sent, mainVars>>

\* lock().unwrap() on a poisoned member: the envelope goes with the worker.
DieOnMember(w) ==
  LET m == dest[hand[w].ref]
  IN /\ wpc[w] = "lock" /\ Free(m) /\ ~Healthy(m)
     /\ call' = AfterDiscard(hand[w].env)
     /\ LetGo(w, "dead")
     /\ rx_poisoned' = (rx_poisoned \/ rx = w)
     /\ UNCHANGED <<mapVars, queueVars, poisoned, known, context, sent, mainVars>>

\* process_message returns and the locks are released.
HandlerReturns(w) ==
  /\ wpc[w] = "handle" /\ call[dest[hand[w].ref]].st = "idle"
  /\ LetGo(w, IF rx = w THEN "drain" ELSE "check")
  /\ UNCHANGED <<mapVars, queueVars, poisoned, rx_poisoned, known, userVars, mainVars>>

\* The handler panics: the worker dies and poisons the locks it holds.  The
\* context stays in the member.
HandlerPanics(w) ==
  /\ wpc[w] = "handle" /\ call[dest[hand[w].ref]].st = "idle"
  /\ poisoned'    = poisoned \cup {dest[hand[w].ref]}
  /\ rx_poisoned' = (rx_poisoned \/ rx = w)
  /\ LetGo(w, "dead")
  /\ UNCHANGED <<mapVars, queueVars, known, userVars, mainVars>>

\* ActorContext::reply through the reply channel.
ReplyOnChannel(w) ==
  LET m  == dest[hand[w].ref]
      ch == context[m].reply
  IN /\ wpc[w] = "handle" /\ Runs(m) /\ ch # NoChannel
     /\ call' = IF call[ch.to].st = "open" /\ sent[ch.to] = ch.n
                THEN [call EXCEPT ![ch.to] =
                        [@ EXCEPT !.st     = "value",
                                  !.answer = [to |-> hand[w].env.from,
                                              n  |-> hand[w].env.n]]]
                ELSE call
     /\ context' = [context EXCEPT ![m].reply = NoChannel]
     /\ UNCHANGED <<mapVars, queueVars, workerVars, sent, mainVars>>

\* ActorContext::reply to the sender of a regular send.
ReplyToSender(w) ==
  LET m == dest[hand[w].ref]
  IN /\ wpc[w] = "handle" /\ Runs(m)
     /\ context[m].reply = NoChannel /\ context[m].sender # None
     /\ MaySend(m, 1) /\ Send(m, context[m].sender, "Reply", m)
     /\ UNCHANGED <<mapVars, queue, workerVars, context, call, mainVars>>
-----------------------------------------------------------------------------
InMethod == \/ SendToNext \/ SpawnWorkers \/ StopWorkers \/ WaitReturns
            \/ \E m \in Actors : EndMember(m)

MainCalls == \/ StartEnter \/ ShutdownEnter \/ WaitEnter
             \/ \E m \in Actors : Add(m) \/ \E x \in Extras : GetRef(x, m)

\* A step of a worker, the handler it runs included.
WorkerThread(w) ==
  \/ CheckRunning(w) \/ TakeNext(w) \/ FindNothing(w) \/ DieOnReceiver(w)
  \/ Dispatch(w) \/ DieOnMember(w)
  \/ ReplyOnChannel(w) \/ ReplyToSender(w) \/ HandlerReturns(w) \/ HandlerPanics(w)

Next ==
  \/ MainCalls \/ InMethod
  \/ \E p \in Procs : Sends(p) \/ FastSendReturns(p)
  \/ \E r \in Refs : Forward(r)
  \/ \E w \in Workers : WorkerThread(w)

Spec == Init /\ [][Next]_vars

\* Threads run: forwarders, workers, and Main inside a method.  Locks are not
\* fair: a worker may find one taken whenever it tries.
Fairness ==
  /\ \A w \in Workers : WF_vars(WorkerThread(w))
  /\ \A r \in Refs : WF_vars(Forward(r))
  /\ \A p \in Procs : WF_vars(FastSendReturns(p))
  /\ WF_vars(InMethod)

FairSpec == Spec /\ Fairness
-----------------------------------------------------------------------------
Channels == Channel \cup {NoChannel}

\* Every variable has its type, and the workers hold what their place in
\* worker_loop says they hold.
GroupTypeOK ==
  /\ actors_builder \subseteq Actors /\ actors \subseteq Actors
  /\ actor_refs \in Seq(Actors)
  /\ dest    \in [Refs -> Actors \cup {None}]
  /\ wrapper \in [Refs -> Seq(Envelope)]
  /\ queue   \in Seq([ref : Refs, env : Envelope])
  /\ running \in BOOLEAN /\ rx_poisoned \in BOOLEAN
  /\ poisoned \subseteq Actors
  /\ wpc     \in [Workers -> {"absent", "check", "take", "drain", "lock", "handle",
                              "done", "dead"}]
  /\ known   \in [Workers -> SUBSET Actors]
  /\ context \in [Actors -> Context]
  /\ call    \in [Procs -> [st     : {"idle", "open", "value", "closed"},
                            callee : Actors \cup {None},
                            answer : Channels]]
  /\ sent    \in [Procs -> Nat]
  /\ at \in {"user", "start", "shutdown", "wait", "panicked"}
  /\ todo \in Seq(Actors) /\ to_end \subseteq actors /\ ended \subseteq Actors
  /\ rx # None => wpc[rx] \in {"lock", "handle"}
  /\ \A w \in Workers :
       IF wpc[w] \in {"lock", "handle"}
       THEN hand[w] \in [ref : Refs, env : Envelope] /\ dest[hand[w].ref] \in known[w]
       ELSE hand[w] = NoHand

\* Two workers never run the same member at once (DEVELOPER_GUIDE.md, "Per-actor
\* Mutex prevents concurrent access to actor state").
OneWorkerPerMember ==
  \A m \in Actors, v, w \in Workers : Handles(v, m) /\ Handles(w, m) => v = w

\* The step leaves everyone who is poisoned alone.
LeavesPoisonedAlone ==
  \A m \in poisoned : m \notin ended' \ ended /\ \A w \in Workers : ~Handles(w, m)'

\* A member whose handler has panicked is never run again, neither by a worker
\* nor by end() in wait(): its state may be half changed.
PoisonedNeverRuns == [][LeavesPoisonedAlone]_vars

\* The channel on which p is waiting, or would wait: its last fast_send.
Awaited(p) == [to |-> p, n |-> sent[p]]

Keeps(p) == {m \in Actors : context[m].reply = Awaited(p)}

\* Envelopes on their way to a member, with the reference they were sent to.
InWrappers(p) == {r \in Refs : \E i \in DOMAIN wrapper[r] : ReplyChannel(wrapper[r][i]) = Awaited(p)}
InQueue(p)    == {i \in DOMAIN queue : ReplyChannel(queue[i].env) = Awaited(p)}
InHands(p)    == {w \in Workers : wpc[w] = "lock" /\ ReplyChannel(hand[w].env) = Awaited(p)}

\* A caller blocked in fast_send is never forgotten, and never waited on twice:
\* the Sender of its channel is with a forwarder, in the queue, in the hand of
\* a worker or in the context of its callee, and nowhere else.  Of a call that
\* is over no Sender is left.
GroupCallerIsHeld ==
  \A p \in Procs :
    /\ Cardinality(InWrappers(p)) + Cardinality(InQueue(p))
           + Cardinality(InHands(p)) + Cardinality(Keeps(p))
         = IF call[p].st = "open" THEN 1 ELSE 0
    /\ call[p].st = "open" => Keeps(p) \subseteq {call[p].callee}
    /\ call[p].st = "value" => call[p].answer = Awaited(p)

\* Envelopes that wait for the pool, in the order in which it will take them.
Ahead(d, e) == d.from = e.from /\ d.n > e.n

\* However forwarders and workers interleave, the envelopes that one process
\* sent through one reference reach the workers in the order it sent them.
TakenInOrder ==
  \A r \in Refs :
    LET box  == wrapper[r]
        mine == {i \in DOMAIN queue : queue[i].ref = r}
    IN /\ \A i, j \in DOMAIN box : i < j => ~Ahead(box[i], box[j])
       /\ \A i, j \in mine : i < j => ~Ahead(queue[i].env, queue[j].env)
       /\ \A i \in mine, j \in DOMAIN box : ~Ahead(queue[i].env, box[j])
       /\ \A w \in Workers : hand[w].ref = r =>
            /\ \A i \in mine : ~Ahead(hand[w].env, queue[i].env)
            /\ \A i \in DOMAIN box : ~Ahead(hand[w].env, box[i])
-----------------------------------------------------------------------------
\* w waits, because of the callers in S, or will do nothing any more.
Blocked(w, S) ==
  \/ wpc[w] \in {"absent", "done", "dead"}
  \/ wpc[w] \in {"lock", "handle"} /\ dest[hand[w].ref] \in S

Stalled(w, S) ==
  Blocked(w, S) \/ (wpc[w] \in {"take", "drain"} /\ rx # None /\ Blocked(rx, S))

\* No envelope is left that would reach m.
NothingFor(m) ==
  /\ \A r \in Refs : dest[r] = m => wrapper[r] = <<>>
  /\ \A i \in DOMAIN queue : dest[queue[i].ref] # m
  /\ \A w \in Workers : hand[w].ref # None => dest[hand[w].ref] # m

\* q waits for something that no worker will do: the pool is used up by
\* callers like it, or by death; or its channel is in the context of a member
\* that is such a caller, has panicked, or returned without a reply.
Hopeless(q) ==
  \E S \in SUBSET Procs :
    /\ q \in S
    /\ \A p \in S :
         /\ call[p].st = "open"
         /\ \/ \A w \in Workers : Stalled(w, S)
            \/ \E w \in InHands(p) : Blocked(w, S)
            \/ \E m \in Keeps(p) : m \in S \cup poisoned \/ NothingFor(m)

\* Every fast_send to a member returns, unless it is hopeless.
GroupCallReturnsUnlessHopeless ==
  \A p \in Procs : call[p].st = "open" ~> (call[p].st # "open" \/ Hopeless(p))

\* After shutdown(), wait() returns, unless a handler is blocked in a call or
\* a member has panicked.
WaitHeldUpByCallersOnly ==
  at = "wait" /\ ~running ~>
    at = "user" \/ poisoned # {} \/ \E m \in Actors : call[m].st = "open"
=============================================================================
