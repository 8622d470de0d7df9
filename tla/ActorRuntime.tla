---------------------------- MODULE ActorRuntime ----------------------------
(***************************************************************************)
(* Standalone actors: src/src/actor.rs.                                    *)
(*                                                                         *)
(* Each actor has a mailbox (an mpsc channel) and a thread that runs       *)
(* ActorRuntime::run: init(), then check the running flag, recv(),         *)
(* dispatch, and again, then end().  Handlers are the user's code: while   *)
(* one runs it may send, fast_send, reply, return or panic, any number of  *)
(* times and in any order.  Client threads hold ActorRefs and may send and *)
(* fast_send too.                                                          *)
(*                                                                         *)
(* The runtime keeps a Sender of its own mailbox, so recv() never sees a   *)
(* closed channel and its Err branch is dead code: no action models it.    *)
(***************************************************************************)
EXTENDS Envelopes, Sequences

CONSTANTS
  Stoppable,  \* actors whose running flag the application holds (stop())
  ClientKinds,\* kinds of message that clients send
  Passes,     \* bound: the references each process passes as a sender
  MaxSends    \* bound: how many envelopes each process may send

ASSUME RuntimeAssumption == /\ Stoppable \subseteq Actors
                            /\ ClientKinds \subseteq Kinds \ {"Reply"}
                            /\ Passes \in [Procs -> SUBSET Actors]
                            /\ MaxSends \in [Procs -> Nat]

VARIABLES
  pc,        \* where the thread of each actor is
  running,   \* the Arc<Mutex<bool>> of each runtime
  mailbox,   \* the Receiver<Envelope> of each runtime
  context,   \* the ActorContext of each runtime
  current,   \* the envelope being dispatched
  call,      \* the fast_send each process is in
  sent,      \* envelopes sent so far by each process
  overrun    \* history: envelopes dispatched although stop() had been called

runtimeVars == <<pc, running, mailbox, context, current, call, sent, overrun>>

NoEnvelope == [msg |-> "User", from |-> None, n |-> 0,
               sender |-> None, sync |-> FALSE]

\* The receiving half of a fast_send.  "open": the caller is blocked in
\* reply_rx.recv() and some Sender of the channel exists; "value": a reply is
\* in the channel; "closed": no Sender is left and no reply was sent.
\* "answer" is the request whose handler replied.
NoCall == [st |-> "idle", callee |-> None, answer |-> NoChannel]

Call == {NoCall} \cup [st     : {"open", "value", "closed"},
                       callee : Actors,
                       answer : Channel \cup {NoChannel}]

\* Program counters at which user code of the actor runs.
UserCode == {"init", "handle", "end"}
Dead     == {"ended", "panicked"}
PC       == {"absent", "new", "check", "recv"} \cup UserCode \cup Dead

Init ==
  /\ pc      = [a \in Actors |-> "absent"]
  /\ running = [a \in Actors |-> TRUE]
  /\ mailbox = [a \in Actors |-> <<>>]
  /\ context = [a \in Actors |-> NewContext]
  /\ current = [a \in Actors |-> NoEnvelope]
  /\ call    = [p \in Procs |-> NoCall]
  /\ sent    = [p \in Procs |-> 0]
  /\ overrun = [a \in Actors |-> 0]
-----------------------------------------------------------------------------
\* The Receiver of b's mailbox exists: from ActorRuntime::new until the
\* runtime is dropped at the end of its thread.
Open(b) == pc[b] \notin Dead \cup {"absent"}

\* p executes user code and is not blocked inside a fast_send.
Runs(p) == /\ call[p].st = "idle"
           /\ p \in Actors => pc[p] \in UserCode

\* Mutant: the envelope is queued although no Receiver is left.
MutDeliverBlindly(b, e) == mailbox' = [mailbox EXCEPT ![b] = Append(@, e)]

\* mpsc Sender::send: queued if the Receiver exists, otherwise an error that
\* the callers in actor.rs ignore.
Deliver(b, e) ==
  mailbox' = [mailbox EXCEPT ![b] = IF Open(b) THEN Append(@, e) ELSE @]

\* The Senders in chans are dropped: callers that were waiting on one of them
\* see their channel closed.
Close(chans) ==
  [p \in Procs |-> IF /\ call[p].st = "open"
                      /\ [to |-> p, n |-> sent[p]] \in chans
                   THEN [call[p] EXCEPT !.st = "closed"]
                   ELSE call[p]]

\* Mutant: the queued envelopes are leaked when the thread ends.
MutLeaksQueue(a) == {context[a].reply}

\* The reply channels that die with the runtime of a: those of the queued
\* envelopes and the one left in the context.
HeldBy(a) ==
  {context[a].reply} \cup {ReplyChannel(mailbox[a][i]) : i \in DOMAIN mailbox[a]}

\* The thread of a is over and drops the runtime it owned.
DropRuntime(a) ==
  /\ mailbox' = [mailbox EXCEPT ![a] = <<>>]
  /\ context' = [context EXCEPT ![a] = NewContext]
  /\ current' = [current EXCEPT ![a] = NoEnvelope]
  /\ call'    = Close(HeldBy(a))
-----------------------------------------------------------------------------
\* LocalActorRef::send, with any reference as the sender, or none.
Send(p, b, msg, sender) ==
  /\ Runs(p) /\ pc[b] # "absent" /\ sent[p] < MaxSends[p]
  /\ Deliver(b, NewEnvelope(msg, p, sent[p] + 1, sender))
  /\ sent' = [sent EXCEPT ![p] = @ + 1]
  /\ UNCHANGED <<pc, running, context, current, call, overrun>>

\* LocalActorRef::fast_send up to reply_rx.recv().  A failed send drops the
\* channel's only Sender with the envelope.
FastSend(p, b, sender) ==
  /\ Runs(p) /\ pc[b] # "absent" /\ sent[p] < MaxSends[p]
  /\ Deliver(b, NewSyncEnvelope("User", p, sent[p] + 1, sender))
  /\ sent' = [sent EXCEPT ![p] = @ + 1]
  /\ call' = [call EXCEPT ![p] = [st     |-> IF Open(b) THEN "open" ELSE "closed",
                                  callee |-> b,
                                  answer |-> NoChannel]]
  /\ UNCHANGED <<pc, running, context, current, overrun>>

\* reply_rx.recv() returns: Ok(reply) or, when the channel is closed, Err.
FastSendReturns(p) ==
  /\ call[p].st \in {"value", "closed"}
  /\ call' = [call EXCEPT ![p] = NoCall]
  /\ UNCHANGED <<pc, running, mailbox, context, current, sent, overrun>>

\* What p can pass as the sender: no reference, its own (ctx.self_ref()) or one
\* to a third party.
Senders(p) == {None} \cup {a \in Passes[p] : pc[a] # "absent"}

\* p sends some actor a message of one of these kinds, or calls it.
Sends(p, kinds) ==
  \E b \in Actors, sender \in Senders(p) :
    \/ \E msg \in kinds : Send(p, b, msg, sender)
    \/ FastSend(p, b, sender)
-----------------------------------------------------------------------------
\* self.reply_channel.take()
Taken(ctx) == [ctx EXCEPT !.reply = NoChannel]

\* ActorContext::reply when the message came by fast_send and has not been
\* answered: through the reply channel.
ReplyOnChannel(a) ==
  LET ch == context[a].reply
      to == ch.to
  IN /\ pc[a] = "handle" /\ Runs(a) /\ ch # NoChannel
     /\ call' = IF call[to].st = "open" /\ sent[to] = ch.n
                THEN [call EXCEPT ![to] =
                        [@ EXCEPT !.st     = "value",
                                  !.answer = [to |-> current[a].from,
                                              n  |-> current[a].n]]]
                ELSE call
     /\ context' = [context EXCEPT ![a] = Taken(@)]
     /\ UNCHANGED <<pc, running, mailbox, current, sent, overrun>>

\* ActorContext::reply without a reply channel: to the sender's mailbox.
ReplyToSender(a) ==
  /\ pc[a] = "handle" /\ Runs(a) /\ sent[a] < MaxSends[a]
  /\ context[a].reply = NoChannel /\ context[a].sender # None
  /\ Deliver(context[a].sender, NewEnvelope("Reply", a, sent[a] + 1, a))
  /\ sent' = [sent EXCEPT ![a] = @ + 1]
  /\ UNCHANGED <<pc, running, context, current, call, overrun>>

\* process_message returns.  The context keeps what it holds until the next
\* envelope.
HandlerReturns(a) ==
  /\ pc[a] = "handle" /\ Runs(a)
  /\ pc'      = [pc EXCEPT ![a] = "check"]
  /\ current' = [current EXCEPT ![a] = NoEnvelope]
  /\ UNCHANGED <<running, mailbox, context, call, sent, overrun>>

\* User code panics: the thread unwinds without calling end().
Panic(a) ==
  /\ pc[a] \in UserCode /\ Runs(a)
  /\ pc' = [pc EXCEPT ![a] = "panicked"]
  /\ DropRuntime(a)
  /\ UNCHANGED <<running, sent, overrun>>
-----------------------------------------------------------------------------
\* ActorRuntime::new: the mailbox exists and references can be handed out.
New(a) ==
  /\ pc[a] = "absent"
  /\ pc' = [pc EXCEPT ![a] = "new"]
  /\ UNCHANGED <<running, mailbox, context, current, call, sent, overrun>>

\* A thread is spawned and enters run(), which calls init().
Spawn(a) ==
  /\ pc[a] = "new"
  /\ pc' = [pc EXCEPT ![a] = "init"]
  /\ UNCHANGED <<running, mailbox, context, current, call, sent, overrun>>

InitReturns(a) ==
  /\ pc[a] = "init" /\ Runs(a)
  /\ pc' = [pc EXCEPT ![a] = "check"]
  /\ UNCHANGED <<running, mailbox, context, current, call, sent, overrun>>

\* Mutant: the loop condition ignores the flag.
MutIgnoresStop(a) == "recv"

\* The loop condition of run(): go on or leave the loop and call end().
AfterCheck(a) == IF running[a] THEN "recv" ELSE "end"

CheckRunning(a) ==
  /\ pc[a] = "check"
  /\ pc' = [pc EXCEPT ![a] = AfterCheck(a)]
  /\ UNCHANGED <<running, mailbox, context, current, call, sent, overrun>>

\* recv() returns an envelope and dispatch prepares the context for it, which
\* drops the reply channel the context still held.
Dispatch(a) ==
  /\ pc[a] = "recv" /\ mailbox[a] # <<>>
  /\ LET e == Head(mailbox[a])
     IN /\ current' = [current EXCEPT ![a] = e]
        /\ context' = [context EXCEPT ![a] = PrepareForEnvelope(@, e)]
        /\ call'    = Close({context[a].reply} \ {context'[a].reply})
  /\ mailbox' = [mailbox EXCEPT ![a] = Tail(@)]
  /\ pc'      = [pc EXCEPT ![a] = "handle"]
  /\ overrun' = [overrun EXCEPT ![a] = IF running[a] \/ @ = 2 THEN @ ELSE @ + 1]
  /\ UNCHANGED <<running, sent>>

\* end() returns and the thread drops its runtime.
EndReturns(a) ==
  /\ pc[a] = "end" /\ Runs(a)
  /\ pc' = [pc EXCEPT ![a] = "ended"]
  /\ DropRuntime(a)
  /\ UNCHANGED <<running, sent, overrun>>

\* stop(), or the same store through a clone of the public running flag.
Stop(a) ==
  /\ a \in Stoppable /\ pc[a] # "absent"
  /\ running' = [running EXCEPT ![a] = FALSE]
  /\ UNCHANGED <<pc, mailbox, context, current, call, sent, overrun>>
-----------------------------------------------------------------------------
\* Steps of the thread of a: the loop, and whatever its user code does.
ActorThread(a) ==
  \/ InitReturns(a) \/ CheckRunning(a) \/ Dispatch(a) \/ EndReturns(a)
  \/ Sends(a, {"User"}) \/ FastSendReturns(a)
  \/ ReplyOnChannel(a) \/ ReplyToSender(a) \/ HandlerReturns(a) \/ Panic(a)

ClientThread(c) == Sends(c, ClientKinds) \/ FastSendReturns(c)

Next ==
  \/ \E a \in Actors : New(a) \/ Spawn(a) \/ ActorThread(a) \/ Stop(a)
  \/ \E c \in Clients : ClientThread(c)

Spec == Init /\ [][Next]_runtimeVars

\* Every thread that can take a step eventually does: the operating system
\* schedules it, and user code does not run for ever.
Fairness ==
  /\ \A a \in Actors : WF_runtimeVars(ActorThread(a))
  /\ \A p \in Procs : WF_runtimeVars(FastSendReturns(p))

FairSpec == Spec /\ Fairness
-----------------------------------------------------------------------------
\* The channel on which p is waiting, or would wait: its last fast_send.
Awaited(p) == [to |-> p, n |-> sent[p]]

\* b has in its context, or in its mailbox, the Sender that would wake p up.
Keeps(b, p)  == context[b].reply = Awaited(p)
Queues(b, p) == \E i \in DOMAIN mailbox[b] : ReplyChannel(mailbox[b][i]) = Awaited(p)

\* Every variable has its type; a handler runs on an envelope, and a runtime
\* that does not exist, yet or any more, holds no envelope and no channel.
TypeOK ==
  /\ pc      \in [Actors -> PC]
  /\ running \in [Actors -> BOOLEAN]
  /\ mailbox \in [Actors -> Seq(Envelope)]
  /\ context \in [Actors -> Context]
  /\ current \in [Actors -> Envelope \cup {NoEnvelope}]
  /\ call    \in [Procs -> Call]
  /\ sent    \in [Procs -> Nat]
  /\ overrun \in [Actors -> 0 .. 2]
  /\ \A a \in Actors : pc[a] = "handle" => current[a] \in Envelope
  /\ \A a \in Actors : ~Open(a) => mailbox[a] = <<>> /\ context[a] = NewContext

\* A caller blocked in fast_send (actor.rs:92) is never forgotten: its callee
\* is alive and has, in its mailbox or in its context, a Sender that can still
\* wake it up.
BlockedCallerIsHeld ==
  \A p \in Procs : call[p].st = "open" =>
    LET b == call[p].callee
    IN Open(b) /\ (Keeps(b, p) \/ Queues(b, p))

\* An actor has every Sender of a reply channel once only.
HeldOnce(b) ==
  \A i \in DOMAIN mailbox[b] :
    mailbox[b][i].sync =>
      /\ ReplyChannel(mailbox[b][i]) # context[b].reply
      /\ \A j \in DOMAIN mailbox[b] \ {i} :
           ReplyChannel(mailbox[b][j]) # ReplyChannel(mailbox[b][i])

\* No reply can reach a caller that has gone on: every Sender of a reply
\* channel, queued or left in a context after its handler returned, exists
\* once and belongs to the very call, made to this actor, in which its creator
\* is still blocked.
HeldChannelsAreAwaited ==
  \A b \in Actors :
    /\ HeldOnce(b)
    /\ \A ch \in HeldBy(b) \ {NoChannel} :
         /\ call[ch.to].st = "open"
         /\ call[ch.to].callee = b
         /\ ch.n = sent[ch.to]

\* fast_send returns the reply to its own request: the value in the channel of
\* p was sent by the handler that was dispatched with the envelope p made, not
\* by a later one that found an old channel in the context (actor.rs:272).
AnswerMatchesRequest ==
  \A p \in Procs : call[p].st = "value" => call[p].answer = Awaited(p)

\* A handler runs in the context of its own message: the sender is that of
\* the message, and the reply channel too, unless it was used.
HandlerContextOK ==
  \A a \in Actors : pc[a] = "handle" =>
    /\ context[a].sender = current[a].sender
    /\ context[a].reply \in {NoChannel, ReplyChannel(current[a])}

\* ctx.reply() to a regular send goes to the sender of the message being
\* handled, never to the sender of an earlier one (actor.rs:275-277).
RepliesGoToSender ==
  [][\A b \in Actors :
       LET box == mailbox'[b]
       IN /\ Len(box) = Len(mailbox[b]) + 1
          /\ box[Len(box)].msg = "Reply"
          => current[box[Len(box)].from].sender = b]_runtimeVars

\* stop() is honoured at the next loop test (actor.rs:429): whatever the
\* interleaving, the thread dispatches at most one envelope after it.
AtMostOneDispatchAfterStop == \A a \in Actors : overrun[a] <= 1
-----------------------------------------------------------------------------
\* q waits, directly or along a chain of calls, for something that no thread
\* will do: the chain runs into a cycle of blocked actors, into an actor whose
\* thread was not spawned, or into one that waits for messages and still
\* keeps the channel because its handler returned without a reply.
Hopeless(q) ==
  \E S \in SUBSET Procs :
    /\ q \in S
    /\ \A p \in S :
         /\ call[p].st = "open"
         /\ LET b == call[p].callee
            IN \/ b \in S
               \/ pc[b] = "new"
               \/ pc[b] = "recv" /\ mailbox[b] = <<>> /\ Keeps(b, p)

\* Every fast_send returns, with a reply or with None, unless one of the
\* three situations above holds: nothing else in actor.rs can block a caller.
CallReturnsUnlessHopeless ==
  \A p \in Procs : call[p].st = "open" ~> (call[p].st # "open" \/ Hopeless(p))

\* One message after stop() is enough to end the thread: it leaves the loop
\* and its runtime is dropped, unless its user code stays blocked in a call.
StoppedThreadEnds ==
  \A a \in Actors : overrun[a] > 0 ~> (pc[a] \in Dead \/ call[a].st = "open")
-----------------------------------------------------------------------------
\* Refinement: actor.rs implements the calls of FastSend.  Where a call is
\* depends on who has the Sender of its reply channel.
Life(a) ==
  IF pc[a] = "absent" THEN "absent" ELSE IF Open(a) THEN "alive" ELSE "dead"

Rpc(p) ==
  LET st == call[p].st
  IN CASE st = "idle"   -> "idle"
       [] st = "value"  -> "answered"
       [] st = "closed" -> "refused"
       [] st = "open"   -> IF Keeps(call[p].callee, p) THEN "served" ELSE "queued"

Calls == INSTANCE FastSend WITH
  life   <- [a \in Actors |-> Life(a)],
  rpc    <- [p \in Procs |-> Rpc(p)],
  callee <- [p \in Procs |-> call[p].callee]

\* Every behaviour of the runtime is a behaviour of FastSend: no step of any
\* thread loses a call, serves it twice, answers a call that is not being
\* served, or refuses one for a reason that FastSend does not name.
ImplementsFastSend == Calls!Spec
-----------------------------------------------------------------------------
\* actor.rs:315 says of end(): "Called once when the actor shuts down, after
\* all messages are processed."  The loop is left without draining.
EndAfterAllMessages == \A a \in Actors : pc[a] = "end" => mailbox[a] = <<>>
=============================================================================
