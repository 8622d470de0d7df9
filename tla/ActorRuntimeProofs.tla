------------------------- MODULE ActorRuntimeProofs -------------------------
(***************************************************************************)
(* Proofs about ActorRuntime, for any actors, clients and bounds, and that *)
(* it implements FastSend.                                                 *)
(*                                                                         *)
(* IInv is inductive: the channel of a call exists once, in the callee that *)
(* was called, and carries the number of the caller's last send.           *)
(***************************************************************************)
EXTENDS ActorRuntime, TLAPS

USE DEF Procs

\* The channel of an envelope made by fast_send is a channel of its maker, and
\* an envelope made by send has none.
LEMMA ReplyChannelOfEnvelope ==
  ASSUME NEW e \in Envelope
  PROVE  /\ ReplyChannel(e) \in Channel \cup {NoChannel}
         /\ e.sync => ReplyChannel(e) = [to |-> e.from, n |-> e.n]
         /\ e.sync <=> ReplyChannel(e) # NoChannel
         /\ ReplyChannel(e) # NoChannel => ReplyChannel(e).to \in Procs
BY NamesAssumption DEF Envelope, ReplyChannel, Channel, NoChannel

\* Only ctx.reply() makes replies.
LEMMA NobodySendsReplies == {"User"} \cup ClientKinds \subseteq Kinds \ {"Reply"}
BY RuntimeAssumption DEF Kinds

\* What is passed as a sender is a reference to an actor, or none.
LEMMA SendersAreReferences ==
  \A p \in Procs : None \in Senders(p) /\ Senders(p) \subseteq Actors \cup {None}
BY RuntimeAssumption DEF Senders

\* NoChannel belongs to no process.
LEMMA NoChannelIsNoChannel == NoChannel \notin Channel
BY NamesAssumption DEF Channel, NoChannel

\* What an open call may become.
LEMMA OpenCall ==
  ASSUME NEW c \in Call, c.st = "open"
  PROVE  /\ c.callee \in Actors
         /\ [c EXCEPT !.st = "closed"] \in Call
         /\ \A ch \in Channel : [c EXCEPT !.st = "value", !.answer = ch] \in Call
<1>1. c \in [st : {"open", "value", "closed"}, callee : Actors,
             answer : Channel \cup {NoChannel}]
  BY DEF Call, NoCall
<1>2. QED
  BY <1>1 DEF Call

\* Dropping Senders leaves every call well formed.
LEMMA CloseType ==
  ASSUME call \in [Procs -> Call], NEW chans
  PROVE  Close(chans) \in [Procs -> Call]
BY OpenCall DEF Close

\* Queueing an envelope keeps mailboxes well formed, and closed ones empty.
LEMMA DeliverType ==
  ASSUME TypeOK, NEW b \in Actors, NEW e \in Envelope, Deliver(b, e)
  PROVE  /\ mailbox' \in [Actors -> Seq(Envelope)]
         /\ \A a \in Actors : ~Open(a) => mailbox'[a] = <<>>
BY DEF TypeOK, Deliver

\* The end of a thread leaves everything well formed and its runtime empty.
LEMMA DropRuntimeType ==
  ASSUME TypeOK, NEW a \in Actors, DropRuntime(a)
  PROVE  /\ mailbox' \in [Actors -> Seq(Envelope)]
         /\ context' \in [Actors -> Context]
         /\ current' \in [Actors -> Envelope \cup {NoEnvelope}]
         /\ call' \in [Procs -> Call]
         /\ mailbox'[a] = <<>> /\ context'[a] = NewContext
         /\ \A b \in Actors \ {a} : /\ mailbox'[b] = mailbox[b]
                                    /\ context'[b] = context[b]
                                    /\ current'[b] = current[b]
<1>1. <<>> \in Seq(Envelope) /\ NewContext \in Context
  BY DEF NewContext, Context
<1>2. call' \in [Procs -> Call]
  BY CloseType DEF TypeOK, DropRuntime
<1>3. QED
  BY <1>1, <1>2 DEF TypeOK, DropRuntime

\* Initially everything is well formed.
LEMMA InitTypeOK == Init => TypeOK
<1>1. NewContext \in Context /\ NoCall \in Call /\ <<>> \in Seq(Envelope)
  BY DEF NewContext, Context, NoCall, Call
<1>2. QED
  BY <1>1 DEF Init, TypeOK, Open, PC

\* Every step keeps everything well formed.
LEMMA NextTypeOK == TypeOK /\ [Next]_runtimeVars => TypeOK'
<1> SUFFICES ASSUME TypeOK, [Next]_runtimeVars
             PROVE  TypeOK'
  OBVIOUS
<1> USE DEF Open, PC, UserCode, Dead
<1>1. ASSUME NEW p \in Procs, NEW b \in Actors, NEW s \in Actors \cup {None},
             NEW m \in Kinds \ {"Reply"}, Send(p, b, m, s)
      PROVE  TypeOK'
  <2>1. NewEnvelope(m, p, sent[p] + 1, s) \in Envelope
    BY DEF TypeOK, NewEnvelope, Envelope, Kinds
  <2>2. /\ mailbox' \in [Actors -> Seq(Envelope)]
        /\ \A a \in Actors : ~Open(a) => mailbox'[a] = <<>>
    BY <1>1, <2>1, DeliverType DEF Send
  <2>3. sent' \in [Procs -> Nat]
    BY <1>1 DEF Send, TypeOK
  <2>4. QED
    BY <1>1, <2>2, <2>3 DEF Send, TypeOK
<1>2. ASSUME NEW p \in Procs, NEW b \in Actors, NEW s \in Actors \cup {None},
             FastSend(p, b, s)
      PROVE  TypeOK'
  <2>1. NewSyncEnvelope("User", p, sent[p] + 1, s) \in Envelope
    BY DEF TypeOK, NewSyncEnvelope, Envelope, Kinds
  <2>2. /\ mailbox' \in [Actors -> Seq(Envelope)]
        /\ \A a \in Actors : ~Open(a) => mailbox'[a] = <<>>
    BY <1>2, <2>1, DeliverType DEF FastSend
  <2>3. sent' \in [Procs -> Nat] /\ call' \in [Procs -> Call]
    BY <1>2 DEF FastSend, TypeOK, Call
  <2>4. QED
    BY <1>2, <2>2, <2>3 DEF FastSend, TypeOK
<1>3. ASSUME NEW p \in Procs, FastSendReturns(p) PROVE TypeOK'
  <2>1. call' \in [Procs -> Call]
    BY <1>3 DEF FastSendReturns, TypeOK, Call, NoCall
  <2>2. QED
    BY <1>3, <2>1 DEF FastSendReturns, TypeOK
<1>4. ASSUME NEW a \in Actors, ReplyOnChannel(a) PROVE TypeOK'
  <2>1. call' \in [Procs -> Call]
    <3> DEFINE to == context[a].reply.to
               ch == [to |-> current[a].from, n |-> current[a].n]
               answered == [call[to] EXCEPT !.st = "value", !.answer = ch]
    <3>1. current[a] \in Envelope
      BY <1>4 DEF TypeOK, ReplyOnChannel
    <3>2. ch \in Channel
      BY <3>1 DEF Envelope, Channel
    <3>3. to \in Procs
      BY <1>4 DEF TypeOK, ReplyOnChannel, Context, Channel
    <3>4. call[to].st = "open" => answered \in Call
      BY <3>2, <3>3, OpenCall DEF TypeOK
    <3>5. call' = call \/ (call[to].st = "open" /\ call' = [call EXCEPT ![to] = answered])
      BY <1>4 DEF ReplyOnChannel
    <3>6. QED
      BY <3>3, <3>4, <3>5 DEF TypeOK
  <2>2. context' \in [Actors -> Context] /\ \A b \in Actors \ {a} : context'[b] = context[b]
    BY <1>4 DEF ReplyOnChannel, TypeOK, Context, Taken
  <2>3. QED
    BY <1>4, <2>1, <2>2 DEF ReplyOnChannel, TypeOK
<1>5. ASSUME NEW a \in Actors, ReplyToSender(a) PROVE TypeOK'
  <2>1. context[a].sender \in Actors
    BY <1>5 DEF ReplyToSender, TypeOK, Context
  <2>2. NewEnvelope("Reply", a, sent[a] + 1, a) \in Envelope
    BY DEF TypeOK, NewEnvelope, Envelope, Kinds
  <2>3. /\ mailbox' \in [Actors -> Seq(Envelope)]
        /\ \A b \in Actors : ~Open(b) => mailbox'[b] = <<>>
    BY <1>5, <2>1, <2>2, DeliverType DEF ReplyToSender
  <2>4. sent' \in [Procs -> Nat]
    BY <1>5 DEF ReplyToSender, TypeOK
  <2>5. QED
    BY <1>5, <2>3, <2>4 DEF ReplyToSender, TypeOK
<1>6. ASSUME NEW a \in Actors, HandlerReturns(a) PROVE TypeOK'
  BY <1>6 DEF HandlerReturns, TypeOK
<1>7. ASSUME NEW a \in Actors, Panic(a) \/ EndReturns(a) PROVE TypeOK'
  <2>1. DropRuntime(a) /\ pc' \in [Actors -> PC] /\ UNCHANGED <<running, sent, overrun>>
    BY <1>7 DEF Panic, EndReturns, TypeOK
  <2>2. pc'[a] \in Dead /\ \A b \in Actors \ {a} : pc'[b] = pc[b]
    BY <1>7 DEF Panic, EndReturns, TypeOK
  <2>3. QED
    BY <2>1, <2>2, DropRuntimeType DEF TypeOK
<1>8. ASSUME NEW a \in Actors, New(a) \/ Spawn(a) \/ InitReturns(a) \/ CheckRunning(a)
      PROVE  TypeOK'
  BY <1>8 DEF New, Spawn, InitReturns, CheckRunning, AfterCheck, TypeOK
<1>9. ASSUME NEW a \in Actors, Dispatch(a) PROVE TypeOK'
  <2>1. Head(mailbox[a]) \in Envelope /\ Tail(mailbox[a]) \in Seq(Envelope)
    BY <1>9 DEF Dispatch, TypeOK
  <2>2. PrepareForEnvelope(context[a], Head(mailbox[a])) \in Context
    BY <2>1, ReplyChannelOfEnvelope DEF PrepareForEnvelope, Context, Envelope
  <2>3. call' \in [Procs -> Call]
    BY <1>9, CloseType DEF Dispatch, TypeOK
  <2>4. overrun' \in [Actors -> 0 .. 2]
    BY <1>9 DEF Dispatch, TypeOK
  <2>5. QED
    BY <1>9, <2>1, <2>2, <2>3, <2>4 DEF Dispatch, TypeOK
<1>10. ASSUME NEW a \in Actors, Stop(a) PROVE TypeOK'
  BY <1>10 DEF Stop, TypeOK
<1>11. CASE UNCHANGED runtimeVars
  BY <1>11 DEF runtimeVars, TypeOK
<1>12. QED
  BY <1>1, <1>2, <1>3, <1>4, <1>5, <1>6, <1>7, <1>8, <1>9, <1>10, <1>11,
     NobodySendsReplies, SendersAreReferences
     DEF Next, ActorThread, ClientThread, Sends

\* Type correctness of the runtime.
THEOREM TypeCorrect == Spec => []TypeOK
BY InitTypeOK, NextTypeOK, PTL DEF Spec
-----------------------------------------------------------------------------
\* The inductive invariant of the calls.  BlockedCallerIsHeld alone is not
\* inductive: that the Sender dropped by one call is not the one another
\* caller waits for needs HeldChannelsAreAwaited, and that the answer is to
\* the right request needs HandlerContextOK.
CallInv == /\ BlockedCallerIsHeld
           /\ HeldChannelsAreAwaited
           /\ AnswerMatchesRequest
           /\ HandlerContextOK

IInv == TypeOK /\ CallInv

\* What an actor has is in its context or in its mailbox.
LEMMA HeldByKeepsQueues ==
  ASSUME NEW b \in Actors, NEW p \in Procs
  PROVE  Awaited(p) \in HeldBy(b) <=> Keeps(b, p) \/ Queues(b, p)
BY DEF HeldBy, Keeps, Queues

\* An actor awaits nothing of a process that is not in a call.
LEMMA IdleIsNotHeld ==
  ASSUME IInv, NEW p \in Procs, call[p].st # "open", NEW b \in Actors
  PROVE  /\ context[b].reply # NoChannel => context[b].reply.to # p
         /\ \A i \in DOMAIN mailbox[b] :
              mailbox[b][i].sync => mailbox[b][i].from # p
<1>1. \A ch \in HeldBy(b) \ {NoChannel} : ch.to # p
  BY DEF IInv, CallInv, HeldChannelsAreAwaited
<1>2. \A i \in DOMAIN mailbox[b] :
        mailbox[b][i].sync => ReplyChannel(mailbox[b][i]) \in HeldBy(b) \ {NoChannel}
  BY ReplyChannelOfEnvelope DEF IInv, TypeOK, HeldBy
<1>3. QED
  BY <1>1, <1>2 DEF HeldBy, ReplyChannel

\* Where an envelope goes: to the end of one mailbox, if it is open.
LEMMA DeliverPlace ==
  ASSUME TypeOK, NEW b \in Actors, NEW e \in Envelope, Deliver(b, e)
  PROVE  /\ \A a \in Actors \ {b} : mailbox'[a] = mailbox[a]
         /\ ~Open(b) => mailbox'[b] = mailbox[b]
         /\ Open(b) =>
              /\ DOMAIN mailbox'[b] = DOMAIN mailbox[b] \cup {Len(mailbox[b]) + 1}
              /\ Len(mailbox[b]) + 1 \notin DOMAIN mailbox[b]
              /\ mailbox'[b][Len(mailbox[b]) + 1] = e
              /\ \A i \in DOMAIN mailbox[b] : mailbox'[b][i] = mailbox[b][i]
BY DEF TypeOK, Deliver

\* Sending an envelope without a reply channel disturbs no call.
LEMMA AsyncSendCallInv ==
  ASSUME IInv, NEW p \in Procs, call[p].st = "idle",
         NEW b \in Actors, NEW e \in Envelope, ~e.sync, Deliver(b, e),
         sent' = [sent EXCEPT ![p] = @ + 1],
         UNCHANGED <<pc, context, current, call>>
  PROVE  CallInv'
<1> USE DEF IInv, CallInv
<1>1. \A q \in Procs \ {p} : Awaited(q)' = Awaited(q)
  BY DEF Awaited, TypeOK
<1>2. \A c \in Actors : \A i \in DOMAIN mailbox'[c] :
         \/ i \in DOMAIN mailbox[c] /\ mailbox'[c][i] = mailbox[c][i]
         \/ ~mailbox'[c][i].sync
  BY DeliverPlace
<1>3. \A c \in Actors : \A i \in DOMAIN mailbox[c] :
         i \in DOMAIN mailbox'[c] /\ mailbox'[c][i] = mailbox[c][i]
  BY DeliverPlace
<1>4. BlockedCallerIsHeld'
  <2> SUFFICES ASSUME NEW q \in Procs, call[q].st = "open"
               PROVE  Open(call[q].callee) /\ (Keeps(call[q].callee, q)' \/ Queues(call[q].callee, q)')
    BY DEF BlockedCallerIsHeld, Open, Keeps, Queues
  <2>1. Awaited(q)' = Awaited(q) /\ call[q].callee \in Actors
    BY <1>1 DEF TypeOK, Call, NoCall
  <2>2. QED
    BY <2>1, <1>3 DEF BlockedCallerIsHeld, Keeps, Queues
<1>5. HeldChannelsAreAwaited'
  <2> SUFFICES ASSUME NEW c \in Actors
               PROVE  /\ HeldOnce(c)'
                      /\ \A ch \in HeldBy(c)' \ {NoChannel} :
                           call[ch.to].st = "open" /\ call[ch.to].callee = c /\ ch.n = sent'[ch.to]
    BY DEF HeldChannelsAreAwaited
  <2>1. HeldBy(c)' \subseteq HeldBy(c) \cup {NoChannel}
    BY <1>2 DEF HeldBy, ReplyChannel
  <2>2. HeldOnce(c)'
    <3>1. \A i \in DOMAIN mailbox[c] :
             mailbox[c][i].sync => ReplyChannel(mailbox[c][i]) # NoChannel
      BY ReplyChannelOfEnvelope DEF TypeOK
    <3>2. HeldOnce(c)
      BY DEF HeldChannelsAreAwaited
    <3>3. QED
      BY <1>2, <3>1, <3>2 DEF HeldOnce, ReplyChannel
  <2>3. QED
    BY <2>1, <2>2 DEF HeldChannelsAreAwaited, TypeOK
<1>6. AnswerMatchesRequest'
  BY <1>1 DEF AnswerMatchesRequest
<1>7. HandlerContextOK'
  BY DEF HandlerContextOK
<1>8. QED
  BY <1>4, <1>5, <1>6, <1>7

\* Making a call adds one channel, which nobody had, to the callee's mailbox.
LEMMA FastSendCallInv ==
  ASSUME IInv, NEW p \in Procs, NEW b \in Actors, NEW s \in Actors \cup {None},
         FastSend(p, b, s)
  PROVE  CallInv'
<1> DEFINE e == NewSyncEnvelope("User", p, sent[p] + 1, s)
           new == Len(mailbox[b]) + 1
<1> USE DEF IInv, CallInv
<1>1. /\ e \in Envelope /\ e.sync /\ e.from = p
      /\ ReplyChannel(e) = Awaited(p)'
      /\ Deliver(b, e)
      /\ call[p].st = "idle"
  BY DEF FastSend, TypeOK, NewSyncEnvelope, Envelope, Kinds, ReplyChannel, Awaited, Runs
<1>2. /\ UNCHANGED <<pc, context, current>>
      /\ \A q \in Procs \ {p} : Awaited(q)' = Awaited(q) /\ call'[q] = call[q]
      /\ call'[p].st \in {"open", "closed"}
      /\ call'[p].st = "open" => Open(b) /\ call'[p].callee = b
  BY DEF FastSend, TypeOK, Awaited
<1>3. \A c \in Actors : \A i \in DOMAIN mailbox[c] :
         i \in DOMAIN mailbox'[c] /\ mailbox'[c][i] = mailbox[c][i]
  BY <1>1, DeliverPlace
<1>4. \A c \in Actors : \A i \in DOMAIN mailbox'[c] :
         \/ i \in DOMAIN mailbox[c] /\ mailbox'[c][i] = mailbox[c][i]
         \/ c = b /\ Open(b) /\ i = new /\ mailbox'[c][i] = e
  BY <1>1, DeliverPlace
<1>5. BlockedCallerIsHeld'
  <2> SUFFICES ASSUME NEW q \in Procs, call'[q].st = "open"
               PROVE  \E c \in Actors : /\ call'[q].callee = c
                                        /\ Open(c) /\ (Keeps(c, q)' \/ Queues(c, q)')
    BY <1>2 DEF BlockedCallerIsHeld, Open, Keeps, Queues
  <2>1. CASE q = p
    <3>1. Open(b) /\ new \in DOMAIN mailbox'[b] /\ mailbox'[b][new] = e
      BY <1>1, <1>2, <2>1, DeliverPlace
    <3>2. QED
      BY <1>1, <1>2, <2>1, <3>1 DEF Queues
  <2>2. CASE q # p
    <3>1. call[q].callee \in Actors
      BY <1>2, <2>2, OpenCall DEF TypeOK
    <3>2. QED
      BY <1>2, <1>3, <2>2, <3>1 DEF BlockedCallerIsHeld, Keeps, Queues
  <2>3. QED
    BY <2>1, <2>2
<1>6. HeldChannelsAreAwaited'
  <2> SUFFICES ASSUME NEW c \in Actors
               PROVE  /\ HeldOnce(c)'
                      /\ \A ch \in HeldBy(c)' \ {NoChannel} :
                           /\ call'[ch.to].st = "open"
                           /\ call'[ch.to].callee = c
                           /\ ch.n = sent'[ch.to]
    BY DEF HeldChannelsAreAwaited
  <2>1. HeldOnce(c)'
    <3>1. /\ context[c].reply # ReplyChannel(e)
          /\ \A i \in DOMAIN mailbox[c] :
               mailbox[c][i].sync => ReplyChannel(mailbox[c][i]) # ReplyChannel(e)
      <4>1. context[c].reply # NoChannel => context[c].reply.to # p
        BY <1>1, IdleIsNotHeld
      <4>2. \A i \in DOMAIN mailbox[c] : mailbox[c][i].sync => mailbox[c][i].from # p
        BY <1>1, IdleIsNotHeld
      <4>3. ReplyChannel(e).to = p /\ ReplyChannel(e) # NoChannel
        BY <1>1, ReplyChannelOfEnvelope DEF ReplyChannel
      <4>4. QED
        BY <4>1, <4>2, <4>3 DEF ReplyChannel
    <3>2. \A i \in DOMAIN mailbox[c] : ~mailbox[c][i].sync => ReplyChannel(mailbox[c][i]) # ReplyChannel(e)
      BY <1>1, ReplyChannelOfEnvelope DEF ReplyChannel
    <3>3. HeldOnce(c)
      BY DEF HeldChannelsAreAwaited
    <3>4. QED
      BY <1>2, <1>4, <3>1, <3>2, <3>3 DEF HeldOnce
  <2>2. ASSUME NEW ch \in HeldBy(c)' \ {NoChannel}
        PROVE  call'[ch.to].st = "open" /\ call'[ch.to].callee = c /\ ch.n = sent'[ch.to]
    <3>1. ch \in HeldBy(c) \/ (ch = ReplyChannel(e) /\ c = b /\ Open(b))
      BY <1>2, <1>4 DEF HeldBy
    <3>2. CASE ch \in HeldBy(c)
      <4>1. /\ ch.to \in Procs
            /\ call[ch.to].st = "open" /\ call[ch.to].callee = c /\ ch.n = sent[ch.to]
        <5>1. ch \in Channel
          BY <3>2, ReplyChannelOfEnvelope DEF HeldBy, TypeOK, Context
        <5>2. QED
          BY <3>2, <5>1 DEF HeldChannelsAreAwaited, Channel
      <4>2. ch.to # p
        BY <1>1, <4>1
      <4>3. sent'[ch.to] = sent[ch.to]
        BY <4>1, <4>2 DEF FastSend, TypeOK
      <4>4. QED
        BY <1>2, <4>1, <4>2, <4>3
    <3>3. CASE ch = ReplyChannel(e) /\ c = b /\ Open(b)
      <4>1. call'[p].st = "open" /\ call'[p].callee = b
        BY <3>3 DEF FastSend, TypeOK
      <4>2. QED
        BY <1>1, <3>3, <4>1 DEF Awaited
    <3>4. QED
      BY <3>1, <3>2, <3>3
  <2>3. QED
    BY <2>1, <2>2
<1>7. AnswerMatchesRequest'
  BY <1>2 DEF AnswerMatchesRequest
<1>8. HandlerContextOK'
  BY <1>2 DEF HandlerContextOK
<1>9. QED
  BY <1>5, <1>6, <1>7, <1>8

\* Returning from a call that is over disturbs no other.
LEMMA FastSendReturnsCallInv ==
  ASSUME IInv, NEW p \in Procs, FastSendReturns(p)
  PROVE  CallInv'
<1> USE DEF IInv, CallInv
<1>1. /\ UNCHANGED <<pc, mailbox, context, current, sent>>
      /\ call[p].st # "open" /\ call'[p] = NoCall
      /\ \A q \in Procs \ {p} : call'[q] = call[q]
  BY DEF FastSendReturns, TypeOK
<1>2. BlockedCallerIsHeld' /\ AnswerMatchesRequest' /\ HandlerContextOK'
  BY <1>1 DEF BlockedCallerIsHeld, AnswerMatchesRequest, HandlerContextOK, NoCall,
              Open, Keeps, Queues, Awaited
<1>3. HeldChannelsAreAwaited'
  <2>1. \A c \in Actors : HeldOnce(c)' /\ HeldBy(c)' = HeldBy(c)
    BY <1>1 DEF HeldChannelsAreAwaited, HeldOnce, HeldBy
  <2>2. \A c \in Actors : \A ch \in HeldBy(c) \ {NoChannel} : ch.to \in Procs
    BY ReplyChannelOfEnvelope DEF HeldBy, TypeOK, Context, Channel
  <2>3. QED
    BY <1>1, <2>1, <2>2 DEF HeldChannelsAreAwaited
<1>4. QED
  BY <1>2, <1>3

\* A reply on the channel wakes up the caller that waits for it, and nobody
\* else; the channel is used up.
LEMMA ReplyOnChannelCallInv ==
  ASSUME IInv, NEW a \in Actors, ReplyOnChannel(a)
  PROVE  CallInv'
<1> DEFINE ch == context[a].reply
           to == ch.to
<1> USE DEF IInv, CallInv
<1>1. /\ ch \in Channel /\ ch # NoChannel /\ ch \in HeldBy(a)
      /\ pc[a] = "handle"
  BY DEF ReplyOnChannel, TypeOK, Context, HeldBy
<1>2. /\ to \in Procs
      /\ call[to].st = "open" /\ call[to].callee = a
      /\ ch = Awaited(to)
  BY <1>1 DEF HeldChannelsAreAwaited, Channel, Awaited
<1>3. /\ UNCHANGED <<pc, running, mailbox, current, sent, overrun>>
      /\ call'[to].st = "value"
      /\ call'[to].answer = [to |-> current[a].from, n |-> current[a].n]
      /\ \A q \in Procs \ {to} : call'[q] = call[q]
  <2>1. call[to].st = "open" /\ sent[to] = ch.n
    BY <1>2 DEF Awaited
  <2>2. call' = [call EXCEPT ![to] = [@ EXCEPT !.st = "value",
                    !.answer = [to |-> current[a].from, n |-> current[a].n]]]
    BY <2>1 DEF ReplyOnChannel
  <2>3. call[to] \in [st : {"open", "value", "closed"}, callee : Actors,
                      answer : Channel \cup {NoChannel}]
    BY <1>2 DEF TypeOK, Call, NoCall
  <2>4. /\ call'[to] = [call[to] EXCEPT !.st = "value",
                    !.answer = [to |-> current[a].from, n |-> current[a].n]]
        /\ \A q \in Procs \ {to} : call'[q] = call[q]
    BY <1>2, <2>2 DEF TypeOK
  <2>5. UNCHANGED <<pc, running, mailbox, current, sent, overrun>>
    BY DEF ReplyOnChannel
  <2>6. QED
    BY <2>3, <2>4, <2>5
<1>4. /\ context'[a].reply = NoChannel /\ context'[a].sender = context[a].sender
      /\ \A c \in Actors \ {a} : context'[c] = context[c]
  BY DEF ReplyOnChannel, Taken, TypeOK, Context
<1>5. ASSUME NEW q \in Procs, Awaited(q) = ch PROVE q = to
  BY <1>5 DEF Awaited
<1>6. BlockedCallerIsHeld'
  <2> SUFFICES ASSUME NEW q \in Procs, call'[q].st = "open"
               PROVE  \E c \in Actors : /\ call'[q].callee = c
                                        /\ Open(c) /\ (Keeps(c, q)' \/ Queues(c, q)')
    BY <1>3 DEF BlockedCallerIsHeld, Open, Keeps, Queues
  <2>1. q # to /\ call[q].st = "open" /\ call'[q] = call[q]
    BY <1>3
  <2>2. call[q].callee \in Actors
    BY <2>1, OpenCall DEF TypeOK
  <2>3. Keeps(call[q].callee, q) => call[q].callee # a
    BY <1>5, <2>1 DEF Keeps
  <2>4. QED
    BY <1>3, <1>4, <2>1, <2>2, <2>3 DEF BlockedCallerIsHeld, Keeps, Queues, Awaited
<1>7. HeldChannelsAreAwaited'
  <2> SUFFICES ASSUME NEW c \in Actors
               PROVE  /\ HeldOnce(c)'
                      /\ \A d \in HeldBy(c)' \ {NoChannel} :
                           /\ call'[d.to].st = "open"
                           /\ call'[d.to].callee = c
                           /\ d.n = sent'[d.to]
    BY DEF HeldChannelsAreAwaited
  <2>1. /\ HeldOnce(c)
        /\ \A i \in DOMAIN mailbox[c] :
             mailbox[c][i].sync => ReplyChannel(mailbox[c][i]) # NoChannel
    BY ReplyChannelOfEnvelope DEF HeldChannelsAreAwaited, TypeOK
  <2>2. HeldOnce(c)'
    BY <1>3, <1>4, <2>1 DEF HeldOnce
  <2>3. ASSUME NEW d \in HeldBy(c)' \ {NoChannel}
        PROVE  call'[d.to].st = "open" /\ call'[d.to].callee = c /\ d.n = sent'[d.to]
    <3>1. d \in HeldBy(c)
      BY <1>3, <1>4 DEF HeldBy
    <3>2. /\ d \in Channel /\ d.to \in Procs
          /\ call[d.to].st = "open" /\ call[d.to].callee = c /\ d.n = sent[d.to]
      <4>1. d \in Channel
        BY <3>1, ReplyChannelOfEnvelope DEF HeldBy, TypeOK, Context
      <4>2. QED
        BY <3>1, <4>1 DEF HeldChannelsAreAwaited, Channel
    <3>3. d.to # to
      <4> SUFFICES ASSUME d.to = to PROVE FALSE
        OBVIOUS
      <4>1. c = a /\ d = ch
        BY <1>2, <3>2 DEF Awaited, Channel
      <4>2. \E i \in DOMAIN mailbox[a] : ReplyChannel(mailbox[a][i]) = ch
        BY <1>1, <1>3, <1>4, <4>1 DEF HeldBy
      <4>3. QED
        BY <1>1, <2>1, <4>1, <4>2 DEF HeldOnce, ReplyChannel
    <3>4. QED
      BY <1>3, <3>2, <3>3
  <2>4. QED
    BY <2>2, <2>3
<1>8. AnswerMatchesRequest'
  <2>1. ReplyChannel(current[a]) = ch
    BY <1>1 DEF HandlerContextOK
  <2>2. [to |-> current[a].from, n |-> current[a].n] = ch
    BY <1>1, <2>1 DEF ReplyChannel
  <2>3. QED
    BY <1>2, <1>3, <2>2 DEF AnswerMatchesRequest, Awaited
<1>9. HandlerContextOK'
  BY <1>3, <1>4 DEF HandlerContextOK
<1>10. QED
  BY <1>6, <1>7, <1>8, <1>9

\* The end of a thread closes the channels its runtime had: exactly the calls
\* made to it.
LEMMA DropRuntimeCallInv ==
  ASSUME IInv, NEW a \in Actors, DropRuntime(a), UNCHANGED sent,
         pc'[a] \in Dead, \A b \in Actors \ {a} : pc'[b] = pc[b]
  PROVE  CallInv'
<1> USE DEF IInv, CallInv
<1>1. /\ mailbox'[a] = <<>> /\ context'[a] = NewContext
      /\ \A b \in Actors \ {a} : /\ mailbox'[b] = mailbox[b]
                                 /\ context'[b] = context[b]
                                 /\ current'[b] = current[b]
  BY DropRuntimeType
<1>2. \A q \in Procs : Awaited(q)' = Awaited(q)
  BY DEF Awaited
<1>3. \A q \in Procs : Awaited(q) \in HeldBy(a) => call[q].callee = a
  <2>1. \A q \in Procs : Awaited(q) # NoChannel
    BY NamesAssumption DEF Awaited, NoChannel
  <2>2. QED
    BY <2>1 DEF HeldChannelsAreAwaited, Awaited
<1>4. \A q \in Procs :
         call'[q] = IF call[q].st = "open" /\ Awaited(q) \in HeldBy(a)
                    THEN [call[q] EXCEPT !.st = "closed"] ELSE call[q]
  BY DEF DropRuntime, Close, Awaited
<1>5. \A q \in Procs : call[q].st = "open" => [call[q] EXCEPT !.st = "closed"].st = "closed"
  BY DEF TypeOK, Call, NoCall
<1>6. BlockedCallerIsHeld'
  <2> SUFFICES ASSUME NEW q \in Procs, call'[q].st = "open"
               PROVE  \E c \in Actors : /\ call'[q].callee = c
                                        /\ Open(c)' /\ (Keeps(c, q)' \/ Queues(c, q)')
    BY DEF BlockedCallerIsHeld, Open, Keeps, Queues
  <2>1. call[q].st = "open" /\ call'[q] = call[q] /\ Awaited(q) \notin HeldBy(a)
    BY <1>4, <1>5
  <2>2. call[q].callee \in Actors
    BY <2>1, OpenCall DEF TypeOK
  <2>3. call[q].callee # a
    BY <2>1, HeldByKeepsQueues DEF BlockedCallerIsHeld
  <2>4. QED
    BY <1>1, <1>2, <2>1, <2>2, <2>3 DEF BlockedCallerIsHeld, Keeps, Queues, Open
<1>7. HeldChannelsAreAwaited'
  <2> SUFFICES ASSUME NEW c \in Actors
               PROVE  /\ HeldOnce(c)'
                      /\ \A d \in HeldBy(c)' \ {NoChannel} :
                           /\ call'[d.to].st = "open"
                           /\ call'[d.to].callee = c
                           /\ d.n = sent'[d.to]
    BY DEF HeldChannelsAreAwaited
  <2>1. CASE c = a
    BY <1>1, <2>1 DEF HeldOnce, HeldBy, NewContext
  <2>2. CASE c # a
    <3>1. HeldOnce(c)' /\ HeldBy(c)' = HeldBy(c)
      BY <1>1, <2>2 DEF HeldChannelsAreAwaited, HeldOnce, HeldBy
    <3>2. ASSUME NEW d \in HeldBy(c) \ {NoChannel}
          PROVE  call'[d.to].st = "open" /\ call'[d.to].callee = c /\ d.n = sent'[d.to]
      <4>1. d \in Channel
        BY <3>2, ReplyChannelOfEnvelope DEF HeldBy, TypeOK, Context
      <4>2. call[d.to].st = "open" /\ call[d.to].callee = c /\ d.n = sent[d.to] /\ d.to \in Procs
        BY <4>1 DEF HeldChannelsAreAwaited, Channel
      <4>3. call'[d.to] = call[d.to]
        BY <1>3, <1>4, <2>2, <4>2
      <4>4. QED
        BY <4>2, <4>3
    <3>3. QED
      BY <3>1, <3>2
  <2>3. QED
    BY <2>1, <2>2
<1>8. AnswerMatchesRequest'
  BY <1>2, <1>4, <1>5 DEF AnswerMatchesRequest
<1>9. HandlerContextOK'
  BY <1>1 DEF HandlerContextOK, Dead
<1>10. QED
  BY <1>6, <1>7, <1>8, <1>9

\* Taking an envelope moves its channel from the mailbox to the context; the
\* channel that was in the context, if any, is dropped, and its caller woken.
LEMMA DispatchCallInv ==
  ASSUME IInv, NEW a \in Actors, Dispatch(a)
  PROVE  CallInv'
<1> DEFINE e == Head(mailbox[a])
           old == context[a].reply
           taken == ReplyChannel(e)
<1> USE DEF IInv, CallInv
<1>1. /\ mailbox[a] \in Seq(Envelope) /\ mailbox[a] # <<>>
      /\ 1 \in DOMAIN mailbox[a] /\ e = mailbox[a][1] /\ e \in Envelope
  BY DEF Dispatch, TypeOK
<1>2. /\ mailbox'[a] = Tail(mailbox[a])
      /\ context'[a] = [sender |-> e.sender, reply |-> taken]
      /\ current'[a] = e /\ pc'[a] = "handle"
      /\ \A b \in Actors \ {a} : /\ mailbox'[b] = mailbox[b]
                                 /\ context'[b] = context[b]
                                 /\ current'[b] = current[b]
                                 /\ pc'[b] = pc[b]
      /\ UNCHANGED sent
      /\ pc[a] = "recv"
      /\ call' = Close({old} \ {taken})
  BY DEF Dispatch, TypeOK, PrepareForEnvelope
<1>3. /\ \A i \in DOMAIN mailbox'[a] :
            i + 1 \in DOMAIN mailbox[a] \ {1} /\ mailbox'[a][i] = mailbox[a][i + 1]
      /\ \A i \in DOMAIN mailbox[a] \ {1} :
            i - 1 \in DOMAIN mailbox'[a] /\ mailbox'[a][i - 1] = mailbox[a][i]
  BY <1>1, <1>2
<1>4. \A q \in Procs :
         call'[q] = IF call[q].st = "open" /\ Awaited(q) \in {old} \ {taken}
                    THEN [call[q] EXCEPT !.st = "closed"] ELSE call[q]
  BY <1>2 DEF Close, Awaited
<1>5. \A q \in Procs : call[q].st = "open" => [call[q] EXCEPT !.st = "closed"].st = "closed"
  BY DEF TypeOK, Call, NoCall
<1>6. \A q \in Procs : Awaited(q)' = Awaited(q)
  BY <1>2 DEF Awaited
<1>7. /\ old \in HeldBy(a) /\ taken \in HeldBy(a)
      /\ HeldOnce(a)
      /\ \A i \in DOMAIN mailbox[a] :
           mailbox[a][i].sync <=> ReplyChannel(mailbox[a][i]) # NoChannel
  BY <1>1, ReplyChannelOfEnvelope DEF HeldBy, TypeOK, HeldChannelsAreAwaited
<1>8. \A q \in Procs : Awaited(q) = old => call[q].callee = a
  <2>1. \A q \in Procs : Awaited(q) # NoChannel
    BY NamesAssumption DEF Awaited, NoChannel
  <2>2. QED
    BY <1>7, <2>1 DEF HeldChannelsAreAwaited, Awaited
<1>9. BlockedCallerIsHeld'
  <2> SUFFICES ASSUME NEW q \in Procs, call'[q].st = "open"
               PROVE  \E c \in Actors : /\ call'[q].callee = c
                                        /\ Open(c)' /\ (Keeps(c, q)' \/ Queues(c, q)')
    BY DEF BlockedCallerIsHeld, Open, Keeps, Queues
  <2>1. call[q].st = "open" /\ call'[q] = call[q] /\ Awaited(q) \notin {old} \ {taken}
    BY <1>4, <1>5
  <2>2. call[q].callee \in Actors
    BY <2>1, OpenCall DEF TypeOK
  <2>3. CASE call[q].callee # a
    BY <1>2, <1>6, <2>1, <2>2, <2>3 DEF BlockedCallerIsHeld, Keeps, Queues, Open
  <2>4. CASE call[q].callee = a
    <3>1. Open(a)'
      BY <1>2 DEF Open, Dead
    <3>2. CASE Awaited(q) = taken
      BY <1>2, <1>6, <2>1, <2>4, <3>1, <3>2 DEF Keeps
    <3>3. CASE Awaited(q) # taken
      <4>1. ~Keeps(a, q) /\ Queues(a, q)
        BY <2>1, <2>4, <3>3 DEF BlockedCallerIsHeld, Keeps
      <4>2. \E i \in DOMAIN mailbox[a] \ {1} : ReplyChannel(mailbox[a][i]) = Awaited(q)
        BY <1>1, <3>3, <4>1 DEF Queues
      <4>3. Queues(a, q)'
        BY <1>3, <1>6, <4>2 DEF Queues
      <4>4. QED
        BY <2>1, <2>4, <3>1, <4>3
    <3>4. QED
      BY <3>2, <3>3
  <2>5. QED
    BY <2>3, <2>4
<1>10. HeldChannelsAreAwaited'
  <2> SUFFICES ASSUME NEW c \in Actors
               PROVE  /\ HeldOnce(c)'
                      /\ \A d \in HeldBy(c)' \ {NoChannel} :
                           /\ call'[d.to].st = "open"
                           /\ call'[d.to].callee = c
                           /\ d.n = sent'[d.to]
    BY DEF HeldChannelsAreAwaited
  <2>1. /\ HeldOnce(c)'
        /\ HeldBy(c)' \subseteq HeldBy(c)
    <3>1. CASE c # a
      BY <1>2, <3>1 DEF HeldChannelsAreAwaited, HeldOnce, HeldBy
    <3>2. CASE c = a
      <4>1. HeldOnce(a)'
        <5> SUFFICES ASSUME NEW i \in DOMAIN mailbox'[a], mailbox'[a][i].sync
                     PROVE  /\ ReplyChannel(mailbox'[a][i]) # taken
                            /\ \A j \in DOMAIN mailbox'[a] \ {i} :
                                 ReplyChannel(mailbox'[a][j]) # ReplyChannel(mailbox'[a][i])
          BY <1>2 DEF HeldOnce
        <5>1. i + 1 \in DOMAIN mailbox[a] \ {1} /\ mailbox'[a][i] = mailbox[a][i + 1]
          BY <1>3
        <5>2. \A j \in DOMAIN mailbox[a] \ {i + 1} :
                 ReplyChannel(mailbox[a][j]) # ReplyChannel(mailbox[a][i + 1])
          BY <1>7, <5>1 DEF HeldOnce
        <5>3. \A j \in DOMAIN mailbox'[a] \ {i} :
                 j + 1 \in DOMAIN mailbox[a] \ {i + 1} /\ mailbox'[a][j] = mailbox[a][j + 1]
          BY <1>1, <1>2, <1>3
        <5>4. QED
          BY <1>1, <5>1, <5>2, <5>3
      <4>2. HeldBy(a)' \subseteq HeldBy(a)
        BY <1>2, <1>3, <1>7 DEF HeldBy
      <4>3. QED
        BY <3>2, <4>1, <4>2
    <3>3. QED
      BY <3>1, <3>2
  <2>2. ASSUME NEW d \in HeldBy(c)' \ {NoChannel}
        PROVE  call'[d.to].st = "open" /\ call'[d.to].callee = c /\ d.n = sent'[d.to]
    <3>1. d \in HeldBy(c)
      BY <2>1
    <3>2. d \in Channel
      BY <3>1, ReplyChannelOfEnvelope DEF HeldBy, TypeOK, Context
    <3>3. /\ d.to \in Procs /\ d = Awaited(d.to)
          /\ call[d.to].st = "open" /\ call[d.to].callee = c /\ d.n = sent[d.to]
      BY <3>1, <3>2 DEF HeldChannelsAreAwaited, Channel, Awaited
    <3>4. d \notin {old} \ {taken}
      <4> SUFFICES ASSUME d = old, d # taken PROVE FALSE
        OBVIOUS
      <4>1. c = a
        BY <1>8, <3>3
      <4>2. \E i \in DOMAIN mailbox'[a] : ReplyChannel(mailbox'[a][i]) = d
        <5>1. d = context'[c].reply \/ \E i \in DOMAIN mailbox'[c] : ReplyChannel(mailbox'[c][i]) = d
          BY DEF HeldBy, ReplyChannel
        <5>2. context'[a].reply = taken
          BY <1>2
        <5>3. QED
          BY <4>1, <5>1, <5>2
      <4>3. \E i \in DOMAIN mailbox[a] : ReplyChannel(mailbox[a][i]) = d
        BY <1>3, <4>2
      <4>4. QED
        BY <1>7, <4>3 DEF HeldOnce
    <3>5. call'[d.to] = call[d.to]
      BY <1>4, <3>3, <3>4
    <3>6. QED
      BY <1>2, <3>3, <3>5
  <2>3. QED
    BY <2>1, <2>2
<1>11. AnswerMatchesRequest'
  BY <1>4, <1>5, <1>6 DEF AnswerMatchesRequest
<1>12. HandlerContextOK'
  BY <1>2 DEF HandlerContextOK
<1>13. QED
  BY <1>9, <1>10, <1>11, <1>12

\* The first state satisfies the invariant: there is no call and no envelope.
LEMMA InitIInv == Init => IInv
<1> SUFFICES ASSUME Init PROVE IInv
  OBVIOUS
<1>1. TypeOK
  BY InitTypeOK
<1>2. CallInv
  BY DEF Init, CallInv, BlockedCallerIsHeld, HeldChannelsAreAwaited, HeldOnce, HeldBy,
         AnswerMatchesRequest, HandlerContextOK, NoCall, NewContext
<1>3. QED
  BY <1>1, <1>2 DEF IInv

\* Every step preserves the invariant.
LEMMA NextIInv == IInv /\ [Next]_runtimeVars => IInv'
<1> SUFFICES ASSUME IInv, [Next]_runtimeVars PROVE IInv'
  OBVIOUS
<1>1. TypeOK'
  BY NextTypeOK DEF IInv
<1>2. ASSUME NEW p \in Procs, NEW b \in Actors, NEW s \in Actors \cup {None},
             NEW m \in Kinds \ {"Reply"}, Send(p, b, m, s)
      PROVE  CallInv'
  <2> DEFINE e == NewEnvelope(m, p, sent[p] + 1, s)
  <2>1. e \in Envelope /\ ~e.sync
    BY DEF IInv, TypeOK, NewEnvelope, Envelope, Kinds
  <2>2. QED
    BY <1>2, <2>1, AsyncSendCallInv DEF Send, Runs
<1>3. ASSUME NEW a \in Actors, ReplyToSender(a)
      PROVE  CallInv'
  <2> DEFINE e == NewEnvelope("Reply", a, sent[a] + 1, a)
  <2>1. e \in Envelope /\ ~e.sync /\ context[a].sender \in Actors
    BY <1>3 DEF IInv, TypeOK, NewEnvelope, Envelope, Kinds, ReplyToSender, Context
  <2>2. QED
    BY <1>3, <2>1, AsyncSendCallInv DEF ReplyToSender, Runs
<1>4. ASSUME NEW a \in Actors, Panic(a) \/ EndReturns(a)
      PROVE  CallInv'
  <2>1. /\ DropRuntime(a) /\ UNCHANGED sent /\ pc'[a] \in Dead
        /\ \A b \in Actors \ {a} : pc'[b] = pc[b]
    BY <1>4 DEF Panic, EndReturns, IInv, TypeOK, Dead
  <2>2. QED
    BY <2>1, DropRuntimeCallInv
<1>5. ASSUME NEW a \in Actors,
             \/ New(a) \/ Spawn(a) \/ InitReturns(a) \/ CheckRunning(a)
             \/ HandlerReturns(a) \/ Stop(a)
      PROVE  CallInv'
  <2>1. /\ UNCHANGED <<mailbox, context, call, sent>>
        /\ \A b \in Actors : Open(b) => Open(b)'
        /\ \A b \in Actors : pc'[b] = "handle" => pc[b] = "handle" /\ current'[b] = current[b]
    BY <1>5 DEF New, Spawn, InitReturns, CheckRunning, AfterCheck, HandlerReturns, Stop,
                runtimeVars, IInv, TypeOK, Open, Dead
  <2>2. BlockedCallerIsHeld'
    <3>1. \A p \in Procs : call[p].st = "open" => call[p].callee \in Actors
      BY OpenCall DEF IInv, TypeOK
    <3>2. QED
      BY <2>1, <3>1 DEF IInv, CallInv, BlockedCallerIsHeld, Keeps, Queues, Awaited
  <2>3. HeldChannelsAreAwaited' /\ AnswerMatchesRequest'
    BY <2>1 DEF IInv, CallInv, HeldChannelsAreAwaited, AnswerMatchesRequest, HeldOnce, HeldBy, Awaited
  <2>4. HandlerContextOK'
    BY <2>1 DEF IInv, CallInv, HandlerContextOK
  <2>5. QED
    BY <2>2, <2>3, <2>4 DEF CallInv
<1>6. CASE UNCHANGED runtimeVars
  <2>1. CallInv'
    BY <1>6 DEF runtimeVars, IInv, CallInv, BlockedCallerIsHeld, HeldChannelsAreAwaited,
                HeldOnce, HeldBy, AnswerMatchesRequest, HandlerContextOK, Open, Keeps,
                Queues, Awaited
  <2>2. QED
    BY <1>1, <2>1 DEF IInv
<1>7. QED
  BY <1>1, <1>2, <1>3, <1>4, <1>5, <1>6, FastSendCallInv, FastSendReturnsCallInv,
     ReplyOnChannelCallInv, DispatchCallInv, NobodySendsReplies,
     SendersAreReferences
     DEF Next, ActorThread, ClientThread, Sends, IInv

\* The call invariant holds in every reachable state, for any number of
\* actors and clients and any bound on what they send.
THEOREM CallsAreNeverForgotten == Spec => [](BlockedCallerIsHeld /\ HeldChannelsAreAwaited)
<1>1. IInv => BlockedCallerIsHeld /\ HeldChannelsAreAwaited
  BY DEF IInv, CallInv
<1>2. QED
  BY <1>1, InitIInv, NextIInv, PTL DEF Spec

\* A caller never receives the answer to another request.
THEOREM AnswersAreRight == Spec => []AnswerMatchesRequest
<1>1. IInv => AnswerMatchesRequest
  BY DEF IInv, CallInv
<1>2. QED
  BY <1>1, InitIInv, NextIInv, PTL DEF Spec

\* Replies to a regular send go to the sender of the message being handled:
\* the context and the message agree whenever a handler runs.
THEOREM RepliesAreRouted == Spec => RepliesGoToSender
<1> DEFINE Routed ==
      \A b \in Actors :
        LET box == mailbox'[b]
        IN /\ Len(box) = Len(mailbox[b]) + 1
           /\ box[Len(box)].msg = "Reply"
           => current[box[Len(box)].from].sender = b
<1>1. IInv /\ [Next]_runtimeVars => [Routed]_runtimeVars
  <2> SUFFICES ASSUME IInv, [Next]_runtimeVars, NEW b \in Actors,
                      Len(mailbox'[b]) = Len(mailbox[b]) + 1,
                      mailbox'[b][Len(mailbox'[b])].msg = "Reply"
               PROVE  current[mailbox'[b][Len(mailbox'[b])].from].sender = b
    OBVIOUS
  <2> USE DEF IInv
  <2>1. ASSUME NEW p \in Procs, NEW c \in Actors, NEW e \in Envelope, Deliver(c, e)
        PROVE  mailbox'[b][Len(mailbox'[b])] = e /\ c = b
    <3>1. mailbox'[b] = Append(mailbox[b], e) /\ c = b
      BY <2>1 DEF Deliver, TypeOK
    <3>2. QED
      BY <3>1 DEF TypeOK
  <2>2. ASSUME NEW p \in Procs, NEW c \in Actors, NEW s \in Actors \cup {None},
               NEW m \in Kinds \ {"Reply"},
               Send(p, c, m, s) \/ FastSend(p, c, s)
        PROVE  FALSE
    <3> DEFINE e == NewEnvelope(m, p, sent[p] + 1, s)
               f == NewSyncEnvelope("User", p, sent[p] + 1, s)
    <3>1. e \in Envelope /\ e.msg # "Reply" /\ f \in Envelope /\ f.msg # "Reply"
      BY DEF TypeOK, NewEnvelope, NewSyncEnvelope, Envelope, Kinds
    <3>2. Deliver(c, e) \/ Deliver(c, f)
      BY <2>2 DEF Send, FastSend
    <3>3. QED
      BY <2>1, <3>1, <3>2
  <2>3. ASSUME NEW a \in Actors, ReplyToSender(a)
        PROVE  current[mailbox'[b][Len(mailbox'[b])].from].sender = b
    <3> DEFINE e == NewEnvelope("Reply", a, sent[a] + 1, a)
    <3>1. /\ e \in Envelope /\ e.from = a /\ Deliver(context[a].sender, e)
          /\ context[a].sender \in Actors
      BY <2>3 DEF ReplyToSender, TypeOK, NewEnvelope, Envelope, Kinds, Context
    <3>2. context[a].sender = current[a].sender
      BY <2>3 DEF CallInv, HandlerContextOK, ReplyToSender
    <3>3. QED
      BY <2>1, <3>1, <3>2
  <2>4. ASSUME NEW a \in Actors, Dispatch(a) \/ DropRuntime(a)
        PROVE  FALSE
    <3>1. CASE b # a
      BY <2>4, <3>1 DEF Dispatch, DropRuntime, TypeOK
    <3>2. CASE b = a /\ Dispatch(a)
      <4>1. mailbox[a] \in Seq(Envelope) /\ mailbox[a] # <<>> /\ mailbox'[a] = Tail(mailbox[a])
        BY <3>2 DEF Dispatch, TypeOK
      <4>2. QED
        BY <3>2, <4>1
    <3>3. CASE b = a /\ DropRuntime(a)
      BY <3>3 DEF DropRuntime, TypeOK
    <3>4. QED
      BY <2>4, <3>1, <3>2, <3>3
  <2>5. ASSUME UNCHANGED mailbox PROVE FALSE
    BY <2>5 DEF TypeOK
  <2>6. QED
    BY <2>2, <2>3, <2>4, <2>5, NobodySendsReplies, SendersAreReferences
       DEF Next, ActorThread, ClientThread, Sends, FastSendReturns, ReplyOnChannel,
           HandlerReturns, Panic, New, Spawn, InitReturns, CheckRunning, EndReturns, Stop,
           runtimeVars
<1>2. QED
  BY <1>1, InitIInv, NextIInv, PTL DEF Spec, RepliesGoToSender
-----------------------------------------------------------------------------
\* What makes the bound on stop() inductive: an actor that dispatched after
\* stop() has left recv() for good, because the flag is never set again.
StopInv ==
  \A a \in Actors :
    /\ overrun[a] <= 1
    /\ overrun[a] = 1 => ~running[a] /\ pc[a] \in {"handle", "check", "end"} \cup Dead

\* At most one envelope is dispatched after stop().
THEOREM StopIsHonoured == Spec => []AtMostOneDispatchAfterStop
<1>1. Init => StopInv
  <2> SUFFICES ASSUME Init, NEW a \in Actors
               PROVE  overrun[a] <= 1 /\ overrun[a] # 1
    BY DEF StopInv
  <2>1. overrun[a] = 0
    BY DEF Init
  <2>2. QED
    BY <2>1
<1>2. TypeOK /\ StopInv /\ [Next]_runtimeVars => StopInv'
  <2> SUFFICES ASSUME TypeOK, StopInv, [Next]_runtimeVars PROVE StopInv'
    OBVIOUS
  <2> USE DEF TypeOK, StopInv, Dead
  <2>1. ASSUME NEW a \in Actors, Dispatch(a) PROVE StopInv'
    BY <2>1 DEF Dispatch
  <2>2. ASSUME NEW a \in Actors,
               \/ New(a) \/ Spawn(a) \/ InitReturns(a) \/ CheckRunning(a)
               \/ HandlerReturns(a) \/ Panic(a) \/ EndReturns(a) \/ Stop(a)
        PROVE  StopInv'
    BY <2>2 DEF New, Spawn, InitReturns, CheckRunning, AfterCheck, HandlerReturns, Panic,
                EndReturns, Stop, UserCode
  <2>3. ASSUME UNCHANGED <<pc, running, overrun>> PROVE StopInv'
    BY <2>3
  <2>4. QED
    BY <2>1, <2>2, <2>3
       DEF Next, ActorThread, ClientThread, Sends, Send, FastSend, FastSendReturns,
           ReplyOnChannel, ReplyToSender, runtimeVars
<1>3. TypeOK /\ StopInv => AtMostOneDispatchAfterStop
  BY DEF StopInv, AtMostOneDispatchAfterStop
<1>4. QED
  BY <1>1, <1>2, <1>3, TypeCorrect, PTL DEF Spec
-----------------------------------------------------------------------------
(***************************************************************************)
(* ActorRuntime implements FastSend: each step of a thread is a step of    *)
(* the abstract specification, or leaves its variables unchanged.          *)
(***************************************************************************)
\* The abstract state of one call, from the concrete one.
LEMMA RpcOfCall ==
  ASSUME TypeOK, NEW p \in Procs
  PROVE  /\ Rpc(p) = "idle"     <=> call[p].st = "idle"
         /\ Rpc(p) = "answered" <=> call[p].st = "value"
         /\ Rpc(p) = "refused"  <=> call[p].st = "closed"
         /\ Rpc(p) = "served"   <=> call[p].st = "open" /\ Keeps(call[p].callee, p)
         /\ Rpc(p) = "queued"   <=> call[p].st = "open" /\ ~Keeps(call[p].callee, p)
         /\ Rpc(p) \in {"idle", "answered", "refused", "served", "queued"}
<1>1. call[p].st \in {"idle", "open", "value", "closed"}
  BY DEF TypeOK, Call, NoCall
<1>2. QED
  BY <1>1 DEF Rpc

\* A step that touches neither the calls nor what decides who is served.
LEMMA SameCalls ==
  ASSUME UNCHANGED <<call, context>>,
         \A q \in Procs : call[q].st = "open" => sent'[q] = sent[q]
  PROVE  /\ [q \in Procs |-> Rpc(q)]' = [q \in Procs |-> Rpc(q)]
         /\ [q \in Procs |-> call[q].callee]' = [q \in Procs |-> call[q].callee]
<1>1. \A q \in Procs : Rpc(q)' = Rpc(q)
  BY DEF Rpc, Keeps, Awaited
<1>2. QED
  BY <1>1

\* Initially there are no actors and no calls.
LEMMA InitRefines == Init => Calls!Init
BY DEF Init, Calls!Init, Life, Rpc, NoCall

\* Making a call is a Request.
LEMMA FastSendRefines ==
  ASSUME IInv, TypeOK', NEW p \in Procs, NEW b \in Actors, NEW s \in Actors \cup {None},
         FastSend(p, b, s)
  PROVE  Calls!Request(p, b)
<1>1. /\ call[p].st = "idle" /\ pc[b] # "absent" /\ UNCHANGED <<pc, context>>
      /\ call'[p].st = IF Open(b) THEN "open" ELSE "closed"
      /\ call'[p].callee = b
      /\ \A q \in Procs \ {p} : call'[q] = call[q] /\ Awaited(q)' = Awaited(q)
  BY DEF FastSend, Runs, IInv, TypeOK, Awaited
<1>2. Rpc(p) = "idle" /\ Life(b) # "absent" /\ (Life(b) = "alive" <=> Open(b))
  BY <1>1 DEF Rpc, Life
<1>3. Rpc(p)' = IF Open(b) THEN "queued" ELSE "refused"
  <2>1. ~Keeps(b, p)'
    <3>1. context[b].reply = NoChannel \/ context[b].reply.to # p
      BY <1>1, IdleIsNotHeld
    <3>2. Awaited(p)'.to = p /\ NoChannel.to # p
      BY NamesAssumption DEF Awaited, NoChannel
    <3>3. QED
      BY <1>1, <3>1, <3>2 DEF Keeps
  <2>2. QED
    BY <1>1, <2>1 DEF Rpc
<1>4. \A q \in Procs \ {p} : Rpc(q)' = Rpc(q)
  BY <1>1 DEF Rpc, Keeps
<1>5. \A a \in Actors : Life(a)' = Life(a)
  BY <1>1 DEF Life, Open
<1>6. QED
  BY <1>1, <1>2, <1>3, <1>4, <1>5 DEF Calls!Request

\* Coming back from a call is a Return.
LEMMA FastSendReturnsRefines ==
  ASSUME TypeOK, NEW p \in Procs, FastSendReturns(p)
  PROVE  Calls!Return(p)
<1>1. /\ call[p].st \in {"value", "closed"} /\ UNCHANGED <<pc, context, sent>>
      /\ call'[p] = NoCall
      /\ \A q \in Procs \ {p} : call'[q] = call[q]
  BY DEF FastSendReturns, TypeOK
<1>2. Rpc(p) \in {"answered", "refused"} /\ Rpc(p)' = "idle"
  BY <1>1 DEF Rpc, NoCall
<1>3. \A q \in Procs \ {p} : Rpc(q)' = Rpc(q)
  BY <1>1 DEF Rpc, Keeps, Awaited
<1>4. \A a \in Actors : Life(a)' = Life(a)
  BY <1>1 DEF Life, Open
<1>5. call'[p].callee = None
  BY <1>1 DEF NoCall
<1>6. QED
  BY <1>1, <1>2, <1>3, <1>4, <1>5 DEF Calls!Return

\* A reply on the channel is an Answer to the caller that waits for it.
LEMMA ReplyRefines ==
  ASSUME IInv, TypeOK', NEW a \in Actors, ReplyOnChannel(a)
  PROVE  \E p \in Procs : Calls!Answer(p)
<1>1. context[a].reply \in Channel /\ context[a].reply \in HeldBy(a) \ {NoChannel}
  BY DEF IInv, ReplyOnChannel, TypeOK, Context, HeldBy
<1>2. PICK to \in Procs : /\ context[a].reply = Awaited(to)
                          /\ call[to].st = "open" /\ call[to].callee = a
  <2> DEFINE w == context[a].reply.to
  <2>1. /\ w \in Procs /\ context[a].reply = Awaited(w)
        /\ call[w].st = "open" /\ call[w].callee = a
    BY <1>1 DEF IInv, CallInv, HeldChannelsAreAwaited, Channel, Awaited
  <2>2. QED
    BY <2>1
<1>3. \A q \in Procs : Awaited(q) = context[a].reply => q = to
  BY <1>2 DEF Awaited
<1>4. /\ UNCHANGED <<pc, sent>>
      /\ call' = [call EXCEPT ![to] = [@ EXCEPT !.st = "value",
                    !.answer = [to |-> current[a].from, n |-> current[a].n]]]
      /\ context'[a].reply = NoChannel
      /\ \A c \in Actors \ {a} : context'[c] = context[c]
  BY <1>2 DEF ReplyOnChannel, Awaited, Taken, IInv, TypeOK, Context
<1>5. /\ call'[to].st = "value" /\ call'[to].callee = call[to].callee
      /\ \A q \in Procs \ {to} : call'[q] = call[q]
  <2>1. call[to] \in [st : {"open", "value", "closed"}, callee : Actors,
                      answer : Channel \cup {NoChannel}]
    BY <1>2 DEF IInv, TypeOK, Call, NoCall
  <2>2. /\ call'[to] = [call[to] EXCEPT !.st = "value",
                    !.answer = [to |-> current[a].from, n |-> current[a].n]]
        /\ \A q \in Procs \ {to} : call'[q] = call[q]
    BY <1>2, <1>4 DEF IInv, TypeOK
  <2>3. QED
    BY <2>1, <2>2
<1>6. Rpc(to) = "served" /\ Rpc(to)' = "answered"
  <2>1. Keeps(call[to].callee, to)
    BY <1>2 DEF Keeps
  <2>2. QED
    BY <1>2, <1>5, <2>1 DEF Rpc
<1>7. ASSUME NEW q \in Procs \ {to} PROVE Rpc(q)' = Rpc(q)
  <2>1. call'[q] = call[q] /\ (call[q].st = "open" => call[q].callee \in Actors)
    BY <1>5, OpenCall DEF IInv, TypeOK
  <2>2. Awaited(q)' = Awaited(q) /\ Awaited(q) # context[a].reply /\ Awaited(q) # NoChannel
    BY <1>3, <1>4, NamesAssumption DEF Awaited, NoChannel
  <2>3. call[q].st = "open" => (Keeps(call[q].callee, q)' <=> Keeps(call[q].callee, q))
    BY <1>4, <2>1, <2>2 DEF Keeps
  <2>4. QED
    BY <2>1, <2>3 DEF Rpc
<1>8. \A b \in Actors : Life(b)' = Life(b)
  BY <1>4 DEF Life, Open
<1>9. \A q \in Procs : call'[q].callee = call[q].callee
  BY <1>5
<1>10. Calls!Answer(to)
  BY <1>2, <1>6, <1>7, <1>8, <1>9 DEF Calls!Answer
<1>11. QED
  BY <1>2, <1>10

\* The end of a thread is a Die: the calls it drops are the pending ones.
LEMMA DropRuntimeRefines ==
  ASSUME IInv, TypeOK', NEW a \in Actors, DropRuntime(a), UNCHANGED sent,
         Open(a), pc'[a] \in Dead, \A b \in Actors \ {a} : pc'[b] = pc[b]
  PROVE  Calls!Die(a)
<1>1. /\ \A b \in Actors \ {a} : context'[b] = context[b]
      /\ \A q \in Procs : Awaited(q)' = Awaited(q)
  BY DropRuntimeType DEF IInv, Awaited
<1>2. \A q \in Procs : call[q].st = "open" =>
        (Awaited(q) \in HeldBy(a) <=> call[q].callee = a)
  <2>1. \A q \in Procs : Awaited(q) # NoChannel
    BY NamesAssumption DEF Awaited, NoChannel
  <2>2. \A q \in Procs : Awaited(q) \in HeldBy(a) => call[q].callee = a
    BY <2>1 DEF IInv, CallInv, HeldChannelsAreAwaited, Awaited
  <2>3. QED
    BY <2>2, HeldByKeepsQueues DEF IInv, CallInv, BlockedCallerIsHeld
<1>3. \A q \in Procs :
         call'[q] = IF call[q].st = "open" /\ call[q].callee = a
                    THEN [call[q] EXCEPT !.st = "closed"] ELSE call[q]
  BY <1>2 DEF DropRuntime, Close, Awaited
<1>4. \A q \in Procs : call[q].st = "open" =>
        /\ [call[q] EXCEPT !.st = "closed"].st = "closed"
        /\ [call[q] EXCEPT !.st = "closed"].callee = call[q].callee
  BY DEF IInv, TypeOK, Call, NoCall
<1>5. \A q \in Procs : call'[q].callee = call[q].callee
  BY <1>3, <1>4
<1>6. \A q \in Procs :
         /\ Rpc(q) \in {"queued", "served"} <=> call[q].st = "open"
         /\ call[q].st = "open" /\ call[q].callee = a => Rpc(q)' = "refused"
  BY <1>3, <1>4, RpcOfCall DEF IInv, Rpc
<1>7. ASSUME NEW q \in Procs, ~(call[q].st = "open" /\ call[q].callee = a)
      PROVE  Rpc(q)' = Rpc(q)
  <2>1. call'[q] = call[q]
    BY <1>3, <1>7
  <2>2. call[q].st = "open" => call[q].callee \in Actors \ {a}
    BY <1>7, OpenCall DEF IInv, TypeOK
  <2>3. QED
    BY <1>1, <2>1, <2>2 DEF Rpc, Keeps
<1>8. /\ Life(a) = "alive" /\ Life(a)' = "dead"
      /\ \A b \in Actors \ {a} : Life(b)' = Life(b)
  BY DEF Life, Open, Dead
<1>9. QED
  BY <1>5, <1>6, <1>7, <1>8 DEF Calls!Die, Calls!Refuse, Calls!Pending

\* Taking an envelope is a Serve or, if it was not a call, a GiveUp.
LEMMA DispatchRefines ==
  ASSUME IInv, TypeOK', NEW a \in Actors, Dispatch(a)
  PROVE  Calls!GiveUp(a) \/ \E p \in Procs : Calls!Serve(a, p)
<1> DEFINE e == Head(mailbox[a])
           old == context[a].reply
           taken == ReplyChannel(e)
<1>1. /\ mailbox[a] # <<>> /\ 1 \in DOMAIN mailbox[a] /\ e = mailbox[a][1] /\ e \in Envelope
      /\ context'[a].reply = taken
      /\ \A b \in Actors \ {a} : context'[b] = context[b] /\ pc'[b] = pc[b]
      /\ pc[a] = "recv" /\ pc'[a] = "handle"
      /\ UNCHANGED sent
      /\ call' = Close({old} \ {taken})
  BY DEF Dispatch, IInv, TypeOK, PrepareForEnvelope
<1>2. taken \in HeldBy(a) /\ (e.sync => taken # old) /\ (e.sync <=> taken # NoChannel)
  BY <1>1, ReplyChannelOfEnvelope DEF HeldBy, IInv, CallInv, HeldChannelsAreAwaited, HeldOnce
<1>3. \A q \in Procs : Awaited(q)' = Awaited(q) /\ Awaited(q) # NoChannel
  BY <1>1, NamesAssumption DEF Awaited, NoChannel
<1>4. \A q \in Procs : Awaited(q) \in {old, taken} => call[q].st = "open" /\ call[q].callee = a
  <2>1. old \in HeldBy(a)
    BY DEF HeldBy
  <2>2. \A ch \in HeldBy(a) \ {NoChannel} : call[ch.to].st = "open" /\ call[ch.to].callee = a
    BY DEF IInv, CallInv, HeldChannelsAreAwaited
  <2>3. \A q \in Procs : Awaited(q).to = q
    BY DEF Awaited
  <2>4. QED
    BY <1>2, <1>3, <2>1, <2>2, <2>3
<1>5. \A q \in Procs :
         call'[q] = IF Awaited(q) = old THEN [call[q] EXCEPT !.st = "closed"] ELSE call[q]
  <2>1. \A q \in Procs : Awaited(q) = old => Awaited(q) # taken
    BY <1>2, <1>3
  <2>2. QED
    BY <1>1, <1>4, <2>1 DEF Close, Awaited
<1>6. \A q \in Procs : call[q].st = "open" =>
        /\ [call[q] EXCEPT !.st = "closed"].st = "closed"
        /\ [call[q] EXCEPT !.st = "closed"].callee = call[q].callee
  BY DEF IInv, TypeOK, Call, NoCall
<1>7. \A q \in Procs : call'[q].callee = call[q].callee
  BY <1>4, <1>5, <1>6
<1>8. \A q \in Procs :
         Rpc(q) = "served" /\ call[q].callee = a <=> Awaited(q) = old
  BY <1>4, RpcOfCall DEF IInv, Keeps
<1>9. \A q \in Procs :
         /\ Awaited(q) = old => Rpc(q)' = "refused"
         /\ Awaited(q) = taken => Rpc(q) = "queued" /\ Rpc(q)' = "served"
  <2>1. ASSUME NEW q \in Procs, Awaited(q) = old PROVE Rpc(q)' = "refused"
    BY <1>4, <1>5, <1>6, <2>1 DEF Rpc
  <2>2. ASSUME NEW q \in Procs, Awaited(q) = taken
        PROVE  Rpc(q) = "queued" /\ Rpc(q)' = "served"
    <3>1. Awaited(q) # old /\ call[q].st = "open" /\ call[q].callee = a
      BY <1>2, <1>3, <1>4, <2>2
    <3>2. ~Keeps(a, q) /\ Keeps(a, q)'
      BY <1>1, <1>3, <2>2, <3>1 DEF Keeps
    <3>3. QED
      BY <1>5, <3>1, <3>2 DEF Rpc
  <2>3. QED
    BY <2>1, <2>2
<1>10. ASSUME NEW q \in Procs, Awaited(q) \notin {old, taken} PROVE Rpc(q)' = Rpc(q)
  <2>1. call'[q] = call[q]
    BY <1>5, <1>10
  <2>2. call[q].st = "open" => call[q].callee \in Actors
    BY OpenCall DEF IInv, TypeOK
  <2>3. call[q].st = "open" => (Keeps(call[q].callee, q)' <=> Keeps(call[q].callee, q))
    BY <1>1, <1>3, <1>10, <2>1, <2>2 DEF Keeps
  <2>4. QED
    BY <2>1, <2>3 DEF Rpc
<1>11. \A b \in Actors : Life(b)' = Life(b)
  BY <1>1 DEF Life, Open, Dead
<1>12. CASE e.sync
  <2>1. e.from \in Procs /\ taken = Awaited(e.from)
    <3>1. taken \in Channel /\ taken # NoChannel /\ taken = [to |-> e.from, n |-> e.n]
      BY <1>1, <1>2, <1>12, ReplyChannelOfEnvelope
    <3>2. QED
      BY <1>2, <3>1 DEF IInv, CallInv, HeldChannelsAreAwaited, Channel, Awaited
  <2>2. \A q \in Procs : Awaited(q) = taken <=> q = e.from
    BY <2>1 DEF Awaited
  <2>3. Rpc(e.from) = "queued" /\ call[e.from].callee = a
    BY <1>4, <1>9, <2>1
  <2>4. Calls!Serve(a, e.from)
    BY <1>7, <1>8, <1>9, <1>10, <1>11, <2>1, <2>2, <2>3
       DEF Calls!Serve, Calls!Refuse, Calls!Served
  <2>5. QED
    BY <2>1, <2>4
<1>13. CASE ~e.sync
  <2>1. \A q \in Procs : Awaited(q) # taken
    BY <1>2, <1>3, <1>13
  <2>2. Calls!GiveUp(a)
    BY <1>7, <1>8, <1>9, <1>10, <1>11, <2>1 DEF Calls!GiveUp, Calls!Refuse, Calls!Served
  <2>3. QED
    BY <2>2
<1>14. QED
  BY <1>12, <1>13

\* Every step of the runtime is a step of FastSend or changes nothing of it.
LEMMA NextRefines ==
  ASSUME IInv, TypeOK', [Next]_runtimeVars
  PROVE  [Calls!Next]_(Calls!vars)
<1> USE DEF IInv
<1>1. ASSUME UNCHANGED <<call, context>>,
             \A q \in Procs : call[q].st = "open" => sent'[q] = sent[q],
             \A a \in Actors : Life(a)' = Life(a)
      PROVE  UNCHANGED Calls!vars
  BY <1>1, SameCalls DEF Calls!vars
<1>2. ASSUME NEW p \in Procs, NEW b \in Actors, NEW s \in Actors \cup {None},
             NEW m \in Kinds \ {"Reply"}, Send(p, b, m, s)
      PROVE  UNCHANGED Calls!vars
  <2>1. /\ UNCHANGED <<call, context, pc>> /\ call[p].st # "open"
        /\ \A q \in Procs \ {p} : sent'[q] = sent[q]
    BY <1>2 DEF Send, Runs, TypeOK
  <2>2. QED
    BY <1>1, <2>1 DEF Life, Open
<1>3. ASSUME NEW a \in Actors, ReplyToSender(a)
      PROVE  UNCHANGED Calls!vars
  <2>1. /\ UNCHANGED <<call, context, pc>> /\ call[a].st # "open"
        /\ \A q \in Procs \ {a} : sent'[q] = sent[q]
    BY <1>3 DEF ReplyToSender, Runs, TypeOK
  <2>2. QED
    BY <1>1, <2>1 DEF Life, Open
<1>4. ASSUME NEW a \in Actors,
             \/ Spawn(a) \/ InitReturns(a) \/ CheckRunning(a)
             \/ HandlerReturns(a) \/ Stop(a)
      PROVE  UNCHANGED Calls!vars
  <2>1. UNCHANGED <<call, context, sent>>
    BY <1>4 DEF Spawn, InitReturns, CheckRunning, HandlerReturns, Stop
  <2>2. \A b \in Actors : Life(b)' = Life(b)
    BY <1>4 DEF Spawn, InitReturns, CheckRunning, AfterCheck, HandlerReturns, Stop,
                TypeOK, Life, Open, Dead
  <2>3. QED
    BY <1>1, <2>1, <2>2
<1>5. ASSUME NEW a \in Actors, New(a) PROVE Calls!Create(a)
  <2>1. UNCHANGED <<call, context, sent>>
    BY <1>5 DEF New
  <2>2. /\ Life(a) = "absent" /\ Life(a)' = "alive"
        /\ \A b \in Actors \ {a} : Life(b)' = Life(b)
    BY <1>5 DEF New, TypeOK, Life, Open, Dead
  <2>3. QED
    BY <2>1, <2>2, SameCalls DEF Calls!Create
<1>6. ASSUME NEW a \in Actors, Panic(a) \/ EndReturns(a) PROVE Calls!Die(a)
  <2>1. /\ DropRuntime(a) /\ UNCHANGED sent /\ Open(a) /\ pc'[a] \in Dead
        /\ \A b \in Actors \ {a} : pc'[b] = pc[b]
    BY <1>6 DEF Panic, EndReturns, TypeOK, Dead, Open, UserCode
  <2>2. QED
    BY <2>1, DropRuntimeRefines
<1>7. CASE UNCHANGED runtimeVars
  BY <1>1, <1>7 DEF runtimeVars, Life, Open
<1>8. QED
  BY <1>2, <1>3, <1>4, <1>5, <1>6, <1>7, FastSendRefines, FastSendReturnsRefines,
     ReplyRefines, DispatchRefines, NobodySendsReplies, SendersAreReferences
     DEF Next, ActorThread, ClientThread, Sends, Calls!Next

\* The runtime implements the abstract specification of fast_send, for any
\* number of actors, clients and messages.
THEOREM RuntimeImplementsFastSend == Spec => ImplementsFastSend
<1>1. IInv /\ IInv' /\ [Next]_runtimeVars => [Calls!Next]_(Calls!vars)
  BY NextRefines DEF IInv
<1>2. QED
  BY <1>1, InitRefines, InitIInv, NextIInv, PTL DEF Spec, Calls!Spec, ImplementsFastSend
=============================================================================
