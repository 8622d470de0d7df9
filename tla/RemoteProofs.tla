---------------------------- MODULE RemoteProofs ----------------------------
(***************************************************************************)
(* Proofs about Remote, for any processes, actors, message types and       *)
(* bounds.                                                                 *)
(*                                                                         *)
(* RemoteInv is inductive.  Besides the types it says that every number in *)
(* a queue, on a wire, in a thread or in a mailbox is that of a frame, that *)
(* one receiver thread of a process at most has the socket, that it holds  *)
(* a frame in the middle of handle_remote_message_async and only there,    *)
(* and that after the flag was cleared it delivers what it had begun.      *)
(***************************************************************************)
EXTENDS Remote, TLAPS

\* Where a receiver thread is between taking a frame and being done with it.
Holding == {"lookup", "parse", "deliver", "reject", "queueing"}

\* Where it has a Reject to send.
Refusing == {"reject", "queueing"}

Places == Open \cup Finished \cup {"none", "bind"}

FramesOK == frames \in Seq(Frame)

MailOK ==
  /\ alive   \in [Procs -> SUBSET Actors]
  /\ mailbox \in [Procs -> [Actors -> Seq(DOMAIN frames)]]
  /\ letter  \in [Procs -> [Actors -> Frame \cup {None}]]
  /\ arrived \in [Procs -> Seq(DOMAIN frames)]

SenderOK ==
  /\ queue   \in [Procs -> Seq(DOMAIN frames)]
  /\ current \in [Procs -> DOMAIN frames \cup {None}]
  /\ sockets \in [Procs -> SUBSET Procs]
  /\ stale   \in [Procs -> SUBSET Procs]

WireOK == wire \in [Procs -> [Lives -> Seq(DOMAIN frames)]]

ThreadsOK ==
  /\ thread \in [Procs -> [Starts -> Places]]
  /\ work   \in [Procs -> [Starts -> DOMAIN frames \cup {None}]]
  /\ \A p \in Procs, s \in Starts : work[p][s] # None <=> thread[p][s] \in Holding
  /\ \A p \in Procs, s \in Starts :
       thread[p][s] \in Refusing => frames[work[p][s]].sender # None
  /\ \A p \in Procs, r, s \in Starts :
       thread[p][r] \in Open /\ thread[p][s] \in Open => r = s

FlagsOK ==
  /\ running \in [Procs -> BOOLEAN]
  /\ handle  \in [Procs -> [Starts -> {"none", "held", "joining", "stopped"}]]

\* What a thread may still deliver once the flag is down.
TailOK ==
  /\ tail \in [Procs -> {0, 1}]
  /\ \A p \in Procs : running[p] => tail[p] = 0
  /\ \A p \in Procs, s \in Starts :
       tail[p] = 1 => thread[p][s] \notin {"recv", "lookup", "parse", "deliver"}

ProcessOK ==
  /\ registry \in [Procs -> SUBSET Actors]
  /\ upsets \in 0 .. MaxUpsets
  /\ life \in [Procs -> 0 .. upsets]

RemoteInv ==
  /\ SerializationTypeOK /\ FramesOK /\ MailOK /\ SenderOK /\ WireOK
  /\ ThreadsOK /\ FlagsOK /\ TailOK /\ ProcessOK

\* It contains the type invariant.
LEMMA RemoteInvImpliesType == RemoteInv => RemoteTypeOK
<1> SUFFICES ASSUME RemoteInv PROVE RemoteTypeOK
  OBVIOUS
<1>1. DOMAIN frames \subseteq Nat /\ frames \in Seq(Frame)
  BY DEF RemoteInv, FramesOK
<1>2. \A s \in Seq(DOMAIN frames) : s \in Seq(Nat)
  BY <1>1
<1>3. /\ mailbox \in [Procs -> [Actors -> Seq(Nat)]] /\ arrived \in [Procs -> Seq(Nat)]
      /\ alive \in [Procs -> SUBSET Actors]
      /\ letter \in [Procs -> [Actors -> Frame \cup {None}]]
  BY <1>2 DEF RemoteInv, MailOK
<1>4. /\ queue \in [Procs -> Seq(Nat)] /\ current \in [Procs -> Nat \cup {None}]
      /\ sockets \in [Procs -> SUBSET Procs] /\ stale \in [Procs -> SUBSET Procs]
  BY <1>1, <1>2 DEF RemoteInv, SenderOK
<1>5. wire \in [Procs -> [Lives -> Seq(Nat)]]
  BY <1>2 DEF RemoteInv, WireOK
<1>6. /\ thread \in [Procs -> [Starts -> Places]]
      /\ work \in [Procs -> [Starts -> Nat \cup {None}]]
  BY <1>1 DEF RemoteInv, ThreadsOK
<1>7. tail \in [Procs -> Nat] /\ life \in [Procs -> 0 .. MaxUpsets]
  BY RemoteAssumption DEF RemoteInv, TailOK, ProcessOK
<1>8. QED
  BY <1>1, <1>3, <1>4, <1>5, <1>6, <1>7 DEF RemoteInv, RemoteTypeOK, FlagsOK, ProcessOK, Places

\* It holds when nothing has been started yet.
LEMMA InitRemoteInv == RemoteInit => RemoteInv
<1> SUFFICES ASSUME RemoteInit PROVE RemoteInv
  OBVIOUS
<1> USE RemoteAssumption, SerializationAssumption DEF RemoteInit
<1>1. SerializationTypeOK
  <2>1. \A p \in Procs : Registered(p) \in [Names -> Types \cup {NoType}]
    BY DEF Registered
  <2>2. QED
    BY <2>1 DEF SerializationInit, SerializationTypeOK
<1>2. FramesOK /\ MailOK
  BY DEF FramesOK, MailOK
<1>3. SenderOK /\ WireOK
  BY DEF SenderOK, WireOK, SenderInit
<1>4. ThreadsOK
  BY DEF ThreadsOK, ReceiverInit, Places, Holding, Refusing, Open
<1>5. FlagsOK /\ TailOK /\ ProcessOK
  BY DEF FlagsOK, TailOK, ProcessOK, ReceiverInit
<1>6. QED
  BY <1>1, <1>2, <1>3, <1>4, <1>5 DEF RemoteInv
-----------------------------------------------------------------------------
\* Frames are only ever added.
Grows == \A i \in DOMAIN frames : i \in DOMAIN frames' /\ frames'[i] = frames[i]

LEMMA NoNewFrames == ASSUME UNCHANGED frames PROVE Grows
BY DEF Grows

LEMMA NewFrame ==
  ASSUME FramesOK, NEW f \in Frame, frames' = Append(frames, f)
  PROVE  /\ FramesOK' /\ Grows
         /\ Len(frames') = Len(frames) + 1 /\ frames'[Len(frames) + 1] = f
         /\ DOMAIN frames' = DOMAIN frames \cup {Len(frames) + 1}
BY DEF FramesOK, Grows

\* Numbers of frames remain numbers of frames.
LEMMA GrowingSeqs ==
  ASSUME Grows, NEW s \in Seq(DOMAIN frames) PROVE s \in Seq(DOMAIN frames')
BY DEF Grows

\* What does not move stays in order, also when there are more frames.
LEMMA SerializationStutters ==
  ASSUME SerializationTypeOK, UNCHANGED serializationVars PROVE SerializationTypeOK'
BY DEF SerializationTypeOK, serializationVars

LEMMA FramesStutter == ASSUME FramesOK, UNCHANGED frames PROVE FramesOK'
BY DEF FramesOK

LEMMA MailStutters == ASSUME MailOK, Grows, UNCHANGED actorVars PROVE MailOK'
BY GrowingSeqs DEF MailOK, actorVars

LEMMA SenderStutters == ASSUME SenderOK, Grows, UNCHANGED senderVars PROVE SenderOK'
BY GrowingSeqs DEF SenderOK, senderVars, Grows

LEMMA WireStutters == ASSUME WireOK, Grows, UNCHANGED wire PROVE WireOK'
BY GrowingSeqs DEF WireOK

LEMMA ThreadsStutter ==
  ASSUME ThreadsOK, Grows, UNCHANGED <<thread, work>> PROVE ThreadsOK'
<1>1. work' \in [Procs -> [Starts -> DOMAIN frames' \cup {None}]]
  BY DEF ThreadsOK, Grows
<1>2. ASSUME NEW p \in Procs, NEW s \in Starts, thread'[p][s] \in Refusing
      PROVE  frames'[work'[p][s]].sender # None
  BY <1>2 DEF ThreadsOK, Grows, Holding, Refusing
<1>3. QED
  BY <1>1, <1>2 DEF ThreadsOK

LEMMA FlagsStutter == ASSUME FlagsOK, UNCHANGED <<running, handle>> PROVE FlagsOK'
BY DEF FlagsOK

LEMMA TailStutters == ASSUME TailOK, UNCHANGED <<running, thread, tail>> PROVE TailOK'
BY DEF TailOK

LEMMA ProcessStutters == ASSUME ProcessOK, UNCHANGED <<processVars, upsets>> PROVE ProcessOK'
BY DEF ProcessOK, processVars

LEMMA ReceiversStutter ==
  ASSUME ThreadsOK, FlagsOK, TailOK, Grows, UNCHANGED receiverVars
  PROVE  ThreadsOK' /\ FlagsOK' /\ TailOK'
BY ThreadsStutter, FlagsStutter, TailStutters DEF receiverVars

\* One disturbance more.
LEMMA Upsets ==
  ASSUME ProcessOK, Upset, UNCHANGED life, registry' \in [Procs -> SUBSET Actors]
  PROVE  ProcessOK'
BY RemoteAssumption DEF ProcessOK, Upset
-----------------------------------------------------------------------------
\* What a panic under the lock leaves of the registry.
LEMMA PoisonKeepsTypes ==
  ASSUME SerializationTypeOK, NEW p \in Procs, Poison(p), UNCHANGED <<named, entry, pending>>
  PROVE  SerializationTypeOK'
BY DEF SerializationTypeOK, Poison

\* The address in a frame.
LEMMA SenderInfoIsAddress ==
  ASSUME NEW p \in Procs, NEW a \in Actors, NEW ref \in Addresses \cup {None, LocalRef(a)}
  PROVE  SenderInfo(p, ref) \in Addresses \cup {None}
BY DEF SenderInfo, LocalRef, Addresses

\* What send_to puts together is a frame, and its number is queued.
LEMMA WrittenIsFrame ==
  ASSUME RemoteInv, NEW p \in Procs, NEW addr \in Addresses, NEW t \in Types, NEW ref,
         SenderInfo(p, ref) \in Addresses \cup {None},
         NEW origin \in Addresses \cup {None}, NEW re \in Nat
  PROVE  Written(p, addr, t, ref, origin, re) \in Frame
<1>1. <<p, life[p]>> \in Lives
  BY RemoteAssumption DEF RemoteInv, ProcessOK, Lives
<1>2. QED
  BY <1>1 DEF Written, Frame, Addresses

LEMMA QueueKeepsTypes ==
  ASSUME RemoteInv, NEW p \in Procs, NEW f \in Frame, Queues(p, f)
  PROVE  /\ Grows /\ FramesOK'
         /\ queue' \in [Procs -> Seq(DOMAIN frames')]
<1>1. frames' = Append(frames, f) /\ queue' = [queue EXCEPT ![p] = Enqueued(p, Len(frames) + 1)]
  BY DEF Queues
<1>2. Grows /\ FramesOK' /\ Len(frames) + 1 \in DOMAIN frames'
  BY <1>1, NewFrame DEF RemoteInv
<1>3. queue \in [Procs -> Seq(DOMAIN frames')]
  BY <1>2, GrowingSeqs DEF RemoteInv, SenderOK
<1>4. Append(queue[p], Len(frames) + 1) \in Seq(DOMAIN frames')
  BY <1>2, <1>3
<1>5. queue' \in [Procs -> Seq(DOMAIN frames')]
  BY <1>1, <1>3, <1>4 DEF Enqueued
<1>6. QED
  BY <1>2, <1>5

\* A panic in the thread of the caller leaves the rest alone.
LEMMA PanicKeepsTypes ==
  ASSUME RemoteInv, NEW p \in Procs, NEW t \in Types, SendPanics(p, t)
  PROVE  /\ Grows /\ FramesOK' /\ SerializationTypeOK' /\ UNCHANGED <<frames, queue>>
<1>1. UNCHANGED <<frames, queue>>
  BY DEF SendPanics
<1>2. SerializationTypeOK'
  BY PoisonKeepsTypes DEF SendPanics, RemoteInv, SerializationTypeOK
<1>3. QED
  BY <1>1, <1>2, NoNewFrames, FramesStutter DEF RemoteInv
-----------------------------------------------------------------------------
\* The steps of handlers.
LEMMA HandlerSendKeepsInv ==
  ASSUME RemoteInv, NEW p \in Procs, NEW a \in Actors, NEW addr \in Addresses,
         NEW t \in Types, NEW ref, SenderInfo(p, ref) \in Addresses \cup {None},
         NEW origin \in Addresses \cup {None}, NEW re \in Nat,
         NEW left \in Seq(DOMAIN frames),
         HandlerSends(p, a, addr, t, ref, origin, re, left)
  PROVE  RemoteInv'
<1>1. UNCHANGED <<current, sockets, stale, wire, receiverVars, processVars, arrived, upsets>>
  BY DEF HandlerSends, Others, OthersButUpsets
<1>2. UNCHANGED <<frames, queue>> /\ SerializationTypeOK'
  BY PanicKeepsTypes, SerializationStutters DEF HandlerSends, RemoteInv
<1>3. MailOK'
  <2>1. CASE /\ letter'  = [letter EXCEPT ![p][a] = Written(p, addr, t, ref, origin, re)]
             /\ mailbox' = [mailbox EXCEPT ![p][a] = left]
             /\ UNCHANGED alive
    <3>1. Written(p, addr, t, ref, origin, re) \in Frame
      BY WrittenIsFrame
    <3>2. QED
      BY <1>1, <1>2, <2>1, <3>1 DEF RemoteInv, MailOK
  <2>2. CASE ThreadEnds(p, a) /\ UNCHANGED letter
    BY <1>1, <1>2, <2>2 DEF ThreadEnds, RemoteInv, MailOK
  <2>3. QED
    BY <2>1, <2>2 DEF HandlerSends
<1>4. QED
  BY <1>1, <1>2, <1>3, NoNewFrames, FramesStutter, SenderStutters, WireStutters, ReceiversStutter,
     ProcessStutters DEF RemoteInv, senderVars

\* A message is queued, and the mailboxes are in order.
LEMMA QueueKeepsInv ==
  ASSUME RemoteInv, NEW p \in Procs, NEW f \in Frame, Queues(p, f),
         Grows => mailbox' \in [Procs -> [Actors -> Seq(DOMAIN frames')]],
         letter' \in [Procs -> [Actors -> Frame \cup {None}]],
         UNCHANGED <<serializationVars, alive, Others>>
  PROVE  RemoteInv'
<1>1. UNCHANGED <<current, sockets, stale, wire, receiverVars, processVars, arrived, upsets>>
  BY DEF Others, OthersButUpsets
<1>2. Grows /\ FramesOK' /\ queue' \in [Procs -> Seq(DOMAIN frames')]
  BY QueueKeepsTypes
<1>3. MailOK'
  <2>1. arrived' \in [Procs -> Seq(DOMAIN frames')]
    BY <1>1, <1>2, GrowingSeqs DEF RemoteInv, MailOK
  <2>2. QED
    BY <1>2, <2>1 DEF RemoteInv, MailOK
<1>4. SenderOK'
  BY <1>1, <1>2 DEF RemoteInv, SenderOK, Grows
<1>5. QED
  BY <1>1, <1>2, <1>3, <1>4, SerializationStutters, WireStutters, ReceiversStutter,
     ProcessStutters DEF RemoteInv

LEMMA PostsKeepsInv ==
  ASSUME RemoteInv, NEW p \in Procs, NEW a \in Actors, Posts(p, a) PROVE RemoteInv'
<1>1. letter[p][a] \in Frame /\ Queues(p, letter[p][a])
  BY DEF Posts, RemoteInv, MailOK
<1>2. letter' \in [Procs -> [Actors -> Frame \cup {None}]]
  BY DEF Posts, RemoteInv, MailOK
<1>3. Grows => mailbox' \in [Procs -> [Actors -> Seq(DOMAIN frames')]]
  BY GrowingSeqs DEF Posts, RemoteInv, MailOK
<1>4. QED
  BY <1>1, <1>2, <1>3, QueueKeepsInv DEF Posts

\* The first of a sequence, and the others.
LEMMA HeadAndTail ==
  ASSUME NEW S, NEW s \in Seq(S), s # <<>> PROVE Head(s) \in S /\ Tail(s) \in Seq(S)
OBVIOUS

\* A message in a mailbox is a frame.
LEMMA NextMessage ==
  ASSUME RemoteInv, NEW p \in Procs, NEW a \in Actors, mailbox[p][a] # <<>>
  PROVE  /\ Head(mailbox[p][a]) \in DOMAIN frames
         /\ frames[Head(mailbox[p][a])] \in Frame
         /\ Tail(mailbox[p][a]) \in Seq(DOMAIN frames)
<1>1. mailbox[p][a] \in Seq(DOMAIN frames)
  BY DEF RemoteInv, MailOK
<1>2. Head(mailbox[p][a]) \in DOMAIN frames /\ Tail(mailbox[p][a]) \in Seq(DOMAIN frames)
  BY <1>1, HeadAndTail
<1>3. QED
  BY <1>2 DEF RemoteInv, FramesOK

\* The thread of an actor that ends drops its mailbox.
LEMMA EndKeepsMail ==
  ASSUME MailOK, NEW p \in Procs, NEW a \in Actors, ThreadEnds(p, a),
         UNCHANGED <<frames, letter, arrived>>
  PROVE  MailOK'
BY DEF MailOK, ThreadEnds

LEMMA ActorSteps == ASSUME RemoteInv, NEW p \in Procs, ActorStep(p) PROVE RemoteInv'
<1>1. PICK a \in Actors : \/ Originate(p, a) \/ Ignore(p, a) \/ Reply(p, a) \/ Forward(p, a)
                          \/ Posts(p, a) \/ Misreads(p, a) \/ Ends(p, a)
  BY RemoteAssumption DEF ActorStep
<1>2. LocalRef(a) \in Addresses \cup {None, LocalRef(a)}
  OBVIOUS
<1>3. [actor |-> a, endpoint |-> p] \in Addresses
  BY DEF Addresses
<1>4. CASE Originate(p, a)
  <2>1. PICK addr \in Targets[p], t \in Sendable :
          \/ HandlerSends(p, a, addr, t, LocalRef(a), [actor |-> a, endpoint |-> p], 0, mailbox[p][a])
          \/ HandlerSends(p, a, addr, t, None, None, 0, mailbox[p][a])
    BY <1>4 DEF Originate
  <2>2. addr \in Addresses /\ t \in Types /\ mailbox[p][a] \in Seq(DOMAIN frames)
    BY RemoteAssumption DEF Sendable, RemoteInv, MailOK
  <2>3. SenderInfo(p, LocalRef(a)) \in Addresses \cup {None} /\ SenderInfo(p, None) \in Addresses \cup {None}
    BY SenderInfoIsAddress
  <2>4. QED
    BY <1>3, <2>1, <2>2, <2>3, HandlerSendKeepsInv
<1>5. CASE Ignore(p, a)
  <2>1. Tail(mailbox[p][a]) \in Seq(DOMAIN frames)
    BY <1>5, NextMessage DEF Ignore
  <2>2. MailOK'
    BY <1>5, <2>1 DEF Ignore, RemoteInv, MailOK, Others, OthersButUpsets
  <2>3. QED
    BY <1>5, <2>2, NoNewFrames, FramesStutter, SerializationStutters, SenderStutters,
       WireStutters, ReceiversStutter, ProcessStutters
       DEF Ignore, RemoteInv, Others, OthersButUpsets, senderVars
<1>6. CASE Reply(p, a)
  <2> DEFINE i == Head(mailbox[p][a])
  <2>1. i \in DOMAIN frames /\ frames[i] \in Frame /\ Tail(mailbox[p][a]) \in Seq(DOMAIN frames)
    BY <1>6, NextMessage DEF Reply
  <2>2. frames[i].sender \in Addresses /\ i \in Nat
    BY <1>6, <2>1 DEF Reply, Frame, RemoteInv, FramesOK
  <2>3. PICK t \in Sendable : HandlerSends(p, a, frames[i].sender, t, LocalRef(a),
                                [actor |-> a, endpoint |-> p], i, Tail(mailbox[p][a]))
    BY <1>6 DEF Reply
  <2>4. t \in Types /\ SenderInfo(p, LocalRef(a)) \in Addresses \cup {None}
    BY SenderInfoIsAddress DEF Sendable
  <2>5. QED
    BY <1>3, <2>1, <2>2, <2>3, <2>4, HandlerSendKeepsInv
<1>7. CASE Forward(p, a)
  <2> DEFINE i == Head(mailbox[p][a])
  <2>1. i \in DOMAIN frames /\ frames[i] \in Frame /\ Tail(mailbox[p][a]) \in Seq(DOMAIN frames)
    BY <1>7, NextMessage DEF Forward
  <2>2. /\ frames[i].sender \in Addresses /\ frames[i].body \in Types
        /\ frames[i].origin \in Addresses \cup {None}
    BY <1>7, <2>1 DEF Forward, Frame
  <2>3. PICK addr \in Onward[p] : HandlerSends(p, a, addr, frames[i].body, frames[i].sender,
                                     frames[i].origin, 0, Tail(mailbox[p][a]))
    BY <1>7 DEF Forward
  <2>4. addr \in Addresses /\ SenderInfo(p, frames[i].sender) \in Addresses \cup {None}
    BY <2>2, RemoteAssumption, SenderInfoIsAddress
  <2>5. QED
    BY <2>1, <2>2, <2>3, <2>4, HandlerSendKeepsInv
<1>8. CASE Misreads(p, a)
  <2>1. SerializationTypeOK'
    BY <1>8, PoisonKeepsTypes DEF Misreads, FailingRead, RemoteInv
  <2>2. MailOK' /\ ProcessOK'
    BY <1>8, EndKeepsMail, Upsets DEF Misreads, RemoteInv, OthersButUpsets, processVars, ProcessOK
  <2>3. QED
    BY <1>8, <2>1, <2>2, NoNewFrames, FramesStutter, SenderStutters, WireStutters, ReceiversStutter
       DEF Misreads, RemoteInv, OthersButUpsets, senderVars
<1>9. CASE Ends(p, a)
  <2>1. MailOK' /\ ProcessOK'
    BY <1>9, EndKeepsMail, Upsets DEF Ends, RemoteInv, OthersButUpsets, processVars, ProcessOK
  <2>2. QED
    BY <1>9, <2>1, NoNewFrames, FramesStutter, SerializationStutters, SenderStutters,
       WireStutters, ReceiversStutter
       DEF Ends, RemoteInv, OthersButUpsets, senderVars
<1>10. CASE Posts(p, a)
  BY <1>10, PostsKeepsInv
<1>11. QED
  BY <1>1, <1>4, <1>5, <1>6, <1>7, <1>8, <1>9, <1>10

\* Registrations that come late.
LEMMA Registrations ==
  ASSUME RemoteInv, NEW p \in Procs,
         RegistersLater(p) \/ \E a \in Actors : RegisterActor(p, a)
  PROVE  RemoteInv'
<1>1. CASE RegistersLater(p)
  <2>1. PICK t \in Types : \/ RegisterName(p, t) /\ Upset
                           \/ RegisterEntry(p, t) /\ UNCHANGED upsets
    BY <1>1 DEF RegistersLater
  <2>2. SerializationTypeOK'
    <3>1. NameOf[t] \in Names
      BY SerializationAssumption
    <3>2. CASE RegisterName(p, t)
      BY <3>2 DEF RegisterName, SerializationTypeOK, RemoteInv
    <3>3. CASE RegisterEntry(p, t)
      BY <3>1, <3>3 DEF RegisterEntry, SerializationTypeOK, RemoteInv
    <3>4. QED
      BY <2>1, <3>2, <3>3
  <2>3. ProcessOK'
    BY <1>1, <2>1, Upsets, ProcessStutters DEF RegistersLater, processVars, RemoteInv, ProcessOK
  <2>4. QED
    BY <1>1, <2>2, <2>3, NoNewFrames, FramesStutter, MailStutters, SenderStutters,
       WireStutters, ReceiversStutter DEF RegistersLater, RemoteInv
<1>2. CASE \E a \in Actors : RegisterActor(p, a)
  <2>1. PICK a \in Actors : RegisterActor(p, a)
    BY <1>2
  <2>2. ProcessOK'
    BY <2>1, Upsets DEF RegisterActor, RemoteInv, ProcessOK
  <2>3. QED
    BY <2>1, <2>2, NoNewFrames, FramesStutter, SerializationStutters, MailStutters,
       SenderStutters, WireStutters, ReceiversStutter DEF RegisterActor, RemoteInv
<1>3. QED
  BY <1>1, <1>2
-----------------------------------------------------------------------------
\* The steps of the sender thread.
LEMMA SenderSteps == ASSUME RemoteInv, NEW p \in Procs, SenderThread(p) PROVE RemoteInv'
<1> USE DEF RemoteInv
<1>1. CASE TakeRequest(p)
  <2>1. Head(queue[p]) \in DOMAIN frames /\ Tail(queue[p]) \in Seq(DOMAIN frames)
    BY <1>1 DEF TakeRequest, SenderOK
  <2>2. SenderOK'
    BY <1>1, <2>1 DEF TakeRequest, SenderOK
  <2>3. QED
    BY <1>1, <2>2, NoNewFrames, FramesStutter, SerializationStutters, MailStutters,
       WireStutters, ReceiversStutter, ProcessStutters DEF TakeRequest
<1>2. CASE Connect(p)
  <2>1. Dest(p) \in Procs
    <3>1. current[p] \in DOMAIN frames
      BY <1>2 DEF Connect, SenderOK
    <3>2. frames[current[p]] \in Frame
      BY <3>1 DEF FramesOK
    <3>3. QED
      BY <3>2 DEF Dest, Frame
  <2>2. SenderOK'
    BY <1>2, <2>1 DEF Connect, SenderOK
  <2>3. QED
    BY <1>2, <2>2, NoNewFrames, FramesStutter, SerializationStutters, MailStutters,
       WireStutters, ReceiversStutter, ProcessStutters DEF Connect
<1>3. CASE ConnectFails(p)
  <2>1. SenderOK'
    BY <1>3 DEF ConnectFails, AfterFailure, SenderOK
  <2>2. QED
    BY <1>3, <2>1, NoNewFrames, FramesStutter, SerializationStutters, MailStutters,
       WireStutters, ReceiversStutter, ProcessStutters DEF ConnectFails
<1>4. CASE Transmit(p)
  <2>1. SenderOK'
    BY <1>4 DEF Transmit, AfterSend, SenderOK
  <2>2. current[p] \in DOMAIN frames
    BY <1>4 DEF Transmit, SenderOK
  <2>3. WireOK'
    <3>1. ASSUME NEW d \in Procs, NEW l \in Lives PROVE Append(wire[d][l], current[p]) \in Seq(DOMAIN frames)
      BY <2>2 DEF WireOK
    <3>2. CASE wire' = [wire EXCEPT ![Dest(p)][<<p, life[p]>>] = Append(@, current[p])]
      <4>1. ASSUME NEW d \in Procs PROVE wire'[d] \in [Lives -> Seq(DOMAIN frames)]
        BY <3>1, <3>2 DEF WireOK
      <4>2. QED
        BY <1>4, <3>2, <4>1 DEF Transmit, WireOK
    <3>3. QED
      BY <1>4, <3>2 DEF Transmit, WireOK
  <2>4. QED
    BY <1>4, <2>1, <2>3, NoNewFrames, FramesStutter, SerializationStutters, MailStutters,
       ReceiversStutter, ProcessStutters DEF Transmit
<1>5. QED
  BY <1>1, <1>2, <1>3, <1>4 DEF SenderThread
-----------------------------------------------------------------------------
\* The steps of receiver threads.  A socket that closes loses what was on its way.
LEMMA CloseKeepsTypes ==
  ASSUME SenderOK, NEW p \in Procs, Close(p)
  PROVE  /\ wire \in [Procs -> [Lives -> Seq(DOMAIN frames)]] =>
              wire' \in [Procs -> [Lives -> Seq(DOMAIN frames)]]
         /\ stale' \in [Procs -> SUBSET Procs]
<1>1. ASSUME NEW S PROVE [l \in Lives |-> <<>>] \in [Lives -> Seq(S)]
  OBVIOUS
<1>2. QED
  BY <1>1 DEF SenderOK, Close

\* A thread goes from one place to another.
LEMMA MoveKeepsThreads ==
  ASSUME RemoteInv, Grows, NEW p \in Procs, NEW s \in Starts, NEW to \in Places,
         NEW f \in DOMAIN frames \cup {None}, Moves(p, s, to, f),
         f # None <=> to \in Holding,
         to \in Refusing => frames[f].sender # None,
         to \in Open => thread[p][s] \in Open \/ ~Listening(p)
  PROVE  ThreadsOK' /\ FlagsOK'
<1> USE DEF RemoteInv
<1>1. /\ thread' = [thread EXCEPT ![p][s] = to] /\ work' = [work EXCEPT ![p][s] = f]
      /\ UNCHANGED <<running, handle>>
  BY DEF Moves
<1>2. thread' \in [Procs -> [Starts -> Places]]
  BY <1>1 DEF ThreadsOK
<1>3. work' \in [Procs -> [Starts -> DOMAIN frames' \cup {None}]]
  <2>1. work \in [Procs -> [Starts -> DOMAIN frames' \cup {None}]]
    BY DEF ThreadsOK, Grows
  <2>2. f \in DOMAIN frames' \cup {None}
    BY DEF Grows
  <2>3. QED
    BY <1>1, <2>1, <2>2
<1>4. ASSUME NEW q \in Procs, NEW r \in Starts
      PROVE  /\ thread'[q][r] = IF q = p /\ r = s THEN to ELSE thread[q][r]
             /\ work'[q][r] = IF q = p /\ r = s THEN f ELSE work[q][r]
  BY <1>1 DEF ThreadsOK
<1>5. \A q \in Procs, r \in Starts : work'[q][r] # None <=> thread'[q][r] \in Holding
  BY <1>4 DEF ThreadsOK
<1>6. ASSUME NEW q \in Procs, NEW r \in Starts, thread'[q][r] \in Refusing
      PROVE  frames'[work'[q][r]].sender # None
  BY <1>4, <1>6 DEF ThreadsOK, Grows, Holding, Refusing
<1>7. ASSUME NEW q \in Procs, NEW r \in Starts, NEW t \in Starts,
             thread'[q][r] \in Open, thread'[q][t] \in Open
      PROVE  r = t
  BY <1>4, <1>7 DEF ThreadsOK, Listening
<1>8. QED
  BY <1>1, <1>2, <1>3, <1>5, <1>6, <1>7 DEF ThreadsOK, FlagsOK

\* The frame in the hand of a thread.
LEMMA InHandIsFrame ==
  ASSUME RemoteInv, NEW p \in Procs, NEW s \in Starts, thread[p][s] \in Holding
  PROVE  /\ work[p][s] \in DOMAIN frames /\ work[p][s] # None /\ work[p][s] \in Nat
         /\ InHand(p, s) \in Frame
<1>1. work[p][s] \in DOMAIN frames /\ work[p][s] # None
  BY DEF RemoteInv, ThreadsOK
<1>2. QED
  BY <1>1 DEF RemoteInv, FramesOK, InHand

\* To reject a message, or to drop it, is a move.
LEMMA RefuseMoves ==
  ASSUME RemoteInv, Grows, NEW p \in Procs, NEW s \in Starts, thread[p][s] \in Holding,
         Refuse(p, s)
  PROVE  /\ ThreadsOK' /\ FlagsOK'
         /\ UNCHANGED running /\ thread' = [thread EXCEPT ![p][s] = thread'[p][s]]
         /\ thread'[p][s] \in {"reject", "test"}
<1>1. work[p][s] \in DOMAIN frames /\ work[p][s] # None
  BY InHandIsFrame
<1>2. thread[p][s] \in Open
  BY DEF Holding, Open
<1>3. ASSUME NEW to \in {"reject", "test"}, NEW f, Moves(p, s, to, f)
      PROVE  /\ UNCHANGED running /\ thread' = [thread EXCEPT ![p][s] = thread'[p][s]]
             /\ thread'[p][s] = to
  BY <1>3 DEF Moves, RemoteInv, ThreadsOK
<1>4. CASE InHand(p, s).sender # None
  <2>1. Moves(p, s, "reject", work[p][s]) /\ frames[work[p][s]].sender # None
    BY <1>4 DEF Refuse, InHand
  <2>2. ThreadsOK' /\ FlagsOK'
    BY <1>1, <1>2, <2>1, MoveKeepsThreads DEF Holding, Places, Open, Refusing
  <2>3. QED
    BY <1>3, <2>1, <2>2
<1>5. CASE InHand(p, s).sender = None
  <2>1. Moves(p, s, "test", None)
    BY <1>5 DEF Refuse
  <2>2. ThreadsOK' /\ FlagsOK'
    BY <1>2, <2>1, MoveKeepsThreads DEF Holding, Places, Open, Refusing
  <2>3. QED
    BY <1>3, <2>1, <2>2
<1>6. QED
  BY <1>4, <1>5

\* A thread that does not deliver gets nearer to a mailbox only while running.
Delivering == {"recv", "lookup", "parse", "deliver"}

LEMMA MoveKeepsTail ==
  ASSUME RemoteInv, NEW p \in Procs, NEW s \in Starts, NEW to,
         thread' = [thread EXCEPT ![p][s] = to], UNCHANGED <<running, tail>>,
         to \in Delivering => running[p] \/ thread[p][s] \in Delivering
  PROVE  TailOK'
<1>1. ASSUME NEW q \in Procs, NEW r \in Starts
      PROVE  thread'[q][r] = IF q = p /\ r = s THEN to ELSE thread[q][r]
  BY DEF RemoteInv, ThreadsOK
<1>2. QED
  BY <1>1 DEF RemoteInv, TailOK, Delivering

\* The same of Moves and Leaves.
LEMMA MovesKeepsInv ==
  ASSUME RemoteInv, NEW p \in Procs, NEW s \in Starts, NEW to \in Places,
         NEW f \in DOMAIN frames \cup {None}, Moves(p, s, to, f),
         f # None <=> to \in Holding,
         to \in Refusing => frames[f].sender # None,
         to \in Open => thread[p][s] \in Open \/ ~Listening(p),
         to \in Delivering => running[p] \/ thread[p][s] \in Delivering,
         UNCHANGED <<frames, actorVars, queue, current, sockets, tail, processVars, upsets>>,
         UNCHANGED stale \/ Close(p), WireOK', SerializationTypeOK'
  PROVE  RemoteInv'
<1>1. Grows /\ FramesOK'
  BY NoNewFrames, FramesStutter DEF RemoteInv
<1>2. ThreadsOK' /\ FlagsOK'
  BY <1>1, MoveKeepsThreads
<1>3. TailOK'
  BY MoveKeepsTail DEF Moves
<1>4. SenderOK'
  <2>1. stale' \in [Procs -> SUBSET Procs]
    BY CloseKeepsTypes DEF RemoteInv, SenderOK
  <2>2. QED
    BY <2>1 DEF RemoteInv, SenderOK
<1>5. QED
  BY <1>1, <1>2, <1>3, <1>4, MailStutters, ProcessStutters DEF RemoteInv

LEMMA CloseKeepsWire ==
  ASSUME RemoteInv, NEW p \in Procs, Close(p), UNCHANGED frames PROVE WireOK'
BY CloseKeepsTypes DEF RemoteInv, WireOK

LEMMA LeavesKeepsInv ==
  ASSUME RemoteInv, NEW p \in Procs, NEW s \in Starts, NEW to \in Finished, Leaves(p, s, to),
         UNCHANGED <<frames, actorVars, queue, current, sockets, tail, processVars, upsets>>,
         SerializationTypeOK'
  PROVE  RemoteInv'
<1>1. Moves(p, s, to, None) /\ Close(p)
  BY DEF Leaves
<1>2. to \in Places /\ to \notin Holding \cup Open \cup Delivering \cup Refusing
  BY DEF Finished, Places, Holding, Open, Delivering, Refusing
<1>3. WireOK'
  BY <1>1, CloseKeepsWire
<1>4. QED
  BY <1>1, <1>2, <1>3, MovesKeepsInv

LEMMA RefuseKeepsInv ==
  ASSUME RemoteInv, NEW p \in Procs, NEW s \in Starts, thread[p][s] \in Holding, Refuse(p, s),
         UNCHANGED <<frames, actorVars, senderVars, wire, tail, processVars, upsets>>,
         UNCHANGED serializationVars
  PROVE  RemoteInv'
<1>1. Grows /\ FramesOK'
  BY NoNewFrames, FramesStutter DEF RemoteInv
<1>2. /\ ThreadsOK' /\ FlagsOK'
      /\ UNCHANGED running /\ thread' = [thread EXCEPT ![p][s] = thread'[p][s]]
      /\ thread'[p][s] \in {"reject", "test"}
  BY <1>1, RefuseMoves
<1>3. TailOK'
  BY <1>2, MoveKeepsTail DEF Delivering
<1>4. QED
  BY <1>1, <1>2, <1>3, MailStutters, SenderStutters, WireStutters, ProcessStutters,
     SerializationStutters DEF RemoteInv

LEMMA ReceiverSteps ==
  ASSUME RemoteInv, NEW p \in Procs, NEW s \in Starts, ReceiverThread(p, s) PROVE RemoteInv'
<1> USE DEF Places, Open, Finished, Holding, Delivering, Refusing
<1>1. CASE Bind(p, s)
  <2> DEFINE to == IF Listening(p) THEN "bindfailed" ELSE "test"
  <2>1. to \in Places /\ to \notin Holding /\ to \notin Delivering \cup Refusing
        /\ (to \in Open => ~Listening(p))
    OBVIOUS
  <2>2. Moves(p, s, to, None)
        /\ UNCHANGED <<serializationVars, frames, actorVars, senderVars, wire, tail, processVars, upsets>>
    BY <1>1 DEF Bind
  <2>3. WireOK' /\ SerializationTypeOK'
    BY <2>2, NoNewFrames, WireStutters, SerializationStutters DEF RemoteInv
  <2> HIDE DEF to
  <2>4. QED
    BY <2>1, <2>2, <2>3, MovesKeepsInv DEF senderVars
<1>2. CASE Test(p, s)
  <2>1. SerializationTypeOK'
    BY <1>2, SerializationStutters DEF Test, RemoteInv
  <2>2. CASE MayGoOn(p)
    <3>1. Moves(p, s, "recv", None) /\ UNCHANGED <<wire, stale>> /\ running[p] /\ thread[p][s] \in Open
      BY <1>2, <2>2 DEF Test, MayGoOn
    <3>2. UNCHANGED <<frames, actorVars, queue, current, sockets, tail, processVars, upsets>>
      BY <1>2 DEF Test
    <3>3. WireOK'
      BY <3>1, <3>2, NoNewFrames, WireStutters DEF RemoteInv
    <3>4. QED
      BY <2>1, <3>1, <3>2, <3>3, MovesKeepsInv
  <2>3. CASE ~MayGoOn(p)
    BY <1>2, <2>1, <2>3, LeavesKeepsInv DEF Test
  <2>4. QED
    BY <2>2, <2>3
<1>3. CASE Receive(p, s)
  <2>1. PICK l \in Lives : /\ wire[p][l] # <<>>
                           /\ Moves(p, s, "lookup", Head(wire[p][l]))
                           /\ wire' = [wire EXCEPT ![p][l] = Tail(@)]
    BY <1>3 DEF Receive
  <2>2. Head(wire[p][l]) \in DOMAIN frames /\ Tail(wire[p][l]) \in Seq(DOMAIN frames)
    BY <2>1, HeadAndTail DEF RemoteInv, WireOK
  <2>3. WireOK'
    BY <1>3, <2>1, <2>2 DEF Receive, RemoteInv, WireOK
  <2>4. Head(wire[p][l]) # None
    BY <2>2, RemoteAssumption DEF RemoteInv, FramesOK
  <2>5. SerializationTypeOK'
        /\ UNCHANGED <<frames, actorVars, queue, current, sockets, stale, tail, processVars, upsets>>
    BY <1>3, SerializationStutters DEF Receive, RemoteInv, senderVars
  <2>6. thread[p][s] = "recv"
    BY <1>3 DEF Receive
  <2>7. QED
    BY <2>1, <2>2, <2>3, <2>4, <2>5, <2>6, MovesKeepsInv
<1>4. CASE TimesOut(p, s)
  <2>1. /\ Moves(p, s, "test", None) /\ thread[p][s] = "recv"
        /\ UNCHANGED <<frames, actorVars, queue, current, sockets, stale, tail, processVars, upsets>>
    BY <1>4 DEF TimesOut, senderVars
  <2>2. WireOK' /\ SerializationTypeOK'
    BY <1>4, NoNewFrames, WireStutters, SerializationStutters DEF TimesOut, RemoteInv
  <2>3. QED
    BY <2>1, <2>2, MovesKeepsInv
<1>5. CASE LookUp(p, s)
  <2>1. /\ thread[p][s] = "lookup"
        /\ UNCHANGED <<serializationVars, frames, actorVars, senderVars, wire, tail, processVars, upsets>>
    BY <1>5 DEF LookUp
  <2>2. CASE Moves(p, s, "parse", work[p][s])
    <3>1. work[p][s] \in DOMAIN frames /\ work[p][s] # None
      BY <2>1, InHandIsFrame
    <3>2. WireOK' /\ SerializationTypeOK'
      BY <2>1, NoNewFrames, WireStutters, SerializationStutters DEF RemoteInv
    <3>3. QED
      BY <2>1, <2>2, <3>1, <3>2, MovesKeepsInv DEF senderVars
  <2>3. CASE Refuse(p, s)
    BY <2>1, <2>3, RefuseKeepsInv
  <2>4. QED
    BY <1>5, <2>2, <2>3 DEF LookUp
<1>6. CASE TryDeserialize(p, s)
  <2> DEFINE n == NameOf[InHand(p, s).body]
             w == InHand(p, s).body
  <2>1. /\ thread[p][s] = "parse"
        /\ UNCHANGED <<frames, actorVars, queue, current, sockets, tail, processVars, upsets>>
    BY <1>6 DEF TryDeserialize
  <2>2. CASE Leaves(p, s, "panicked") /\ FailingRead(p, n, w)
    <3>1. SerializationTypeOK'
      BY <2>2, PoisonKeepsTypes DEF FailingRead, RemoteInv
    <3>2. QED
      BY <2>1, <2>2, <3>1, LeavesKeepsInv
  <2>3. CASE Moves(p, s, "deliver", work[p][s]) /\ UNCHANGED <<serializationVars, wire, stale>>
    <3>1. work[p][s] \in DOMAIN frames /\ work[p][s] # None
      BY <2>1, InHandIsFrame
    <3>2. WireOK' /\ SerializationTypeOK'
      BY <2>1, <2>3, NoNewFrames, WireStutters, SerializationStutters DEF RemoteInv
    <3>3. QED
      BY <2>1, <2>3, <3>1, <3>2, MovesKeepsInv
  <2>4. CASE Refuse(p, s) /\ UNCHANGED <<serializationVars, wire, stale>>
    BY <2>1, <2>4, RefuseKeepsInv DEF senderVars
  <2>5. QED
    BY <1>6, <2>2, <2>3, <2>4 DEF TryDeserialize
<1>7. CASE Deliver(p, s)
  <2> DEFINE receiver == InHand(p, s).receiver
  <2>1. /\ thread[p][s] = "deliver" /\ Moves(p, s, "test", None)
        /\ UNCHANGED <<serializationVars, frames, alive, letter, senderVars, wire, processVars, upsets>>
    BY <1>7 DEF Deliver
  <2>2. Grows /\ FramesOK'
    BY <2>1, NoNewFrames, FramesStutter DEF RemoteInv
  <2>3. ThreadsOK' /\ FlagsOK'
    BY <2>1, <2>2, MoveKeepsThreads
  <2>4. CASE receiver \in alive[p]
    <3>1. /\ mailbox' = [mailbox EXCEPT ![p][receiver] = Append(@, work[p][s])]
          /\ arrived' = [arrived EXCEPT ![p] = Append(@, work[p][s])]
          /\ tail'    = [tail EXCEPT ![p] = IF running[p] THEN @ ELSE @ + 1]
      BY <1>7, <2>4 DEF Deliver
    <3>2. work[p][s] \in DOMAIN frames
      BY <2>1, InHandIsFrame
    <3>3. receiver \in Actors
      BY <2>4 DEF RemoteInv, MailOK
    <3>4. MailOK'
      <4>1. Append(arrived[p], work[p][s]) \in Seq(DOMAIN frames)
            /\ Append(mailbox[p][receiver], work[p][s]) \in Seq(DOMAIN frames)
        BY <3>2, <3>3 DEF RemoteInv, MailOK
      <4>2. QED
        BY <2>1, <3>1, <4>1 DEF RemoteInv, MailOK
    <3>5. TailOK'
      <4>1. \A q \in Procs, r \in Starts : thread'[q][r] = IF q = p /\ r = s THEN "test" ELSE thread[q][r]
        BY <2>1 DEF Moves, RemoteInv, ThreadsOK
      <4>2. \A r \in Starts : thread[p][r] \in Open => r = s
        BY <2>1 DEF RemoteInv, ThreadsOK
      <4>3. UNCHANGED running /\ tail[p] = 0
        BY <2>1 DEF Moves, RemoteInv, TailOK
      <4>4. QED
        BY <3>1, <4>1, <4>2, <4>3 DEF RemoteInv, TailOK
    <3>6. QED
      BY <2>1, <2>2, <2>3, <3>4, <3>5, SenderStutters, WireStutters, ProcessStutters,
         SerializationStutters DEF RemoteInv
  <2>5. CASE receiver \notin alive[p]
    <3>1. UNCHANGED <<mailbox, arrived, tail>>
      BY <1>7, <2>5 DEF Deliver
    <3>2. TailOK'
      BY <2>1, <3>1, MoveKeepsTail DEF Moves
    <3>3. MailOK'
      BY <2>1, <2>2, <3>1, MailStutters DEF RemoteInv, actorVars
    <3>4. QED
      BY <2>1, <2>2, <2>3, <3>2, <3>3, SenderStutters, WireStutters, ProcessStutters,
         SerializationStutters DEF RemoteInv
  <2>6. QED
    BY <2>4, <2>5
<1>8. CASE SerializeReject(p, s)
  <2>1. thread[p][s] = "reject" /\ UNCHANGED <<actorVars, current, sockets, tail, processVars, upsets>>
    BY <1>8 DEF SerializeReject
  <2>2. CASE /\ Moves(p, s, "queueing", work[p][s])
             /\ UNCHANGED <<serializationVars, frames, queue, stale, wire>>
    <3>1. /\ work[p][s] \in DOMAIN frames /\ work[p][s] # None
          /\ frames[work[p][s]].sender # None
      BY <2>1, InHandIsFrame DEF RemoteInv, ThreadsOK
    <3>2. WireOK' /\ SerializationTypeOK'
      BY <2>2, NoNewFrames, WireStutters, SerializationStutters DEF RemoteInv
    <3>3. QED
      BY <2>1, <2>2, <3>1, <3>2, MovesKeepsInv
  <2>3. CASE SendPanics(p, Reject) /\ Leaves(p, s, "panicked")
    <3>1. SerializationTypeOK' /\ UNCHANGED <<frames, queue>>
      BY <2>3, PanicKeepsTypes, RemoteAssumption
    <3>2. QED
      BY <2>1, <2>3, <3>1, LeavesKeepsInv
  <2>4. QED
    BY <1>8, <2>2, <2>3 DEF SerializeReject
<1>9. CASE QueueReject(p, s)
  <2> DEFINE f == Written(p, InHand(p, s).sender, Reject, None, None, work[p][s])
  <2>1. /\ thread[p][s] = "queueing" /\ Queues(p, f) /\ Moves(p, s, "test", None)
        /\ UNCHANGED <<serializationVars, actorVars, current, sockets, stale, wire,
                       tail, processVars, upsets>>
    BY <1>9 DEF QueueReject
  <2>2. work[p][s] \in Nat /\ InHand(p, s).sender \in Addresses
    <3>1. InHand(p, s).sender # None
      BY <2>1 DEF RemoteInv, ThreadsOK, InHand
    <3>2. QED
      BY <2>1, <3>1, InHandIsFrame DEF Frame
  <2>3. f \in Frame
    <3>1. SenderInfo(p, None) \in Addresses \cup {None} /\ Reject \in Types
      BY RemoteAssumption DEF SenderInfo, LocalRef, Addresses
    <3>2. QED
      BY <2>2, <3>1, WrittenIsFrame
  <2> HIDE DEF f
  <2>4. Grows /\ FramesOK' /\ queue' \in [Procs -> Seq(DOMAIN frames')]
    BY <2>1, <2>3, QueueKeepsTypes
  <2>5. ThreadsOK' /\ FlagsOK'
    BY <2>1, <2>4, MoveKeepsThreads
  <2>6. TailOK'
    BY <2>1, MoveKeepsTail DEF Moves
  <2>7. SenderOK'
    BY <2>1, <2>4 DEF RemoteInv, SenderOK, Grows
  <2>8. QED
    BY <2>1, <2>4, <2>5, <2>6, <2>7, MailStutters, WireStutters, ProcessStutters,
       SerializationStutters DEF RemoteInv
<1>10. QED
  BY <1>1, <1>2, <1>3, <1>4, <1>5, <1>6, <1>7, <1>8, <1>9 DEF ReceiverThread
-----------------------------------------------------------------------------
\* What is done to receivers from outside, and restarts.
LEMMA HandleSteps ==
  ASSUME RemoteInv, NEW p \in Procs, NEW s \in Starts,
         Start(p, s) \/ SocketFails(p, s) \/ Stop(p, s) \/ Joined(p, s)
  PROVE  RemoteInv'
<1>1. CASE Start(p, s)
  <2>1. /\ thread' = [thread EXCEPT ![p][s] = "bind"] /\ thread[p][s] = "none"
        /\ handle' = [handle EXCEPT ![p][s] = "held"]
        /\ UNCHANGED <<serializationVars, frames, actorVars, senderVars, wire, running, work,
                       tail, processVars>>
    BY <1>1 DEF Start
  <2>2. Grows /\ FramesOK'
    BY <2>1, NoNewFrames, FramesStutter DEF RemoteInv
  <2>3. ThreadsOK'
    <3>1. ASSUME NEW q \in Procs, NEW r \in Starts
          PROVE  thread'[q][r] = IF q = p /\ r = s THEN "bind" ELSE thread[q][r]
      BY <2>1 DEF RemoteInv, ThreadsOK
    <3>2. thread' \in [Procs -> [Starts -> Places]]
      BY <2>1 DEF RemoteInv, ThreadsOK, Places
    <3>3. QED
      BY <2>1, <3>1, <3>2 DEF RemoteInv, ThreadsOK, Holding, Refusing, Open
  <2>4. FlagsOK'
    BY <2>1 DEF RemoteInv, FlagsOK
  <2>5. TailOK'
    BY <2>1, MoveKeepsTail DEF Delivering
  <2>6. ProcessOK'
    BY <1>1, <2>1, Upsets, ProcessStutters DEF Start, RemoteInv, ProcessOK, processVars
  <2>7. QED
    BY <2>1, <2>2, <2>3, <2>4, <2>5, <2>6, MailStutters, SenderStutters, WireStutters,
       SerializationStutters DEF RemoteInv
<1>2. CASE SocketFails(p, s)
  <2>1. /\ Leaves(p, s, "exited") /\ Upset
        /\ UNCHANGED <<serializationVars, frames, actorVars, queue, current, sockets, tail, processVars>>
    BY <1>2 DEF SocketFails
  <2>2. ThreadsOK' /\ FlagsOK' /\ Grows /\ FramesOK'
    <3>1. Grows /\ FramesOK'
      BY <2>1, NoNewFrames, FramesStutter DEF RemoteInv
    <3>2. QED
      BY <2>1, <3>1, MoveKeepsThreads DEF Leaves, Places, Finished, Holding, Refusing, Open
  <2>3. TailOK'
    BY <2>1, MoveKeepsTail DEF Leaves, Moves, Delivering
  <2>4. WireOK' /\ SenderOK'
    BY <2>1, CloseKeepsWire, CloseKeepsTypes DEF Leaves, RemoteInv, SenderOK
  <2>5. ProcessOK'
    BY <2>1, Upsets DEF RemoteInv, ProcessOK, processVars
  <2>6. QED
    BY <2>1, <2>2, <2>3, <2>4, <2>5, MailStutters, SerializationStutters DEF RemoteInv
<1>3. CASE Stop(p, s)
  <2>1. /\ running' = [running EXCEPT ![p] = FALSE] /\ handle' = [handle EXCEPT ![p][s] = "joining"]
        /\ UNCHANGED <<serializationVars, frames, actorVars, senderVars, wire, thread, work,
                       tail, processVars>> /\ Upset
    BY <1>3 DEF Stop
  <2>2. Grows /\ FramesOK'
    BY <2>1, NoNewFrames, FramesStutter DEF RemoteInv
  <2>3. FlagsOK' /\ TailOK'
    BY <2>1 DEF RemoteInv, FlagsOK, TailOK
  <2>4. ProcessOK'
    BY <2>1, Upsets DEF RemoteInv, ProcessOK, processVars
  <2>5. QED
    BY <2>1, <2>2, <2>3, <2>4, ThreadsStutter, MailStutters, SenderStutters, WireStutters,
       SerializationStutters DEF RemoteInv
<1>4. CASE Joined(p, s)
  <2>1. /\ handle' = [handle EXCEPT ![p][s] = "stopped"]
        /\ UNCHANGED <<serializationVars, frames, actorVars, senderVars, wire, running, thread,
                       work, tail, processVars, upsets>>
    BY <1>4 DEF Joined
  <2>2. Grows /\ FramesOK' /\ FlagsOK'
    BY <2>1, NoNewFrames, FramesStutter DEF RemoteInv, FlagsOK
  <2>3. QED
    BY <2>1, <2>2, ThreadsStutter, TailStutters, MailStutters, SenderStutters, WireStutters,
       SerializationStutters, ProcessStutters DEF RemoteInv
<1>5. QED
  BY <1>1, <1>2, <1>3, <1>4

LEMMA RestartKeepsInv == ASSUME RemoteInv, NEW p \in Procs, Restart(p) PROVE RemoteInv'
<1> USE DEF RemoteInv
<1>1. Grows /\ FramesOK' /\ UNCHANGED <<frames, arrived>>
  BY NoNewFrames, FramesStutter DEF Restart
<1>2. SerializationTypeOK'
  <2>1. Registered(p) \in [Names -> Types \cup {NoType}] /\ AtStart[p] \subseteq Types
    BY SerializationAssumption DEF Registered
  <2>2. ResetRegistry(p)
    BY DEF Restart
  <2>3. QED
    BY <2>1, <2>2 DEF ResetRegistry, SerializationTypeOK
<1>3. MailOK'
  <2>1. /\ [a \in Actors |-> <<>>] \in [Actors -> Seq(DOMAIN frames)] /\ Home[p] \subseteq Actors
        /\ [a \in Actors |-> None] \in [Actors -> Frame \cup {None}]
    BY RemoteAssumption
  <2>2. QED
    BY <1>1, <2>1 DEF Restart, MailOK
<1>4. SenderOK'
  BY <1>1 DEF Restart, SenderOK
<1>5. WireOK'
  <2>1. [l \in Lives |-> <<>>] \in [Lives -> Seq(DOMAIN frames)]
    OBVIOUS
  <2>2. QED
    BY <1>1, <2>1 DEF Restart, WireOK
<1>6. /\ thread' = [thread EXCEPT ![p] = [s \in Starts |-> "none"]]
      /\ work' = [work EXCEPT ![p] = [s \in Starts |-> None]]
      /\ running' = [running EXCEPT ![p] = TRUE] /\ tail' = [tail EXCEPT ![p] = 0]
      /\ handle' = [handle EXCEPT ![p] = [s \in Starts |-> "none"]]
  BY DEF Restart
<1>7. ThreadsOK'
  <2>1. ASSUME NEW q \in Procs, NEW r \in Starts
        PROVE  /\ thread'[q][r] = IF q = p THEN "none" ELSE thread[q][r]
               /\ work'[q][r] = IF q = p THEN None ELSE work[q][r]
    BY <1>6 DEF ThreadsOK
  <2>2. /\ thread' \in [Procs -> [Starts -> Places]]
        /\ work' \in [Procs -> [Starts -> DOMAIN frames' \cup {None}]]
    BY <1>1, <1>6 DEF ThreadsOK, Places
  <2>3. ASSUME NEW q \in Procs, NEW r \in Starts
        PROVE  /\ work'[q][r] # None <=> thread'[q][r] \in Holding
               /\ thread'[q][r] \in Refusing => frames'[work'[q][r]].sender # None
    BY <1>1, <2>1 DEF ThreadsOK, Holding, Refusing
  <2>4. ASSUME NEW q \in Procs, NEW r \in Starts, NEW t \in Starts,
               thread'[q][r] \in Open, thread'[q][t] \in Open
        PROVE  r = t
    BY <2>1, <2>4 DEF ThreadsOK, Open
  <2>5. QED
    BY <2>2, <2>3, <2>4 DEF ThreadsOK
<1>8. FlagsOK'
  BY <1>6 DEF FlagsOK
<1>9. TailOK'
  BY <1>6 DEF TailOK, ThreadsOK
<1>10. ProcessOK'
  <2>1. /\ upsets' = upsets + 1 /\ upsets < MaxUpsets /\ life' = [life EXCEPT ![p] = @ + 1]
        /\ registry' = [registry EXCEPT ![p] = Listed[p]] /\ Listed[p] \subseteq Actors
    BY RemoteAssumption DEF Restart, Upset
  <2>2. upsets \in Nat /\ MaxUpsets \in Nat
    BY RemoteAssumption DEF ProcessOK
  <2>3. QED
    BY <2>1, <2>2 DEF ProcessOK
<1>11. QED
  BY <1>1, <1>2, <1>3, <1>4, <1>5, <1>7, <1>8, <1>9, <1>10
-----------------------------------------------------------------------------
\* RemoteInv is inductive.
LEMMA RemoteStep == RemoteInv /\ [RemoteNext]_vars => RemoteInv'
<1> SUFFICES ASSUME RemoteInv, [RemoteNext]_vars PROVE RemoteInv'
  OBVIOUS
<1>1. CASE UNCHANGED vars
  BY <1>1, NoNewFrames, FramesStutter, SerializationStutters, MailStutters, SenderStutters,
     WireStutters, ReceiversStutter, ProcessStutters DEF vars, RemoteInv
<1>2. CASE RemoteNext
  <2>1. PICK p \in Procs :
          \/ ActorStep(p) \/ RegistersLater(p) \/ SenderThread(p) \/ Restart(p)
          \/ \E a \in Actors : RegisterActor(p, a)
          \/ \E s \in Starts : \/ Start(p, s) \/ ReceiverThread(p, s) \/ SocketFails(p, s)
                               \/ Stop(p, s) \/ Joined(p, s)
    BY <1>2 DEF RemoteNext
  <2>2. QED
    BY <2>1, ActorSteps, Registrations, SenderSteps, RestartKeepsInv, ReceiverSteps, HandleSteps
<1>3. QED
  BY <1>1, <1>2

LEMMA RemoteSafe == RemoteSpec => []RemoteInv
BY InitRemoteInv, RemoteStep, PTL DEF RemoteSpec

\* Every variable of Remote keeps its type, whatever is killed, stopped or started
\* again (remote.rs, serialization.rs).
THEOREM RemoteTypeCorrect == RemoteSpec => []RemoteTypeOK
BY RemoteSafe, RemoteInvImpliesType, PTL

\* After stop() has cleared the flag at most one message still reaches a mailbox
\* (remote.rs: the flag that all handles share, tested before every receive).
THEOREM StopIsAlmostFinal == RemoteSpec => []OneMessageAfterStop
<1>1. RemoteInv => OneMessageAfterStop
  <2> SUFFICES ASSUME RemoteInv, NEW p \in Procs PROVE tail[p] <= 1
    BY DEF OneMessageAfterStop
  <2>1. tail[p] \in {0, 1}
    BY DEF RemoteInv, TailOK
  <2>2. CASE tail[p] = 0
    BY <2>2
  <2>3. CASE tail[p] = 1
    BY <2>3
  <2>4. QED
    BY <2>1, <2>2, <2>3
<1>2. QED
  BY <1>1, RemoteSafe, PTL
-----------------------------------------------------------------------------
\* Who moves a receiver thread: itself, a start() and the end of the process.
LEMMA WhoMovesThreads ==
  ASSUME RemoteInv, RemoteNext, NEW q \in Procs, NEW r \in Starts, thread'[q][r] # thread[q][r]
  PROVE  Start(q, r) \/ ReceiverThread(q, r) \/ SocketFails(q, r) \/ Restart(q)
<1>1. PICK p \in Procs :
        \/ ActorStep(p) \/ RegistersLater(p) \/ SenderThread(p) \/ Restart(p)
        \/ \E a \in Actors : RegisterActor(p, a)
        \/ \E s \in Starts : \/ Start(p, s) \/ ReceiverThread(p, s) \/ SocketFails(p, s)
                             \/ Stop(p, s) \/ Joined(p, s)
  BY DEF RemoteNext
<1>2. ~ActorStep(p)
  <2>1. ASSUME NEW a, \/ Originate(p, a) \/ Ignore(p, a) \/ Reply(p, a) \/ Forward(p, a)
                      \/ Posts(p, a) \/ Misreads(p, a) \/ Ends(p, a)
        PROVE  UNCHANGED thread
    BY <2>1 DEF Originate, Ignore, Reply, Forward, Posts, Misreads, Ends, HandlerSends, Others,
                OthersButUpsets, receiverVars
  <2>2. QED
    BY <2>1 DEF ActorStep
<1>3. ~RegistersLater(p) /\ ~SenderThread(p) /\ \A a \in Actors : ~RegisterActor(p, a)
  BY DEF RegistersLater, SenderThread, TakeRequest, Connect, ConnectFails, Transmit, RegisterActor,
         receiverVars
<1>4. CASE Restart(p)
  BY <1>4 DEF Restart, RemoteInv, ThreadsOK
<1>5. CASE \E s \in Starts : \/ Start(p, s) \/ ReceiverThread(p, s) \/ SocketFails(p, s)
                             \/ Stop(p, s) \/ Joined(p, s)
  <2>1. PICK s \in Starts : \/ Start(p, s) \/ ReceiverThread(p, s) \/ SocketFails(p, s)
                            \/ Stop(p, s) \/ Joined(p, s)
    BY <1>5
  <2>2. ~Stop(p, s) /\ ~Joined(p, s)
    BY DEF Stop, Joined
  <2>3. ASSUME NEW to, NEW f, Moves(p, s, to, f) PROVE q = p /\ r = s
    BY <2>3 DEF Moves, RemoteInv, ThreadsOK
  <2>4. CASE Start(p, s)
    <3>1. q = p /\ r = s
      BY <2>4 DEF Start, RemoteInv, ThreadsOK
    <3>2. QED
      BY <2>4, <3>1
  <2>5. CASE SocketFails(p, s)
    BY <2>3, <2>5 DEF SocketFails, Leaves
  <2>6. CASE ReceiverThread(p, s)
    <3>1. \E to, f : Moves(p, s, to, f)
      BY <2>6 DEF ReceiverThread, Bind, Test, Receive, TimesOut, LookUp, TryDeserialize, Deliver,
                  SerializeReject, QueueReject, Refuse, Leaves
    <3>2. QED
      BY <2>3, <2>6, <3>1
  <2>7. QED
    BY <2>1, <2>2, <2>4, <2>5, <2>6
<1>6. QED
  BY <1>1, <1>2, <1>3, <1>4, <1>5

\* Where a thread that moves itself gets to.
LEMMA Destination ==
  ASSUME RemoteInv, NEW p \in Procs, NEW s \in Starts, NEW to, NEW f, Moves(p, s, to, f)
  PROVE  thread'[p][s] = to
BY DEF Moves, RemoteInv, ThreadsOK

LEMMA RefuseDestination ==
  ASSUME RemoteInv, NEW p \in Procs, NEW s \in Starts, Refuse(p, s)
  PROVE  \/ thread'[p][s] = "reject"
         \/ thread'[p][s] = "test" /\ InHand(p, s).sender = None
<1>1. CASE InHand(p, s).sender # None
  BY <1>1, Destination DEF Refuse
<1>2. CASE InHand(p, s).sender = None
  BY <1>2, Destination DEF Refuse
<1>3. QED
  BY <1>1, <1>2

LEMMA SettleStep == RemoteInv /\ [RemoteNext]_vars => [SettlesBeforeTheNext]_vars
<1> SUFFICES ASSUME RemoteInv, RemoteNext, NEW p \in Procs, NEW s \in Starts,
                    work[p][s] # None, thread'[p][s] = "test"
             PROVE  Settled(p, s)
  BY DEF SettlesBeforeTheNext
<1>1. thread[p][s] \in Holding
  BY DEF RemoteInv, ThreadsOK
<1>2. Start(p, s) \/ ReceiverThread(p, s) \/ SocketFails(p, s) \/ Restart(p)
  BY <1>1, WhoMovesThreads DEF Holding
<1>3. ~Start(p, s) /\ ~Restart(p) /\ ~SocketFails(p, s) /\ ~Bind(p, s) /\ ~Test(p, s)
      /\ ~Receive(p, s) /\ ~TimesOut(p, s)
  BY <1>1 DEF Start, Restart, SocketFails, Bind, Test, Receive, TimesOut, Holding, RemoteInv, ThreadsOK
<1>4. CASE LookUp(p, s)
  BY <1>4, Destination, RefuseDestination DEF LookUp, Settled, InHand
<1>5. CASE TryDeserialize(p, s)
  BY <1>5, Destination, RefuseDestination DEF TryDeserialize, Leaves, Settled, InHand
<1>6. CASE Deliver(p, s)
  <2>1. CASE InHand(p, s).receiver \in alive[p]
    <3>1. arrived' = [arrived EXCEPT ![p] = Append(@, work[p][s])]
      BY <1>6, <2>1 DEF Deliver
    <3>2. arrived[p] \in Seq(DOMAIN frames) /\ arrived'[p] = Append(arrived[p], work[p][s])
      BY <3>1 DEF RemoteInv, MailOK
    <3>3. Len(arrived[p]) + 1 \in DOMAIN arrived'[p] /\ arrived'[p][Len(arrived[p]) + 1] = work[p][s]
      BY <3>2
    <3>4. QED
      BY <3>3 DEF Settled
  <2>2. CASE InHand(p, s).receiver \notin alive[p]
    BY <2>2 DEF Settled, InHand
  <2>3. QED
    BY <2>1, <2>2
<1>7. ~SerializeReject(p, s)
  BY Destination DEF SerializeReject, Leaves
<1>8. CASE QueueReject(p, s)
  <2> DEFINE f == Written(p, InHand(p, s).sender, Reject, None, None, work[p][s])
  <2>1. f.body = Reject /\ f.re = work[p][s]
    BY DEF Written
  <2>2. frames' = Append(frames, f) /\ frames \in Seq(Frame)
    BY <1>8 DEF QueueReject, Queues, RemoteInv, FramesOK
  <2> HIDE DEF f
  <2>3. Len(frames) + 1 \in DOMAIN frames' /\ frames'[Len(frames) + 1] = f
    BY <2>2
  <2>4. QED
    BY <2>1, <2>3 DEF Settled
<1>9. QED
  BY <1>2, <1>3, <1>4, <1>5, <1>6, <1>7, <1>8 DEF ReceiverThread

\* A receiver thread is done with a message only when it has delivered or rejected
\* it, or nobody is to be told (remote.rs: handle_remote_message_async).
THEOREM NothingIsSwallowed == RemoteSpec => SettlesWhatItTakes
BY RemoteSafe, SettleStep, PTL DEF RemoteSpec, SettlesWhatItTakes
-----------------------------------------------------------------------------
\* Only a process whose registry is sound serializes, and a lock stays poisoned.
LEMMA HandlerPoison ==
  ASSUME RemoteInv, NEW q \in Procs, NEW b \in Actors, NEW p \in Procs, NEW a \in Actors,
         NEW addr, NEW t, NEW ref, NEW origin, NEW re, NEW left,
         HandlerSends(p, a, addr, t, ref, origin, re, left), poisoned[q]
  PROVE  poisoned'[q] /\ letter'[q][b] = letter[q][b]
<1>1. CASE /\ CanSend(p, t) /\ UNCHANGED serializationVars
           /\ letter' = [letter EXCEPT ![p][a] = Written(p, addr, t, ref, origin, re)]
  <2>1. p # q
    BY <1>1 DEF CanSend, Writable
  <2>2. QED
    BY <1>1, <2>1 DEF serializationVars, RemoteInv, MailOK
<1>2. CASE SendPanics(p, t) /\ UNCHANGED letter
  BY <1>2 DEF SendPanics, Poison, RemoteInv, SerializationTypeOK
<1>3. QED
  BY <1>1, <1>2 DEF HandlerSends

LEMMA ActorPoison ==
  ASSUME RemoteInv, NEW q \in Procs, NEW b \in Actors, NEW p \in Procs, ActorStep(p), poisoned[q]
  PROVE  poisoned'[q] /\ letter'[q][b] \in {letter[q][b], None}
<1>1. PICK a \in Home[p] : \/ Originate(p, a) \/ Ignore(p, a) \/ Reply(p, a) \/ Forward(p, a)
                           \/ Posts(p, a) \/ Misreads(p, a) \/ Ends(p, a)
  BY DEF ActorStep
<1>2. a \in Actors
  BY RemoteAssumption
<1>3. CASE Originate(p, a) \/ Reply(p, a) \/ Forward(p, a)
  BY <1>2, <1>3, HandlerPoison DEF Originate, Reply, Forward
<1>4. CASE Posts(p, a)
  BY <1>2, <1>4 DEF Posts, serializationVars, RemoteInv, MailOK
<1>5. CASE Ignore(p, a) \/ Misreads(p, a) \/ Ends(p, a)
  BY <1>5 DEF Ignore, Misreads, Ends, FailingRead, Poison, serializationVars, RemoteInv,
              SerializationTypeOK
<1>6. QED
  BY <1>1, <1>3, <1>4, <1>5

LEMMA PoisonStep == RemoteInv /\ [RemoteNext]_vars => [SilentWhenPoisoned]_vars
<1> SUFFICES ASSUME RemoteInv, RemoteNext, NEW q \in Procs, poisoned[q], life'[q] = life[q]
             PROVE  /\ poisoned'[q]
                    /\ \A b \in Actors : letter'[q][b] \in {letter[q][b], None}
                    /\ \A r \in Starts : thread'[q][r] \in {"deliver", "queueing"}
                                          => thread'[q][r] = thread[q][r]
  BY DEF SilentWhenPoisoned
<1>1. PICK p \in Procs :
        \/ ActorStep(p) \/ RegistersLater(p) \/ SenderThread(p) \/ Restart(p)
        \/ \E a \in Actors : RegisterActor(p, a)
        \/ \E s \in Starts : \/ Start(p, s) \/ ReceiverThread(p, s) \/ SocketFails(p, s)
                             \/ Stop(p, s) \/ Joined(p, s)
  BY DEF RemoteNext
<1>2. poisoned'[q] /\ \A b \in Actors : letter'[q][b] \in {letter[q][b], None}
  <2>1. CASE ActorStep(p)
    <3>1. poisoned'[q]
      <4>1. PICK a \in Home[p] : \/ Originate(p, a) \/ Ignore(p, a) \/ Reply(p, a) \/ Forward(p, a)
                                 \/ Posts(p, a) \/ Misreads(p, a) \/ Ends(p, a)
        BY <2>1 DEF ActorStep
      <4>2. a \in Actors
        BY RemoteAssumption
      <4>3. QED
        BY <2>1, <4>2, ActorPoison
    <3>2. QED
      BY <2>1, <3>1, ActorPoison
  <2>2. CASE RegistersLater(p)
    BY <2>2 DEF RegistersLater, RegisterName, RegisterEntry, actorVars
  <2>3. CASE SenderThread(p) \/ \E a \in Actors : RegisterActor(p, a)
    BY <2>3 DEF SenderThread, TakeRequest, Connect, ConnectFails, Transmit, RegisterActor,
                serializationVars, actorVars
  <2>4. CASE Restart(p)
    <3>1. life[p] \in Nat /\ life' = [life EXCEPT ![p] = @ + 1]
      BY <2>4 DEF Restart, RemoteInv, ProcessOK
    <3>2. p # q
      BY <3>1 DEF RemoteInv, ProcessOK
    <3>3. QED
      BY <2>4, <3>2 DEF Restart, ResetRegistry, RemoteInv, SerializationTypeOK, MailOK
  <2>5. ASSUME NEW s \in Starts, ReceiverThread(p, s)
        PROVE  poisoned'[q] /\ UNCHANGED letter
    <3>1. CASE SerializeReject(p, s)
      BY <3>1 DEF SerializeReject, SendPanics, Poison, RemoteInv, SerializationTypeOK,
                  serializationVars, actorVars
    <3>2. CASE TryDeserialize(p, s)
      <4>1. poisoned' = poisoned \/ Poison(p)
        BY <3>2 DEF TryDeserialize, FailingRead, serializationVars
      <4>2. QED
        BY <3>2, <4>1 DEF TryDeserialize, Poison, RemoteInv, SerializationTypeOK, actorVars
    <3>3. QED
      BY <2>5, <3>1, <3>2 DEF ReceiverThread, Bind, Test, Receive, TimesOut, LookUp, Deliver,
                              QueueReject, serializationVars, actorVars
  <2>6. ASSUME NEW s \in Starts, Start(p, s) \/ SocketFails(p, s) \/ Stop(p, s) \/ Joined(p, s)
        PROVE  poisoned'[q] /\ UNCHANGED letter
    BY <2>6 DEF Start, SocketFails, Stop, Joined, serializationVars, actorVars
  <2>7. QED
    BY <1>1, <2>1, <2>2, <2>3, <2>4, <2>5, <2>6
<1>3. ASSUME NEW r \in Starts, thread'[q][r] \in {"deliver", "queueing"},
             thread'[q][r] # thread[q][r] PROVE FALSE
  <2>1. Start(q, r) \/ ReceiverThread(q, r) \/ SocketFails(q, r) \/ Restart(q)
    BY <1>3, WhoMovesThreads
  <2>2. ~Start(q, r) /\ ~Restart(q)
    BY <1>3 DEF Start, Restart, RemoteInv, ThreadsOK
  <2>3. ~SocketFails(q, r) /\ ~Bind(q, r) /\ ~Test(q, r) /\ ~Receive(q, r) /\ ~TimesOut(q, r)
    BY <1>3, Destination DEF SocketFails, Leaves, Bind, Test, Receive, TimesOut
  <2>4. ~LookUp(q, r) /\ ~Deliver(q, r) /\ ~QueueReject(q, r)
    BY <1>3, Destination, RefuseDestination DEF LookUp, Deliver, QueueReject
  <2>5. ~TryDeserialize(q, r) /\ ~SerializeReject(q, r)
    BY <1>3, Destination DEF TryDeserialize, ReadPanics, SerializeReject, CanSend, Writable, Leaves
  <2>6. QED
    BY <2>1, <2>2, <2>3, <2>4, <2>5 DEF ReceiverThread
<1>4. QED
  BY <1>2, <1>3

\* A process whose registry is poisoned serializes nothing and accepts nothing until
\* it is started anew (serialization.rs: lock().unwrap()).
THEOREM PoisonSilences == RemoteSpec => PoisonIsForLife
BY RemoteSafe, PoisonStep, PTL DEF RemoteSpec, PoisonIsForLife
=============================================================================
