------------------------- MODULE RemoteOrderProofs -------------------------
(***************************************************************************)
(* Proofs that messages between processes keep their order, are delivered  *)
(* or rejected once at most, and that answers go to whoever asked; and     *)
(* that Remote implements LossyChannels.                                   *)
(*                                                                         *)
(* A frame goes through five stages: the queue of its sender, the hands of *)
(* the sender thread, a wire, the hands of a receiver thread, and then it  *)
(* is done with, delivered or rejected.  OrderInv says that of two frames  *)
(* of one link the earlier one is in the later stage, that every stage is  *)
(* in order in itself, and that every frame is where its link goes.        *)
(***************************************************************************)
EXTENDS RemoteProofs, RemoteRefinement, FiniteSetTheorems

In(seq) == {seq[k] : k \in DOMAIN seq}

Rejects == {j \in DOMAIN frames : frames[j].body = Reject}

\* The stages, last one first.
Done    == {i \in Nat : \/ \E p \in Procs : i \in In(arrived[p])
                        \/ \E j \in Rejects : frames[j].re = i}
Worked  == {i \in Nat : \E p \in Procs, s \in Starts : work[p][s] = i}
Wired   == {i \in Nat : \E p \in Procs, l \in Lives : i \in In(wire[p][l])}
Current == {i \in Nat : \E p \in Procs : current[p] = i}
Queued  == {i \in Nat : \E p \in Procs : i \in In(queue[p])}

Stages == <<Done, Worked, Wired, Current, Queued>>

\* Of two numbers on one link, the smaller one is in the earlier of the sets S.
Ordered(S, link) ==
  \A m, n \in 1 .. 5 : m < n =>
    \A i \in S[m], j \in S[n] : link[i] = link[j] => i < j

Increasing(seq) == \A j, k \in DOMAIN seq : j < k => seq[j] < seq[k]

SortedOK ==
  /\ \A p \in Procs : Increasing(queue[p])
  /\ \A p \in Procs, l \in Lives : Increasing(wire[p][l])
  /\ ArriveInSendOrder

\* Every frame is at the process where its link begins, or ends.
PlacedOK ==
  /\ \A p \in Procs : \A k \in DOMAIN queue[p] :
       frames[queue[p][k]].src[1] = p /\ frames[queue[p][k]].src[2] = life[p]
  /\ \A p \in Procs : current[p] # None =>
       frames[current[p]].src[1] = p /\ frames[current[p]].src[2] = life[p]
  /\ \A p \in Procs, l \in Lives : \A k \in DOMAIN wire[p][l] :
       frames[wire[p][l][k]].src = l /\ frames[wire[p][l][k]].to = p
  /\ \A p \in Procs, s \in Starts : work[p][s] # None => frames[work[p][s]].to = p
  /\ \A p \in Procs : \A k \in DOMAIN arrived[p] : frames[arrived[p][k]].to = p

\* What answers what: a frame with a sender goes on behalf of that sender, and
\* an answer is addressed to the sender of what it answers.
AnswersOK ==
  /\ \A i \in DOMAIN frames :
       frames[i].sender # None => /\ frames[i].origin = frames[i].sender
                                  /\ frames[i].body # Reject
  /\ \A i \in DOMAIN frames :
       frames[i].re # 0 =>
         /\ frames[i].re \in DOMAIN frames
         /\ frames[frames[i].re].origin = [actor |-> frames[i].receiver, endpoint |-> frames[i].to]
  /\ \A j \in Rejects : frames[j].re \in DOMAIN frames

\* Delivered once, or rejected once.
OnceOK ==
  /\ \A p \in Procs : \A j, k \in DOMAIN arrived[p] : arrived[p][j] = arrived[p][k] => j = k
  /\ \A j \in Rejects, p \in Procs : frames[j].re \notin In(arrived[p])
  /\ \A j, k \in Rejects : frames[j].re = frames[k].re => j = k

OrderInv == /\ RemoteInv /\ SortedOK /\ PlacedOK /\ AnswersOK /\ OnceOK
            /\ Ordered(Stages, Over)

\* What has been serialized and not yet queued: an actor's own message, or its
\* answer to a frame there is.
LettersOK ==
  \A p \in Procs, a \in Actors :
    LET f == letter[p][a] IN
      f # None =>
        /\ f.src = <<p, life[p]>> /\ f.body # Reject /\ f.sender \in {None, f.origin}
        /\ f.re # 0 => /\ f.re \in DOMAIN frames
                       /\ frames[f.re].origin = [actor |-> f.receiver, endpoint |-> f.to]

\* From the sets S to the sets T, the numbers I move on from the stage n, others
\* disappear, and new ones J come in at the end of the line.
Advances(S, T, link, new_link, N, n, I, J) ==
  /\ N \in SUBSET Nat /\ J \in SUBSET Nat /\ n \in 2 .. 5
  /\ \A m \in 1 .. 5 : \A i \in S[m] : i \in N
  /\ \A i \in I : i \in S[n]
  /\ \A i \in N : new_link[i] = link[i]
  /\ \A i \in N, j \in J : i < j
  /\ \A m \in 1 .. 5 : \A i \in T[m] : i \in S[m] \/ (m = n - 1 /\ i \in I) \/ (m = 5 /\ i \in J)
  /\ \A i \in I, j \in T[n] : j \notin J /\ link[i] = link[j] => i < j

LEMMA Progress ==
  ASSUME NEW S, NEW T, NEW link, NEW new_link, NEW N, NEW n, NEW I, NEW J,
         Advances(S, T, link, new_link, N, n, I, J), Ordered(S, link)
  PROVE  Ordered(T, new_link)
<1> USE DEF Advances
<1> SUFFICES ASSUME NEW m \in 1 .. 5, NEW k \in 1 .. 5, m < k,
                    NEW i \in T[m], NEW j \in T[k], new_link[i] = new_link[j]
             PROVE  i < j
  BY DEF Ordered
<1>1. i \in N
  OBVIOUS
<1>2. CASE j \in J
  BY <1>1, <1>2
<1>3. CASE j \notin J
  <2>1. j \in N /\ link[i] = link[j]
    <3>1. j \in S[k] \/ j \in I
      BY <1>3
    <3>2. j \in N
      BY <3>1
    <3>3. QED
      BY <1>1, <3>2
  <2>2. CASE i \in S[m] /\ j \in S[k]
    BY <2>1, <2>2 DEF Ordered
  <2>3. CASE i \in S[m] /\ k = n - 1 /\ j \in I
    BY <2>1, <2>3 DEF Ordered
  <2>4. CASE m = n - 1 /\ i \in I /\ j \in S[k]
    <3>1. CASE k = n
      BY <1>3, <2>1, <2>4, <3>1
    <3>2. CASE k > n
      BY <2>1, <2>4, <3>2 DEF Ordered
    <3>3. QED
      BY <2>4, <3>1, <3>2
  <2>5. QED
    BY <1>3, <2>2, <2>3, <2>4
<1>4. QED
  BY <1>2, <1>3
-----------------------------------------------------------------------------
\* What a step does to the frames: it loses some on their way ...
Fades ==
  /\ UNCHANGED <<frames, arrived>>
  /\ \A p \in Procs :
       /\ queue'[p] \in {queue[p], <<>>} /\ current'[p] \in {current[p], None}
       /\ life'[p] = life[p] \/ (queue'[p] = <<>> /\ current'[p] = None)
       /\ \A l \in Lives : wire'[p][l] \in {wire[p][l], <<>>}
       /\ \A s \in Starts : work'[p][s] \in {work[p][s], None}

\* ... or it queues one,
Submits(p, f) ==
  /\ f \in Frame /\ f.src = <<p, life[p]>>
  /\ frames' = Append(frames, f)
  /\ queue'  = [queue EXCEPT ![p] = Append(@, Len(frames) + 1)]
  /\ UNCHANGED <<current, wire, arrived, life>>

HandlerSubmits(p, f) ==
  /\ Submits(p, f) /\ UNCHANGED work
  /\ f.body # Reject /\ f.sender \in {None, f.origin}
  /\ f.re # 0 => /\ f.re \in DOMAIN frames
                 /\ frames[f.re].origin = [actor |-> f.receiver, endpoint |-> f.to]

Rejected(p, s, f) ==
  /\ thread[p][s] = "queueing" /\ Submits(p, f)
  /\ work' = [work EXCEPT ![p][s] = None]
  /\ f.body = Reject /\ f.sender = None /\ f.re = work[p][s]
  /\ InHand(p, s).sender = [actor |-> f.receiver, endpoint |-> f.to]

\* ... or moves one on.
Taken(p) ==
  /\ current[p] = None /\ queue[p] # <<>>
  /\ current' = [current EXCEPT ![p] = Head(queue[p])]
  /\ queue'   = [queue EXCEPT ![p] = Tail(@)]
  /\ UNCHANGED <<frames, wire, work, arrived, life>>

Transmitted(p) ==
  /\ current[p] # None
  /\ current' = [current EXCEPT ![p] = None]
  /\ wire' = [wire EXCEPT ![Dest(p)][<<p, life[p]>>] = Append(@, current[p])]
  /\ UNCHANGED <<frames, queue, work, arrived, life>>

Received(p, s, l) ==
  /\ thread[p][s] = "recv" /\ wire[p][l] # <<>>
  /\ work' = [work EXCEPT ![p][s] = Head(wire[p][l])]
  /\ wire' = [wire EXCEPT ![p][l] = Tail(@)]
  /\ UNCHANGED <<frames, queue, current, arrived, life>>

Delivered(p, s) ==
  /\ thread[p][s] = "deliver"
  /\ work'    = [work EXCEPT ![p][s] = None]
  /\ arrived' = [arrived EXCEPT ![p] = Append(@, work[p][s])]
  /\ UNCHANGED <<frames, queue, current, wire, life>>

Event ==
  \/ Fades
  \/ \E p \in Procs : \/ Taken(p) \/ Transmitted(p)
                      \/ \E f \in Frame : HandlerSubmits(p, f)
                      \/ \E s \in Starts, f \in Frame : Rejected(p, s, f)
                      \/ \E s \in Starts, l \in Lives : Received(p, s, l)
                      \/ \E s \in Starts : Delivered(p, s)

LEMMA NothingMoves ==
  ASSUME UNCHANGED <<frames, arrived, queue, current, wire, work, life>> PROVE Fades
BY DEF Fades

\* A handler serializes a message, and nothing moves, or it queues one.
LEMMA HandlerEvents ==
  ASSUME NEW p, NEW a, NEW addr, NEW t, NEW ref, NEW origin, NEW re, NEW left,
         HandlerSends(p, a, addr, t, ref, origin, re, left)
  PROVE  Event
BY NothingMoves DEF HandlerSends, SendPanics, Others, OthersButUpsets, receiverVars, processVars, Event

LEMMA QueueEvents ==
  ASSUME NEW p \in Procs, NEW f \in Frame, Queues(p, f), UNCHANGED Others,
         f.src = <<p, life[p]>>, f.body # Reject, f.sender \in {None, f.origin},
         f.re # 0 => /\ f.re \in DOMAIN frames
                     /\ frames[f.re].origin = [actor |-> f.receiver, endpoint |-> f.to]
  PROVE  Event
<1>1. UNCHANGED <<current, wire, work, arrived, life>>
  BY DEF Others, OthersButUpsets, receiverVars, processVars
<1>2. Submits(p, f)
  BY <1>1 DEF Submits, Queues, Enqueued
<1>3. HandlerSubmits(p, f)
  BY <1>1, <1>2 DEF HandlerSubmits
<1>4. QED
  BY <1>3 DEF Event

LEMMA PostsEvents ==
  ASSUME RemoteInv, LettersOK, NEW p \in Procs, NEW a \in Actors, Posts(p, a) PROVE Event
<1>1. letter[p][a] \in Frame
  BY DEF Posts, RemoteInv, MailOK
<1>2. QED
  BY <1>1, QueueEvents DEF Posts, LettersOK

\* A step that changes no letter posts none.
LEMMA ActorEvents ==
  ASSUME RemoteInv, LettersOK \/ UNCHANGED letter, NEW p \in Procs, ActorStep(p) PROVE Event
<1>1. PICK a \in Home[p] : \/ Originate(p, a) \/ Ignore(p, a) \/ Reply(p, a) \/ Forward(p, a)
                           \/ Posts(p, a) \/ Misreads(p, a) \/ Ends(p, a)
  BY DEF ActorStep
<1>2. a \in Actors
  BY RemoteAssumption
<1>3. CASE Originate(p, a) \/ Reply(p, a) \/ Forward(p, a)
  BY <1>3, HandlerEvents DEF Originate, Reply, Forward
<1>4. CASE Ignore(p, a) \/ Misreads(p, a) \/ Ends(p, a)
  BY <1>4, NothingMoves
     DEF Ignore, Misreads, Ends, Others, OthersButUpsets, receiverVars, processVars, Event
<1>5. CASE Posts(p, a)
  <2>1. letter' # letter
    BY <1>2, <1>5 DEF Posts, RemoteInv, MailOK
  <2>2. QED
    BY <1>2, <1>5, <2>1, PostsEvents
<1>6. QED
  BY <1>1, <1>3, <1>4, <1>5

LEMMA SenderEvents == ASSUME RemoteInv, NEW p \in Procs, SenderThread(p) PROVE Event
<1>1. CASE TakeRequest(p)
  <2>1. Taken(p)
    BY <1>1 DEF TakeRequest, Taken, actorVars, receiverVars, processVars
  <2>2. QED
    BY <2>1 DEF Event
<1>2. CASE Connect(p)
  BY <1>2, NothingMoves DEF Connect, actorVars, receiverVars, processVars, Event
<1>3. CASE ConnectFails(p)
  <2>1. \A q \in Procs : current'[q] \in {current[q], None}
    BY <1>3 DEF ConnectFails, AfterFailure, RemoteInv, SenderOK
  <2>2. Fades
    BY <1>3, <2>1 DEF ConnectFails, actorVars, receiverVars, processVars, Fades
  <2>3. QED
    BY <2>2 DEF Event
<1>4. CASE Transmit(p)
  <2>1. current' = [current EXCEPT ![p] = None] /\ current[p] # None
        /\ UNCHANGED <<frames, queue, work, arrived, life>>
    BY <1>4 DEF Transmit, AfterSend, actorVars, receiverVars, processVars
  <2>2. CASE UNCHANGED wire
    <3>1. \A q \in Procs : current'[q] \in {current[q], None}
      BY <2>1 DEF RemoteInv, SenderOK
    <3>2. Fades
      BY <2>1, <2>2, <3>1 DEF Fades
    <3>3. QED
      BY <3>2 DEF Event
  <2>3. CASE wire' = [wire EXCEPT ![Dest(p)][<<p, life[p]>>] = Append(@, current[p])]
    BY <2>1, <2>3 DEF Transmitted, Event
  <2>4. QED
    BY <1>4, <2>2, <2>3 DEF Transmit
<1>5. QED
  BY <1>1, <1>2, <1>3, <1>4 DEF SenderThread

\* A receiver thread that is done with a frame, or closes its socket, at most loses.
LEMMA DropFades ==
  ASSUME RemoteInv, NEW p \in Procs, NEW s \in Starts,
         UNCHANGED <<frames, arrived, queue, current, life>>,
         UNCHANGED work \/ work' = [work EXCEPT ![p][s] = None],
         UNCHANGED wire \/ Close(p)
  PROVE  Event
<1>1. \A q \in Procs, r \in Starts : work'[q][r] \in {work[q][r], None}
  BY DEF RemoteInv, ThreadsOK
<1>2. \A q \in Procs, l \in Lives : wire'[q][l] \in {wire[q][l], <<>>}
  <2>1. wire \in [Procs -> [Lives -> Seq(DOMAIN frames)]]
    BY DEF RemoteInv, WireOK
  <2>2. CASE wire' = [wire EXCEPT ![p] = [l \in Lives |-> <<>>]]
    BY <2>1, <2>2
  <2>3. QED
    BY <2>2 DEF Close
<1>3. Fades
  BY <1>1, <1>2 DEF Fades
<1>4. QED
  BY <1>3 DEF Event

LEMMA RefuseWork ==
  ASSUME RemoteInv, NEW p \in Procs, NEW s \in Starts, Refuse(p, s)
  PROVE  UNCHANGED work \/ work' = [work EXCEPT ![p][s] = None]
<1>1. work = [work EXCEPT ![p][s] = work[p][s]]
  BY DEF RemoteInv, ThreadsOK
<1>2. QED
  BY <1>1 DEF Refuse, Moves

LEMMA ReceiverEvents ==
  ASSUME RemoteInv, NEW p \in Procs, NEW s \in Starts, ReceiverThread(p, s) PROVE Event
<1>1. work = [work EXCEPT ![p][s] = work[p][s]]
  BY DEF RemoteInv, ThreadsOK
<1>2. CASE Bind(p, s) \/ Test(p, s) \/ TimesOut(p, s)
  BY <1>2, DropFades DEF Bind, Test, TimesOut, Moves, Leaves, actorVars, senderVars, processVars
<1>3. CASE LookUp(p, s)
  BY <1>1, <1>3, DropFades, RefuseWork DEF LookUp, Moves, actorVars, senderVars, processVars
<1>4. CASE TryDeserialize(p, s)
  <2>1. UNCHANGED <<frames, arrived, queue, current, life>>
    BY <1>4 DEF TryDeserialize, actorVars, processVars
  <2>2. UNCHANGED work \/ work' = [work EXCEPT ![p][s] = None]
    BY <1>1, <1>4, RefuseWork DEF TryDeserialize, Moves, Leaves
  <2>3. UNCHANGED wire \/ Close(p)
    BY <1>4 DEF TryDeserialize, Leaves
  <2>4. QED
    BY <2>1, <2>2, <2>3, DropFades
<1>5. CASE Receive(p, s)
  <2>1. PICK l \in Lives : Received(p, s, l)
    BY <1>5 DEF Receive, Received, Moves, actorVars, senderVars, processVars
  <2>2. QED
    BY <2>1 DEF Event
<1>6. CASE Deliver(p, s)
  <2>1. CASE InHand(p, s).receiver \in alive[p]
    <3>1. Delivered(p, s)
      BY <1>6, <2>1 DEF Deliver, Delivered, Moves, senderVars, processVars
    <3>2. QED
      BY <3>1 DEF Event
  <2>2. CASE InHand(p, s).receiver \notin alive[p]
    BY <1>6, <2>2, DropFades DEF Deliver, Moves, senderVars, processVars
  <2>3. QED
    BY <2>1, <2>2
<1>7. CASE SerializeReject(p, s)
  <2>1. UNCHANGED <<arrived, current, life>>
    BY <1>7 DEF SerializeReject, actorVars, processVars
  <2>2. CASE SendPanics(p, Reject) /\ Leaves(p, s, "panicked")
    BY <2>1, <2>2, DropFades DEF SendPanics, Leaves, Moves
  <2>3. CASE Moves(p, s, "queueing", work[p][s]) /\ UNCHANGED <<frames, queue, wire>>
    BY <1>1, <2>1, <2>3, DropFades DEF Moves
  <2>4. QED
    BY <1>7, <2>2, <2>3 DEF SerializeReject
<1>8. CASE QueueReject(p, s)
  <2> DEFINE addr == InHand(p, s).sender
             f == Written(p, addr, Reject, None, None, work[p][s])
  <2>1. /\ thread[p][s] = "queueing" /\ Queues(p, f) /\ Moves(p, s, "test", None)
        /\ UNCHANGED <<arrived, current, wire, life>>
    BY <1>8 DEF QueueReject, actorVars, processVars
  <2>2. InHand(p, s) \in Frame /\ work[p][s] \in Nat
    BY <2>1, InHandIsFrame DEF Holding
  <2>3. addr # None
    BY <2>1 DEF RemoteInv, ThreadsOK, InHand, Refusing
  <2>4. addr \in Addresses
    BY <2>2, <2>3 DEF Frame
  <2>5. SenderInfo(p, None) = None /\ Reject \in Types
    BY RemoteAssumption DEF SenderInfo
  <2>6. f \in Frame
    BY <2>2, <2>4, <2>5, WrittenIsFrame
  <2>7. /\ f.src = <<p, life[p]>> /\ f.body = Reject /\ f.sender = None /\ f.re = work[p][s]
        /\ addr = [actor |-> f.receiver, endpoint |-> f.to]
    BY <2>4, <2>5 DEF Written, Addresses
  <2> HIDE DEF f
  <2>8. Submits(p, f)
    BY <2>1, <2>6, <2>7 DEF Submits, Queues, Enqueued
  <2>9. Rejected(p, s, f)
    BY <2>1, <2>7, <2>8 DEF Rejected, Moves
  <2>10. QED
    BY <2>6, <2>9 DEF Event
<1>9. QED
  BY <1>2, <1>3, <1>4, <1>5, <1>6, <1>7, <1>8 DEF ReceiverThread

LEMMA RestartEvents == ASSUME RemoteInv, NEW p \in Procs, Restart(p) PROVE Event
<1>1. UNCHANGED <<frames, arrived>>
  BY DEF Restart
<1>2. \A q \in Procs : queue'[q] \in {queue[q], <<>>} /\ current'[q] \in {current[q], None}
  BY DEF Restart, RemoteInv, SenderOK
<1>3. \A q \in Procs, l \in Lives : wire'[q][l] \in {wire[q][l], <<>>}
  BY DEF Restart, RemoteInv, WireOK
<1>4. \A q \in Procs, r \in Starts : work'[q][r] \in {work[q][r], None}
  BY DEF Restart, RemoteInv, ThreadsOK
<1>5. \A q \in Procs : life'[q] = life[q] \/ (queue'[q] = <<>> /\ current'[q] = None)
  BY DEF Restart, RemoteInv, SenderOK, ProcessOK
<1>6. Fades
  BY <1>1, <1>2, <1>3, <1>4, <1>5 DEF Fades
<1>7. QED
  BY <1>6 DEF Event

\* Whatever happens is one of these.
LEMMA Events ==
  ASSUME RemoteInv, LettersOK \/ UNCHANGED letter, [RemoteNext]_vars PROVE Event
<1>1. CASE UNCHANGED vars
  BY <1>1, NothingMoves DEF vars, actorVars, senderVars, receiverVars, processVars, Event
<1>2. CASE RemoteNext
  <2>1. PICK p \in Procs :
          \/ ActorStep(p) \/ RegistersLater(p) \/ SenderThread(p) \/ Restart(p)
          \/ \E a \in Actors : RegisterActor(p, a)
          \/ \E s \in Starts : \/ Start(p, s) \/ ReceiverThread(p, s) \/ SocketFails(p, s)
                               \/ Stop(p, s) \/ Joined(p, s)
    BY <1>2 DEF RemoteNext
  <2>2. CASE RegistersLater(p) \/ \E a \in Actors : RegisterActor(p, a)
    BY <2>2, NothingMoves
       DEF RegistersLater, RegisterActor, actorVars, senderVars, receiverVars, processVars, Event
  <2>3. ASSUME NEW s \in Starts, Start(p, s) \/ Stop(p, s) \/ Joined(p, s) PROVE Event
    BY <2>3, NothingMoves DEF Start, Stop, Joined, actorVars, senderVars, processVars, Event
  <2>4. ASSUME NEW s \in Starts, SocketFails(p, s) PROVE Event
    BY <2>4, DropFades DEF SocketFails, Leaves, Moves, actorVars, processVars
  <2>5. QED
    BY <2>1, <2>2, <2>3, <2>4, ActorEvents, SenderEvents, ReceiverEvents, RestartEvents
<1>3. QED
  BY <1>1, <1>2
-----------------------------------------------------------------------------
\* What is in a stage is a frame, and its link never changes.
LEMMA StagesHoldFrames ==
  ASSUME OrderInv PROVE \A m \in 1 .. 5 : \A i \in Stages[m] : i \in DOMAIN frames
<1> USE DEF OrderInv, RemoteInv
<1>1. None \notin DOMAIN frames /\ None \notin Nat
  BY RemoteAssumption DEF FramesOK
<1>2. \A i \in Done : i \in DOMAIN frames
  BY DEF Done, In, MailOK, AnswersOK
<1>3. \A i \in Worked : i \in DOMAIN frames
  BY <1>1 DEF Worked, ThreadsOK
<1>4. \A i \in Wired : i \in DOMAIN frames
  BY DEF Wired, In, WireOK
<1>5. \A i \in Current : i \in DOMAIN frames
  BY <1>1 DEF Current, SenderOK
<1>6. \A i \in Queued : i \in DOMAIN frames
  BY DEF Queued, In, SenderOK
<1>7. QED
  BY <1>2, <1>3, <1>4, <1>5, <1>6 DEF Stages

LEMMA LinksStay == ASSUME FramesOK, Grows PROVE \A i \in DOMAIN frames : Over'[i] = Over[i]
BY DEF Over, Grows

\* The stages of Remote advance like that.
StagesAdvance(n, I, J) ==
  /\ n \in 2 .. 5 /\ J \in SUBSET Nat
  /\ \A i \in DOMAIN frames, j \in J : i < j
  /\ \A i \in I : i \in Stages[n]
  /\ \A i \in Done'    : i \in Done    \/ (n = 2 /\ i \in I)
  /\ \A i \in Worked'  : i \in Worked  \/ (n = 3 /\ i \in I)
  /\ \A i \in Wired'   : i \in Wired   \/ (n = 4 /\ i \in I)
  /\ \A i \in Current' : i \in Current \/ (n = 5 /\ i \in I)
  /\ \A i \in Queued'  : i \in Queued  \/ i \in J
  /\ \A i \in I, j \in Stages'[n] : j \notin J /\ Over[i] = Over[j] => i < j

LEMMA StagesProgress ==
  ASSUME OrderInv, Grows, NEW n, NEW I, NEW J, StagesAdvance(n, I, J)
  PROVE  Ordered(Stages, Over)'
<1>1. DOMAIN frames \in SUBSET Nat
  BY DEF OrderInv, RemoteInv, FramesOK
<1>2. \A m \in 1 .. 5 : \A i \in Stages[m] : i \in DOMAIN frames
  BY StagesHoldFrames
<1>3. \A i \in DOMAIN frames : Over'[i] = Over[i]
  BY LinksStay DEF OrderInv, RemoteInv
<1>4. \A m \in 1 .. 5 : \A i \in Stages'[m] :
        i \in Stages[m] \/ (m = n - 1 /\ i \in I) \/ (m = 5 /\ i \in J)
  <2> SUFFICES ASSUME NEW m \in 1 .. 5, NEW i \in Stages'[m]
               PROVE  i \in Stages[m] \/ (m = n - 1 /\ i \in I) \/ (m = 5 /\ i \in J)
    OBVIOUS
  <2>1. CASE m = 1
    BY <2>1 DEF Stages, StagesAdvance
  <2>2. CASE m = 2
    BY <2>2 DEF Stages, StagesAdvance
  <2>3. CASE m = 3
    BY <2>3 DEF Stages, StagesAdvance
  <2>4. CASE m = 4
    BY <2>4 DEF Stages, StagesAdvance
  <2>5. CASE m = 5
    BY <2>5 DEF Stages, StagesAdvance
  <2>6. QED
    BY <2>1, <2>2, <2>3, <2>4, <2>5
<1>5. Ordered(Stages, Over)
  BY DEF OrderInv
<1>6. Advances(Stages, Stages', Over, Over', DOMAIN frames, n, I, J)
  BY <1>1, <1>2, <1>3, <1>4 DEF Advances, StagesAdvance
<1>7. Ordered(Stages', Over')
  BY <1>5, <1>6, Progress
<1>8. QED
  BY <1>7 DEF Ordered

\* What has been done with stays done with, while there are no new frames.
LEMMA DoneStays == ASSUME UNCHANGED <<frames, arrived>> PROVE Done' = Done /\ Rejects' = Rejects
BY DEF Done, Rejects

\* What depends on frames and arrivals only.
LEMMA AnswersStay ==
  ASSUME AnswersOK, OnceOK, UNCHANGED <<frames, arrived>> PROVE AnswersOK' /\ OnceOK'
BY DEF AnswersOK, OnceOK, Rejects

LEMMA FadeKeepsOrder == ASSUME OrderInv, RemoteInv', Fades PROVE OrderInv'
<1> USE DEF OrderInv
<1>1. UNCHANGED <<frames, arrived>> /\ Grows
  BY NoNewFrames DEF Fades
<1>2. SortedOK'
  <2>1. \A p \in Procs : Increasing(queue'[p])
    BY DEF Fades, SortedOK, Increasing
  <2>2. \A p \in Procs, l \in Lives : Increasing(wire'[p][l])
    BY DEF Fades, SortedOK, Increasing
  <2>3. ArriveInSendOrder'
    BY <1>1 DEF SortedOK, ArriveInSendOrder
  <2>4. QED
    BY <2>1, <2>2, <2>3 DEF SortedOK, Increasing
<1>3. PlacedOK'
  BY <1>1 DEF Fades, PlacedOK
<1>4. AnswersOK' /\ OnceOK'
  BY <1>1, AnswersStay
<1>5. Ordered(Stages, Over)'
  <2>1. Done' = Done
    BY <1>1, DoneStays
  <2>2. /\ \A i \in Queued' : i \in Queued
        /\ \A i \in Current' : i \in Current
        /\ \A i \in Wired' : i \in Wired
        /\ \A i \in Worked' : i \in Worked
    <3>1. None \notin Nat
      BY RemoteAssumption
    <3>2. QED
      BY <3>1 DEF Fades, Queued, Current, Wired, Worked, In
  <2>3. StagesAdvance(2, {}, {})
    BY <2>1, <2>2 DEF StagesAdvance
  <2>4. QED
    BY <1>1, <2>3, StagesProgress
<1>6. QED
  BY <1>2, <1>3, <1>4, <1>5
-----------------------------------------------------------------------------
\* Every place is in its stage.
LEMMA Positions ==
  ASSUME OrderInv
  PROVE  /\ \A p \in Procs : \A k \in DOMAIN queue[p] : queue[p][k] \in Queued
         /\ \A p \in Procs : current[p] # None => current[p] \in Current
         /\ \A p \in Procs, l \in Lives : \A k \in DOMAIN wire[p][l] : wire[p][l][k] \in Wired
         /\ \A p \in Procs, s \in Starts : work[p][s] # None => work[p][s] \in Worked
         /\ \A p \in Procs : \A k \in DOMAIN arrived[p] : arrived[p][k] \in Done
         /\ \A j \in Rejects : frames[j].re \in Done
<1> USE DEF OrderInv, RemoteInv
<1>1. DOMAIN frames \subseteq Nat
  BY DEF FramesOK
<1>2. ASSUME NEW s \in Seq(DOMAIN frames), NEW k \in DOMAIN s PROVE s[k] \in Nat /\ s[k] \in In(s)
  BY <1>1 DEF In
<1>3. \A p \in Procs : \A k \in DOMAIN queue[p] : queue[p][k] \in Queued
  BY <1>2 DEF Queued, SenderOK
<1>4. \A p \in Procs : current[p] # None => current[p] \in Current
  BY <1>1 DEF Current, SenderOK
<1>5. \A p \in Procs, l \in Lives : \A k \in DOMAIN wire[p][l] : wire[p][l][k] \in Wired
  BY <1>2 DEF Wired, WireOK
<1>6. \A p \in Procs, s \in Starts : work[p][s] # None => work[p][s] \in Worked
  BY <1>1 DEF Worked, ThreadsOK
<1>7. \A p \in Procs : \A k \in DOMAIN arrived[p] : arrived[p][k] \in Done
  BY <1>2 DEF Done, MailOK
<1>8. \A j \in Rejects : frames[j].re \in Done
  BY <1>1 DEF Done, AnswersOK
<1>9. QED
  BY <1>3, <1>4, <1>5, <1>6, <1>7, <1>8

\* The tail of a sequence is the sequence from its second element on.
LEMMA TailIndices ==
  ASSUME NEW S, NEW s \in Seq(S), s # <<>>
  PROVE  /\ 1 \in DOMAIN s /\ Head(s) = s[1]
         /\ \A k \in DOMAIN Tail(s) : k + 1 \in DOMAIN s /\ Tail(s)[k] = s[k + 1] /\ 1 < k + 1
         /\ DOMAIN Tail(s) \subseteq Nat
OBVIOUS

\* Appending something greater keeps a sequence increasing.
LEMMA IncreasingAppend ==
  ASSUME NEW s \in Seq(Nat), Increasing(s), NEW i \in Nat, \A k \in DOMAIN s : s[k] < i
  PROVE  Increasing(Append(s, i))
BY DEF Increasing

LEMMA IncreasingTail ==
  ASSUME NEW s \in Seq(Nat), s # <<>>, Increasing(s)
  PROVE  /\ Increasing(Tail(s)) /\ \A k \in DOMAIN Tail(s) : Head(s) < Tail(s)[k]
BY TailIndices DEF Increasing

LEMMA NumbersAreNats ==
  ASSUME FramesOK, NEW s \in Seq(DOMAIN frames) PROVE s \in Seq(Nat)
BY DEF FramesOK

\* Two frames of one link.
LEMMA SameLink ==
  ASSUME NEW i \in DOMAIN frames, NEW j \in DOMAIN frames, Over[i] = Over[j]
  PROVE  frames[i].src = frames[j].src /\ frames[i].to = frames[j].to
BY DEF Over

LEMMA TakenKeepsOrder == ASSUME OrderInv, RemoteInv', NEW p \in Procs, Taken(p) PROVE OrderInv'
<1> USE DEF OrderInv
<1> DEFINE i == Head(queue[p])
<1>1. UNCHANGED <<frames, wire, work, arrived, life>> /\ Grows
  BY NoNewFrames DEF Taken
<1>2. queue[p] \in Seq(DOMAIN frames) /\ queue[p] \in Seq(Nat) /\ queue[p] # <<>>
  BY NumbersAreNats DEF Taken, RemoteInv, SenderOK
<1>3. /\ \A q \in Procs : queue'[q] = IF q = p THEN Tail(queue[p]) ELSE queue[q]
      /\ \A q \in Procs : current'[q] = IF q = p THEN i ELSE current[q]
  BY DEF Taken, RemoteInv, SenderOK
<1>4. /\ 1 \in DOMAIN queue[p] /\ i = queue[p][1]
      /\ \A k \in DOMAIN Tail(queue[p]) :
           k + 1 \in DOMAIN queue[p] /\ Tail(queue[p])[k] = queue[p][k + 1]
  BY <1>2, TailIndices
<1>5. Increasing(Tail(queue[p])) /\ \A k \in DOMAIN Tail(queue[p]) : i < Tail(queue[p])[k]
  BY <1>2, IncreasingTail DEF SortedOK
<1> HIDE DEF i
<1>0. \A q \in Procs : \A k \in DOMAIN queue'[q] : \E h \in DOMAIN queue[q] :
        queue'[q][k] = queue[q][h]
  BY <1>3, <1>4
<1>6. SortedOK'
  <2>1. \A q \in Procs : Increasing(queue'[q])
    BY <1>3, <1>5 DEF SortedOK
  <2>2. /\ \A q \in Procs, l \in Lives : Increasing(wire'[q][l])
        /\ ArriveInSendOrder'
    BY <1>1 DEF SortedOK, ArriveInSendOrder
  <2>3. QED
    BY <2>1, <2>2 DEF SortedOK, Increasing
<1>7. PlacedOK'
  <2>1. \A q \in Procs : \A k \in DOMAIN queue'[q] :
         frames'[queue'[q][k]].src[1] = q /\ frames'[queue'[q][k]].src[2] = life'[q]
    BY <1>0, <1>1 DEF PlacedOK
  <2>2. \A q \in Procs : current'[q] # None =>
         frames'[current'[q]].src[1] = q /\ frames'[current'[q]].src[2] = life'[q]
    BY <1>1, <1>3, <1>4 DEF PlacedOK
  <2>3. QED
    BY <1>1, <2>1, <2>2 DEF PlacedOK
<1>8. AnswersOK' /\ OnceOK'
  BY <1>1, AnswersStay
<1>9. StagesAdvance(5, {i}, {})
  <2>1. i \in Queued
    BY <1>4, Positions
  <2>2. Done' = Done /\ Worked' = Worked /\ Wired' = Wired
    BY <1>1, DoneStays DEF Worked, Wired
  <2>3. \A j \in Current' : j \in Current \/ j = i
    BY <1>3 DEF Current
  <2>4. \A j \in Queued' : j \in Queued
    BY <1>0 DEF Queued, In
  <2>5. ASSUME NEW j \in Queued', Over[i] = Over[j] PROVE i < j
    <3>1. PICK q \in Procs : \E k \in DOMAIN queue'[q] : j = queue'[q][k]
      BY DEF Queued, In
    <3>2. j \in DOMAIN frames /\ i \in DOMAIN frames
      BY <2>1, <2>4, StagesHoldFrames DEF Stages
    <3>3. frames[i].src = frames[j].src
      BY <2>5, <3>2, SameLink
    <3>4. frames[i].src[1] = p /\ frames[j].src[1] = q
      BY <1>1, <1>4, <1>7, <3>1 DEF PlacedOK
    <3>5. \E k \in DOMAIN Tail(queue[p]) : j = Tail(queue[p])[k]
      BY <1>3, <3>1, <3>3, <3>4
    <3>6. QED
      BY <1>5, <3>5
  <2>6. Stages[5] = Queued /\ Stages'[5] = Queued'
    BY DEF Stages
  <2>7. QED
    BY <2>1, <2>2, <2>3, <2>4, <2>5, <2>6 DEF StagesAdvance
<1>10. Ordered(Stages, Over)'
  BY <1>1, <1>9, StagesProgress
<1>11. QED
  BY <1>6, <1>7, <1>8, <1>10

\* The places of a sequence, and the one more that Append gives it.
LEMMA AppendIndices ==
  ASSUME NEW S, NEW s \in Seq(S), NEW i \in S
  PROVE  /\ \A k \in DOMAIN Append(s, i) : \/ k \in DOMAIN s /\ Append(s, i)[k] = s[k]
                                           \/ k = Len(s) + 1 /\ Append(s, i)[k] = i
         /\ \A k \in DOMAIN s : k \in DOMAIN Append(s, i) /\ Append(s, i)[k] = s[k]
         /\ Len(s) \in Nat /\ DOMAIN s = 1 .. Len(s)
OBVIOUS

\* Frames of one link that are in two stages.
LEMMA EarlierStage ==
  ASSUME OrderInv, NEW m \in 1 .. 5, NEW n \in 1 .. 5, m < n,
         NEW i \in Stages[m], NEW j \in Stages[n],
         frames[i].src = frames[j].src, frames[i].to = frames[j].to
  PROVE  i < j
<1>1. i \in DOMAIN frames /\ j \in DOMAIN frames
  BY StagesHoldFrames
<1>2. Over[i] = Over[j]
  BY <1>1 DEF Over
<1>3. QED
  BY <1>2 DEF OrderInv, Ordered

LEMMA TransmittedKeepsOrder ==
  ASSUME OrderInv, RemoteInv', NEW p \in Procs, Transmitted(p) PROVE OrderInv'
<1> USE DEF OrderInv
<1> DEFINE i == current[p]
           d == Dest(p)
           l == <<p, life[p]>>
<1>1. UNCHANGED <<frames, queue, work, arrived, life>> /\ Grows
  BY NoNewFrames DEF Transmitted
<1>2. /\ i \in DOMAIN frames /\ i \in Nat /\ i # None
      /\ frames[i] \in Frame /\ frames[i].to \in Procs
  <2>1. i \in DOMAIN frames /\ i # None
    BY DEF Transmitted, RemoteInv, SenderOK
  <2>2. i \in Nat /\ frames[i] \in Frame
    BY <2>1 DEF RemoteInv, FramesOK
  <2>3. QED
    BY <2>1, <2>2 DEF Frame
<1>3. \A q \in Procs : current'[q] = IF q = p THEN None ELSE current[q]
  BY DEF Transmitted, RemoteInv, SenderOK
<1>4. d \in Procs /\ l \in Lives /\ frames[i].src = l /\ frames[i].to = d
  <2>1. d \in Procs /\ frames[i].to = d
    BY <1>2 DEF Dest
  <2>2. l \in Lives
    BY RemoteAssumption DEF RemoteInv, ProcessOK, Lives
  <2>3. frames[i].src \in Lives /\ frames[i].src[1] = p /\ frames[i].src[2] = life[p]
    BY <1>2 DEF Frame, PlacedOK
  <2>4. frames[i].src = l
    BY <2>3 DEF Lives
  <2>5. QED
    BY <2>1, <2>2, <2>4
<1>5. /\ wire[d][l] \in Seq(DOMAIN frames) /\ wire[d][l] \in Seq(Nat)
      /\ wire' = [wire EXCEPT ![d][l] = Append(@, i)]
      /\ wire \in [Procs -> [Lives -> Seq(DOMAIN frames)]]
  BY <1>4, NumbersAreNats DEF Transmitted, RemoteInv, WireOK
<1> HIDE DEF i, d, l
<1>6. \A q \in Procs, k \in Lives :
        wire'[q][k] = IF q = d /\ k = l THEN Append(wire[d][l], i) ELSE wire[q][k]
  BY <1>4, <1>5
<1>7. \A q \in Procs, k \in Lives : \A h \in DOMAIN wire'[q][k] :
        \/ h \in DOMAIN wire[q][k] /\ wire'[q][k][h] = wire[q][k][h]
        \/ q = d /\ k = l /\ wire'[q][k][h] = i
  BY <1>2, <1>5, <1>6, AppendIndices
<1>8. i \in Current /\ \A h \in DOMAIN wire[d][l] : wire[d][l][h] \in Wired /\ wire[d][l][h] < i
  <2>1. i \in Current
    BY <1>2, Positions DEF i
  <2> SUFFICES ASSUME NEW h \in DOMAIN wire[d][l]
               PROVE  wire[d][l][h] \in Wired /\ wire[d][l][h] < i
    BY <2>1
  <2>2. wire[d][l][h] \in Wired
    BY <1>4, Positions
  <2>3. frames[wire[d][l][h]].src = l /\ frames[wire[d][l][h]].to = d
    BY <1>4 DEF PlacedOK
  <2>4. QED
    BY <1>4, <2>1, <2>2, <2>3, EarlierStage DEF Stages
<1>9. SortedOK'
  <2>1. \A q \in Procs, k \in Lives : Increasing(wire'[q][k])
    BY <1>2, <1>4, <1>5, <1>6, <1>8, IncreasingAppend DEF SortedOK
  <2>2. /\ \A q \in Procs : Increasing(queue'[q])
        /\ ArriveInSendOrder'
    BY <1>1 DEF SortedOK, ArriveInSendOrder
  <2>3. QED
    BY <2>1, <2>2 DEF SortedOK, Increasing
<1>10. PlacedOK'
  <2>1. \A q \in Procs : current'[q] # None =>
          frames'[current'[q]].src[1] = q /\ frames'[current'[q]].src[2] = life'[q]
    BY <1>1, <1>3 DEF PlacedOK
  <2>2. \A q \in Procs, k \in Lives : \A h \in DOMAIN wire'[q][k] :
          frames'[wire'[q][k][h]].src = k /\ frames'[wire'[q][k][h]].to = q
    BY <1>1, <1>4, <1>7 DEF PlacedOK
  <2>3. QED
    BY <1>1, <2>1, <2>2 DEF PlacedOK
<1>11. AnswersOK' /\ OnceOK'
  BY <1>1, AnswersStay
<1>12. StagesAdvance(4, {i}, {})
  <2>1. Done' = Done /\ Worked' = Worked /\ Queued' = Queued
    BY <1>1, DoneStays DEF Worked, Queued
  <2>2. \A j \in Current' : j \in Current
    BY <1>3, RemoteAssumption DEF Current
  <2>3. \A j \in Wired' : j \in Wired \/ j = i
    BY <1>7 DEF Wired, In
  <2>4. ASSUME NEW j \in Current', Over[i] = Over[j] PROVE i < j
    <3>1. PICK q \in Procs : j = current'[q] /\ j \in Nat
      BY DEF Current
    <3>2. q # p /\ j = current[q] /\ j # None
      BY <1>3, <3>1, RemoteAssumption
    <3>3. j \in DOMAIN frames
      BY <2>2, StagesHoldFrames DEF Stages
    <3>4. frames[i].src[1] = frames[j].src[1]
      BY <1>2, <2>4, <3>3, SameLink
    <3>5. frames[i].src[1] = p /\ frames[j].src[1] = q
      BY <1>2, <3>2 DEF PlacedOK, i
    <3>6. QED
      BY <3>2, <3>4, <3>5
  <2>5. Stages[4] = Current /\ Stages'[4] = Current'
    BY DEF Stages
  <2>6. QED
    BY <1>8, <2>1, <2>2, <2>3, <2>4, <2>5 DEF StagesAdvance
<1>13. Ordered(Stages, Over)'
  BY <1>1, <1>12, StagesProgress
<1>14. QED
  BY <1>9, <1>10, <1>11, <1>13

\* The one frame that the receiver of a process has in hand.
LEMMA OneInHand ==
  ASSUME RemoteInv, NEW p \in Procs, NEW r \in Starts, NEW s \in Starts,
         work[p][r] # None, work[p][s] # None
  PROVE  r = s
BY DEF RemoteInv, ThreadsOK, Holding, Open

LEMMA ReceivedKeepsOrder ==
  ASSUME OrderInv, RemoteInv', NEW p \in Procs, NEW s \in Starts, NEW l \in Lives,
         Received(p, s, l)
  PROVE  OrderInv'
<1> USE DEF OrderInv
<1> DEFINE i == Head(wire[p][l])
<1>1. UNCHANGED <<frames, queue, current, arrived, life>> /\ Grows
  BY NoNewFrames DEF Received
<1>2. /\ wire[p][l] \in Seq(DOMAIN frames) /\ wire[p][l] \in Seq(Nat) /\ wire[p][l] # <<>>
      /\ wire' = [wire EXCEPT ![p][l] = Tail(@)]
      /\ wire \in [Procs -> [Lives -> Seq(DOMAIN frames)]]
  BY NumbersAreNats DEF Received, RemoteInv, WireOK
<1>3. \A q \in Procs, k \in Lives :
        wire'[q][k] = IF q = p /\ k = l THEN Tail(wire[p][l]) ELSE wire[q][k]
  BY <1>2
<1>4. /\ 1 \in DOMAIN wire[p][l] /\ i = wire[p][l][1]
      /\ \A h \in DOMAIN Tail(wire[p][l]) :
           h + 1 \in DOMAIN wire[p][l] /\ Tail(wire[p][l])[h] = wire[p][l][h + 1]
  BY <1>2, TailIndices
<1>5. Increasing(Tail(wire[p][l])) /\ \A h \in DOMAIN Tail(wire[p][l]) : i < Tail(wire[p][l])[h]
  BY <1>2, IncreasingTail DEF SortedOK
<1>6. \A q \in Procs, r \in Starts :
        work'[q][r] = IF q = p /\ r = s THEN i ELSE work[q][r]
  BY DEF Received, RemoteInv, ThreadsOK
<1> HIDE DEF i
<1>7. \A q \in Procs, k \in Lives : \A h \in DOMAIN wire'[q][k] :
        \E g \in DOMAIN wire[q][k] : wire'[q][k][h] = wire[q][k][g]
  BY <1>3, <1>4
<1>8. i \in Wired /\ i \in DOMAIN frames /\ frames[i].src = l /\ frames[i].to = p
  <2>1. i \in Wired
    BY <1>4, Positions
  <2>2. i \in DOMAIN frames
    BY <2>1, StagesHoldFrames DEF Stages
  <2>3. QED
    BY <1>4, <2>1, <2>2 DEF PlacedOK
<1>9. SortedOK'
  <2>1. \A q \in Procs, k \in Lives : Increasing(wire'[q][k])
    BY <1>3, <1>5 DEF SortedOK
  <2>2. /\ \A q \in Procs : Increasing(queue'[q])
        /\ ArriveInSendOrder'
    BY <1>1 DEF SortedOK, ArriveInSendOrder
  <2>3. QED
    BY <2>1, <2>2 DEF SortedOK, Increasing
<1>10. PlacedOK'
  <2>1. \A q \in Procs, r \in Starts : work'[q][r] # None => frames'[work'[q][r]].to = q
    BY <1>1, <1>6, <1>8 DEF PlacedOK
  <2>2. \A q \in Procs, k \in Lives : \A h \in DOMAIN wire'[q][k] :
          frames'[wire'[q][k][h]].src = k /\ frames'[wire'[q][k][h]].to = q
    BY <1>1, <1>7 DEF PlacedOK
  <2>3. QED
    BY <1>1, <2>1, <2>2 DEF PlacedOK
<1>11. AnswersOK' /\ OnceOK'
  BY <1>1, AnswersStay
<1>12. StagesAdvance(3, {i}, {})
  <2>1. Done' = Done /\ Current' = Current /\ Queued' = Queued
    BY <1>1, DoneStays DEF Current, Queued
  <2>2. \A j \in Worked' : j \in Worked \/ j = i
    BY <1>6 DEF Worked
  <2>3. \A j \in Wired' : j \in Wired
    BY <1>7 DEF Wired, In
  <2>4. ASSUME NEW j \in Wired', Over[i] = Over[j] PROVE i < j
    <3>1. PICK q \in Procs, k \in Lives : \E h \in DOMAIN wire'[q][k] : j = wire'[q][k][h]
      BY DEF Wired, In
    <3>2. j \in DOMAIN frames
      BY <2>3, StagesHoldFrames DEF Stages
    <3>3. frames[i].src = frames[j].src /\ frames[i].to = frames[j].to
      BY <1>8, <2>4, <3>2, SameLink
    <3>4. frames[j].src = k /\ frames[j].to = q
      BY <1>1, <1>10, <3>1 DEF PlacedOK
    <3>5. \E h \in DOMAIN Tail(wire[p][l]) : j = Tail(wire[p][l])[h]
      BY <1>3, <1>8, <3>1, <3>3, <3>4
    <3>6. QED
      BY <1>5, <3>5
  <2>5. Stages[3] = Wired /\ Stages'[3] = Wired'
    BY DEF Stages
  <2>6. QED
    BY <1>8, <2>1, <2>2, <2>3, <2>4, <2>5 DEF StagesAdvance
<1>13. Ordered(Stages, Over)'
  BY <1>1, <1>12, StagesProgress
<1>14. QED
  BY <1>9, <1>10, <1>11, <1>13

\* A frame in hand has not been done with, and what has been done with on its
\* link is older.
LEMMA WorkIsNotDone ==
  ASSUME OrderInv, NEW p \in Procs, NEW s \in Starts, work[p][s] # None
  PROVE  /\ work[p][s] \in Worked /\ work[p][s] \in DOMAIN frames /\ work[p][s] \in Nat
         /\ frames[work[p][s]].to = p
         /\ work[p][s] \notin Done
         /\ \A j \in Done : frames[j].src = frames[work[p][s]].src
                            /\ frames[j].to = p => j < work[p][s]
<1>1. work[p][s] \in Worked
  BY Positions
<1>2. work[p][s] \in DOMAIN frames /\ work[p][s] \in Nat
  BY <1>1, StagesHoldFrames DEF Stages, OrderInv, RemoteInv, FramesOK
<1>3. frames[work[p][s]].to = p
  BY DEF OrderInv, PlacedOK
<1>4. \A j \in Done : frames[j].src = frames[work[p][s]].src /\ frames[j].to = p => j < work[p][s]
  BY <1>1, <1>3, EarlierStage DEF Stages
<1>5. work[p][s] \notin Done
  BY <1>2, <1>3, <1>4
<1>6. QED
  BY <1>1, <1>2, <1>3, <1>4, <1>5

\* What the receiver of a process is done with leaves nothing of its link behind.
LEMMA WorkIsFirst ==
  ASSUME OrderInv, NEW p \in Procs, NEW s \in Starts, work[p][s] # None,
         work' = [work EXCEPT ![p][s] = None]
  PROVE  /\ \A q \in Procs, r \in Starts : work'[q][r] \in {work[q][r], None}
         /\ \A j \in Worked' : j \in Worked /\ Over[j] # Over[work[p][s]]
<1> USE DEF OrderInv
<1> DEFINE i == work[p][s]
<1>1. \A q \in Procs, r \in Starts : work'[q][r] = IF q = p /\ r = s THEN None ELSE work[q][r]
  BY DEF RemoteInv, ThreadsOK
<1>2. i \in DOMAIN frames /\ frames[i].to = p
  BY WorkIsNotDone
<1>3. ASSUME NEW j \in Worked' PROVE j \in Worked /\ Over[j] # Over[i]
  <2>1. PICK q \in Procs, r \in Starts : work'[q][r] = j /\ j \in Nat
    BY DEF Worked
  <2>2. j = work[q][r] /\ j # None /\ ~(q = p /\ r = s)
    BY <1>1, <2>1, RemoteAssumption
  <2>3. j \in Worked
    BY <2>1, <2>2 DEF Worked
  <2>4. j \in DOMAIN frames /\ frames[j].to = q
    BY <2>2, WorkIsNotDone
  <2>5. q # p
    BY <2>2, OneInHand
  <2>6. QED
    BY <1>2, <2>3, <2>4, <2>5, SameLink
<1>4. QED
  BY <1>1, <1>3

LEMMA DeliveredKeepsOrder ==
  ASSUME OrderInv, RemoteInv', NEW p \in Procs, NEW s \in Starts, Delivered(p, s)
  PROVE  OrderInv'
<1> USE DEF OrderInv
<1> DEFINE i == work[p][s]
<1>1. UNCHANGED <<frames, queue, current, wire, life>> /\ Grows /\ Rejects' = Rejects
  BY NoNewFrames DEF Delivered, Rejects
<1>2. i # None /\ work' = [work EXCEPT ![p][s] = None]
      /\ arrived' = [arrived EXCEPT ![p] = Append(@, i)]
  BY InHandIsFrame DEF Delivered, Holding
<1>3. /\ i \in Worked /\ i \in DOMAIN frames /\ i \in Nat /\ frames[i].to = p /\ i \notin Done
      /\ \A j \in Done : frames[j].src = frames[i].src /\ frames[j].to = p => j < i
  BY <1>2, WorkIsNotDone
<1>4. /\ \A q \in Procs, r \in Starts : work'[q][r] \in {work[q][r], None}
      /\ \A j \in Worked' : j \in Worked /\ Over[j] # Over[i]
  BY <1>2, WorkIsFirst
<1> HIDE DEF i
<1>5. /\ arrived[p] \in Seq(DOMAIN frames)
      /\ \A q \in Procs : arrived'[q] = IF q = p THEN Append(arrived[p], i) ELSE arrived[q]
  BY <1>2 DEF RemoteInv, MailOK
<1>6. \A q \in Procs : \A k \in DOMAIN arrived'[q] :
        \/ k \in DOMAIN arrived[q] /\ arrived'[q][k] = arrived[q][k]
        \/ q = p /\ k = Len(arrived[p]) + 1 /\ arrived'[q][k] = i
  <2>1. \A k \in DOMAIN Append(arrived[p], i) :
          \/ k \in DOMAIN arrived[p] /\ Append(arrived[p], i)[k] = arrived[p][k]
          \/ k = Len(arrived[p]) + 1 /\ Append(arrived[p], i)[k] = i
    BY <1>3, <1>5, AppendIndices
  <2>2. QED
    BY <1>5, <2>1
<1>7. /\ Len(arrived[p]) \in Nat /\ DOMAIN arrived[p] = 1 .. Len(arrived[p])
      /\ \A q \in Procs : \A k \in DOMAIN arrived[q] :
           arrived[q][k] \in Done /\ frames[arrived[q][k]].to = q
  BY <1>3, <1>5, Positions, AppendIndices DEF PlacedOK
<1>8. SortedOK'
  <2>1. ASSUME NEW q \in Procs, NEW j \in DOMAIN arrived'[q], NEW k \in DOMAIN arrived'[q],
               j < k, frames'[arrived'[q][j]].src = frames'[arrived'[q][k]].src
        PROVE  arrived'[q][j] < arrived'[q][k]
    <3>1. CASE j \in DOMAIN arrived[q] /\ arrived'[q][j] = arrived[q][j]
      <4>1. CASE k \in DOMAIN arrived[q] /\ arrived'[q][k] = arrived[q][k]
        BY <1>1, <2>1, <3>1, <4>1 DEF SortedOK, ArriveInSendOrder
      <4>2. CASE q = p /\ arrived'[q][k] = i
        BY <1>1, <1>3, <1>7, <2>1, <3>1, <4>2
      <4>3. QED
        BY <1>6, <4>1, <4>2
    <3>2. CASE q = p /\ j = Len(arrived[p]) + 1
      BY <1>6, <1>7, <2>1, <3>2
    <3>3. QED
      BY <1>6, <3>1, <3>2
  <2>2. /\ \A q \in Procs : Increasing(queue'[q])
        /\ \A q \in Procs, k \in Lives : Increasing(wire'[q][k])
    BY <1>1 DEF SortedOK
  <2>3. QED
    BY <2>1, <2>2 DEF SortedOK, Increasing, ArriveInSendOrder
<1>9. PlacedOK'
  <2>1. \A q \in Procs, r \in Starts : work'[q][r] # None => frames'[work'[q][r]].to = q
    BY <1>1, <1>4 DEF PlacedOK
  <2>2. \A q \in Procs : \A k \in DOMAIN arrived'[q] : frames'[arrived'[q][k]].to = q
    BY <1>1, <1>3, <1>6, <1>7
  <2>3. QED
    BY <1>1, <2>1, <2>2 DEF PlacedOK
<1>10. AnswersOK'
  BY <1>1 DEF AnswersOK
<1>11. OnceOK'
  <2>1. ASSUME NEW q \in Procs, NEW j \in DOMAIN arrived'[q], NEW k \in DOMAIN arrived'[q],
               arrived'[q][j] = arrived'[q][k]
        PROVE  j = k
    <3>1. CASE j \in DOMAIN arrived[q] /\ k \in DOMAIN arrived[q]
      BY <1>6, <1>7, <2>1, <3>1 DEF OnceOK
    <3>2. CASE j \in DOMAIN arrived[q] /\ k \notin DOMAIN arrived[q]
      BY <1>3, <1>6, <1>7, <2>1, <3>2
    <3>3. CASE j \notin DOMAIN arrived[q] /\ k \in DOMAIN arrived[q]
      BY <1>3, <1>6, <1>7, <2>1, <3>3
    <3>4. CASE j \notin DOMAIN arrived[q] /\ k \notin DOMAIN arrived[q]
      BY <1>6, <3>4
    <3>5. QED
      BY <3>1, <3>2, <3>3, <3>4
  <2>2. ASSUME NEW j \in Rejects', NEW q \in Procs PROVE frames'[j].re \notin In(arrived'[q])
    <3>1. frames[j].re \in Done /\ frames[j].re \notin In(arrived[q])
      BY <1>1, Positions DEF OnceOK
    <3>2. ASSUME NEW k \in DOMAIN arrived'[q] PROVE arrived'[q][k] # frames[j].re
      BY <1>3, <1>6, <3>1 DEF In
    <3>3. QED
      BY <1>1, <3>2 DEF In
  <2>3. \A j, k \in Rejects' : frames'[j].re = frames'[k].re => j = k
    BY <1>1 DEF OnceOK
  <2>4. QED
    BY <2>1, <2>2, <2>3 DEF OnceOK
<1>12. StagesAdvance(2, {i}, {})
  <2>1. Wired' = Wired /\ Current' = Current /\ Queued' = Queued
    BY <1>1 DEF Wired, Current, Queued
  <2>2. \A j \in Done' : j \in Done \/ j = i
    <3>1. \A q \in Procs : \A j \in In(arrived'[q]) : j \in In(arrived[q]) \/ j = i
      BY <1>6 DEF In
    <3>2. QED
      BY <1>1, <3>1 DEF Done
  <2>3. Stages[2] = Worked /\ Stages'[2] = Worked'
    BY DEF Stages
  <2>4. QED
    BY <1>3, <1>4, <2>1, <2>2, <2>3 DEF StagesAdvance
<1>13. Ordered(Stages, Over)'
  BY <1>1, <1>12, StagesProgress
<1>14. QED
  BY <1>8, <1>9, <1>10, <1>11, <1>13

\* A new frame has the highest number, goes to the end of its queue, and leaves
\* everything else where it is.
LEMMA NewInQueue ==
  ASSUME OrderInv, NEW p \in Procs, NEW f \in Frame, Submits(p, f)
  PROVE  /\ Grows /\ Len(frames) + 1 \in Nat /\ frames'[Len(frames) + 1] = f
         /\ DOMAIN frames' = DOMAIN frames \cup {Len(frames) + 1}
         /\ \A i \in DOMAIN frames : i < Len(frames) + 1
         /\ \A q \in Procs : \A k \in DOMAIN queue'[q] :
              \/ k \in DOMAIN queue[q] /\ queue'[q][k] = queue[q][k]
              \/ q = p /\ queue'[q][k] = Len(frames) + 1
         /\ \A j \in Queued' : j \in Queued \/ j = Len(frames) + 1
         /\ SortedOK'
<1> USE DEF OrderInv
<1> DEFINE n == Len(frames) + 1
<1>1. /\ Grows /\ n \in Nat /\ frames'[n] = f /\ DOMAIN frames' = DOMAIN frames \cup {n}
      /\ \A i \in DOMAIN frames : i < n
  <2>1. Grows /\ frames'[n] = f /\ DOMAIN frames' = DOMAIN frames \cup {n}
    BY NewFrame DEF Submits, RemoteInv
  <2>2. n \in Nat /\ \A i \in DOMAIN frames : i < n
    BY DEF RemoteInv, FramesOK
  <2>3. QED
    BY <2>1, <2>2
<1>2. queue[p] \in Seq(DOMAIN frames) /\ queue[p] \in Seq(Nat)
  BY NumbersAreNats DEF RemoteInv, SenderOK
<1>3. \A h \in DOMAIN queue[p] : queue[p][h] < n
  BY <1>1, <1>2
<1> HIDE DEF n
<1>4. \A q \in Procs : queue'[q] = IF q = p THEN Append(queue[p], n) ELSE queue[q]
  BY DEF Submits, RemoteInv, SenderOK, n
<1>5. \A q \in Procs : \A k \in DOMAIN queue'[q] :
        \/ k \in DOMAIN queue[q] /\ queue'[q][k] = queue[q][k]
        \/ q = p /\ queue'[q][k] = n
  <2>1. \A k \in DOMAIN Append(queue[p], n) :
          \/ k \in DOMAIN queue[p] /\ Append(queue[p], n)[k] = queue[p][k]
          \/ Append(queue[p], n)[k] = n
    BY <1>1, <1>2, AppendIndices
  <2>2. QED
    BY <1>4, <2>1
<1>6. \A j \in Queued' : j \in Queued \/ j = n
  BY <1>5 DEF Queued, In
<1>7. SortedOK'
  <2>1. \A q \in Procs : Increasing(queue'[q])
    BY <1>1, <1>2, <1>3, <1>4, IncreasingAppend DEF SortedOK
  <2>2. \A q \in Procs, l \in Lives : Increasing(wire'[q][l])
    BY DEF SortedOK, Submits
  <2>3. ArriveInSendOrder'
    <3>1. \A q \in Procs : \A k \in DOMAIN arrived[q] :
            frames'[arrived[q][k]] = frames[arrived[q][k]]
      BY <1>1 DEF Grows, RemoteInv, MailOK
    <3>2. UNCHANGED arrived
      BY DEF Submits
    <3>3. QED
      BY <3>1, <3>2 DEF SortedOK, ArriveInSendOrder
  <2>4. QED
    BY <2>1, <2>2, <2>3 DEF SortedOK, Increasing
<1>8. QED
  BY <1>1, <1>5, <1>6, <1>7 DEF n

LEMMA SubmitKeepsPlaces ==
  ASSUME OrderInv, NEW p \in Procs, NEW f \in Frame, Submits(p, f),
         \A q \in Procs, r \in Starts : work'[q][r] \in {work[q][r], None}
  PROVE  PlacedOK'
<1> USE DEF OrderInv
<1>1. UNCHANGED <<current, wire, arrived, life>> /\ f.src[1] = p /\ f.src[2] = life[p]
  BY DEF Submits
<1>2. \A i \in DOMAIN frames : frames'[i] = frames[i]
  BY NewInQueue DEF Grows
<1>3. ASSUME NEW q \in Procs, NEW k \in DOMAIN queue'[q]
      PROVE  frames'[queue'[q][k]].src[1] = q /\ frames'[queue'[q][k]].src[2] = life'[q]
  <2>1. CASE k \in DOMAIN queue[q] /\ queue'[q][k] = queue[q][k]
    <3>1. queue[q][k] \in DOMAIN frames
      BY <2>1 DEF RemoteInv, SenderOK
    <3>2. QED
      BY <1>1, <1>2, <2>1, <3>1 DEF PlacedOK
  <2>2. CASE q = p /\ queue'[q][k] = Len(frames) + 1
    BY <1>1, <2>2, NewInQueue
  <2>3. QED
    BY <2>1, <2>2, NewInQueue
<1>4. \A q \in Procs : current'[q] # None =>
        frames'[current'[q]].src[1] = q /\ frames'[current'[q]].src[2] = life'[q]
  <2>1. \A q \in Procs : current[q] # None => current[q] \in DOMAIN frames
    BY DEF RemoteInv, SenderOK
  <2>2. QED
    BY <1>1, <1>2, <2>1 DEF PlacedOK
<1>5. \A q \in Procs, l \in Lives : \A k \in DOMAIN wire'[q][l] :
        frames'[wire'[q][l][k]].src = l /\ frames'[wire'[q][l][k]].to = q
  <2>1. \A q \in Procs, l \in Lives : \A k \in DOMAIN wire[q][l] : wire[q][l][k] \in DOMAIN frames
    BY DEF RemoteInv, WireOK
  <2>2. QED
    BY <1>1, <1>2, <2>1 DEF PlacedOK
<1>6. \A q \in Procs, r \in Starts : work'[q][r] # None => frames'[work'[q][r]].to = q
  <2>1. \A q \in Procs, r \in Starts : work[q][r] # None => work[q][r] \in DOMAIN frames
    BY DEF RemoteInv, ThreadsOK
  <2>2. QED
    BY <1>2, <2>1 DEF PlacedOK
<1>7. \A q \in Procs : \A k \in DOMAIN arrived'[q] : frames'[arrived'[q][k]].to = q
  <2>1. \A q \in Procs : \A k \in DOMAIN arrived[q] : arrived[q][k] \in DOMAIN frames
    BY DEF RemoteInv, MailOK
  <2>2. QED
    BY <1>1, <1>2, <2>1 DEF PlacedOK
<1>8. QED
  BY <1>3, <1>4, <1>5, <1>6, <1>7 DEF PlacedOK

\* A new frame that has a sender goes on its behalf, and answers what it should.
LEMMA SubmitKeepsAnswers ==
  ASSUME OrderInv, NEW p \in Procs, NEW f \in Frame, Submits(p, f),
         f.sender # None => f.origin = f.sender /\ f.body # Reject,
         f.re # 0 \/ f.body = Reject =>
           /\ f.re \in DOMAIN frames
           /\ frames[f.re].origin = [actor |-> f.receiver, endpoint |-> f.to]
  PROVE  AnswersOK'
<1> USE DEF OrderInv
<1> DEFINE n == Len(frames) + 1
<1>1. /\ \A i \in DOMAIN frames : i \in DOMAIN frames' /\ frames'[i] = frames[i]
      /\ frames'[n] = f /\ DOMAIN frames' = DOMAIN frames \cup {n}
  BY NewInQueue DEF Grows
<1> HIDE DEF n
<1>2. \A i \in DOMAIN frames' :
        frames'[i].sender # None =>
          frames'[i].origin = frames'[i].sender /\ frames'[i].body # Reject
  BY <1>1 DEF AnswersOK
<1>3. \A i \in DOMAIN frames' : frames'[i].re # 0 =>
        /\ frames'[i].re \in DOMAIN frames'
        /\ frames'[frames'[i].re].origin
             = [actor |-> frames'[i].receiver, endpoint |-> frames'[i].to]
  BY <1>1 DEF AnswersOK
<1>4. \A j \in Rejects' : frames'[j].re \in DOMAIN frames'
  BY <1>1 DEF AnswersOK, Rejects
<1>5. QED
  BY <1>2, <1>3, <1>4 DEF AnswersOK

LEMMA SubmittedKeepsOrder ==
  ASSUME OrderInv, RemoteInv', NEW p \in Procs, NEW f \in Frame, HandlerSubmits(p, f)
  PROVE  OrderInv'
<1> USE DEF OrderInv
<1> DEFINE n == Len(frames) + 1
<1>1. Submits(p, f) /\ UNCHANGED <<work, current, wire, arrived>>
  BY DEF HandlerSubmits, Submits
<1>2. /\ Grows /\ n \in Nat /\ frames'[n] = f /\ DOMAIN frames' = DOMAIN frames \cup {n}
      /\ \A i \in DOMAIN frames : i < n
      /\ \A j \in Queued' : j \in Queued \/ j = n
      /\ SortedOK'
  BY <1>1, NewInQueue
<1>3. PlacedOK'
  BY <1>1, SubmitKeepsPlaces
<1>4. AnswersOK'
  BY <1>1, SubmitKeepsAnswers DEF HandlerSubmits
<1> HIDE DEF n
<1>5. Rejects' = Rejects /\ \A j \in Rejects : frames'[j] = frames[j]
  BY <1>2 DEF Rejects, HandlerSubmits, Grows
<1>6. OnceOK'
  BY <1>1, <1>5 DEF OnceOK
<1>7. StagesAdvance(2, {}, {n})
  <2>1. Worked' = Worked /\ Wired' = Wired /\ Current' = Current
    BY <1>1 DEF Worked, Wired, Current
  <2>2. Done' = Done
    BY <1>1, <1>5 DEF Done
  <2>3. QED
    BY <1>2, <2>1, <2>2 DEF StagesAdvance
<1>8. Ordered(Stages, Over)'
  BY <1>2, <1>7, StagesProgress
<1>9. QED
  BY <1>2, <1>3, <1>4, <1>6, <1>8

LEMMA RejectedKeepsOrder ==
  ASSUME OrderInv, RemoteInv', NEW p \in Procs, NEW s \in Starts, NEW f \in Frame,
         Rejected(p, s, f)
  PROVE  OrderInv'
<1> USE DEF OrderInv
<1> DEFINE n == Len(frames) + 1
           i == work[p][s]
<1>1. Submits(p, f) /\ UNCHANGED <<current, wire, arrived>>
  BY DEF Rejected, Submits
<1>2. /\ Grows /\ n \in Nat /\ frames'[n] = f /\ DOMAIN frames' = DOMAIN frames \cup {n}
      /\ \A j \in DOMAIN frames : j < n
      /\ \A j \in Queued' : j \in Queued \/ j = n
      /\ SortedOK'
  BY <1>1, NewInQueue
<1>3. /\ i # None /\ work' = [work EXCEPT ![p][s] = None]
      /\ frames[i].sender # None
      /\ f.body = Reject /\ f.re = i /\ f.sender = None
      /\ frames[i].sender = [actor |-> f.receiver, endpoint |-> f.to]
  BY InHandIsFrame DEF Rejected, Holding, Refusing, RemoteInv, ThreadsOK, InHand
<1>4. i \in Worked /\ i \in DOMAIN frames /\ i \in Nat /\ i \notin Done
  BY <1>3, WorkIsNotDone
<1>5. /\ \A q \in Procs, r \in Starts : work'[q][r] \in {work[q][r], None}
      /\ \A j \in Worked' : j \in Worked /\ Over[j] # Over[i]
  BY <1>3, WorkIsFirst
<1>6. PlacedOK'
  BY <1>1, <1>5, SubmitKeepsPlaces
<1>7. frames[i].origin = [actor |-> f.receiver, endpoint |-> f.to]
  BY <1>3, <1>4 DEF AnswersOK
<1> HIDE DEF n, i
<1>8. AnswersOK'
  BY <1>1, <1>3, <1>4, <1>7, SubmitKeepsAnswers
<1>9. Rejects' = Rejects \cup {n} /\ \A j \in Rejects : frames'[j] = frames[j] /\ j # n
  BY <1>2, <1>3 DEF Rejects, Grows
<1>10. \A j \in Rejects : frames[j].re # i
  BY <1>4, Positions
<1>11. OnceOK'
  <2>1. \A q \in Procs : i \notin In(arrived[q])
    BY <1>4 DEF Done
  <2>2. \A j \in Rejects', q \in Procs : frames'[j].re \notin In(arrived'[q])
    BY <1>1, <1>2, <1>3, <1>9, <2>1 DEF OnceOK
  <2>3. \A j, k \in Rejects' : frames'[j].re = frames'[k].re => j = k
    BY <1>2, <1>3, <1>9, <1>10 DEF OnceOK
  <2>4. QED
    BY <1>1, <2>2, <2>3 DEF OnceOK
<1>12. StagesAdvance(2, {i}, {n})
  <2>1. Wired' = Wired /\ Current' = Current
    BY <1>1 DEF Wired, Current
  <2>2. \A j \in Done' : j \in Done \/ j = i
    BY <1>1, <1>2, <1>3, <1>9 DEF Done
  <2>3. Stages[2] = Worked /\ Stages'[2] = Worked'
    BY DEF Stages
  <2>4. \A j \in Worked' : j \notin {n}
    BY <1>2, <1>5, StagesHoldFrames, <2>3
  <2>5. QED
    BY <1>2, <1>4, <1>5, <2>1, <2>2, <2>3, <2>4 DEF StagesAdvance
<1>13. Ordered(Stages, Over)'
  BY <1>2, <1>12, StagesProgress
<1>14. QED
  BY <1>2, <1>6, <1>8, <1>11, <1>13
-----------------------------------------------------------------------------
LEMMA InitOrder == RemoteInit => OrderInv
<1> SUFFICES ASSUME RemoteInit PROVE OrderInv
  OBVIOUS
<1>1. RemoteInv
  BY InitRemoteInv
<1>2. /\ \A p \in Procs : queue[p] = <<>> /\ current[p] = None /\ arrived[p] = <<>>
      /\ \A p \in Procs, l \in Lives : wire[p][l] = <<>>
      /\ \A p \in Procs, s \in Starts : work[p][s] = None
      /\ frames = <<>>
  BY DEF RemoteInit, SenderInit, ReceiverInit
<1>3. SortedOK
  BY <1>2 DEF SortedOK, Increasing, ArriveInSendOrder
<1>4. PlacedOK
  BY <1>2 DEF PlacedOK
<1>5. AnswersOK /\ OnceOK
  BY <1>2 DEF AnswersOK, OnceOK, Rejects
<1>6. Ordered(Stages, Over)
  <2>1. Done = {} /\ Worked = {} /\ Wired = {} /\ Current = {} /\ Queued = {}
    BY <1>2, RemoteAssumption DEF Done, Worked, Wired, Current, Queued, In, Rejects
  <2>2. \A m \in 1 .. 5 : Stages[m] = {}
    BY <2>1 DEF Stages
  <2>3. QED
    BY <2>2 DEF Ordered
<1>7. QED
  BY <1>1, <1>3, <1>4, <1>5, <1>6 DEF OrderInv

\* Every event keeps the order, if the types are kept.
LEMMA EventKeepsOrder == ASSUME OrderInv, RemoteInv', Event PROVE OrderInv'
<1>2. CASE Fades
  BY <1>2, FadeKeepsOrder
<1>3. ASSUME NEW p \in Procs, Taken(p) \/ Transmitted(p) PROVE OrderInv'
  BY <1>3, TakenKeepsOrder, TransmittedKeepsOrder
<1>4. ASSUME NEW p \in Procs, NEW f \in Frame, HandlerSubmits(p, f) PROVE OrderInv'
  BY <1>4, SubmittedKeepsOrder
<1>5. ASSUME NEW p \in Procs, NEW s \in Starts, NEW f \in Frame, Rejected(p, s, f) PROVE OrderInv'
  BY <1>5, RejectedKeepsOrder
<1>6. ASSUME NEW p \in Procs, NEW s \in Starts, NEW l \in Lives, Received(p, s, l) PROVE OrderInv'
  BY <1>6, ReceivedKeepsOrder
<1>7. ASSUME NEW p \in Procs, NEW s \in Starts, Delivered(p, s) PROVE OrderInv'
  BY <1>7, DeliveredKeepsOrder
<1>8. QED
  BY <1>2, <1>3, <1>4, <1>5, <1>6, <1>7 DEF Event

\* Frames are only ever added.
LEMMA EventGrows == ASSUME FramesOK, Event PROVE Grows
<1>1. ASSUME NEW p, NEW f \in Frame, Submits(p, f) PROVE Grows
  BY <1>1, NewFrame DEF Submits
<1>2. CASE UNCHANGED frames
  BY <1>2, NoNewFrames
<1>3. QED
  BY <1>1, <1>2 DEF Event, Fades, Taken, Transmitted, HandlerSubmits, Rejected, Received, Delivered

\* What a handler writes: a message of its own, an answer, or one it passes on.
LEMMA WrittenIsInOrder ==
  ASSUME NEW p \in Procs, NEW addr \in Addresses, NEW t \in Types, t # Reject, NEW ref,
         NEW origin \in Addresses \cup {None}, SenderInfo(p, ref) \in {None, origin},
         NEW re \in Nat, re # 0 => re \in DOMAIN frames /\ frames[re].origin = addr
  PROVE  LET f == Written(p, addr, t, ref, origin, re) IN
           /\ f.src = <<p, life[p]>> /\ f.body # Reject /\ f.sender \in {None, f.origin}
           /\ f.re # 0 => /\ f.re \in DOMAIN frames
                          /\ frames[f.re].origin = [actor |-> f.receiver, endpoint |-> f.to]
BY DEF Written, Addresses

LEMMA SendKeepsLetters ==
  ASSUME RemoteInv, LettersOK, NEW p \in Procs, NEW a \in Actors, NEW addr \in Addresses,
         NEW t \in Types, t # Reject, NEW ref,
         NEW origin \in Addresses \cup {None}, SenderInfo(p, ref) \in {None, origin},
         NEW re \in Nat, re # 0 => re \in DOMAIN frames /\ frames[re].origin = addr,
         NEW left, HandlerSends(p, a, addr, t, ref, origin, re, left)
  PROVE  LettersOK'
<1> DEFINE f == Written(p, addr, t, ref, origin, re)
<1>1. UNCHANGED <<frames, life>>
  BY DEF HandlerSends, SendPanics, Others, OthersButUpsets, processVars
<1>2. /\ f.src = <<p, life[p]>> /\ f.body # Reject /\ f.sender \in {None, f.origin}
      /\ f.re # 0 => /\ f.re \in DOMAIN frames
                     /\ frames[f.re].origin = [actor |-> f.receiver, endpoint |-> f.to]
  BY WrittenIsInOrder
<1>3. UNCHANGED letter \/ letter' = [letter EXCEPT ![p][a] = f]
  BY DEF HandlerSends
<1> HIDE DEF f
<1>4. \A q \in Procs, b \in Actors : letter'[q][b] \in {letter[q][b], IF q = p THEN f ELSE letter[q][b]}
  BY <1>3 DEF RemoteInv, MailOK
<1>5. QED
  BY <1>1, <1>2, <1>4 DEF LettersOK

LEMMA ActorLetters ==
  ASSUME OrderInv, LettersOK, NEW p \in Procs, ActorStep(p) PROVE LettersOK'
<1> USE DEF OrderInv
<1>1. PICK a \in Home[p] : \/ Originate(p, a) \/ Ignore(p, a) \/ Reply(p, a) \/ Forward(p, a)
                           \/ Posts(p, a) \/ Misreads(p, a) \/ Ends(p, a)
  BY DEF ActorStep
<1> DEFINE own == [actor |-> a, endpoint |-> p]
<1>2. a \in Actors /\ own \in Addresses
  BY RemoteAssumption DEF Addresses
<1>3. SenderInfo(p, LocalRef(a)) = own
  BY <1>2 DEF SenderInfo, LocalRef
<1>4. SenderInfo(p, None) = None /\ \A x \in Addresses : SenderInfo(p, x) = x
  BY RemoteAssumption DEF SenderInfo, Addresses
<1> HIDE DEF own
<1>5. CASE Originate(p, a)
  <2>1. PICK addr \in Targets[p], t \in Sendable :
          \/ HandlerSends(p, a, addr, t, LocalRef(a), own, 0, mailbox[p][a])
          \/ HandlerSends(p, a, addr, t, None, None, 0, mailbox[p][a])
    BY <1>5 DEF Originate, own
  <2>2. addr \in Addresses /\ t \in Types /\ t # Reject
    BY RemoteAssumption DEF Sendable
  <2>3. QED
    BY <1>2, <1>3, <1>4, <2>1, <2>2, SendKeepsLetters
<1>6. CASE Ignore(p, a) \/ Misreads(p, a) \/ Ends(p, a)
  <2>1. UNCHANGED <<frames, letter, life>>
    BY <1>6 DEF Ignore, Misreads, Ends, Others, OthersButUpsets, processVars
  <2>2. QED
    BY <2>1 DEF LettersOK
<1>7. CASE Reply(p, a)
  <2> DEFINE i == Head(mailbox[p][a])
  <2>1. i \in DOMAIN frames /\ frames[i] \in Frame /\ i \in Nat
    BY <1>2, <1>7, NextMessage DEF Reply, RemoteInv, FramesOK
  <2>2. frames[i].sender # None /\ frames[i].sender \in Addresses
    BY <1>7, <2>1 DEF Reply, Frame
  <2>3. frames[i].origin = frames[i].sender
    BY <2>1, <2>2 DEF AnswersOK
  <2>4. PICK t \in Sendable : HandlerSends(p, a, frames[i].sender, t, LocalRef(a), own, i,
                                          Tail(mailbox[p][a]))
    BY <1>7 DEF Reply, own
  <2>5. t \in Types /\ t # Reject
    BY DEF Sendable
  <2> HIDE DEF i
  <2>6. QED
    BY <1>2, <1>3, <2>1, <2>2, <2>3, <2>4, <2>5, SendKeepsLetters
<1>8. CASE Forward(p, a)
  <2> DEFINE i == Head(mailbox[p][a])
  <2>1. i \in DOMAIN frames /\ frames[i] \in Frame
    BY <1>2, <1>8, NextMessage DEF Forward
  <2>2. frames[i].sender # None /\ frames[i].sender \in Addresses /\ frames[i].body \in Types
        /\ frames[i].origin \in Addresses \cup {None}
    BY <1>8, <2>1 DEF Forward, Frame
  <2>3. frames[i].origin = frames[i].sender /\ frames[i].body # Reject
    BY <2>1, <2>2 DEF AnswersOK
  <2>4. PICK addr \in Onward[p] : HandlerSends(p, a, addr, frames[i].body, frames[i].sender,
                                     frames[i].origin, 0, Tail(mailbox[p][a]))
    BY <1>8 DEF Forward
  <2>5. addr \in Addresses /\ SenderInfo(p, frames[i].sender) = frames[i].origin
    BY <1>4, <2>2, <2>3, RemoteAssumption
  <2> HIDE DEF i
  <2>6. QED
    BY <1>2, <2>2, <2>3, <2>4, <2>5, SendKeepsLetters
<1>9. CASE Posts(p, a)
  <2>1. UNCHANGED life /\ letter' = [letter EXCEPT ![p][a] = None]
    BY <1>9 DEF Posts, Others, OthersButUpsets, processVars
  <2>2. \A q \in Procs, b \in Actors : letter'[q][b] \in {letter[q][b], None}
    BY <2>1 DEF RemoteInv, MailOK
  <2>3. Grows
    BY <1>2, <1>9, PostsEvents, EventGrows DEF RemoteInv
  <2>4. QED
    BY <2>1, <2>2, <2>3 DEF LettersOK, Grows
<1>10. QED
  BY <1>1, <1>5, <1>6, <1>7, <1>8, <1>9

LEMMA LettersStep == OrderInv /\ LettersOK /\ [RemoteNext]_vars => LettersOK'
<1> SUFFICES ASSUME OrderInv, LettersOK, [RemoteNext]_vars PROVE LettersOK'
  OBVIOUS
<1>1. Grows
  BY Events, EventGrows DEF OrderInv, RemoteInv
<1>2. CASE UNCHANGED <<letter, life>>
  BY <1>1, <1>2 DEF LettersOK, Grows
<1>3. ASSUME NEW p \in Procs, ActorStep(p) PROVE LettersOK'
  BY <1>3, ActorLetters
<1>4. ASSUME NEW p \in Procs, Restart(p) PROVE LettersOK'
  <2>1. UNCHANGED frames
    BY <1>4 DEF Restart
  <2>2. ASSUME NEW q \in Procs, NEW a \in Actors
        PROVE  letter'[q][a] = None \/ (letter'[q][a] = letter[q][a] /\ life'[q] = life[q])
    BY <1>4 DEF Restart, OrderInv, RemoteInv, MailOK, ProcessOK
  <2>3. QED
    BY <2>1, <2>2 DEF LettersOK
<1>5. ASSUME NEW p \in Procs,
             \/ RegistersLater(p) \/ SenderThread(p) \/ \E a \in Actors : RegisterActor(p, a)
             \/ \E s \in Starts : \/ Start(p, s) \/ SocketFails(p, s) \/ Stop(p, s) \/ Joined(p, s)
      PROVE  UNCHANGED <<letter, life>>
  BY <1>5 DEF RegistersLater, SenderThread, TakeRequest, Connect, ConnectFails, Transmit,
              RegisterActor, Start, SocketFails, Stop, Joined, actorVars, processVars
<1>6. ASSUME NEW p \in Procs, NEW s \in Starts, ReceiverThread(p, s)
      PROVE  UNCHANGED <<letter, life>>
  BY <1>6 DEF ReceiverThread, Bind, Test, Receive, TimesOut, LookUp, TryDeserialize, Deliver,
              SerializeReject, QueueReject, actorVars, processVars
<1>7. CASE UNCHANGED vars
  BY <1>2, <1>7 DEF vars, actorVars, processVars
<1>8. QED
  BY <1>2, <1>3, <1>4, <1>5, <1>6, <1>7 DEF RemoteNext

OrderInvs == OrderInv /\ LettersOK

LEMMA OrderStep == OrderInvs /\ [RemoteNext]_vars => OrderInvs'
BY RemoteStep, Events, EventKeepsOrder, LettersStep DEF OrderInv, OrderInvs

LEMMA OrderSafe == RemoteSpec => []OrderInvs
<1>1. RemoteInit => LettersOK
  BY DEF RemoteInit, LettersOK
<1>2. QED
  BY <1>1, InitOrder, OrderStep, PTL DEF RemoteSpec, OrderInvs

\* remote.rs: one queue, one thread and one socket per endpoint keep messages of
\* one process to another in the order in which they were queued.
THEOREM SendOrderIsKept == RemoteSpec => []ArriveInSendOrder
<1>1. OrderInvs => ArriveInSendOrder
  BY DEF OrderInvs, OrderInv, SortedOK
<1>2. QED
  BY <1>1, OrderSafe, PTL

\* remote.rs: the sender's address travels with the message, so that replies and
\* Rejects go to the actor the conversation began with.
THEOREM AnswersGoBack == RemoteSpec => []AnswersReachTheAsker
<1>1. OrderInvs => AnswersReachTheAsker
  BY DEF OrderInvs, OrderInv, AnswersOK, PlacedOK, AnswersReachTheAsker
<1>2. QED
  BY <1>1, OrderSafe, PTL
-----------------------------------------------------------------------------
\* The registry of a process that main has filled is sound: what is amiss in it
\* is due to a type that was registered later.
RegistryOK ==
  \A p \in Procs :
    /\ AtStart[p] \subseteq named[p] /\ pending[p] \subseteq named[p] \ AtStart[p]
    /\ \A u \in named[p] : entry[p][NameOf[u]] # u =>
         \E t \in named[p] \ AtStart[p] : NameOf[t] = NameOf[u]

\* Why the registry of p may be poisoned.
Cause(p) == RegisteredInMidstream(p) \/ MisreadFrame(p) \/ Home[p] \ alive[p] # {}

\* A type that main has registered is the only one under its name.
LEMMA RegisteredFirst ==
  ASSUME NEW p \in Procs, NEW u \in AtStart[p] PROVE Registered(p)[NameOf[u]] = u
<1>1. NameOf[u] \in Names /\ u \in Types
  BY SerializationAssumption
<1>2. ASSUME NEW t \in AtStart[p], NameOf[t] = NameOf[u] PROVE t = u
  BY <1>2, SerializationAssumption
<1>3. (CHOOSE t \in AtStart[p] : NameOf[t] = NameOf[u]) = u
  BY <1>2
<1>4. QED
  BY <1>1, <1>3 DEF Registered

\* Two types of one name: one whose registration is not complete, or replaces that
\* of another.
LEMMA RegistrationKeeps ==
  ASSUME RemoteInv, RegistryOK, NEW p \in Procs, NEW t \in Types,
         RegisterName(p, t) \/ RegisterEntry(p, t)
  PROVE  /\ RegistryOK' /\ UNCHANGED poisoned
         /\ \A q \in Procs : named[q] \subseteq named'[q] /\ (poisoned[q] => entry'[q] = entry[q])
<1> USE DEF RemoteInv, SerializationTypeOK
<1>1. CASE RegisterName(p, t)
  <2>1. /\ t \notin named[p] /\ UNCHANGED <<entry, poisoned>>
        /\ \A q \in Procs : named'[q] = IF q = p THEN named[p] \cup {t} ELSE named[q]
        /\ \A q \in Procs : pending'[q] = IF q = p THEN pending[p] \cup {t} ELSE pending[q]
    BY <1>1 DEF RegisterName
  <2>2. RegistryOK'
    <3> SUFFICES ASSUME NEW q \in Procs
                 PROVE  /\ AtStart[q] \subseteq named'[q] /\ pending'[q] \subseteq named'[q] \ AtStart[q]
                        /\ \A u \in named'[q] : entry'[q][NameOf[u]] # u =>
                             \E v \in named'[q] \ AtStart[q] : NameOf[v] = NameOf[u]
      BY DEF RegistryOK
    <3>1. CASE q = p
      BY <2>1, <3>1 DEF RegistryOK
    <3>2. CASE q # p
      BY <2>1, <3>2 DEF RegistryOK
    <3>3. QED
      BY <3>1, <3>2
  <2>3. QED
    BY <2>1, <2>2
<1>2. CASE RegisterEntry(p, t)
  <2>1. /\ t \in pending[p] /\ UNCHANGED <<named, poisoned>>
        /\ \A q \in Procs : pending'[q] \subseteq pending[q]
        /\ \A q \in Procs : q # p \/ poisoned[q] => entry'[q] = entry[q]
        /\ \A n \in Names : entry'[p][n] = entry[p][n] \/ n = NameOf[t]
    BY <1>2 DEF RegisterEntry
  <2>2. t \in named[p] \ AtStart[p]
    BY <2>1 DEF RegistryOK
  <2>3. RegistryOK'
    <3> SUFFICES ASSUME NEW q \in Procs
                 PROVE  /\ AtStart[q] \subseteq named'[q] /\ pending'[q] \subseteq named'[q] \ AtStart[q]
                        /\ \A u \in named'[q] : entry'[q][NameOf[u]] # u =>
                             \E v \in named'[q] \ AtStart[q] : NameOf[v] = NameOf[u]
      BY DEF RegistryOK
    <3>1. ASSUME NEW u \in named[q], entry'[q][NameOf[u]] # u
          PROVE  \E v \in named[q] \ AtStart[q] : NameOf[v] = NameOf[u]
      <4>1. NameOf[u] \in Names
        BY SerializationAssumption
      <4>2. CASE entry'[q][NameOf[u]] = entry[q][NameOf[u]]
        BY <3>1, <4>2 DEF RegistryOK
      <4>3. CASE entry'[q][NameOf[u]] # entry[q][NameOf[u]]
        BY <2>1, <2>2, <4>1, <4>3
      <4>4. QED
        BY <4>2, <4>3
    <3>2. QED
      BY <2>1, <3>1 DEF RegistryOK
  <2>4. QED
    BY <2>1, <2>3
<1>3. QED
  BY <1>1, <1>2

\* A cause stays: types, frames and dead actors do not become fewer, and a
\* poisoned registry does not change.
LEMMA CauseStays ==
  ASSUME RemoteInv, Grows, NEW q \in Procs, Cause(q), named[q] \subseteq named'[q],
         entry'[q] = entry[q], alive'[q] \subseteq alive[q]
  PROVE  Cause(q)'
<1>1. CASE RegisteredInMidstream(q)
  BY <1>1 DEF Cause, RegisteredInMidstream
<1>2. CASE MisreadFrame(q)
  <2>1. PICK i \in DOMAIN frames :
          LET w == frames[i].body IN
            frames[i].to = q /\ Known(q, NameOf[w]) /\ ~Parses(q, NameOf[w], w)
    BY <1>2 DEF MisreadFrame
  <2>2. i \in DOMAIN frames' /\ frames'[i] = frames[i]
    BY DEF Grows
  <2>3. MisreadFrame(q)'
    BY <2>1, <2>2 DEF MisreadFrame, Known, Parses
  <2>4. QED
    BY <2>3 DEF Cause
<1>3. CASE Home[q] \ alive[q] # {}
  BY <1>3 DEF Cause
<1>4. QED
  BY <1>1, <1>2, <1>3 DEF Cause

\* A send that panics under the lock has one.
LEMMA PanicHasCause ==
  ASSUME RemoteInv, RegistryOK, NEW p \in Procs, NEW t \in Types, SendPanics(p, t)
  PROVE  /\ UNCHANGED <<named, entry, pending>>
         /\ \A q \in Procs : poisoned[q] => poisoned'[q]
         /\ \A q \in Procs : poisoned'[q] => poisoned[q] \/ Cause(q)
         /\ t \in AtStart[p] => poisoned'[p]
<1> USE DEF RemoteInv, SerializationTypeOK
<1>1. UNCHANGED <<named, entry, pending>> /\ ~CanSend(p, t)
  BY DEF SendPanics
<1>2. CASE t \in named[p]
  <2>1. \A q \in Procs : poisoned'[q] = IF q = p THEN TRUE ELSE poisoned[q]
    BY <1>2 DEF SendPanics, Poison
  <2>2. poisoned[p] \/ RegisteredInMidstream(p)
    BY <1>1, <1>2 DEF CanSend, Writable, RegistryOK, RegisteredInMidstream
  <2>3. QED
    BY <1>1, <2>1, <2>2 DEF Cause
<1>3. CASE t \notin named[p]
  BY <1>1, <1>3 DEF SendPanics, RegistryOK
<1>4. QED
  BY <1>2, <1>3

\* What a step may do to the registry of a process that stays alive.
Steady ==
  \A q \in Procs :
    /\ named[q] \subseteq named'[q] /\ alive'[q] \subseteq alive[q]
    /\ poisoned[q] => poisoned'[q] /\ entry'[q] = entry[q]
    /\ poisoned'[q] /\ ~poisoned[q] => Cause(q)'

LEMMA SteadyKeepsCauses ==
  ASSUME RemoteInv, Grows, Steady, NEW q \in Procs, poisoned[q] => Cause(q), poisoned'[q]
  PROVE  Cause(q)'
BY CauseStays DEF Steady

\* A registry that is left as it is, or poisoned for a cause.
LEMMA RegistryStays ==
  ASSUME RemoteInv, RegistryOK, Grows, UNCHANGED <<named, entry, pending>>,
         \A q \in Procs : alive'[q] \subseteq alive[q],
         \A q \in Procs : poisoned[q] => poisoned'[q],
         \A q \in Procs : poisoned'[q] => poisoned[q] \/ Cause(q) \/ Home[q] \ alive'[q] # {}
  PROVE  Steady /\ RegistryOK'
<1>1. RegistryOK'
  BY DEF RegistryOK
<1>2. ASSUME NEW q \in Procs, poisoned'[q], ~poisoned[q] PROVE Cause(q)'
  <2>1. CASE Cause(q)
    BY <2>1, CauseStays
  <2>2. CASE Home[q] \ alive'[q] # {}
    BY <2>2 DEF Cause
  <2>3. QED
    BY <1>2, <2>1, <2>2
<1>3. QED
  BY <1>1, <1>2 DEF Steady

LEMMA NothingHappens ==
  ASSUME RemoteInv, RegistryOK, Grows, UNCHANGED serializationVars,
         \A q \in Procs : alive'[q] \subseteq alive[q]
  PROVE  Steady /\ RegistryOK'
BY RegistryStays DEF serializationVars

\* The threads of actors.
LEMMA ActorsAreSteady ==
  ASSUME RemoteInv, RegistryOK, Grows, NEW p \in Procs, ActorStep(p) PROVE Steady /\ RegistryOK'
<1>1. PICK a \in Home[p] : \/ Originate(p, a) \/ Ignore(p, a) \/ Reply(p, a) \/ Forward(p, a)
                           \/ Posts(p, a) \/ Misreads(p, a) \/ Ends(p, a)
  BY DEF ActorStep
<1>2. a \in Actors
  BY RemoteAssumption
<1>3. ThreadEnds(p, a) => \A q \in Procs : alive'[q] = IF q = p THEN alive[q] \ {a} ELSE alive[q]
  BY DEF ThreadEnds, RemoteInv, MailOK
<1>4. ASSUME NEW addr, NEW t \in Types, NEW ref, NEW origin, NEW re, NEW left,
             HandlerSends(p, a, addr, t, ref, origin, re, left)
      PROVE  Steady /\ RegistryOK'
  <2>1. CASE SendPanics(p, t) /\ ThreadEnds(p, a)
    BY <1>3, <2>1, PanicHasCause, RegistryStays
  <2>2. CASE UNCHANGED <<serializationVars, alive>>
    BY <2>2, NothingHappens
  <2>3. QED
    BY <1>4, <2>1, <2>2 DEF HandlerSends
<1>5. CASE Originate(p, a)
  BY <1>4, <1>5 DEF Originate, Sendable
<1>6. CASE Reply(p, a)
  BY <1>4, <1>6 DEF Reply, Sendable
<1>7. CASE Forward(p, a)
  <2>1. frames[Head(mailbox[p][a])].body \in Types
    BY <1>2, <1>7, NextMessage DEF Forward, Frame
  <2>2. QED
    BY <1>4, <1>7, <2>1 DEF Forward
<1>8. CASE Ignore(p, a) \/ Posts(p, a) \/ Ends(p, a)
  BY <1>3, <1>8, NothingHappens DEF Ignore, Posts, Ends
<1>9. CASE Misreads(p, a)
  <2>1. UNCHANGED <<named, entry, pending>> /\ Poison(p)
    BY <1>9 DEF Misreads, FailingRead
  <2>2. \A q \in Procs : poisoned'[q] = IF q = p THEN TRUE ELSE poisoned[q]
    BY <2>1 DEF Poison, RemoteInv, SerializationTypeOK
  <2>3. \A q \in Procs : alive'[q] \subseteq alive[q]
    BY <1>3, <1>9 DEF Misreads
  <2>4. Home[p] \ alive'[p] # {}
    BY <1>3, <1>9 DEF Misreads
  <2>5. QED
    BY <2>1, <2>2, <2>3, <2>4, RegistryStays
<1>10. QED
  BY <1>1, <1>5, <1>6, <1>7, <1>8, <1>9

\* The receiver threads.
LEMMA ReceiversAreSteady ==
  ASSUME OrderInv, RegistryOK, Grows, NEW p \in Procs, NEW s \in Starts, ReceiverThread(p, s)
  PROVE  Steady /\ RegistryOK'
<1> USE DEF OrderInv
<1>1. UNCHANGED alive
  BY DEF ReceiverThread, Bind, Test, Receive, TimesOut, LookUp, TryDeserialize, Deliver,
         SerializeReject, QueueReject, actorVars
<1>2. CASE UNCHANGED serializationVars
  BY <1>1, <1>2, NothingHappens
<1>3. CASE SerializeReject(p, s) /\ SendPanics(p, Reject)
  BY <1>1, <1>3, PanicHasCause, RegistryStays, RemoteAssumption
<1>4. CASE TryDeserialize(p, s)
  <2> DEFINE w == InHand(p, s).body
  <2>1. CASE ReadPanics(p, NameOf[w], w) /\ FailingRead(p, NameOf[w], w)
    <3>1. work[p][s] \in DOMAIN frames
      BY <1>4 DEF TryDeserialize, RemoteInv, ThreadsOK, Holding
    <3>2. frames[work[p][s]].to = p
      BY <3>1, RemoteAssumption DEF PlacedOK, RemoteInv, FramesOK
    <3>3. poisoned[p] \/ Cause(p)
      BY <2>1, <3>1, <3>2 DEF ReadPanics, InHand, Cause, MisreadFrame
    <3>4. UNCHANGED <<named, entry, pending>>
          /\ \A q \in Procs : poisoned'[q] = IF q = p THEN TRUE ELSE poisoned[q]
      BY <2>1 DEF FailingRead, Poison, RemoteInv, SerializationTypeOK
    <3>5. QED
      BY <1>1, <3>3, <3>4, RegistryStays
  <2>2. QED
    BY <1>2, <1>4, <2>1 DEF TryDeserialize
<1>5. QED
  BY <1>2, <1>3, <1>4
     DEF ReceiverThread, Bind, Test, Receive, TimesOut, LookUp, Deliver, SerializeReject, QueueReject

LEMMA RegistrationsAreSteady ==
  ASSUME RemoteInv, RegistryOK, NEW p \in Procs, RegistersLater(p) PROVE Steady /\ RegistryOK'
<1>1. PICK t \in Types : RegisterName(p, t) \/ RegisterEntry(p, t)
  BY DEF RegistersLater
<1>2. /\ RegistryOK' /\ UNCHANGED <<poisoned, alive>>
      /\ \A q \in Procs : named[q] \subseteq named'[q] /\ (poisoned[q] => entry'[q] = entry[q])
  BY <1>1, RegistrationKeeps DEF RegistersLater, actorVars
<1>3. QED
  BY <1>2 DEF Steady

\* Nobody but the thread itself makes it panic, and not without a cause.
LEMMA PanicsForACause ==
  ASSUME OrderInv, RegistryOK, RemoteNext, NEW p \in Procs, NEW s \in Starts,
         thread'[p][s] = "panicked", thread[p][s] # "panicked"
  PROVE  poisoned'[p] \/ Reject \notin AtStart[p]
<1> USE DEF OrderInv
<1>1. Start(p, s) \/ ReceiverThread(p, s) \/ SocketFails(p, s) \/ Restart(p)
  BY WhoMovesThreads
<1>2. ~Start(p, s) /\ ~Restart(p)
  BY DEF Start, Restart, RemoteInv, ThreadsOK
<1>3. ~SocketFails(p, s) /\ ~Bind(p, s) /\ ~Test(p, s) /\ ~Receive(p, s) /\ ~TimesOut(p, s)
  BY Destination DEF SocketFails, Leaves, Bind, Test, Receive, TimesOut
<1>4. ~LookUp(p, s) /\ ~Deliver(p, s) /\ ~QueueReject(p, s)
  BY Destination, RefuseDestination DEF LookUp, Deliver, QueueReject
<1>5. CASE TryDeserialize(p, s)
  <2>1. FailingRead(p, NameOf[InHand(p, s).body], InHand(p, s).body)
    BY <1>5, Destination, RefuseDestination DEF TryDeserialize
  <2>2. QED
    BY <2>1 DEF FailingRead, Poison, RemoteInv, SerializationTypeOK
<1>6. CASE SerializeReject(p, s)
  <2>1. SendPanics(p, Reject)
    BY <1>6, Destination DEF SerializeReject
  <2>2. QED
    BY <2>1, PanicHasCause, RemoteAssumption
<1>7. QED
  BY <1>1, <1>2, <1>3, <1>4, <1>5, <1>6 DEF ReceiverThread

TakenInv == OrderInvs /\ RegistryOK /\ TakenDownForACause

LEMMA TakenFirst == RemoteInit => RegistryOK /\ TakenDownForACause
<1> SUFFICES ASSUME RemoteInit PROVE RegistryOK /\ TakenDownForACause
  OBVIOUS
<1>1. \A p \in Procs : named[p] = AtStart[p] /\ entry[p] = Registered(p) /\ pending[p] = {} /\ ~poisoned[p]
  BY DEF RemoteInit, SerializationInit
<1>2. RegistryOK
  BY <1>1, RegisteredFirst DEF RegistryOK
<1>3. \A p \in Procs, s \in Starts : thread[p][s] = "none"
  BY DEF RemoteInit, ReceiverInit
<1>4. QED
  BY <1>1, <1>2, <1>3 DEF TakenDownForACause

\* A process that goes on.
LEMMA SteadyIsTaken ==
  ASSUME TakenInv, Grows, Steady, RemoteNext PROVE TakenDownForACause'
<1>1. ASSUME NEW p \in Procs, poisoned'[p] PROVE Cause(p)'
  <2>1. poisoned[p] => Cause(p)
    BY DEF TakenInv, TakenDownForACause, Cause
  <2>2. QED
    BY <1>1, <2>1, SteadyKeepsCauses DEF TakenInv, OrderInvs, OrderInv
<1>2. ASSUME NEW p \in Procs, NEW s \in Starts, thread'[p][s] = "panicked"
      PROVE  poisoned'[p] \/ Reject \notin AtStart[p]
  <2>1. CASE thread[p][s] = "panicked"
    BY <2>1 DEF TakenInv, TakenDownForACause, Steady
  <2>2. CASE thread[p][s] # "panicked"
    BY <1>2, <2>2, PanicsForACause DEF TakenInv, OrderInvs
  <2>3. QED
    BY <2>1, <2>2
<1>3. QED
  BY <1>1, <1>2 DEF TakenDownForACause, Cause

\* A process that starts anew has nothing amiss, and the others do not notice.
LEMMA RestartIsTaken ==
  ASSUME TakenInv, NEW p \in Procs, Restart(p) PROVE RegistryOK' /\ TakenDownForACause'
<1> USE DEF TakenInv, OrderInvs, OrderInv, RemoteInv, SerializationTypeOK
<1>1. /\ named'[p] = AtStart[p] /\ entry'[p] = Registered(p) /\ pending'[p] = {} /\ ~poisoned'[p]
      /\ \A s \in Starts : thread'[p][s] = "none"
  BY DEF Restart, ResetRegistry, ThreadsOK
<1>2. ASSUME NEW q \in Procs, q # p
      PROVE  /\ named'[q] = named[q] /\ entry'[q] = entry[q] /\ pending'[q] = pending[q]
             /\ poisoned'[q] = poisoned[q] /\ alive'[q] = alive[q] /\ thread'[q] = thread[q]
  BY <1>2 DEF Restart, ResetRegistry, MailOK, ThreadsOK
<1>3. Grows
  BY NoNewFrames DEF Restart
<1>4. RegistryOK'
  <2> SUFFICES ASSUME NEW q \in Procs
               PROVE  /\ AtStart[q] \subseteq named'[q] /\ pending'[q] \subseteq named'[q] \ AtStart[q]
                      /\ \A u \in named'[q] : entry'[q][NameOf[u]] # u =>
                           \E t \in named'[q] \ AtStart[q] : NameOf[t] = NameOf[u]
    BY DEF RegistryOK
  <2>1. CASE q = p
    BY <1>1, <2>1, RegisteredFirst
  <2>2. CASE q # p
    BY <1>2, <2>2 DEF RegistryOK
  <2>3. QED
    BY <2>1, <2>2
<1>5. ASSUME NEW q \in Procs, poisoned'[q] PROVE Cause(q)'
  <2>1. q # p /\ poisoned[q]
    BY <1>1, <1>2, <1>5
  <2>2. Cause(q)
    BY <2>1 DEF TakenDownForACause, Cause
  <2>3. QED
    BY <1>2, <1>3, <2>1, <2>2, CauseStays
<1>6. ASSUME NEW q \in Procs, NEW s \in Starts, thread'[q][s] = "panicked"
      PROVE  poisoned'[q] \/ Reject \notin AtStart[q]
  BY <1>1, <1>2, <1>6 DEF TakenDownForACause
<1>7. QED
  BY <1>4, <1>5, <1>6 DEF TakenDownForACause, Cause

LEMMA TakenStep == TakenInv /\ [RemoteNext]_vars => TakenInv'
<1> SUFFICES ASSUME TakenInv, [RemoteNext]_vars PROVE TakenInv'
  OBVIOUS
<1>1. OrderInvs'
  BY OrderStep DEF TakenInv
<1>2. OrderInv /\ LettersOK /\ RemoteInv /\ RegistryOK
  BY DEF TakenInv, OrderInvs, OrderInv
<1>3. Grows
  BY <1>2, Events, EventGrows DEF RemoteInv
<1>4. CASE UNCHANGED vars
  BY <1>1, <1>4 DEF TakenInv, RegistryOK, TakenDownForACause, RegisteredInMidstream, MisreadFrame,
       Known, Parses, vars, serializationVars, actorVars, receiverVars
<1>5. CASE RemoteNext
  <2>1. PICK p \in Procs :
          \/ ActorStep(p) \/ RegistersLater(p) \/ SenderThread(p) \/ Restart(p)
          \/ \E a \in Actors : RegisterActor(p, a)
          \/ \E s \in Starts : \/ Start(p, s) \/ ReceiverThread(p, s) \/ SocketFails(p, s)
                               \/ Stop(p, s) \/ Joined(p, s)
    BY <1>5 DEF RemoteNext
  <2>2. CASE Restart(p)
    BY <1>1, <2>2, RestartIsTaken DEF TakenInv
  <2>3. CASE Steady /\ RegistryOK'
    BY <1>1, <1>3, <1>5, <2>3, SteadyIsTaken DEF TakenInv
  <2>4. CASE \/ SenderThread(p) \/ \E a \in Actors : RegisterActor(p, a)
             \/ \E s \in Starts : Start(p, s) \/ SocketFails(p, s) \/ Stop(p, s) \/ Joined(p, s)
    <3>1. UNCHANGED <<serializationVars, alive>>
      BY <2>4 DEF SenderThread, TakeRequest, Connect, ConnectFails, Transmit, RegisterActor, Start,
                  SocketFails, Stop, Joined, actorVars
    <3>2. QED
      BY <1>2, <1>3, <2>3, <3>1, NothingHappens
  <2>5. CASE ActorStep(p)
    BY <1>2, <1>3, <2>3, <2>5, ActorsAreSteady
  <2>6. CASE RegistersLater(p)
    BY <1>2, <2>3, <2>6, RegistrationsAreSteady
  <2>7. CASE \E s \in Starts : ReceiverThread(p, s)
    BY <1>2, <1>3, <2>3, <2>7, ReceiversAreSteady
  <2>8. QED
    BY <2>1, <2>2, <2>4, <2>5, <2>6, <2>7
<1>6. QED
  BY <1>4, <1>5

\* serialization.rs, remote.rs: a process whose main has registered its types,
\* Reject among them, is taken down by a late registration, a message of another
\* version or the end of an actor of its own, and by nothing else.
THEOREM NothingElseTakesItDown == RemoteSpec => []TakenDownForACause
<1>1. RemoteInit => TakenInv
  BY InitOrder, TakenFirst DEF TakenInv, OrderInvs, RemoteInit, LettersOK
<1>2. TakenInv => TakenDownForACause
  BY DEF TakenInv
<1>3. QED
  BY <1>1, <1>2, TakenStep, PTL DEF RemoteSpec
-----------------------------------------------------------------------------
\* Where a frame is, by stages.
SeenArrived(i)  == UNION {{<<"arrived", p, k>> : k \in At(arrived[p], i)} : p \in Procs}
SeenRejected(i) == {<<"rejected", j>> : j \in {j \in DOMAIN frames : frames[j].body = Reject
                                                                    /\ frames[j].re = i}}
SeenWorked(i)   == UNION {{<<"work", p, s>> : s \in At(work[p], i)} : p \in Procs}
SeenWired(i)    == UNION {{<<"wire", p, l, k>> : k \in At(wire[p][l], i)}
                           : p \in Procs, l \in Lives}
SeenCurrent(i)  == {<<"current", p>> : p \in {p \in Procs : current[p] = i}}
SeenQueued(i)   == UNION {{<<"queued", p, k>> : k \in At(queue[p], i)} : p \in Procs}

Seen(i) == <<SeenArrived(i) \cup SeenRejected(i), SeenWorked(i), SeenWired(i),
             SeenCurrent(i), SeenQueued(i)>>

LEMMA SeenSomewhere ==
  ASSUME NEW i, NEW x \in Whereabouts(i) PROVE \E m \in 1 .. 5 : x \in Seen(i)[m]
<1>1. Whereabouts(i) = UNION {SeenQueued(i), SeenCurrent(i), SeenWired(i),
                              SeenWorked(i), SeenArrived(i), SeenRejected(i)}
  BY DEF Whereabouts, SeenQueued, SeenCurrent, SeenWired, SeenWorked,
         SeenArrived, SeenRejected
<1>2. /\ Seen(i)[1] = SeenArrived(i) \cup SeenRejected(i)
      /\ Seen(i)[2] = SeenWorked(i) /\ Seen(i)[3] = SeenWired(i)
      /\ Seen(i)[4] = SeenCurrent(i) /\ Seen(i)[5] = SeenQueued(i)
  BY DEF Seen
<1>3. \/ x \in Seen(i)[1] \/ x \in Seen(i)[2] \/ x \in Seen(i)[3]
      \/ x \in Seen(i)[4] \/ x \in Seen(i)[5]
  BY <1>1, <1>2
<1>4. QED
  BY <1>3

LEMMA SeenInStage ==
  ASSUME OrderInv, NEW i \in DOMAIN frames, NEW m \in 1 .. 5, NEW x \in Seen(i)[m]
  PROVE  i \in Stages[m]
<1>0. i \in Nat
  BY DEF OrderInv, RemoteInv, FramesOK
<1>1. CASE m = 1
  <2>1. i \in Done
    BY <1>0, <1>1 DEF Seen, SeenArrived, SeenRejected, Done, At, In, Rejects
  <2>2. QED
    BY <1>1, <2>1 DEF Stages
<1>2. CASE m = 2
  <2>1. i \in Worked
    BY <1>0, <1>2 DEF Seen, SeenWorked, Worked, At, OrderInv, RemoteInv, ThreadsOK
  <2>2. QED
    BY <1>2, <2>1 DEF Stages
<1>3. CASE m = 3
  <2>1. i \in Wired
    BY <1>0, <1>3 DEF Seen, SeenWired, Wired, At, In
  <2>2. QED
    BY <1>3, <2>1 DEF Stages
<1>4. CASE m = 4
  <2>1. i \in Current
    BY <1>0, <1>4 DEF Seen, SeenCurrent, Current
  <2>2. QED
    BY <1>4, <2>1 DEF Stages
<1>5. CASE m = 5
  <2>1. i \in Queued
    BY <1>0, <1>5 DEF Seen, SeenQueued, Queued, At, In
  <2>2. QED
    BY <1>5, <2>1 DEF Stages
<1>6. QED
  BY <1>1, <1>2, <1>3, <1>4, <1>5

\* No number occurs twice in an increasing sequence.
LEMMA IncreasingOnce ==
  ASSUME NEW s \in Seq(Nat), Increasing(s), NEW j \in DOMAIN s, NEW k \in DOMAIN s, s[j] = s[k]
  PROVE  j = k
<1>1. j \in Nat /\ k \in Nat /\ s[j] \in Nat
  OBVIOUS
<1>2. ~(j < k) /\ ~(k < j)
  BY <1>1 DEF Increasing
<1>3. QED
  BY <1>1, <1>2

LEMMA SeenOnceInStage ==
  ASSUME OrderInv, NEW i \in DOMAIN frames, NEW m \in 1 .. 5,
         NEW x \in Seen(i)[m], NEW y \in Seen(i)[m]
  PROVE  x = y
<1> USE DEF OrderInv
<1>0. i # None
  BY RemoteAssumption DEF RemoteInv, FramesOK
<1>1. CASE m = 1
  <2>1. Seen(i)[m] = SeenArrived(i) \cup SeenRejected(i)
    BY <1>1 DEF Seen
  <2>2. ASSUME NEW a \in SeenArrived(i), NEW b \in SeenArrived(i) PROVE a = b
    <3>1. PICK p \in Procs : \E k \in DOMAIN arrived[p] :
            arrived[p][k] = i /\ a = <<"arrived", p, k>>
      BY <2>2 DEF SeenArrived, At
    <3>2. PICK q \in Procs : \E k \in DOMAIN arrived[q] :
            arrived[q][k] = i /\ b = <<"arrived", q, k>>
      BY <2>2 DEF SeenArrived, At
    <3>3. p = q
      BY <3>1, <3>2 DEF PlacedOK
    <3>4. QED
      BY <3>1, <3>2, <3>3 DEF OnceOK
  <2>3. ASSUME NEW a \in SeenRejected(i), NEW b \in SeenRejected(i) PROVE a = b
    BY <2>3 DEF SeenRejected, Rejects, OnceOK
  <2>4. ASSUME NEW a \in SeenArrived(i), NEW b \in SeenRejected(i) PROVE FALSE
    BY <2>4 DEF SeenArrived, SeenRejected, Rejects, OnceOK, At, In
  <2>5. QED
    BY <2>1, <2>2, <2>3, <2>4
<1>2. CASE m = 2
  <2>1. PICK p \in Procs, r \in Starts : work[p][r] = i /\ x = <<"work", p, r>>
    BY <1>2 DEF Seen, SeenWorked, At, RemoteInv, ThreadsOK
  <2>2. PICK q \in Procs, s \in Starts : work[q][s] = i /\ y = <<"work", q, s>>
    BY <1>2 DEF Seen, SeenWorked, At, RemoteInv, ThreadsOK
  <2>3. p = q
    BY <1>0, <2>1, <2>2 DEF PlacedOK
  <2>4. r = s
    BY <1>0, <2>1, <2>2, <2>3, OneInHand
  <2>5. QED
    BY <2>1, <2>2, <2>3, <2>4
<1>3. CASE m = 3
  <2>1. PICK p \in Procs, l \in Lives :
          \E k \in DOMAIN wire[p][l] : wire[p][l][k] = i /\ x = <<"wire", p, l, k>>
    BY <1>3 DEF Seen, SeenWired, At
  <2>2. PICK q \in Procs, h \in Lives :
          \E k \in DOMAIN wire[q][h] : wire[q][h][k] = i /\ y = <<"wire", q, h, k>>
    BY <1>3 DEF Seen, SeenWired, At
  <2>3. p = q /\ l = h
    BY <2>1, <2>2 DEF PlacedOK
  <2>4. wire[p][l] \in Seq(Nat) /\ Increasing(wire[p][l])
    BY NumbersAreNats DEF RemoteInv, WireOK, SortedOK
  <2>5. QED
    BY <2>1, <2>2, <2>3, <2>4, IncreasingOnce
<1>4. CASE m = 4
  <2>1. PICK p \in Procs : current[p] = i /\ x = <<"current", p>>
    BY <1>4 DEF Seen, SeenCurrent
  <2>2. PICK q \in Procs : current[q] = i /\ y = <<"current", q>>
    BY <1>4 DEF Seen, SeenCurrent
  <2>3. QED
    BY <1>0, <2>1, <2>2 DEF PlacedOK
<1>5. CASE m = 5
  <2>1. PICK p \in Procs : \E k \in DOMAIN queue[p] : queue[p][k] = i /\ x = <<"queued", p, k>>
    BY <1>5 DEF Seen, SeenQueued, At
  <2>2. PICK q \in Procs : \E k \in DOMAIN queue[q] : queue[q][k] = i /\ y = <<"queued", q, k>>
    BY <1>5 DEF Seen, SeenQueued, At
  <2>3. p = q
    BY <2>1, <2>2 DEF PlacedOK
  <2>4. queue[p] \in Seq(Nat) /\ Increasing(queue[p])
    BY NumbersAreNats DEF RemoteInv, SenderOK, SortedOK
  <2>5. QED
    BY <2>1, <2>2, <2>3, <2>4, IncreasingOnce
<1>6. QED
  BY <1>1, <1>2, <1>3, <1>4, <1>5

LEMMA InOnePlace == OrderInv => EachFrameOnce
<1> SUFFICES ASSUME OrderInv, NEW i \in DOMAIN frames
             PROVE  Cardinality(Whereabouts(i)) <= 1
  BY DEF EachFrameOnce
<1>1. ASSUME NEW x \in Whereabouts(i), NEW y \in Whereabouts(i) PROVE x = y
  <2>1. PICK m \in 1 .. 5 : x \in Seen(i)[m]
    BY SeenSomewhere
  <2>2. PICK n \in 1 .. 5 : y \in Seen(i)[n]
    BY SeenSomewhere
  <2>3. i \in Stages[m] /\ i \in Stages[n] /\ i \in Nat
    BY <2>1, <2>2, SeenInStage DEF OrderInv, RemoteInv, FramesOK
  <2>4. ~(m < n) /\ ~(n < m)
    BY <2>3, EarlierStage
  <2>5. m = n
    BY <2>4
  <2>6. QED
    BY <2>1, <2>2, <2>5, SeenOnceInStage
<1>2. CASE Whereabouts(i) = {}
  BY <1>2, FS_EmptySet
<1>3. CASE Whereabouts(i) # {}
  <2>1. PICK x : x \in Whereabouts(i)
    BY <1>3
  <2>2. Whereabouts(i) = {x}
    BY <1>1, <2>1
  <2>3. Cardinality({x}) = 1
    BY FS_Singleton, Zenon
  <2>4. QED
    BY <2>2, <2>3
<1>4. QED
  BY <1>2, <1>3

\* remote.rs: the sender thread, the receive loop and the two exits of
\* handle_remote_message_async neither copy a frame nor finish with it twice.
THEOREM NoFrameTwice == RemoteSpec => []EachFrameOnce
<1>1. OrderInvs => EachFrameOnce
  BY InOnePlace DEF OrderInvs
<1>2. QED
  BY <1>1, OrderSafe, PTL
-----------------------------------------------------------------------------
\* The stages in which a frame is on its way.
OnItsWay == Worked \cup Wired \cup Current \cup Queued

TransitOK == Transit = OnItsWay

LEMMA TransitStages == OrderInv => TransitOK
<1> SUFFICES ASSUME OrderInv PROVE Transit = OnItsWay
  BY DEF TransitOK
<1> USE DEF OrderInv
<1>1. ASSUME NEW i \in Transit PROVE i \in OnItsWay
  <2>1. i \in DOMAIN frames /\ i \in Nat /\ InTransit(i)
    BY DEF Transit, RemoteInv, FramesOK
  <2>2. PICK p \in Procs : \/ At(queue[p], i) # {} \/ current[p] = i \/ At(work[p], i) # {}
                           \/ \E l \in Lives : At(wire[p][l], i) # {}
    BY <2>1 DEF InTransit
  <2>3. CASE At(queue[p], i) # {}
    BY <2>1, <2>3 DEF At, OnItsWay, Queued, In
  <2>4. CASE current[p] = i
    BY <2>1, <2>4 DEF OnItsWay, Current
  <2>5. CASE At(work[p], i) # {}
    BY <2>1, <2>5 DEF At, OnItsWay, Worked, RemoteInv, ThreadsOK
  <2>6. CASE \E l \in Lives : At(wire[p][l], i) # {}
    BY <2>1, <2>6 DEF At, OnItsWay, Wired, In
  <2>7. QED
    BY <2>2, <2>3, <2>4, <2>5, <2>6
<1>2. ASSUME NEW i \in OnItsWay PROVE i \in Transit
  <2>1. i \in DOMAIN frames
    BY StagesHoldFrames DEF OnItsWay, Stages
  <2>2. ASSUME i \in Worked PROVE InTransit(i)
    BY <2>2 DEF Worked, InTransit, At, RemoteInv, ThreadsOK
  <2>3. ASSUME i \in Wired PROVE InTransit(i)
    BY <2>3 DEF Wired, In, InTransit, At
  <2>4. ASSUME i \in Current PROVE InTransit(i)
    BY <2>4 DEF Current, InTransit
  <2>5. ASSUME i \in Queued PROVE InTransit(i)
    BY <2>5 DEF Queued, In, InTransit, At
  <2>6. QED
    BY <2>1, <2>2, <2>3, <2>4, <2>5 DEF OnItsWay, Transit
<1>3. QED
  BY <1>1, <1>2

\* What is still on its way is what the channel keeps when i has got through.
LEMMA WorkIsAhead ==
  ASSUME OrderInv, NEW p \in Procs, NEW s \in Starts, work[p][s] # None,
         work' = [work EXCEPT ![p][s] = None]
  PROVE  Worked' \cup Wired \cup Current \cup Queued
           = {j \in OnItsWay : Over[j] # Over[work[p][s]] \/ j > work[p][s]}
<1> DEFINE i == work[p][s]
<1>1. i \in Worked /\ i \in DOMAIN frames /\ i \in Nat
  BY WorkIsNotDone
<1>2. \A q \in Procs, r \in Starts : work'[q][r] = IF q = p /\ r = s THEN None ELSE work[q][r]
  BY DEF OrderInv, RemoteInv, ThreadsOK
<1>3. \A j \in Worked' : j \in Worked /\ Over[j] # Over[i]
  BY WorkIsFirst
<1>4. \A j \in Worked : j \in Worked' \/ j = i
  BY <1>2 DEF Worked
<1> HIDE DEF i
<1>5. \A j \in Wired \cup Current \cup Queued : Over[j] = Over[i] => j > i
  <2> SUFFICES ASSUME NEW j \in Wired \cup Current \cup Queued, Over[j] = Over[i] PROVE i < j
    <3>1. Wired \in SUBSET Nat /\ Current \in SUBSET Nat /\ Queued \in SUBSET Nat
      BY DEF Wired, Current, Queued
    <3>2. QED
      BY <1>1, <3>1
  <2>1. \E m \in 3 .. 5 : j \in Stages[m]
    BY DEF Stages
  <2>2. i \in Stages[2]
    BY <1>1 DEF Stages
  <2>3. QED
    BY <2>1, <2>2 DEF OrderInv, Ordered
<1>6. \A j \in Worked' \cup Wired \cup Current \cup Queued :
        j \in OnItsWay /\ (Over[j] # Over[i] \/ j > i)
  BY <1>3, <1>5 DEF OnItsWay
<1>7. \A j \in OnItsWay :
        Over[j] # Over[i] \/ j > i => j \in Worked' \cup Wired \cup Current \cup Queued
  BY <1>1, <1>4 DEF OnItsWay
<1>8. QED
  BY <1>6, <1>7 DEF i

\* A step that delivers, rejects and queues nothing at most loses.
LEMMA OthersLose ==
  ASSUME OrderInv, NEW p \in Procs,
         \/ Fades \/ Taken(p) \/ Transmitted(p)
         \/ \E s \in Starts, l \in Lives : Received(p, s, l)
  PROVE  OnItsWay' \subseteq OnItsWay /\ UNCHANGED <<frames, arrived>>
<1> USE DEF OrderInv
<1>0. None \notin Nat
  BY RemoteAssumption
<1>1. CASE Fades
  BY <1>0, <1>1 DEF Fades, OnItsWay, Queued, Current, Wired, Worked, In
<1>2. CASE Taken(p)
  <2>1. queue[p] \in Seq(DOMAIN frames) /\ queue[p] # <<>>
    BY <1>2 DEF Taken, RemoteInv, SenderOK
  <2>2. /\ \A q \in Procs : queue'[q] = IF q = p THEN Tail(queue[p]) ELSE queue[q]
        /\ \A q \in Procs : current'[q] = IF q = p THEN Head(queue[p]) ELSE current[q]
    BY <1>2 DEF Taken, RemoteInv, SenderOK
  <2>3. \A q \in Procs : \A k \in DOMAIN queue'[q] : \E h \in DOMAIN queue[q] :
          queue'[q][k] = queue[q][h]
    <3>1. \A k \in DOMAIN Tail(queue[p]) :
            k + 1 \in DOMAIN queue[p] /\ Tail(queue[p])[k] = queue[p][k + 1]
      BY <2>1, TailIndices
    <3>2. QED
      BY <2>2, <3>1
  <2>4. \A j \in Queued' : j \in Queued
    BY <2>3 DEF Queued, In
  <2>5. \A j \in Current' : j \in Current \/ j = Head(queue[p])
    BY <2>2 DEF Current
  <2>6. Head(queue[p]) \in Queued
    BY <2>1, TailIndices, Positions
  <2>7. Worked' = Worked /\ Wired' = Wired
    BY <1>2 DEF Taken, Worked, Wired
  <2>8. QED
    BY <1>2, <2>4, <2>5, <2>6, <2>7 DEF OnItsWay, Taken
<1>3. CASE Transmitted(p)
  <2> DEFINE d == Dest(p)
             l == <<p, life[p]>>
  <2>1. wire \in [Procs -> [Lives -> Seq(DOMAIN frames)]] /\ current[p] \in DOMAIN frames
    BY <1>3 DEF Transmitted, RemoteInv, WireOK, SenderOK
  <2>2. current[p] \in Current
    BY <1>3, Positions DEF Transmitted
  <2>3. wire' = [wire EXCEPT ![d][l] = Append(@, current[p])]
    BY <1>3 DEF Transmitted
  <2> HIDE DEF d, l
  <2>4. \A q \in Procs, k \in Lives :
          wire'[q][k] = wire[q][k] \/ wire'[q][k] = Append(wire[q][k], current[p])
    BY <2>1, <2>3
  <2>5. \A q \in Procs, k \in Lives : \A h \in DOMAIN wire'[q][k] :
          \/ h \in DOMAIN wire[q][k] /\ wire'[q][k][h] = wire[q][k][h]
          \/ wire'[q][k][h] = current[p]
    <3> SUFFICES ASSUME NEW q \in Procs, NEW k \in Lives, NEW h \in DOMAIN wire'[q][k]
                 PROVE  \/ h \in DOMAIN wire[q][k] /\ wire'[q][k][h] = wire[q][k][h]
                        \/ wire'[q][k][h] = current[p]
      OBVIOUS
    <3>1. wire[q][k] \in Seq(DOMAIN frames)
      BY <2>1
    <3>2. QED
      BY <2>1, <2>4, <3>1, AppendIndices
  <2>6. \A j \in Wired' : j \in Wired \/ j = current[p]
    BY <2>5 DEF Wired, In
  <2>7. \A j \in Current' : j \in Current
    BY <1>0, <1>3 DEF Transmitted, Current, RemoteInv, SenderOK
  <2>8. Worked' = Worked /\ Queued' = Queued
    BY <1>3 DEF Transmitted, Worked, Queued
  <2>9. QED
    BY <1>3, <2>2, <2>6, <2>7, <2>8 DEF OnItsWay, Transmitted
<1>4. ASSUME NEW s \in Starts, NEW l \in Lives, Received(p, s, l)
      PROVE  OnItsWay' \subseteq OnItsWay /\ UNCHANGED <<frames, arrived>>
  <2>1. /\ wire[p][l] \in Seq(DOMAIN frames) /\ wire[p][l] # <<>>
        /\ wire' = [wire EXCEPT ![p][l] = Tail(@)]
        /\ wire \in [Procs -> [Lives -> Seq(DOMAIN frames)]]
    BY <1>4 DEF Received, RemoteInv, WireOK
  <2>2. \A q \in Procs, k \in Lives :
          wire'[q][k] = IF q = p /\ k = l THEN Tail(wire[p][l]) ELSE wire[q][k]
    BY <2>1
  <2>3. \A q \in Procs, k \in Lives : \A h \in DOMAIN wire'[q][k] :
          \E g \in DOMAIN wire[q][k] : wire'[q][k][h] = wire[q][k][g]
    BY <2>1, <2>2, TailIndices
  <2>4. \A j \in Wired' : j \in Wired
    BY <2>3 DEF Wired, In
  <2>5. Head(wire[p][l]) \in Wired
    BY <2>1, TailIndices, Positions
  <2>6. \A j \in Worked' : j \in Worked \/ j = Head(wire[p][l])
    BY <1>4 DEF Received, Worked, RemoteInv, ThreadsOK
  <2>7. Current' = Current /\ Queued' = Queued
    BY <1>4 DEF Received, Current, Queued
  <2>8. QED
    BY <1>4, <2>4, <2>5, <2>6, <2>7 DEF OnItsWay, Received
<1>5. QED
  BY <1>1, <1>2, <1>3, <1>4

\* A new frame is on its way, over its link.
LEMMA NewOnItsWay ==
  ASSUME OrderInv, NEW p \in Procs, NEW f \in Frame, Submits(p, f)
  PROVE  /\ Over' = Append(Over, <<f.src, f.to>>) /\ Len(Over) = Len(frames)
         /\ Queued' = Queued \cup {Len(frames) + 1}
         /\ <<f.src, f.to>> \in Lives \X Procs
<1> DEFINE n == Len(frames) + 1
<1>1. frames \in Seq(Frame) /\ frames' = Append(frames, f)
  BY DEF OrderInv, RemoteInv, FramesOK, Submits
<1>2. /\ Over' = Append(Over, <<f.src, f.to>>) /\ Len(Over) = Len(frames)
  <2>1. Len(frames) \in Nat /\ DOMAIN frames = 1 .. Len(frames) /\ DOMAIN Over = 1 .. Len(frames)
    BY <1>1 DEF Over
  <2>2. \A i \in DOMAIN frames : Over[i] = <<frames[i].src, frames[i].to>>
    BY DEF Over
  <2>3. Over \in Seq(Lives \X Procs)
    <3>1. \A i \in DOMAIN frames : frames[i] \in Frame
      BY <1>1
    <3>2. \A i \in 1 .. Len(frames) : Over[i] \in Lives \X Procs
      <4> SUFFICES ASSUME NEW i \in DOMAIN frames PROVE Over[i] \in Lives \X Procs
        BY <2>1
      <4>1. frames[i].src \in Lives /\ frames[i].to \in Procs
        BY <3>1 DEF Frame
      <4>2. QED
        BY <2>2, <4>1
    <3>3. Over = [i \in 1 .. Len(frames) |-> Over[i]]
      BY <2>1 DEF Over
    <3>4. Over \in [1 .. Len(frames) -> Lives \X Procs]
      BY <3>2, <3>3
    <3>5. QED
      BY <2>1, <3>4
  <2>4. Len(Over) = Len(frames)
    BY <2>1, <2>3
  <2>5. DOMAIN Over' = 1 .. Len(frames) + 1
    BY <1>1, <2>1 DEF Over
  <2>6. \A i \in DOMAIN frames : Over'[i] = Over[i]
    BY <1>1, <2>1 DEF Over
  <2>7. Over'[Len(frames) + 1] = <<f.src, f.to>>
    BY <1>1, <2>1 DEF Over
  <2>8. Over' = [i \in 1 .. Len(frames) + 1 |-> Over'[i]]
    BY <2>5 DEF Over
  <2>9. QED
    BY <2>1, <2>3, <2>4, <2>5, <2>6, <2>7, <2>8
<1>3. Queued' = Queued \cup {n}
  <2>1. queue[p] \in Seq(DOMAIN frames) /\ n \in Nat
    BY <1>1 DEF OrderInv, RemoteInv, SenderOK
  <2> HIDE DEF n
  <2>2. \A q \in Procs : queue'[q] = IF q = p THEN Append(queue[p], n) ELSE queue[q]
    BY DEF Submits, OrderInv, RemoteInv, SenderOK, n
  <2>3. /\ \A k \in DOMAIN queue[p] :
             k \in DOMAIN Append(queue[p], n) /\ Append(queue[p], n)[k] = queue[p][k]
        /\ Len(queue[p]) + 1 \in DOMAIN Append(queue[p], n)
        /\ Append(queue[p], n)[Len(queue[p]) + 1] = n
    BY <2>1
  <2>4. \A j \in Queued : j \in Queued'
    BY <2>2, <2>3 DEF Queued, In
  <2>5. n \in Queued'
    BY <2>1, <2>2, <2>3 DEF Queued, In
  <2>6. \A j \in Queued' : j \in Queued \/ j = n
    BY NewInQueue DEF n
  <2>7. QED
    BY <2>4, <2>5, <2>6
<1>4. QED
  BY <1>2, <1>3 DEF Frame

LEMMA ChannelInitHolds == RemoteInit => Channels!ChannelInit
<1> SUFFICES ASSUME RemoteInit PROVE Channels!ChannelInit
  OBVIOUS
<1>1. frames = <<>> /\ arrived = [p \in Procs |-> <<>>]
  BY DEF RemoteInit
<1>2. DOMAIN frames = {}
  BY <1>1
<1>3. Over = <<>>
  <2>1. Over = [i \in {} |-> <<frames[i].src, frames[i].to>>]
    BY <1>2 DEF Over
  <2>2. QED
    BY <2>1
<1>4. Transit = {}
  BY <1>2 DEF Transit
<1>5. QED
  BY <1>1, <1>3, <1>4 DEF Channels!ChannelInit

\* Every event of frames is a step of the channels.
LEMMA ChannelStep ==
  OrderInv /\ Event /\ TransitOK /\ TransitOK' => [Channels!ChannelNext]_(Channels!channelVars)
<1> USE DEF TransitOK
<1> SUFFICES ASSUME OrderInv, Event, Transit = OnItsWay, Transit' = OnItsWay'
             PROVE  Channels!ChannelNext
  OBVIOUS
<1> DEFINE n == Len(frames) + 1
<1>1. ASSUME NEW p \in Procs,
             \/ Fades \/ Taken(p) \/ Transmitted(p)
             \/ \E s \in Starts, l \in Lives : Received(p, s, l)
      PROVE  Channels!ChannelNext
  <2>1. Transit' \subseteq Transit /\ Over' = Over /\ arrived' = arrived
    BY <1>1, OthersLose DEF Over
  <2>2. Channels!Lose
    BY <2>1 DEF Channels!Lose
  <2>3. QED
    BY <2>2 DEF Channels!ChannelNext
<1>2. ASSUME NEW p \in Procs, NEW f \in Frame, HandlerSubmits(p, f) PROVE Channels!ChannelNext
  <2> DEFINE l == <<f.src, f.to>>
  <2>1. Submits(p, f) /\ UNCHANGED <<current, wire, work, arrived>>
    BY <1>2 DEF HandlerSubmits, Submits
  <2>2. Over' = Append(Over, l) /\ Len(Over) + 1 = n /\ Queued' = Queued \cup {n}
        /\ l \in Lives \X Procs
    BY <2>1, NewOnItsWay
  <2>3. Worked' = Worked /\ Wired' = Wired /\ Current' = Current
    BY <2>1 DEF Worked, Wired, Current
  <2> HIDE DEF l, n
  <2>4. Transit' = Transit \cup {Len(Over) + 1}
    BY <2>2, <2>3 DEF OnItsWay
  <2>5. Channels!Submit(l)
    BY <2>1, <2>2, <2>4 DEF Channels!Submit
  <2>6. QED
    BY <2>2, <2>5 DEF Channels!ChannelNext
<1>3. ASSUME NEW p \in Procs, NEW s \in Starts, NEW f \in Frame, Rejected(p, s, f)
      PROVE  Channels!ChannelNext
  <2> DEFINE l == <<f.src, f.to>>
             i == work[p][s]
  <2>1. Submits(p, f) /\ UNCHANGED <<current, wire, arrived>>
        /\ work' = [work EXCEPT ![p][s] = None]
    BY <1>3 DEF Rejected, Submits
  <2>2. Over' = Append(Over, l) /\ Len(Over) + 1 = n /\ Queued' = Queued \cup {n}
        /\ l \in Lives \X Procs
    BY <2>1, NewOnItsWay
  <2>3. i # None
    BY <1>3, InHandIsFrame DEF Rejected, Holding, OrderInv
  <2>4. i \in Worked
    BY <2>3, WorkIsNotDone
  <2>5. Wired' = Wired /\ Current' = Current
    BY <2>1 DEF Wired, Current
  <2>6. Worked' \cup Wired \cup Current \cup Queued = Channels!After(i)
    BY <2>1, <2>3, WorkIsAhead DEF Channels!After
  <2> HIDE DEF l, n, i
  <2>7. Transit' = Channels!After(i) \cup {Len(Over) + 1}
    BY <2>2, <2>5, <2>6 DEF OnItsWay
  <2>8. Channels!Refuse(i, l)
    BY <2>1, <2>2, <2>7 DEF Channels!Refuse
  <2>9. i \in Transit
    BY <2>4 DEF OnItsWay
  <2>10. QED
    BY <2>2, <2>8, <2>9 DEF Channels!ChannelNext
<1>4. ASSUME NEW p \in Procs, NEW s \in Starts, Delivered(p, s) PROVE Channels!ChannelNext
  <2> DEFINE i == work[p][s]
  <2>1. UNCHANGED <<frames, queue, current, wire>> /\ work' = [work EXCEPT ![p][s] = None]
        /\ arrived' = [arrived EXCEPT ![p] = Append(@, i)]
    BY <1>4 DEF Delivered
  <2>2. i # None
    BY <1>4, InHandIsFrame DEF Delivered, Holding, OrderInv
  <2>3. i \in Worked /\ i \in DOMAIN frames /\ frames[i].to = p
    BY <2>2, WorkIsNotDone
  <2>4. Wired' = Wired /\ Current' = Current /\ Queued' = Queued /\ Over' = Over
    BY <2>1 DEF Wired, Current, Queued, Over
  <2>5. Worked' \cup Wired \cup Current \cup Queued = Channels!After(i)
    BY <2>1, <2>2, WorkIsAhead DEF Channels!After
  <2> HIDE DEF i
  <2>6. Transit' = Channels!After(i)
    BY <2>4, <2>5 DEF OnItsWay
  <2>7. Over[i][2] = p
    BY <2>3 DEF Over
  <2>8. Channels!Deliver(i)
    BY <2>1, <2>4, <2>6, <2>7 DEF Channels!Deliver
  <2>9. i \in Transit
    BY <2>3 DEF OnItsWay
  <2>10. QED
    BY <2>8, <2>9 DEF Channels!ChannelNext
<1>5. CASE Fades /\ Procs = {}
  <2>1. OnItsWay' = {} /\ Over' = Over /\ arrived' = arrived
    BY <1>5 DEF OnItsWay, Worked, Wired, Current, Queued, Fades, Over
  <2>2. Channels!Lose
    BY <2>1 DEF Channels!Lose
  <2>3. QED
    BY <2>2 DEF Channels!ChannelNext
<1>6. QED
  BY <1>1, <1>2, <1>3, <1>4, <1>5 DEF Event

\* remote.rs as a whole: threads, sockets, crashes and torn-down receivers amount
\* to channels that lose, and neither reorder nor repeat.
THEOREM RemoteIsLossyChannels == RemoteSpec => ImplementsLossyChannels
<1>1. OrderInvs /\ [RemoteNext]_vars => [Channels!ChannelNext]_(Channels!channelVars)
  <2>1. OrderInvs /\ [RemoteNext]_vars => OrderInv'
    BY OrderStep DEF OrderInvs
  <2>2. OrderInv' => TransitOK'
    BY TransitStages, PTL
  <2>3. OrderInvs /\ [RemoteNext]_vars => OrderInv /\ Event
    BY Events DEF OrderInvs, OrderInv
  <2>4. QED
    BY <2>1, <2>2, <2>3, TransitStages, ChannelStep
<1>2. RemoteSpec => [][Channels!ChannelNext]_(Channels!channelVars)
  BY <1>1, OrderSafe, PTL DEF RemoteSpec
<1>3. RemoteSpec => Channels!ChannelInit
  BY ChannelInitHolds DEF RemoteSpec
<1>4. QED
  BY <1>2, <1>3, PTL DEF ImplementsLossyChannels, Channels!ChannelSpec
=============================================================================
