------------------------------- MODULE Remote -------------------------------
(***************************************************************************)
(* Actors in other processes: src/src/remote.rs, on top of Serialization.  *)
(*                                                                         *)
(* Each process has one ZmqSender (a queue and a thread that owns a PUSH   *)
(* socket per endpoint), one ZmqReceiver (a PULL socket, a registry of     *)
(* local actors, a running flag, and a thread per call of start()) and its *)
(* actors, of which only the mailbox and whether the thread lives matter   *)
(* here.  A process is its own endpoint.  send_to serializes a message and *)
(* then queues it, and other threads of the process may run in between.    *)
(* Frames are numbered in the order in which they are queued, and every    *)
(* queue, wire and mailbox holds numbers.                                  *)
(*                                                                         *)
(* ZeroMQ is external.  A connection delivers in order; what is on its way *)
(* is lost when the receiving socket closes, and what is sent over it      *)
(* afterwards may be lost or not.  A killed process starts anew with       *)
(* nothing kept.                                                           *)
(***************************************************************************)
EXTENDS Serialization, Sequences, FiniteSets

CONSTANTS
  Actors,     \* the names of actors
  Home,       \* the actors of each process
  Listed,     \* those that main registers with the receiver of their process
  Targets,    \* the remote references that handlers send messages of their own to
  Onward,     \* and those that they pass messages on to
  Reject,     \* the message type of messages.rs, with a name of its own
  None,       \* no address, no frame
  MaxFrames,  \* bound: frames that handlers send
  MaxStarts,  \* bound: calls of start() in the life of a process
  MaxUpsets   \* bound: late registrations, stops, second starts and faults

Addresses == [actor : Actors, endpoint : Procs]

ASSUME RemoteAssumption ==
  /\ Home \in [Procs -> SUBSET Actors] /\ Listed \in [Procs -> SUBSET Actors]
  /\ Targets \in [Procs -> SUBSET Addresses] /\ Onward \in [Procs -> SUBSET Addresses]
  /\ Reject \in Types /\ \A t \in Types \ {Reject} : NameOf[t] # NameOf[Reject]
  /\ None \notin [actor : Actors, endpoint : Procs \cup {None}] \cup Procs \cup Nat
  /\ {MaxFrames, MaxStarts, MaxUpsets} \subseteq Nat

VARIABLES
  frames,   \* every frame ever queued, by number
  alive,    \* the actors whose threads have not ended
  mailbox,  \* what local_ref.send has put into their mailboxes
  letter,   \* what the handler of an actor has serialized and not yet queued
  queue,    \* the mpsc queue of the sender thread
  current,  \* the request the sender thread works on, or None
  sockets,  \* the endpoints it has a PUSH socket for
  stale,    \* those whose PULL socket has closed since the connect
  wire,     \* what each PULL socket has yet to receive, per life of a peer
  running,  \* the flag that a receiver and all its handles share
  thread,   \* where each receiver thread is
  work,     \* the frame it handles, or None
  handle,   \* the ZmqReceiverHandle of each start()
  registry, \* the actors in the ActorRegistry of the receiver
  life,     \* history: how often a process has been started anew
  upsets,   \* what has disturbed the processes so far, counted
  arrived,  \* history: the frames put into mailboxes of a process, in order
  tail      \* history: those that were put there after running was cleared

senderVars   == <<queue, current, sockets, stale>>
receiverVars == <<running, thread, work, handle, tail>>
actorVars    == <<alive, mailbox, letter, arrived>>
processVars  == <<registry, life>>
vars == <<serializationVars, frames, actorVars, senderVars, wire,
          receiverVars, processVars, upsets>>

Starts == 1 .. MaxStarts
Lives  == Procs \X (0 .. MaxUpsets)

\* A receiver thread holds the bound socket.
Open == {"test", "recv", "lookup", "parse", "deliver", "reject", "queueing"}
Listening(p) == \E s \in Starts : thread[p][s] \in Open

\* SendRequest and the JSON object of send_to.  A sender without an endpoint
\* (a C++ actor) is no address to the receiver, and None here.  origin and re
\* are not in the JSON: who the conversation began with, and the frame that
\* this one answers.
Frame == [src : Lives, to : Procs, receiver : Actors, body : Types,
          sender : Addresses \cup {None}, origin : Addresses \cup {None},
          re : Nat]

\* ZmqSender::new
SenderInit ==
  /\ queue   = [p \in Procs |-> <<>>]
  /\ current = [p \in Procs |-> None]
  /\ sockets = [p \in Procs |-> {}]
  /\ stale   = [p \in Procs |-> {}]

\* ZmqReceiver::new, and what main registers with it.
ReceiverInit ==
  /\ registry = Listed
  /\ running  = [p \in Procs |-> TRUE]
  /\ thread   = [p \in Procs |-> [s \in Starts |-> "none"]]
  /\ work     = [p \in Procs |-> [s \in Starts |-> None]]
  /\ handle   = [p \in Procs |-> [s \in Starts |-> "none"]]

RemoteInit ==
  /\ SerializationInit /\ SenderInit /\ ReceiverInit
  /\ frames  = <<>>
  /\ alive   = Home
  /\ mailbox = [p \in Procs |-> [a \in Actors |-> <<>>]]
  /\ letter  = [p \in Procs |-> [a \in Actors |-> None]]
  /\ wire    = [p \in Procs |-> [l \in Lives |-> <<>>]]
  /\ life    = [p \in Procs |-> 0]
  /\ upsets  = 0
  /\ arrived = [p \in Procs |-> <<>>]
  /\ tail    = [p \in Procs |-> 0]
-----------------------------------------------------------------------------
\* Bound: what disturbs the processes.
Upset == upsets < MaxUpsets /\ upsets' = upsets + 1

\* get_message_type_name and serialize_message both return.
CanSend(p, t) == t \in named[p] /\ Writable(p, t)

\* One of them panics in the thread of the caller: the second one under
\* REGISTRY's lock, or because that is poisoned already.
SendPanics(p, t) ==
  /\ ~CanSend(p, t)
  /\ IF t \in named[p] THEN Poison(p) ELSE UNCHANGED poisoned
  /\ UNCHANGED <<named, entry, pending, frames, queue>>

\* Mutant: a reply address is always at the local endpoint.
MutAllLocal(p, ref) == IF ref = None THEN None ELSE [ref EXCEPT !.endpoint = p]

\* The match in send_to.  A local sender is reached at the local endpoint, a
\* remote one stays where it is, and no sender, or a C++ one, has no address.
SenderInfo(p, ref) ==
  IF ref \in {[actor |-> a, endpoint |-> None] : a \in Actors}
  THEN [ref EXCEPT !.endpoint = p] ELSE ref

\* Actor references as senders: ActorRef::Local; ActorRef::Remote is an address.
LocalRef(a) == [actor |-> a, endpoint |-> None]

\* Mutant: the last request is served first.
MutJumpsQueue(p, i) == <<i>> \o queue[p]

\* self.send_tx.send
Enqueued(p, i) == Append(queue[p], i)

\* What send_to puts together from a message that has been serialized.
Written(p, addr, t, ref, origin, re) ==
  [src |-> <<p, life[p]>>, to |-> addr.endpoint, receiver |-> addr.actor,
   body |-> t, sender |-> SenderInfo(p, ref), origin |-> origin, re |-> re]

\* The end of send_to: the request goes to the sender thread.
Queues(p, f) ==
  /\ frames' = Append(frames, f)
  /\ queue'  = [queue EXCEPT ![p] = Enqueued(p, Len(frames) + 1)]
-----------------------------------------------------------------------------
\* The thread of an actor ends, and its mailbox is dropped.
ThreadEnds(p, a) ==
  /\ alive'   = [alive EXCEPT ![p] = @ \ {a}]
  /\ mailbox' = [mailbox EXCEPT ![p][a] = <<>>]

OthersButUpsets == <<current, sockets, stale, wire, receiverVars, processVars, arrived>>
Others == <<OthersButUpsets, upsets>>

\* The handler of a sends a message through a remote reference: send_to up to
\* self.send_tx.send.  left is what remains in the mailbox.
HandlerSends(p, a, addr, t, ref, origin, re, left) ==
  /\ \/ /\ CanSend(p, t)
        /\ letter'  = [letter EXCEPT ![p][a] = Written(p, addr, t, ref, origin, re)]
        /\ mailbox' = [mailbox EXCEPT ![p][a] = left]
        /\ UNCHANGED <<serializationVars, frames, queue, alive>>
     \/ SendPanics(p, t) /\ ThreadEnds(p, a) /\ UNCHANGED letter
  /\ UNCHANGED Others

\* self.send_tx.send, after which the handler goes on.
Posts(p, a) ==
  /\ letter[p][a] # None
  /\ Queues(p, letter[p][a])
  /\ letter' = [letter EXCEPT ![p][a] = None]
  /\ UNCHANGED <<serializationVars, alive, mailbox, Others>>

\* a lives, and is not in the middle of send_to.
Free(p, a) == a \in alive[p] /\ letter[p][a] = None

\* Bound: the frames that handlers send.
MaySend ==
  Cardinality({i \in DOMAIN frames : frames[i].body # Reject})
    + Cardinality({x \in Procs \X Actors : letter[x[1]][x[2]] # None}) < MaxFrames

Sendable == Types \ {Reject}

\* A handler of a sends a message of its own, with or without itself as sender.
Originate(p, a) ==
  /\ Free(p, a) /\ MaySend
  /\ \E addr \in Targets[p], t \in Sendable :
       \/ HandlerSends(p, a, addr, t, LocalRef(a), [actor |-> a, endpoint |-> p],
                       0, mailbox[p][a])
       \/ HandlerSends(p, a, addr, t, None, None, 0, mailbox[p][a])

\* A handler takes the next message and is done with it.
Ignore(p, a) ==
  /\ Free(p, a) /\ mailbox[p][a] # <<>>
  /\ mailbox' = [mailbox EXCEPT ![p][a] = Tail(@)]
  /\ UNCHANGED <<serializationVars, frames, alive, letter, queue, Others>>

\* ctx.reply to a remote sender.
Reply(p, a) ==
  /\ Free(p, a) /\ mailbox[p][a] # <<>> /\ MaySend
  /\ LET i == Head(mailbox[p][a]) IN
       /\ frames[i].sender # None
       /\ \E t \in Sendable :
            HandlerSends(p, a, frames[i].sender, t, LocalRef(a),
                         [actor |-> a, endpoint |-> p], i, Tail(mailbox[p][a]))

\* A handler passes a message on, with the sender it came from as sender.
Forward(p, a) ==
  /\ Free(p, a) /\ mailbox[p][a] # <<>> /\ MaySend
  /\ LET i == Head(mailbox[p][a]) IN
       /\ frames[i].sender # None
       /\ \E addr \in Onward[p] :
            HandlerSends(p, a, addr, frames[i].body, frames[i].sender,
                         frames[i].origin, 0, Tail(mailbox[p][a]))

\* A handler uses deserialize_message itself and panics there.
Misreads(p, a) ==
  /\ Free(p, a) /\ Upset
  /\ \E n \in Names, w \in Types : FailingRead(p, n, w)
  /\ ThreadEnds(p, a)
  /\ UNCHANGED <<frames, letter, queue, OthersButUpsets>>

\* The manager ends the actor while its process goes on.
Ends(p, a) ==
  /\ Free(p, a) /\ Upset
  /\ ThreadEnds(p, a)
  /\ UNCHANGED <<serializationVars, frames, letter, queue, OthersButUpsets>>

ActorStep(p) ==
  \E a \in Home[p] : \/ Originate(p, a) \/ Ignore(p, a) \/ Reply(p, a)
                     \/ Forward(p, a) \/ Posts(p, a) \/ Misreads(p, a) \/ Ends(p, a)

RegistersLater(p) ==
  /\ \E t \in Types : \/ RegisterName(p, t) /\ Upset
                      \/ RegisterEntry(p, t) /\ UNCHANGED upsets
  /\ UNCHANGED <<frames, actorVars, senderVars, wire, receiverVars, processVars>>

\* ZmqReceiver::register, or ActorRegistry::register, while messages flow, of a
\* local actor, which is what they are there for.
RegisterActor(p, a) ==
  /\ a \in Home[p] \ registry[p] /\ Upset
  /\ registry' = [registry EXCEPT ![p] = @ \cup {a}]
  /\ UNCHANGED <<serializationVars, frames, actorVars, senderVars, wire,
                 receiverVars, life>>
-----------------------------------------------------------------------------
\* The sender thread: send_rx.recv().
TakeRequest(p) ==
  /\ current[p] = None /\ queue[p] # <<>>
  /\ current' = [current EXCEPT ![p] = Head(queue[p])]
  /\ queue'   = [queue EXCEPT ![p] = Tail(@)]
  /\ UNCHANGED <<serializationVars, frames, actorVars, sockets, stale, wire,
                 receiverVars, processVars, upsets>>

Dest(p) == frames[current[p]].to

\* connect, the short sleep, and the socket goes into the map.
Connect(p) ==
  /\ current[p] # None /\ Dest(p) \notin sockets[p] /\ Listening(Dest(p))
  /\ sockets' = [sockets EXCEPT ![p] = @ \cup {Dest(p)}]
  /\ UNCHANGED <<serializationVars, frames, actorVars, queue, current, stale,
                 wire, receiverVars, processVars, upsets>>

\* Mutant: the request is kept until a connect succeeds.
MutKeepsRequest(p) == current[p]

\* What the sender thread has in hand after a failed connect.
AfterFailure(p) == None

\* connect fails: there is no socket, and the request is dropped.
ConnectFails(p) ==
  /\ current[p] # None /\ Dest(p) \notin sockets[p]
  /\ current' = [current EXCEPT ![p] = AfterFailure(p)]
  /\ UNCHANGED <<serializationVars, frames, actorVars, queue, sockets, stale,
                 wire, receiverVars, processVars, upsets>>

\* Mutant: the sender thread goes on to send the same request again.
MutAfterSend(p) == current[p]

\* What the sender thread has in hand after socket.send, whatever that returned.
AfterSend(p) == None

\* socket.send
Transmit(p) ==
  /\ current[p] # None /\ Dest(p) \in sockets[p]
  /\ current' = [current EXCEPT ![p] = AfterSend(p)]
  /\ \/ /\ Listening(Dest(p))
        /\ wire' = [wire EXCEPT ![Dest(p)][<<p, life[p]>>] = Append(@, current[p])]
     \/ Dest(p) \in stale[p] /\ UNCHANGED wire
  /\ UNCHANGED <<serializationVars, frames, actorVars, queue, sockets, stale,
                 receiverVars, processVars, upsets>>

SenderThread(p) ==
  TakeRequest(p) \/ Connect(p) \/ ConnectFails(p) \/ Transmit(p)
-----------------------------------------------------------------------------
\* The PULL socket of p closes, and every peer's connection to it with it.
Close(p) ==
  /\ wire'  = [wire EXCEPT ![p] = [l \in Lives |-> <<>>]]
  /\ stale' = [q \in Procs |-> IF p \in sockets[q] THEN stale[q] \cup {p} ELSE stale[q]]

\* A step of receiver thread s of p that does not close the socket.
Moves(p, s, to, frame) ==
  /\ thread' = [thread EXCEPT ![p][s] = to]
  /\ work'   = [work EXCEPT ![p][s] = frame]
  /\ UNCHANGED <<running, handle>>

\* A step after which the thread is over.
Leaves(p, s, to) == Moves(p, s, to, None) /\ Close(p)

\* ZmqReceiver::start
Start(p, s) ==
  /\ thread[p][s] = "none" /\ \A r \in 1 .. s - 1 : thread[p][r] # "none"
  /\ thread' = [thread EXCEPT ![p][s] = "bind"]
  /\ handle' = [handle EXCEPT ![p][s] = "held"]
  /\ IF s = 1 THEN UNCHANGED upsets ELSE Upset
  /\ UNCHANGED <<serializationVars, frames, actorVars, senderVars, wire, running,
                 work, tail, processVars>>

\* socket.bind: it panics when another thread has the endpoint.
Bind(p, s) ==
  /\ thread[p][s] = "bind"
  /\ Moves(p, s, IF Listening(p) THEN "bindfailed" ELSE "test", None)
  /\ UNCHANGED <<serializationVars, frames, actorVars, senderVars, wire, tail,
                 processVars, upsets>>

\* Mutant: the loop does not look at the flag.
MutMayGoOn(p) == TRUE

\* The loop condition of the receiver thread.
MayGoOn(p) == running[p]

Test(p, s) ==
  /\ thread[p][s] = "test"
  /\ IF MayGoOn(p) THEN Moves(p, s, "recv", None) /\ UNCHANGED <<wire, stale>>
     ELSE Leaves(p, s, "exited")
  /\ UNCHANGED <<serializationVars, frames, actorVars, queue, current, sockets,
                 tail, processVars, upsets>>

\* socket.recv() within the 100 milliseconds
Receive(p, s) ==
  /\ thread[p][s] = "recv"
  /\ \E l \in Lives :
       /\ wire[p][l] # <<>>
       /\ Moves(p, s, "lookup", Head(wire[p][l]))
       /\ wire' = [wire EXCEPT ![p][l] = Tail(@)]
  /\ UNCHANGED <<serializationVars, frames, actorVars, senderVars, tail, processVars, upsets>>

TimesOut(p, s) ==
  /\ thread[p][s] = "recv"
  /\ Moves(p, s, "test", None)
  /\ UNCHANGED <<serializationVars, frames, actorVars, senderVars, wire, tail,
                 processVars, upsets>>

\* recv returns an error: the loop ends.
SocketFails(p, s) ==
  /\ thread[p][s] = "recv" /\ Upset
  /\ Leaves(p, s, "exited")
  /\ UNCHANGED <<serializationVars, frames, actorVars, queue, current, sockets,
                 tail, processVars>>

\* handle_remote_message_async, in its three steps: the actor is looked up,
\* the message read, and then delivered or rejected.
InHand(p, s) == frames[work[p][s]]

\* Mutant: what cannot be delivered is dropped in silence.
MutDrops(p, s) == Moves(p, s, "test", None)

\* A message that cannot be delivered is rejected if it has a sender.
Refuse(p, s) ==
  IF InHand(p, s).sender # None THEN Moves(p, s, "reject", work[p][s])
                                ELSE Moves(p, s, "test", None)

LookUp(p, s) ==
  /\ thread[p][s] = "lookup"
  /\ IF InHand(p, s).receiver \in registry[p]
     THEN Moves(p, s, "parse", work[p][s]) ELSE Refuse(p, s)
  /\ UNCHANGED <<serializationVars, frames, actorVars, senderVars, wire, tail,
                 processVars, upsets>>

\* Mutant: deserialize_message is called, which panics for an unknown name.
MutReadPanics(p, n, w) == poisoned[p] \/ ~Known(p, n) \/ ~Parses(p, n, w)

\* try_deserialize_message returns Err for an unknown name only.  A poisoned
\* lock, and JSON that does not parse, make it panic.
ReadPanics(p, n, w) == poisoned[p] \/ (Known(p, n) /\ ~Parses(p, n, w))

TryDeserialize(p, s) ==
  LET n == NameOf[InHand(p, s).body] IN
  /\ thread[p][s] = "parse"
  /\ IF ReadPanics(p, n, InHand(p, s).body)
     THEN Leaves(p, s, "panicked") /\ FailingRead(p, n, InHand(p, s).body)
     ELSE /\ IF Known(p, n) THEN Moves(p, s, "deliver", work[p][s]) ELSE Refuse(p, s)
          /\ UNCHANGED <<serializationVars, wire, stale>>
  /\ UNCHANGED <<frames, actorVars, queue, current, sockets, tail, processVars, upsets>>

\* local_ref.send: a thread that is over gets nothing.
Deliver(p, s) ==
  LET receiver == InHand(p, s).receiver IN
  /\ thread[p][s] = "deliver"
  /\ Moves(p, s, "test", None)
  /\ IF receiver \in alive[p]
     THEN /\ mailbox' = [mailbox EXCEPT ![p][receiver] = Append(@, work[p][s])]
          /\ arrived' = [arrived EXCEPT ![p] = Append(@, work[p][s])]
          /\ tail'    = [tail EXCEPT ![p] = IF running[p] THEN @ ELSE @ + 1]
     ELSE UNCHANGED <<mailbox, arrived, tail>>
  /\ UNCHANGED <<serializationVars, frames, alive, letter, senderVars, wire,
                 processVars, upsets>>

\* The Reject goes to the sender of the message, without a sender of its own; it
\* must be registered here.  send_to again: it is serialized,
SerializeReject(p, s) ==
  /\ thread[p][s] = "reject"
  /\ \/ /\ CanSend(p, Reject) /\ Moves(p, s, "queueing", work[p][s])
        /\ UNCHANGED <<serializationVars, frames, queue, stale, wire>>
     \/ SendPanics(p, Reject) /\ Leaves(p, s, "panicked")
  /\ UNCHANGED <<actorVars, current, sockets, tail, processVars, upsets>>

\* and then queued.
QueueReject(p, s) ==
  /\ thread[p][s] = "queueing"
  /\ Queues(p, Written(p, InHand(p, s).sender, Reject, None, None, work[p][s]))
  /\ Moves(p, s, "test", None)
  /\ UNCHANGED <<serializationVars, actorVars, current, sockets, stale, wire,
                 tail, processVars, upsets>>

ReceiverThread(p, s) ==
  \/ Bind(p, s) \/ Test(p, s) \/ Receive(p, s) \/ TimesOut(p, s)
  \/ LookUp(p, s) \/ TryDeserialize(p, s) \/ Deliver(p, s)
  \/ SerializeReject(p, s) \/ QueueReject(p, s)

\* ZmqReceiverHandle::stop, also what its drop does, up to the join.
Stop(p, s) ==
  /\ handle[p][s] = "held" /\ Upset
  /\ running' = [running EXCEPT ![p] = FALSE]
  /\ handle'  = [handle EXCEPT ![p][s] = "joining"]
  /\ UNCHANGED <<serializationVars, frames, actorVars, senderVars, wire, thread,
                 work, tail, processVars>>

Finished == {"exited", "panicked", "bindfailed"}

\* The join returns.
Joined(p, s) ==
  /\ handle[p][s] = "joining" /\ thread[p][s] \in Finished
  /\ handle' = [handle EXCEPT ![p][s] = "stopped"]
  /\ UNCHANGED <<serializationVars, frames, actorVars, senderVars, wire, running,
                 thread, work, tail, processVars, upsets>>
-----------------------------------------------------------------------------
\* The process is killed and started anew.  What it has sent stays on its way.
Restart(p) ==
  /\ Upset
  /\ life'   = [life EXCEPT ![p] = @ + 1]
  /\ ResetRegistry(p)
  /\ registry' = [registry EXCEPT ![p] = Listed[p]]
  /\ alive'   = [alive EXCEPT ![p] = Home[p]]
  /\ mailbox' = [mailbox EXCEPT ![p] = [a \in Actors |-> <<>>]]
  /\ letter'  = [letter EXCEPT ![p] = [a \in Actors |-> None]]
  /\ queue'   = [queue EXCEPT ![p] = <<>>]
  /\ current' = [current EXCEPT ![p] = None]
  /\ sockets' = [sockets EXCEPT ![p] = {}]
  /\ wire'    = [wire EXCEPT ![p] = [l \in Lives |-> <<>>]]
  /\ stale'   = [q \in Procs |-> IF q = p THEN {}
                                 ELSE IF p \in sockets[q] THEN stale[q] \cup {p}
                                 ELSE stale[q]]
  /\ running' = [running EXCEPT ![p] = TRUE]
  /\ thread'  = [thread EXCEPT ![p] = [s \in Starts |-> "none"]]
  /\ work'    = [work EXCEPT ![p] = [s \in Starts |-> None]]
  /\ handle'  = [handle EXCEPT ![p] = [s \in Starts |-> "none"]]
  /\ tail'    = [tail EXCEPT ![p] = 0]
  /\ UNCHANGED <<frames, arrived>>

RemoteNext ==
  \E p \in Procs :
    \/ ActorStep(p) \/ RegistersLater(p) \/ SenderThread(p) \/ Restart(p)
    \/ \E a \in Actors : RegisterActor(p, a)
    \/ \E s \in Starts : \/ Start(p, s) \/ ReceiverThread(p, s) \/ SocketFails(p, s)
                         \/ Stop(p, s) \/ Joined(p, s)

RemoteSpec == RemoteInit /\ [][RemoteNext]_vars

\* Threads go on; a connect returns, in one way or the other; and a receiver
\* that looks often enough at a socket where something waits receives it (the
\* timeout polls the socket first).  Handlers get through their mailboxes; they
\* send, end or fail when they like.
RemoteFairness ==
  \A p \in Procs :
    /\ WF_vars(SenderThread(p))
    /\ \A a \in Actors : WF_vars(Ignore(p, a)) /\ WF_vars(Posts(p, a))
    /\ \A s \in Starts : /\ WF_vars(ReceiverThread(p, s)) /\ WF_vars(Joined(p, s))
                         /\ SF_vars(Receive(p, s))

FairRemoteSpec == RemoteSpec /\ RemoteFairness
-----------------------------------------------------------------------------
RemoteTypeOK ==
  /\ SerializationTypeOK
  /\ frames \in Seq(Frame)
  /\ alive \in [Procs -> SUBSET Actors]
  /\ mailbox \in [Procs -> [Actors -> Seq(Nat)]]
  /\ letter \in [Procs -> [Actors -> Frame \cup {None}]]
  /\ queue \in [Procs -> Seq(Nat)]
  /\ current \in [Procs -> Nat \cup {None}]
  /\ sockets \in [Procs -> SUBSET Procs]
  /\ stale \in [Procs -> SUBSET Procs]
  /\ wire \in [Procs -> [Lives -> Seq(Nat)]]
  /\ running \in [Procs -> BOOLEAN]
  /\ thread \in [Procs -> [Starts -> Open \cup Finished \cup {"none", "bind"}]]
  /\ work \in [Procs -> [Starts -> Nat \cup {None}]]
  /\ handle \in [Procs -> [Starts -> {"none", "held", "joining", "stopped"}]]
  /\ registry \in [Procs -> SUBSET Actors]
  /\ life \in [Procs -> 0 .. MaxUpsets]
  /\ upsets \in 0 .. MaxUpsets
  /\ arrived \in [Procs -> Seq(Nat)]
  /\ tail \in [Procs -> Nat]

At(seq, i) == {k \in DOMAIN seq : seq[k] = i}

\* Everywhere frame i is, and every fate it has met: put into a mailbox, or
\* answered by a Reject.
Whereabouts(i) ==
  UNION {UNION {{<<"queued", p, k>> : k \in At(queue[p], i)} : p \in Procs},
         {<<"current", p>> : p \in {p \in Procs : current[p] = i}},
         UNION {{<<"wire", p, l, k>> : k \in At(wire[p][l], i)} : p \in Procs, l \in Lives},
         UNION {{<<"work", p, s>> : s \in At(work[p], i)} : p \in Procs},
         UNION {{<<"arrived", p, k>> : k \in At(arrived[p], i)} : p \in Procs},
         {<<"rejected", j>> : j \in {j \in DOMAIN frames : frames[j].body = Reject
                                                          /\ frames[j].re = i}}}

\* A message is in one place at most, and it is delivered once, or rejected
\* once, and never both, whatever is killed, restarted or torn down meanwhile
\* (remote.rs: the sender thread, the receive loop and the two exits of
\* handle_remote_message_async).
EachFrameOnce == \A i \in DOMAIN frames : Cardinality(Whereabouts(i)) <= 1

\* Two messages of one process to another reach its mailboxes in the order in
\* which they were queued, which for one thread is the order in which it sent
\* them, also over a connection that was lost in between (remote.rs: one queue,
\* one thread and one socket per endpoint).
ArriveInSendOrder ==
  \A p \in Procs : \A j, k \in DOMAIN arrived[p] :
    j < k /\ frames[arrived[p][j]].src = frames[arrived[p][k]].src
      => arrived[p][j] < arrived[p][k]

\* A reply, and a Reject, is addressed to the actor with which the conversation
\* began and to no other, through however many hands the question went; and
\* nothing answers a Reject, so that two processes cannot go on rejecting each
\* other's Rejects (remote.rs: the sender's address in the frame, the
\* RemoteActorRef made from it, and the Reject without a sender).
AnswersReachTheAsker ==
  /\ \A i \in DOMAIN frames :
       LET f == frames[i] IN
         f.re # 0 => frames[f.re].origin = [actor |-> f.receiver, endpoint |-> f.to]
  /\ \A p \in Procs : \A k \in DOMAIN arrived[p] : frames[arrived[p][k]].to = p

\* After stop() has cleared the flag, one message at most still reaches a
\* mailbox, however often start() is called again (remote.rs: the flag is
\* shared by all handles and tested before every receive).
OneMessageAfterStop == \A p \in Procs : tail[p] <= 1

\* Of a type of p that was registered after main had registered its own, or of
\* one with the same name, the functions are missing or have been replaced.
RegisteredInMidstream(p) ==
  \E t \in named[p] \ AtStart[p], u \in named[p] :
    NameOf[u] = NameOf[t] /\ entry[p][NameOf[u]] # u

\* A peer has sent p a message of another version than the type p knows by its name.
MisreadFrame(p) ==
  \E i \in DOMAIN frames :
    LET w == frames[i].body IN
      frames[i].to = p /\ Known(p, NameOf[w]) /\ ~Parses(p, NameOf[w], w)

\* A process whose main registers its types, Reject among them, and starts only
\* then, is not taken down by what others send: for its registry to be poisoned,
\* or a receiver thread to panic, it takes a registration while messages flow, a
\* message of another version, or an actor of its own that has ended.  Unknown
\* actors, unknown types and senders out of reach do no harm, at any time
\* (remote.rs: handle_remote_message_async; serialization.rs: the two maps, and
\* the lock().unwrap() calls, which keep the cause in place once it has struck).
TakenDownForACause ==
  \A p \in Procs :
    /\ poisoned[p] => RegisteredInMidstream(p) \/ MisreadFrame(p) \/ Home[p] \ alive[p] # {}
    /\ \A s \in Starts : thread[p][s] = "panicked" => poisoned[p] \/ Reject \notin AtStart[p]

\* One message that does not parse takes the process off the network: with the
\* registry poisoned no thread gets past serializing, so that nothing is queued
\* but what had been serialized, and nothing more is accepted than what had been
\* read already (serialization.rs: lock().unwrap() everywhere).
SilentWhenPoisoned ==
  \A p \in Procs :
    poisoned[p] /\ life'[p] = life[p] =>
      /\ poisoned'[p]
      /\ \A a \in Actors : letter'[p][a] \in {letter[p][a], None}
      /\ \A s \in Starts : thread'[p][s] \in {"deliver", "queueing"} => thread'[p][s] = thread[p][s]

PoisonIsForLife == [][SilentWhenPoisoned]_vars

\* What the receiver owes: a message it took is delivered, or its sender is
\* sent a Reject, unless nobody is to be told or the actor's thread is over.
Settled(p, s) ==
  LET i == work[p][s] IN
    \/ frames[i].sender = None
    \/ i \in {arrived'[p][k] : k \in DOMAIN arrived'[p]}
    \/ frames[i].receiver \notin alive[p]
    \/ \E j \in DOMAIN frames' : frames'[j].body = Reject /\ frames'[j].re = i

SettlesBeforeTheNext ==
  \A p \in Procs, s \in Starts :
    work[p][s] # None /\ thread'[p][s] = "test" => Settled(p, s)

\* A receiver thread that goes on has settled what it took, so a sender that
\* hears nothing at all has lost its message on the way, or the receiver
\* (remote.rs: handle_remote_message_async has no third exit).
SettlesWhatItTakes == [][SettlesBeforeTheNext]_vars

\* The promise of Reject: "sent back to the sender when [...] deserialization
\* fails".  Not so: the thread panics instead.
RejectsWhatItCannotRead ==
  [][\A p \in Procs, s \in Starts :
       work[p][s] # None /\ work'[p][s] = None /\ life'[p] = life[p]
         => Settled(p, s)]_vars

\* stop() returns, also while messages keep coming and when the thread has
\* panicked (remote.rs: the receive times out every 100 milliseconds).
StopReturns ==
  \A p \in Procs, s \in Starts : handle[p][s] = "joining" ~> handle[p][s] # "joining"

\* Frame i is on its way.
InTransit(i) ==
  \E p \in Procs :
    \/ At(queue[p], i) # {} \/ current[p] = i \/ At(work[p], i) # {}
    \/ \E l \in Lives : At(wire[p][l], i) # {}

\* Nothing stays on its way for ever: once the handlers have sent what they
\* send, every frame is delivered, rejected or lost in the end, provided every
\* connect returns (remote.rs: the sender thread and the receive loop).
NothingIsStuck == <>[](\A i \in DOMAIN frames : ~InTransit(i))
=============================================================================
