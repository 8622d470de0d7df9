------------------------ MODULE RemoteExamplesProofs ------------------------
(***************************************************************************)
(* Proofs about the example programs.                                      *)
(*                                                                         *)
(* They begin with what is known of any remote actors: frames keep their   *)
(* order and are in one place each (OrderInv), although main and the       *)
(* handlers here are not bounded as in Remote.  ExamplesInv adds what the  *)
(* frames of these programs look like.  On that rest TurnsInv (in ping-pong *)
(* one frame at most is alive; in the reject example the Pong is the last  *)
(* frame of all) and RejectInv (as long as no connect fails, a Reject is   *)
(* ahead of the Pong at each stage).                                       *)
(***************************************************************************)
EXTENDS RemoteExamples, RemoteOrderProofs

\* Frames that wait in mailboxes, and all that are still to be handled.
Boxed == {i \in Nat : \E p \in Procs, a \in Actors : i \in In(mailbox[p][a])}

Live == OnItsWay \cup Boxed

Of(t) == {i \in DOMAIN frames : frames[i].body = t}

HasRegistered(p) ==
  /\ named[p] = Registers(p)
  /\ entry[p] = [n \in Names |-> IF n \in Registers(p) THEN n ELSE NoType]

\* main of each process, and the receiver that it starts once.
MainsOK ==
  /\ app \in Apps /\ opened \in Nat /\ line \in [Procs -> Nat]
  /\ terminate_flag \in BOOLEAN /\ unreachable \in BOOLEAN
  /\ registry = Listed /\ life = [p \in Procs |-> 0]
  /\ \A p \in Procs :
       /\ line[p] + 1 \in DOMAIN Main(p)
       /\ line[p] = 0 => thread[p][1] = "none"
       /\ line[p] # 0 => HasRegistered(p)
       /\ \A s \in Starts : s # 1 => thread[p][s] = "none"
  /\ line[client] >= 4 => terminate_flag

\* Questions go from the client to the server, answers the other way.
QuestionOK(f) ==
  /\ f.src = <<client, 0>> /\ f.to = server /\ f.receiver = answerer
  /\ f.sender = [actor |-> asker, endpoint |-> client]

AnswerOK(f) ==
  /\ f.src = <<server, 0>> /\ f.to = client /\ f.receiver = asker

ShapesOK ==
  /\ count \in Seq(Nat) /\ Len(count) = Len(frames)
  /\ opened = 0 => frames = <<>>
  /\ \A i \in DOMAIN frames : LET f == frames[i] IN
       /\ f.body \in {"Ping", "UnknownMessage"} => QuestionOK(f)
       /\ f.body \in {"Pong", Reject} => AnswerOK(f)
       /\ f.body = "UnknownMessage" => i = 1 /\ app = "reject_example"
       /\ f.body = Reject => f.re = 1 /\ 1 \in Of("UnknownMessage")

\* Where frames are: what is in a mailbox has arrived for that actor, what is
\* rejected is unknown, and nothing unknown is delivered.
MailboxesOK ==
  /\ \A p \in Procs, a \in Actors :
       /\ Increasing(mailbox[p][a])
       /\ \A i \in In(mailbox[p][a]) : i \in In(arrived[p]) /\ frames[i].receiver = a
  /\ \A p \in Procs : In(arrived[p]) \cap Of("UnknownMessage") = {}
  /\ \A p \in Procs :
       /\ thread[p][1] = "deliver" => work[p][1] \notin Of("UnknownMessage")
       /\ thread[p][1] \in Refusing => work[p][1] \in Of("UnknownMessage")

ExamplesInv == OrderInv /\ MainsOK /\ ShapesOK /\ MailboxesOK

\* Ping and pong: one frame at most is alive, the latest.
PingPongInv ==
  app = "remote_ping_pong" =>
    /\ \A i \in DOMAIN frames :
         /\ count[i] = (i + 1) \div 2 /\ count[i] <= 5
         /\ frames[i].body = IF i % 2 = 1 THEN "Ping" ELSE "Pong"
    /\ \A i \in Live : i = Len(frames)
    /\ terminate_flag => Live = {} /\ opened = 1

\* The reject example: the Pong is the last frame of all.
PongIsLast ==
  /\ opened \in 0 .. 2
  /\ opened # 0 /\ asker \in alive[client] => frames # <<>>
  /\ opened < 2 => Of("Ping") = {}
  /\ \A i, j \in Of("Ping") : i = j
  /\ \A i \in DOMAIN frames : i = 1 => frames[i].body = "UnknownMessage"
  /\ Of("Pong") # {} => /\ opened = 2
                        /\ \A i \in Live : frames[i].to # server
  /\ \A k \in Of("Pong") : k = Len(frames)
  /\ terminate_flag => /\ Of("Pong") # {}
                       /\ \A i \in Live : frames[i].to # client

\* A frame that the receiving side still waits for is on its way, or done with.
NotLost(i) ==
  \/ thread[frames[i].to][1] \in Finished
  \/ frames[i].receiver \notin alive[frames[i].to]
  \/ i \in OnItsWay \cup Done

NoneLost == \A i \in DOMAIN frames : NotLost(i)

\* As long as no connect fails, there is a Reject before the Pong at each stage.
RejectIsAhead ==
  /\ NoneLost
  /\ In(arrived[server]) \cap Of("Ping") # {} => Of(Reject) # {}
  /\ Of("Pong") # {} => Of(Reject) # {}
  /\ In(arrived[client]) \cap Of("Pong") # {} => In(arrived[client]) \cap Of(Reject) # {}
  /\ terminate_flag => rejected_count = 1

RejectIsCounted ==
  /\ rejected_count \in {0, 1}
  /\ rejected_count = 1 => Of(Reject) # {} /\ Of(Reject) \cap Live = {}
  /\ asker \in alive[client] =>
       \A j \in In(arrived[client]) \cap Of(Reject) :
         j \in In(mailbox[client][asker]) \/ rejected_count = 1

StaleOK == \A p, q \in Procs : q \in stale[p] => thread[q][1] \in Finished

RejectInv ==
  app = "reject_example" =>
    PongIsLast /\ RejectIsCounted /\ StaleOK /\ (~unreachable => RejectIsAhead)
-----------------------------------------------------------------------------
\* The two processes and their actors.
LEMMA TheTwo ==
  /\ client \in Procs /\ server \in Procs /\ client # server
  /\ asker \in Actors /\ answerer \in Actors /\ 1 \in Starts
  /\ None \notin Addresses /\ None \notin Procs /\ None \notin Nat
  /\ [actor |-> asker, endpoint |-> client] \in Addresses
  /\ [actor |-> answerer, endpoint |-> server] \in Addresses
  /\ SenderInfo(client, LocalRef(asker)) = [actor |-> asker, endpoint |-> client]
  /\ SenderInfo(server, LocalRef(answerer)) = [actor |-> answerer, endpoint |-> server]
<1>1. /\ client \in Procs /\ server \in Procs /\ client # server
      /\ asker \in Actors /\ answerer \in Actors
  BY ExamplesAssumption, RemoteAssumption
<1>2. 1 \in Starts
  BY ExamplesAssumption, RemoteAssumption DEF Starts
<1>3. None \notin Addresses /\ None \notin Procs /\ None \notin Nat
  BY RemoteAssumption DEF Addresses
<1>4. QED
  BY <1>1, <1>2, <1>3 DEF Addresses, SenderInfo, LocalRef

\* Where main is when it makes a call.
LEMMA CallsOfMain ==
  ASSUME NEW p \in Procs, line[p] \in Nat, line[p] + 1 \in DOMAIN Main(p)
  PROVE  /\ InCall(p, "register") <=> line[p] = 0
         /\ InCall(p, "start") <=> line[p] = 1
         /\ InCall(p, "init") <=> line[p] = 2
         /\ InCall(p, "run") => line[p] = 3 /\ line[p] + 2 \in DOMAIN Main(p)
         /\ InCall(p, "stop") <=> line[p] = 4
         /\ InCall(p, "join") <=> line[p] = 5
         /\ InCall(p, "end") <=> line[p] = 6
         /\ line[p] \in {0, 1, 2, 4, 5} => line[p] + 2 \in DOMAIN Main(p)
<1>1. CASE Main(p) = <<"register", "start", "init", "run", "stop", "join", "end">>
  <2>1. DOMAIN Main(p) = 1 .. 7
    BY <1>1
  <2>2. line[p] \in 0 .. 6
    BY <2>1
  <2>3. QED
    BY <1>1, <2>1, <2>2 DEF InCall
<1>2. CASE Main(p) = <<"register", "start", "init", "loop">>
  <2>1. DOMAIN Main(p) = 1 .. 4
    BY <1>2
  <2>2. line[p] \in 0 .. 3
    BY <2>1
  <2>3. QED
    BY <1>2, <2>1, <2>2 DEF InCall
<1>3. QED
  BY <1>1, <1>2 DEF Main, PingMain, PongMain, SenderMain, ReceiverMain
-----------------------------------------------------------------------------
\* What on_start sends.
LEMMA SentOnStart ==
  ASSUME NEW n \in Nat, n < Len(OnStart)
  PROVE  /\ app = "remote_ping_pong" => n = 0 /\ OnStart[n + 1] = "Ping"
         /\ app # "remote_ping_pong" =>
              /\ n \in {0, 1}
              /\ n = 0 => OnStart[n + 1] = "UnknownMessage"
              /\ n = 1 => OnStart[n + 1] = "Ping"
         /\ OnStart[n + 1] \in {"Ping", "UnknownMessage"}
<1>1. CASE app = "remote_ping_pong"
  <2>1. OnStart = <<"Ping">>
    BY <1>1 DEF OnStart, PingOnStart
  <2>2. n = 0
    BY <2>1
  <2>3. QED
    BY <1>1, <2>1, <2>2
<1>2. CASE app # "remote_ping_pong"
  <2>1. OnStart = <<"UnknownMessage", "Ping">>
    BY <1>2 DEF OnStart, SenderOnStart
  <2>2. n \in {0, 1}
    BY <2>1
  <2>3. QED
    BY <1>2, <2>1, <2>2
<1>3. QED
  BY <1>1, <1>2

\* A message that a handler sends at once is a frame like any other.
LEMMA SendIsEvent ==
  ASSUME OrderInv, NEW p \in Procs, NEW a \in Actors, NEW addr \in Addresses,
         NEW t \in Types, t # Reject, NEW ref,
         NEW origin \in Addresses, SenderInfo(p, ref) = origin,
         NEW re \in Nat, re # 0 => re \in DOMAIN frames /\ frames[re].origin = addr,
         NEW left \in Seq(DOMAIN frames), SendsAtOnce(p, a, addr, t, ref, origin, re, left)
  PROVE  RemoteInv' /\ Event
<1>1. RemoteInv
  BY DEF OrderInv
<1>2. CASE SendPanics(p, t) /\ ThreadEnds(p, a)
  <2>1. HandlerSends(p, a, addr, t, ref, origin, re, left)
    BY <1>2 DEF SendsAtOnce, HandlerSends
  <2>2. QED
    BY <1>1, <2>1, HandlerSendKeepsInv, HandlerEvents
<1>3. CASE /\ Queues(p, Written(p, addr, t, ref, origin, re))
           /\ mailbox' = [mailbox EXCEPT ![p][a] = left]
           /\ UNCHANGED <<serializationVars, alive, letter, Others>>
  <2>1. PICK f : f = Written(p, addr, t, ref, origin, re)
    OBVIOUS
  <2>2. f \in Frame /\ Queues(p, f)
    BY <1>1, <1>3, <2>1, WrittenIsFrame
  <2>3. /\ f.src = <<p, life[p]>> /\ f.body # Reject /\ f.sender \in {None, f.origin}
        /\ f.re # 0 => /\ f.re \in DOMAIN frames
                       /\ frames[f.re].origin = [actor |-> f.receiver, endpoint |-> f.to]
    BY <2>1, WrittenIsInOrder
  <2>4. Grows => mailbox' \in [Procs -> [Actors -> Seq(DOMAIN frames')]]
    BY <1>1, <1>3, GrowingSeqs DEF RemoteInv, MailOK
  <2>5. letter' \in [Procs -> [Actors -> Frame \cup {None}]]
    BY <1>1, <1>3 DEF RemoteInv, MailOK
  <2>6. UNCHANGED <<serializationVars, alive, Others>>
    BY <1>3
  <2>7. RemoteInv'
    BY <1>1, <2>2, <2>4, <2>5, <2>6, QueueKeepsInv
  <2>8. Event
    BY <2>2, <2>3, <2>6, QueueEvents
  <2>9. QED
    BY <2>7, <2>8
<1>4. QED
  BY <1>2, <1>3 DEF SendsAtOnce

\* So are those of the client's actor, and the replies of the server's.
LEMMA AskerSendsIsEvent ==
  ASSUME OrderInv, NEW t \in {"Ping", "UnknownMessage"}, NEW left \in Seq(DOMAIN frames),
         AskerSends(t, left)
  PROVE  RemoteInv' /\ Event
<1> DEFINE addr == [actor |-> answerer, endpoint |-> server]
           own  == [actor |-> asker, endpoint |-> client]
<1>1. /\ addr \in Addresses /\ own \in Addresses /\ SenderInfo(client, LocalRef(asker)) = own
      /\ client \in Procs /\ asker \in Actors
  BY TheTwo
<1>2. t \in Types /\ t # Reject
  BY ExamplesAssumption
<1>3. SendsAtOnce(client, asker, addr, t, LocalRef(asker), own, 0, left)
  BY DEF AskerSends
<1> HIDE DEF addr, own
<1>4. QED
  BY <1>1, <1>2, <1>3, SendIsEvent

LEMMA OnPingIsEvent == ASSUME OrderInv, ShapesOK, OnPing PROVE RemoteInv' /\ Event
<1> DEFINE i == Head(mailbox[server][answerer])
           own == [actor |-> answerer, endpoint |-> server]
           addr == frames[i].sender
<1>1. /\ own \in Addresses /\ SenderInfo(server, LocalRef(answerer)) = own
      /\ server \in Procs /\ answerer \in Actors
  BY TheTwo
<1>2. RemoteInv
  BY DEF OrderInv
<1>3. mailbox[server][answerer] # <<>> /\ frames[i].body = "Ping"
  BY DEF OnPing, Takes
<1>4. i \in DOMAIN frames /\ i \in Nat /\ Tail(mailbox[server][answerer]) \in Seq(DOMAIN frames)
  BY <1>1, <1>2, <1>3, NextMessage DEF RemoteInv, FramesOK
<1>5. addr = [actor |-> asker, endpoint |-> client]
  BY <1>3, <1>4 DEF ShapesOK, QuestionOK
<1>6. addr \in Addresses /\ addr # None
  BY <1>5, TheTwo
<1>7. frames[i].origin = addr
  BY <1>4, <1>6 DEF OrderInv, AnswersOK
<1>8. "Pong" \in Types /\ "Pong" # Reject
  BY ExamplesAssumption
<1>9. SendsAtOnce(server, answerer, addr, "Pong", LocalRef(answerer), own, i,
                  Tail(mailbox[server][answerer]))
  BY DEF OnPing
<1> HIDE DEF i, own, addr
<1>10. QED
  BY <1>1, <1>4, <1>6, <1>7, <1>8, <1>9, SendIsEvent

\* A step that Remote has too, and that is not one half of a send.
LEMMA RemoteStepIsEvent ==
  ASSUME OrderInv, [RemoteNext]_vars, UNCHANGED letter PROVE RemoteInv' /\ Event
BY RemoteStep, Events DEF OrderInv

LEMMA IgnoreIsEvent == ASSUME OrderInv, Ignore(client, asker) PROVE RemoteInv' /\ Event
<1>1. client \in Procs /\ asker \in Home[client]
  BY TheTwo, ExamplesAssumption
<1>2. RemoteNext
  BY <1>1 DEF RemoteNext, ActorStep
<1>3. QED
  BY <1>2, RemoteStepIsEvent DEF Ignore

\* main registers its messages before anything else.
LEMMA RegisterIsEvent ==
  ASSUME OrderInv, MainsOK, NEW p \in Procs, Register(p) PROVE RemoteInv' /\ Event
<1>1. UNCHANGED <<pending, poisoned, frames, actorVars, senderVars, wire, receiverVars,
                  processVars, upsets>>
  BY DEF Register
<1>2. Registers(p) \in SUBSET Types /\ Names = Types
  BY ExamplesAssumption
     DEF Registers, PingRegisters, PongRegisters, SenderRegisters, ReceiverRegisters
<1>3. SerializationTypeOK'
  BY <1>1, <1>2 DEF Register, OrderInv, RemoteInv, SerializationTypeOK
<1>4. RemoteInv'
  BY <1>1, <1>3, NoNewFrames, FramesStutter, MailStutters, SenderStutters,
     WireStutters, ReceiversStutter, ProcessStutters DEF OrderInv, RemoteInv
<1>5. Event
  BY <1>1, NothingMoves DEF actorVars, senderVars, receiverVars, processVars, Event
<1>6. QED
  BY <1>4, <1>5

\* Every step of the programs is an event of their frames.
LEMMA ExamplesOrder ==
  ASSUME OrderInv, MainsOK, ShapesOK, [ExamplesNext]_allVars
  PROVE  OrderInv' /\ Event
<1>1. RemoteInv' /\ Event
  <2>1. CASE StartHandler
    <3>1. /\ opened < Len(OnStart) /\ AskerSends(OnStart[opened + 1], mailbox[client][asker])
          /\ opened \in Nat
      BY <2>1 DEF StartHandler, MainsOK
    <3>2. OnStart[opened + 1] \in {"Ping", "UnknownMessage"}
      BY <3>1, SentOnStart
    <3>3. mailbox[client][asker] \in Seq(DOMAIN frames)
      BY TheTwo DEF OrderInv, RemoteInv, MailOK
    <3>4. QED
      BY <3>1, <3>2, <3>3, AskerSendsIsEvent
  <2>2. CASE PingOnPong
    <3>1. CASE AskerSends("Ping", Tail(mailbox[client][asker]))
      <4>1. mailbox[client][asker] # <<>>
        BY <2>2 DEF PingOnPong, Takes
      <4>2. Tail(mailbox[client][asker]) \in Seq(DOMAIN frames)
        BY <4>1, TheTwo, NextMessage DEF OrderInv
      <4>3. QED
        BY <3>1, <4>2, AskerSendsIsEvent
    <3>2. QED
      BY <2>2, <3>1, IgnoreIsEvent DEF PingOnPong, AskerTerminates
  <2>3. CASE SenderOnPong \/ OnReject
    BY <2>3, IgnoreIsEvent DEF SenderOnPong, OnReject, AskerTerminates
  <2>4. CASE OnPing
    BY <2>4, OnPingIsEvent
  <2>5. ASSUME NEW p \in Procs, MainStep(p) \/ LibrarySends(p) \/ LibraryReceives(p)
        PROVE  RemoteInv' /\ Event
    <3>1. CASE Register(p)
      BY <3>1, RegisterIsEvent
    <3>2. CASE UNCHANGED vars
      BY <3>2, RemoteStepIsEvent DEF vars, actorVars
    <3>3. CASE MainCallsReceiver(p) \/ LibrarySends(p) \/ LibraryReceives(p)
      <4>1. RemoteNext
        BY <3>3, TheTwo DEF MainCallsReceiver, LibrarySends, LibraryReceives, RemoteNext
      <4>2. ASSUME ReceiverThread(p, 1) PROVE UNCHANGED letter
        BY <4>2 DEF ReceiverThread, Bind, Test, Receive, TimesOut, LookUp, TryDeserialize,
                    Deliver, SerializeReject, QueueReject, actorVars
      <4>3. UNCHANGED letter
        BY <3>3, <4>2 DEF MainCallsReceiver, LibrarySends, LibraryReceives, Start, Stop, Joined,
             SenderThread, TakeRequest, Connect, ConnectFails, Transmit, actorVars
      <4>4. QED
        BY <4>1, <4>3, RemoteStepIsEvent
    <3>4. QED
      BY <2>5, <3>1, <3>2, <3>3 DEF MainStep, InitOrRun
  <2>6. CASE UNCHANGED vars
    BY <2>6, RemoteStepIsEvent DEF vars, actorVars
  <2>7. QED
    BY <2>1, <2>2, <2>3, <2>4, <2>5, <2>6 DEF ExamplesNext, AskerHandles, allVars
<1>2. QED
  BY <1>1, EventKeepsOrder
-----------------------------------------------------------------------------
\* What the library and the handlers leave alone.
Settings == <<named, entry, registry, life>>

LEMMA HandlersKeepSettings ==
  ASSUME NEW p, NEW a, NEW addr, NEW t, NEW ref, NEW origin, NEW re, NEW left,
         SendsAtOnce(p, a, addr, t, ref, origin, re, left)
  PROVE  UNCHANGED <<Settings, thread, work, stale, arrived>>
BY DEF SendsAtOnce, Queues, SendPanics, Poison, Others, OthersButUpsets, Settings,
       serializationVars, receiverVars, processVars

LEMMA IgnoreKeepsSettings ==
  ASSUME NEW p, NEW a, Ignore(p, a)
  PROVE  UNCHANGED <<Settings, thread, work, stale, arrived, alive, frames>>
BY DEF Ignore, Others, OthersButUpsets, Settings, serializationVars, receiverVars, processVars

LEMMA AskerKeepsSettings ==
  ASSUME AskerHandles \/ OnPing
  PROVE  UNCHANGED <<Settings, thread, work, stale, arrived, app, line, unreachable>>
<1>1. CASE StartHandler
  BY <1>1, HandlersKeepSettings DEF StartHandler, AskerSends
<1>2. CASE PingOnPong
  BY <1>2, HandlersKeepSettings, IgnoreKeepsSettings DEF PingOnPong, AskerSends, AskerTerminates
<1>3. CASE SenderOnPong \/ OnReject
  BY <1>3, IgnoreKeepsSettings DEF SenderOnPong, OnReject, AskerTerminates
<1>4. CASE OnPing
  BY <1>4, HandlersKeepSettings DEF OnPing
<1>5. QED
  BY <1>1, <1>2, <1>3, <1>4 DEF AskerHandles

LEMMA SenderKeepsSettings ==
  ASSUME NEW p, SenderThread(p)
  PROVE  UNCHANGED <<Settings, thread, work, stale, arrived, alive, mailbox, frames>>
BY DEF SenderThread, TakeRequest, Connect, ConnectFails, Transmit, Settings,
       serializationVars, receiverVars, processVars, actorVars, senderVars

\* The receiver of p moves, once it has been started.
LEMMA ReceiverKeepsSettings ==
  ASSUME NEW p, NEW s, ReceiverThread(p, s)
  PROVE  /\ UNCHANGED <<Settings, alive>> /\ thread[p][s] # "none"
         /\ \E to : thread' = [thread EXCEPT ![p][s] = to]
<1> USE DEF Settings, serializationVars, processVars, actorVars, Moves, Leaves
<1>1. CASE Bind(p, s) \/ Test(p, s) \/ Receive(p, s) \/ TimesOut(p, s)
  BY <1>1 DEF Bind, Test, Receive, TimesOut
<1>2. CASE LookUp(p, s)
  BY <1>2 DEF LookUp, Refuse
<1>3. CASE TryDeserialize(p, s)
  BY <1>3 DEF TryDeserialize, Refuse, FailingRead
<1>4. CASE Deliver(p, s)
  BY <1>4 DEF Deliver
<1>5. CASE SerializeReject(p, s) \/ QueueReject(p, s)
  BY <1>5 DEF SerializeReject, QueueReject, SendPanics, Poison
<1>6. QED
  BY <1>1, <1>2, <1>3, <1>4, <1>5 DEF ReceiverThread

\* Steps other than those of main.
LEMMA MainsStutter ==
  ASSUME OrderInv, MainsOK, UNCHANGED <<Settings, app, line>>, opened' \in Nat,
         terminate_flag' \in BOOLEAN, unreachable' \in BOOLEAN,
         terminate_flag => terminate_flag',
         \/ UNCHANGED thread
         \/ \E p \in Procs : /\ thread[p][1] # "none"
                             /\ \E to : thread' = [thread EXCEPT ![p][1] = to]
  PROVE  MainsOK'
<1>1. \A p \in Procs : /\ thread[p][1] = "none" /\ line[p] = 0 => thread'[p][1] = "none"
                       /\ \A s \in Starts : s # 1 => thread'[p][s] = thread[p][s]
  BY TheTwo DEF OrderInv, RemoteInv, ThreadsOK
<1>2. \A p \in Procs : HasRegistered(p)' = HasRegistered(p) /\ Main(p)' = Main(p)
  BY DEF HasRegistered, Registers, Main, Settings
<1>3. QED
  BY <1>1, <1>2 DEF MainsOK, Settings

\* main goes on to its next call.
LEMMA MainReturns ==
  ASSUME OrderInv, MainsOK, NEW p \in Procs, Returns(p), UNCHANGED <<registry, life>>,
         line[p] + 2 \in DOMAIN Main(p), p = client /\ line[p] = 3 => terminate_flag,
         line[p] # 0 => UNCHANGED <<named, entry>>,
         line[p] = 0 => /\ named' = [named EXCEPT ![p] = Registers(p)]
                        /\ entry' = [entry EXCEPT ![p] =
                                       [n \in Names |-> IF n \in Registers(p) THEN n ELSE NoType]]
                        /\ UNCHANGED thread,
         \/ UNCHANGED thread
         \/ \E to : thread' = [thread EXCEPT ![p][1] = to]
  PROVE  MainsOK'
<1>1. /\ line' = [line EXCEPT ![p] = @ + 1]
      /\ UNCHANGED <<app, opened, terminate_flag, rejected_count, unreachable>>
  BY DEF Returns
<1>2. line'[p] = line[p] + 1 /\ line[p] \in Nat /\ \A q \in Procs \ {p} : line'[q] = line[q]
  BY <1>1 DEF MainsOK
<1>3. \A q \in Procs : Main(q)' = Main(q) /\ Registers(q)' = Registers(q)
  BY <1>1 DEF Main, Registers
<1>4. \A q \in Procs \ {p} : /\ named'[q] = named[q] /\ entry'[q] = entry[q]
                             /\ \A s \in Starts : thread'[q][s] = thread[q][s]
  BY DEF OrderInv, RemoteInv, SerializationTypeOK, ThreadsOK
<1>5. \A s \in Starts : s # 1 => thread'[p][s] = thread[p][s]
  BY DEF OrderInv, RemoteInv, ThreadsOK
<1>6. HasRegistered(p)'
  <2>1. CASE line[p] = 0
    BY <1>3, <2>1 DEF HasRegistered, OrderInv, RemoteInv, SerializationTypeOK
  <2>2. CASE line[p] # 0
    BY <1>3, <2>2 DEF HasRegistered, MainsOK
  <2>3. QED
    BY <2>1, <2>2
<1>7. \A q \in Procs \ {p} : HasRegistered(q)' = HasRegistered(q)
  BY <1>3, <1>4 DEF HasRegistered
<1>8. ASSUME NEW q \in Procs
      PROVE  /\ line'[q] + 1 \in DOMAIN Main(q)
             /\ line'[q] = 0 => thread'[q][1] = "none"
             /\ line'[q] # 0 => HasRegistered(q)'
             /\ \A s \in Starts : s # 1 => thread'[q][s] = "none"
  <2>1. CASE q = p
    BY <1>2, <1>5, <1>6, <2>1 DEF MainsOK
  <2>2. CASE q # p
    BY <1>2, <1>4, <1>7, <2>2, TheTwo DEF MainsOK
  <2>3. QED
    BY <2>1, <2>2
<1>9. line'[client] >= 4 => terminate_flag'
  <2>1. CASE client = p
    <3>1. line[client] = 3 \/ line[client] >= 4 \/ line'[client] < 4
      BY <1>2, <2>1
    <3>2. QED
      BY <1>1, <1>2, <2>1, <3>1 DEF MainsOK
  <2>2. CASE client # p
    BY <1>1, <1>2, <2>2, TheTwo DEF MainsOK
  <2>3. QED
    BY <2>1, <2>2
<1>10. line' \in [Procs -> Nat]
  BY <1>1, <1>2 DEF MainsOK
<1>11. QED
  BY <1>1, <1>3, <1>8, <1>9, <1>10 DEF MainsOK

LEMMA NextMains ==
  ASSUME OrderInv, MainsOK, [ExamplesNext]_allVars
  PROVE  MainsOK'
<1>1. CASE AskerHandles \/ OnPing
  <2>1. UNCHANGED <<Settings, thread, app, line, unreachable>>
    BY <1>1, AskerKeepsSettings
  <2>2. opened' \in Nat /\ terminate_flag' \in BOOLEAN /\ (terminate_flag => terminate_flag')
    <3>1. opened \in Nat /\ terminate_flag \in BOOLEAN
      BY DEF MainsOK
    <3>2. CASE StartHandler
      BY <3>1, <3>2 DEF StartHandler
    <3>3. CASE PingOnPong
      BY <3>1, <3>3 DEF PingOnPong, AskerTerminates
    <3>4. CASE SenderOnPong \/ OnReject \/ OnPing
      BY <3>1, <3>4 DEF SenderOnPong, OnReject, OnPing, AskerTerminates
    <3>5. QED
      BY <1>1, <3>2, <3>3, <3>4 DEF AskerHandles
  <2>3. QED
    BY <2>1, <2>2, MainsStutter DEF MainsOK
<1>2. ASSUME NEW p \in Procs, LibrarySends(p) \/ LibraryReceives(p) PROVE MainsOK'
  <2>1. UNCHANGED <<Settings, app, line, opened, terminate_flag>>
        /\ (UNCHANGED thread
            \/ \E to : thread[p][1] # "none" /\ thread' = [thread EXCEPT ![p][1] = to])
    BY <1>2, SenderKeepsSettings, ReceiverKeepsSettings DEF LibrarySends, LibraryReceives
  <2>2. unreachable' \in BOOLEAN
    BY <1>2 DEF LibrarySends, LibraryReceives, MainsOK, ConnectFails
  <2>3. QED
    BY <2>1, <2>2, MainsStutter DEF MainsOK
<1>3. ASSUME NEW p \in Procs, MainStep(p) PROVE MainsOK'
  <2>1. line[p] \in Nat /\ line[p] + 1 \in DOMAIN Main(p)
    BY DEF MainsOK
  <2>2. CASE Register(p)
    <3>1. line[p] = 0 /\ line[p] + 2 \in DOMAIN Main(p)
      BY <2>1, <2>2, CallsOfMain DEF Register
    <3>2. /\ UNCHANGED <<registry, life>> /\ UNCHANGED thread /\ Returns(p)
          /\ named' = [named EXCEPT ![p] = Registers(p)]
          /\ entry' = [entry EXCEPT ![p] =
                         [n \in Names |-> IF n \in Registers(p) THEN n ELSE NoType]]
      BY <2>2 DEF Register, receiverVars, processVars
    <3>3. (p = client /\ line[p] = 3 => terminate_flag) /\ (line[p] # 0 => UNCHANGED <<named, entry>>)
      BY <3>1
    <3>4. QED
      BY <3>1, <3>2, <3>3, MainReturns
  <2>3. CASE InitOrRun(p)
    <3>1. /\ line[p] # 0 /\ line[p] + 2 \in DOMAIN Main(p)
          /\ p = client /\ line[p] = 3 => terminate_flag
      BY <2>1, <2>3, CallsOfMain DEF InitOrRun
    <3>2. UNCHANGED <<named, entry, registry, life, thread>>
      BY <2>3 DEF InitOrRun, vars, serializationVars, receiverVars, processVars
    <3>3. QED
      BY <2>3, <3>1, <3>2, MainReturns DEF InitOrRun
  <2>4. CASE MainCallsReceiver(p)
    <3>1. line[p] \in {1, 4, 5} /\ line[p] + 2 \in DOMAIN Main(p)
      BY <2>1, <2>4, CallsOfMain DEF MainCallsReceiver
    <3>2. UNCHANGED <<named, entry, registry, life>>
          /\ (UNCHANGED thread \/ \E to : thread' = [thread EXCEPT ![p][1] = to])
      BY <2>4 DEF MainCallsReceiver, Start, Stop, Joined, serializationVars, processVars
    <3>3. QED
      BY <2>4, <3>1, <3>2, MainReturns DEF MainCallsReceiver
  <2>5. QED
    BY <1>3, <2>2, <2>3, <2>4 DEF MainStep
<1>4. CASE UNCHANGED allVars
  BY <1>4, MainsStutter
     DEF allVars, vars, exampleVars, Settings, serializationVars, receiverVars, processVars, MainsOK
<1>5. QED
  BY <1>1, <1>2, <1>3, <1>4 DEF ExamplesNext
-----------------------------------------------------------------------------
\* The frame f is built, with n in its field count.
Adds(f, n) ==
  /\ f \in Frame /\ frames' = Append(frames, f) /\ count' = Append(count, n)

Carries(f, p, addr, t, sender, re) ==
  /\ f.src = <<p, 0>> /\ f.to = addr.endpoint /\ f.receiver = addr.actor
  /\ f.body = t /\ f.sender = sender /\ f.re = re

LEMMA SentAdds ==
  ASSUME OrderInv, MainsOK, NEW p \in Procs, NEW addr \in Addresses, NEW t \in Types, NEW ref,
         SenderInfo(p, ref) \in Addresses \cup {None}, NEW origin \in Addresses \cup {None},
         NEW re \in Nat, Queues(p, Written(p, addr, t, ref, origin, re)),
         NEW n, Counted(n)
  PROVE  \E f \in Frame : Adds(f, n) /\ Carries(f, p, addr, t, SenderInfo(p, ref), re)
<1> DEFINE f == [src |-> <<p, life[p]>>, to |-> addr.endpoint, receiver |-> addr.actor,
                 body |-> t, sender |-> SenderInfo(p, ref), origin |-> origin, re |-> re]
<1>1. frames' = Append(frames, f)
  BY DEF Queues, Written
<1>2. <<p, 0>> \in Lives /\ life[p] = 0
  BY RemoteAssumption DEF Lives, MainsOK
<1>3. addr.endpoint \in Procs /\ addr.actor \in Actors
  BY DEF Addresses
<1>4. f \in Frame
  BY <1>2, <1>3 DEF Frame
<1>5. Carries(f, p, addr, t, SenderInfo(p, ref), re)
  BY <1>2 DEF Carries
<1> HIDE DEF f
<1>6. frames' # frames
  BY <1>1, <1>4 DEF OrderInv, RemoteInv, FramesOK
<1>7. Adds(f, n)
  BY <1>1, <1>4, <1>6 DEF Adds, Counted
<1>8. QED
  BY <1>4, <1>5, <1>7

LEMMA AskerAdds ==
  ASSUME OrderInv, MainsOK, NEW t \in {"Ping", "UnknownMessage"}, NEW left, AskerSends(t, left),
         NEW n, Counted(n)
  PROVE  \/ UNCHANGED <<frames, count>> /\ ThreadEnds(client, asker)
         \/ /\ \E f \in Frame : Adds(f, n) /\ QuestionOK(f) /\ f.body = t
            /\ UNCHANGED alive /\ mailbox' = [mailbox EXCEPT ![client][asker] = left]
<1> DEFINE addr == [actor |-> answerer, endpoint |-> server]
           own  == [actor |-> asker, endpoint |-> client]
<1>1. /\ addr \in Addresses /\ own \in Addresses /\ SenderInfo(client, LocalRef(asker)) = own
      /\ client \in Procs /\ t \in Types
      /\ addr.endpoint = server /\ addr.actor = answerer
  BY TheTwo, ExamplesAssumption
<1>2. \/ /\ Queues(client, Written(client, addr, t, LocalRef(asker), own, 0))
         /\ UNCHANGED alive /\ mailbox' = [mailbox EXCEPT ![client][asker] = left]
      \/ UNCHANGED frames /\ ThreadEnds(client, asker)
  BY DEF AskerSends, SendsAtOnce, SendPanics
<1>3. own = [actor |-> asker, endpoint |-> client]
  OBVIOUS
<1> HIDE DEF addr, own
<1>4. CASE Queues(client, Written(client, addr, t, LocalRef(asker), own, 0))
  <2>1. PICK f \in Frame : Adds(f, n) /\ Carries(f, client, addr, t, own, 0)
    BY <1>1, <1>4, SentAdds
  <2>2. QuestionOK(f) /\ f.body = t
    BY <1>1, <1>3, <2>1 DEF QuestionOK, Carries
  <2>3. frames' # frames
    BY <2>1 DEF Adds, OrderInv, RemoteInv, FramesOK
  <2>4. QED
    BY <1>2, <2>1, <2>2, <2>3
<1>5. QED
  BY <1>2, <1>4 DEF Counted

LEMMA PongAdds ==
  ASSUME OrderInv, MainsOK, ShapesOK, OnPing, NEW i \in Nat, i = Head(mailbox[server][answerer]),
         NEW n, n = count[i]
  PROVE  /\ i \in DOMAIN frames /\ frames[i].body = "Ping" /\ mailbox[server][answerer] # <<>>
         /\ \/ UNCHANGED <<frames, count>> /\ ThreadEnds(server, answerer)
            \/ /\ \E f \in Frame : Adds(f, n) /\ AnswerOK(f) /\ f.body = "Pong"
               /\ UNCHANGED alive
               /\ mailbox' = [mailbox EXCEPT ![server][answerer] = Tail(@)]
<1> DEFINE own  == [actor |-> answerer, endpoint |-> server]
           addr == [actor |-> asker, endpoint |-> client]
<1>1. /\ own \in Addresses /\ SenderInfo(server, LocalRef(answerer)) = own
      /\ server \in Procs /\ answerer \in Actors /\ "Pong" \in Types
  BY TheTwo, ExamplesAssumption
<1>2. mailbox[server][answerer] # <<>> /\ frames[i].body = "Ping" /\ Counted(n)
  BY DEF OnPing, Takes, Counted
<1>3. i \in DOMAIN frames
  BY <1>1, <1>2, NextMessage DEF OrderInv, RemoteInv, FramesOK
<1>4. frames[i].sender = addr
  BY <1>2, <1>3 DEF ShapesOK, QuestionOK
<1>5. addr \in Addresses /\ addr.endpoint = client /\ addr.actor = asker
  BY TheTwo
<1>6. \/ /\ Queues(server, Written(server, addr, "Pong", LocalRef(answerer), own, i))
         /\ UNCHANGED alive
         /\ mailbox' = [mailbox EXCEPT ![server][answerer] = Tail(mailbox[server][answerer])]
      \/ UNCHANGED frames /\ ThreadEnds(server, answerer)
  BY <1>4 DEF OnPing, SendsAtOnce, SendPanics
<1> HIDE DEF own, addr
<1>7. CASE Queues(server, Written(server, addr, "Pong", LocalRef(answerer), own, i))
  <2>1. PICK f \in Frame : Adds(f, n) /\ Carries(f, server, addr, "Pong", own, i)
    BY <1>1, <1>2, <1>3, <1>5, <1>7, SentAdds
  <2>2. AnswerOK(f) /\ f.body = "Pong"
    BY <1>5, <2>1 DEF AnswerOK, Carries
  <2>3. frames' # frames
    BY <2>1 DEF Adds, OrderInv, RemoteInv, FramesOK
  <2>4. QED
    BY <1>2, <1>3, <1>6, <2>1, <2>2, <2>3
<1>8. QED
  BY <1>2, <1>3, <1>6, <1>7 DEF Counted

\* Where a receiver that has a frame in hand is.
LEMMA InHandHere ==
  ASSUME OrderInv, MainsOK, ShapesOK, NEW p \in Procs, thread[p][1] \in Holding
  PROVE  /\ work[p][1] \in DOMAIN frames /\ frames[work[p][1]].to = p /\ HasRegistered(p)
         /\ frames[work[p][1]].receiver \in registry[p]
         /\ frames[work[p][1]].body \in {"Ping", "UnknownMessage"} => p = server
         /\ frames[work[p][1]].body \in {"Pong", Reject} => p = client
         /\ frames[work[p][1]].body \in {"Ping", "UnknownMessage", "Pong", Reject}
<1>1. work[p][1] \in DOMAIN frames /\ work[p][1] # None /\ InHand(p, 1) \in Frame
  BY TheTwo, InHandIsFrame DEF OrderInv
<1>2. frames[work[p][1]].to = p
  BY <1>1, TheTwo DEF OrderInv, PlacedOK
<1>3. frames[work[p][1]].body \in {"Ping", "UnknownMessage", "Pong", Reject}
  BY <1>1, ExamplesAssumption DEF Frame, InHand
<1>4. thread[p][1] # "none"
  BY DEF Holding
<1>5. HasRegistered(p)
  BY <1>4 DEF MainsOK
<1>6. CASE QuestionOK(frames[work[p][1]])
  <2>1. p = server /\ frames[work[p][1]].receiver = answerer
    BY <1>2, <1>6 DEF QuestionOK
  <2>2. answerer \in registry[server]
    BY ExamplesAssumption DEF MainsOK
  <2>3. QED
    BY <1>1, <1>2, <1>3, <1>5, <2>1, <2>2, TheTwo, ExamplesAssumption DEF ShapesOK, AnswerOK
<1>7. CASE AnswerOK(frames[work[p][1]])
  <2>1. p = client /\ frames[work[p][1]].receiver = asker
    BY <1>2, <1>7 DEF AnswerOK
  <2>2. asker \in registry[client]
    BY ExamplesAssumption DEF MainsOK
  <2>3. QED
    BY <1>1, <1>2, <1>3, <1>5, <2>1, <2>2, TheTwo, ExamplesAssumption DEF ShapesOK, QuestionOK
<1>8. QED
  BY <1>1, <1>3, <1>6, <1>7 DEF ShapesOK

LEMMA RejectAdds ==
  ASSUME OrderInv, MainsOK, ShapesOK, MailboxesOK, NEW p \in Procs, QueueReject(p, 1), Counted(0)
  PROVE  /\ p = server /\ work[p][1] = 1 /\ 1 \in Of("UnknownMessage")
         /\ \E f \in Frame : Adds(f, 0) /\ AnswerOK(f) /\ f.body = Reject /\ f.re = 1
<1> DEFINE addr == InHand(p, 1).sender
<1>1. thread[p][1] = "queueing"
  BY DEF QueueReject
<1>2. work[p][1] \in Of("UnknownMessage")
  BY <1>1 DEF MailboxesOK, Refusing
<1>3. work[p][1] \in DOMAIN frames /\ frames[work[p][1]].body = "UnknownMessage"
  BY <1>2 DEF Of
<1>4. work[p][1] = 1 /\ QuestionOK(frames[work[p][1]])
  BY <1>3 DEF ShapesOK
<1>5. p = server
  BY <1>1, <1>3, InHandHere DEF Holding
<1>6. addr = [actor |-> asker, endpoint |-> client]
  BY <1>4 DEF QuestionOK, InHand
<1>7. addr \in Addresses /\ addr.endpoint = client /\ addr.actor = asker
  BY <1>6, TheTwo
<1>8. SenderInfo(p, None) = None /\ Reject \in Types
  BY RemoteAssumption DEF SenderInfo
<1>9. Queues(p, Written(p, addr, Reject, None, None, 1))
  BY <1>4 DEF QueueReject
<1> HIDE DEF addr
<1>10. PICK f \in Frame : Adds(f, 0) /\ Carries(f, p, addr, Reject, None, 1)
  BY <1>7, <1>8, <1>9, SentAdds
<1>11. AnswerOK(f) /\ f.body = Reject /\ f.re = 1
  BY <1>5, <1>7, <1>10 DEF AnswerOK, Carries
<1>12. QED
  BY <1>2, <1>4, <1>5, <1>10, <1>11

\* The steps that build a frame.
Opening ==
  /\ StartHandler
  /\ \E f \in Frame, t \in {"Ping", "UnknownMessage"} :
       Adds(f, 1) /\ QuestionOK(f) /\ f.body = t /\ t = OnStart[opened + 1]

NextRound ==
  /\ PingOnPong
  /\ \E f \in Frame, n \in Nat :
       /\ n = count[Head(mailbox[client][asker])] /\ ~PingIsDone(n)
       /\ Adds(f, n + 1) /\ QuestionOK(f) /\ f.body = "Ping"
  /\ mailbox' = [mailbox EXCEPT ![client][asker] = Tail(@)]

Answering ==
  /\ OnPing
  /\ \E f \in Frame, n \in Nat :
       /\ n = count[Head(mailbox[server][answerer])]
       /\ Adds(f, n) /\ AnswerOK(f) /\ f.body = "Pong"
  /\ mailbox' = [mailbox EXCEPT ![server][answerer] = Tail(@)]

Rejecting ==
  /\ QueueReject(server, 1) /\ work[server][1] = 1 /\ 1 \in Of("UnknownMessage")
  /\ \E f \in Frame : Adds(f, 0) /\ AnswerOK(f) /\ f.body = Reject /\ f.re = 1
  /\ UNCHANGED <<mailbox, opened, terminate_flag, rejected_count>>

Builds == Opening \/ NextRound \/ Answering \/ Rejecting

\* Only QueueReject builds a frame in the receiver thread.
LEMMA ReceiverBuilds ==
  ASSUME NEW p, NEW s, ReceiverThread(p, s), ~QueueReject(p, s) PROVE UNCHANGED frames
BY DEF ReceiverThread, Bind, Test, Receive, TimesOut, LookUp, TryDeserialize, Deliver,
       SerializeReject, SendPanics

\* A step leaves the frames as they are, or is one of these.
LEMMA FramesOfStep ==
  ASSUME OrderInv, MainsOK, ShapesOK, MailboxesOK, [ExamplesNext]_allVars
  PROVE  UNCHANGED <<frames, count>> \/ Builds
<1> USE DEF Builds
<1>1. CASE StartHandler
  <2>1. PICK t : t = OnStart[opened + 1]
    OBVIOUS
  <2>2. /\ opened \in Nat /\ opened < Len(OnStart) /\ Counted(1)
        /\ AskerSends(t, mailbox[client][asker])
    BY <1>1, <2>1 DEF StartHandler, MainsOK
  <2>3. t \in {"Ping", "UnknownMessage"}
    BY <2>1, <2>2, SentOnStart
  <2>4. PICK left : left = mailbox[client][asker]
    OBVIOUS
  <2>5. AskerSends(t, left)
    BY <2>2, <2>4 DEF AskerSends, SendsAtOnce
  <2>6. UNCHANGED <<frames, count>> \/ \E f \in Frame : Adds(f, 1) /\ QuestionOK(f) /\ f.body = t
    BY <2>2, <2>3, <2>5, AskerAdds
  <2>7. QED
    BY <1>1, <2>1, <2>3, <2>6 DEF Opening
<1>2. CASE PingOnPong
  <2>1. PICK i, n : i = Head(mailbox[client][asker]) /\ n = count[i]
    OBVIOUS
  <2>2. CASE AskerTerminates
    BY <2>2 DEF AskerTerminates, Ignore
  <2>3. CASE ~PingIsDone(n)
    <3>1. mailbox[client][asker] # <<>>
      BY <1>2 DEF PingOnPong, Takes
    <3>2. i \in DOMAIN frames /\ n \in Nat
      BY <2>1, <3>1, TheTwo, NextMessage DEF OrderInv, ShapesOK, RemoteInv, FramesOK
    <3>3. PICK left : left = Tail(mailbox[client][asker])
      OBVIOUS
    <3>4. AskerSends("Ping", left) /\ Counted(n + 1)
      BY <1>2, <2>1, <2>3, <3>3 DEF PingOnPong, AskerSends, SendsAtOnce, Counted
    <3>5. PICK m : m = n + 1
      OBVIOUS
    <3>6. \/ UNCHANGED <<frames, count>>
          \/ /\ \E f \in Frame : Adds(f, m) /\ QuestionOK(f) /\ f.body = "Ping"
             /\ mailbox' = [mailbox EXCEPT ![client][asker] = left]
      BY <3>4, <3>5, AskerAdds
    <3>7. QED
      BY <1>2, <2>1, <2>3, <3>2, <3>3, <3>5, <3>6 DEF NextRound
  <2>4. QED
    BY <1>2, <2>1, <2>2, <2>3 DEF PingOnPong
<1>3. CASE SenderOnPong \/ OnReject
  BY <1>3 DEF SenderOnPong, OnReject, AskerTerminates, Ignore
<1>4. CASE OnPing
  <2>1. mailbox[server][answerer] # <<>>
    BY <1>4 DEF OnPing, Takes
  <2>2. Head(mailbox[server][answerer]) \in DOMAIN frames /\ DOMAIN frames \subseteq Nat
        /\ count[Head(mailbox[server][answerer])] \in Nat
    <3>1. Head(mailbox[server][answerer]) \in DOMAIN frames
      BY <2>1, TheTwo, NextMessage DEF OrderInv
    <3>2. frames \in Seq(Frame) /\ count \in Seq(Nat) /\ Len(count) = Len(frames)
      BY DEF ShapesOK, OrderInv, RemoteInv, FramesOK
    <3>3. QED
      BY <3>1, <3>2
  <2>3. PICK i \in Nat : i = Head(mailbox[server][answerer])
    BY <2>2
  <2>4. PICK n \in Nat : n = count[i]
    BY <2>2, <2>3
  <2>5. \/ UNCHANGED <<frames, count>>
        \/ /\ \E f \in Frame : Adds(f, n) /\ AnswerOK(f) /\ f.body = "Pong"
           /\ mailbox' = [mailbox EXCEPT ![server][answerer] = Tail(@)]
    BY <1>4, <2>3, <2>4, PongAdds
  <2>6. QED
    BY <1>4, <2>3, <2>4, <2>5 DEF Answering
<1>5. ASSUME NEW p \in Procs, MainStep(p) PROVE UNCHANGED <<frames, count>>
  BY <1>5 DEF MainStep, Register, InitOrRun, MainCallsReceiver, Returns, Start, Stop, Joined, vars
<1>6. ASSUME NEW p \in Procs, LibrarySends(p) PROVE UNCHANGED <<frames, count>>
  BY <1>6, SenderKeepsSettings DEF LibrarySends
<1>7. ASSUME NEW p \in Procs, LibraryReceives(p) PROVE UNCHANGED <<frames, count>> \/ Rejecting
  <2>1. ReceiverThread(p, 1) /\ Counted(0)
    BY <1>7 DEF LibraryReceives
  <2>2. CASE ~QueueReject(p, 1)
    BY <2>1, <2>2, ReceiverBuilds DEF Counted
  <2>3. CASE QueueReject(p, 1)
    <3>1. /\ p = server /\ work[p][1] = 1 /\ 1 \in Of("UnknownMessage")
          /\ \E f \in Frame : Adds(f, 0) /\ AnswerOK(f) /\ f.body = Reject /\ f.re = 1
      BY <2>1, <2>3, RejectAdds
    <3>2. UNCHANGED <<mailbox, opened, terminate_flag, rejected_count>>
      BY <1>7, <2>3 DEF QueueReject, actorVars, LibraryReceives
    <3>3. QED
      BY <2>3, <3>1, <3>2 DEF Rejecting
  <2>4. QED
    BY <2>2, <2>3
<1>8. CASE UNCHANGED allVars
  BY <1>8 DEF allVars, vars, exampleVars
<1>9. QED
  BY <1>1, <1>2, <1>3, <1>4, <1>5, <1>6, <1>7, <1>8 DEF ExamplesNext, AskerHandles

\* The new frame and its number.
LEMMA NewNumber ==
  ASSUME OrderInv, ShapesOK, NEW f \in Frame, NEW n \in Nat, Adds(f, n)
  PROVE  /\ DOMAIN frames' = DOMAIN frames \cup {Len(frames) + 1}
         /\ DOMAIN frames = 1 .. Len(frames) /\ Len(frames) \in Nat
         /\ Len(frames') = Len(frames) + 1 /\ frames' # frames
         /\ frames'[Len(frames) + 1] = f /\ count'[Len(frames) + 1] = n
         /\ \A i \in DOMAIN frames : frames'[i] = frames[i] /\ count'[i] = count[i]
         /\ count' \in Seq(Nat) /\ Len(count') = Len(frames')
BY DEF Adds, OrderInv, RemoteInv, FramesOK, ShapesOK

\* Who sends what of on_start when.
LEMMA OpeningSends ==
  ASSUME Opening, MainsOK, ShapesOK
  PROVE  /\ opened' = opened + 1 /\ opened \in Nat /\ asker \in alive[client]
         /\ \/ app = "remote_ping_pong" /\ opened = 0 /\ OnStart[opened + 1] = "Ping"
            \/ /\ app = "reject_example" /\ opened = 0 /\ frames = <<>>
               /\ OnStart[opened + 1] = "UnknownMessage"
            \/ app = "reject_example" /\ opened = 1 /\ OnStart[opened + 1] = "Ping"
<1>1. opened' = opened + 1 /\ opened \in Nat /\ asker \in alive[client] /\ opened < Len(OnStart)
  BY DEF Opening, StartHandler, MainsOK
<1>2. PICK n \in Nat : n = opened
  BY <1>1
<1>3. n < Len(OnStart) /\ OnStart[n + 1] = OnStart[opened + 1]
  BY <1>1, <1>2
<1>4. CASE app = "remote_ping_pong"
  BY <1>1, <1>2, <1>3, <1>4, SentOnStart
<1>5. CASE app = "reject_example"
  <2>1. n \in {0, 1} /\ (n = 0 => OnStart[n + 1] = "UnknownMessage")
        /\ (n = 1 => OnStart[n + 1] = "Ping")
    BY <1>3, <1>5, SentOnStart
  <2>2. QED
    BY <1>1, <1>2, <1>3, <1>5, <2>1 DEF ShapesOK
<1>6. QED
  BY <1>4, <1>5 DEF MainsOK, Apps

\* app is set once, and opened counts up.
LEMMA ExampleVarsOfStep ==
  ASSUME OrderInv, MainsOK, [ExamplesNext]_allVars
  PROVE  app' = app /\ (opened' = opened \/ opened' = opened + 1) /\ opened \in Nat
<1>1. opened \in Nat
  BY DEF MainsOK
<1>2. CASE AskerHandles
  BY <1>1, <1>2
     DEF AskerHandles, StartHandler, PingOnPong, SenderOnPong, OnReject
<1>3. QED
  BY <1>1, <1>2 DEF ExamplesNext, OnPing, MainStep, Register, InitOrRun, MainCallsReceiver,
     Returns, LibrarySends, LibraryReceives, allVars, exampleVars

LEMMA NewShape ==
  ASSUME OrderInv, ShapesOK, NEW f \in Frame, NEW n \in Nat, Adds(f, n), app' = app, opened' # 0,
         f.body \in {"Ping", "UnknownMessage"} => QuestionOK(f),
         f.body \in {"Pong", Reject} => AnswerOK(f),
         f.body = "UnknownMessage" => frames = <<>> /\ app = "reject_example",
         f.body = Reject => f.re = 1 /\ 1 \in Of("UnknownMessage")
  PROVE  ShapesOK'
<1>1. /\ DOMAIN frames' = DOMAIN frames \cup {Len(frames) + 1}
      /\ frames'[Len(frames) + 1] = f
      /\ \A i \in DOMAIN frames : frames'[i] = frames[i]
      /\ count' \in Seq(Nat) /\ Len(count') = Len(frames')
  BY NewNumber
<1>2. 1 \in Of("UnknownMessage") => 1 \in Of("UnknownMessage")'
  BY <1>1 DEF Of
<1>3. ASSUME NEW i \in DOMAIN frames'
      PROVE  /\ frames'[i].body \in {"Ping", "UnknownMessage"} => QuestionOK(frames'[i])
             /\ frames'[i].body \in {"Pong", Reject} => AnswerOK(frames'[i])
             /\ frames'[i].body = "UnknownMessage" => i = 1 /\ app' = "reject_example"
             /\ frames'[i].body = Reject => frames'[i].re = 1 /\ 1 \in Of("UnknownMessage")'
  <2>1. CASE i \in DOMAIN frames
    <3>1. frames'[i] = frames[i]
      BY <1>1, <2>1
    <3>2. QED
      BY <1>2, <2>1, <3>1 DEF ShapesOK
  <2>2. CASE i = Len(frames) + 1
    <3>1. frames'[i] = f
      BY <1>1, <2>2
    <3>2. frames = <<>> => i = 1
      BY <2>2
    <3>3. QED
      BY <1>2, <3>1, <3>2
  <2>3. QED
    BY <1>1, <2>1, <2>2
<1>4. QED
  BY <1>1, <1>3 DEF ShapesOK

LEMMA NextShapes ==
  ASSUME OrderInv, MainsOK, ShapesOK, MailboxesOK, [ExamplesNext]_allVars
  PROVE  ShapesOK'
<1>1. app' = app /\ (opened' = opened \/ opened' = opened + 1) /\ opened \in Nat
  BY ExampleVarsOfStep
<1>2. Reject \notin {"Ping", "Pong", "UnknownMessage"}
  BY ExamplesAssumption
<1>3. CASE UNCHANGED <<frames, count>>
  BY <1>1, <1>3 DEF ShapesOK, Of
<1>4. CASE Opening
  <2>1. PICK f \in Frame, t \in {"Ping", "UnknownMessage"} :
          Adds(f, 1) /\ QuestionOK(f) /\ f.body = t /\ t = OnStart[opened + 1]
    BY <1>4 DEF Opening
  <2>2. opened' # 0 /\ (t = "UnknownMessage" => frames = <<>> /\ app = "reject_example")
    BY <1>4, <2>1, OpeningSends
  <2>3. QED
    BY <1>1, <1>2, <2>1, <2>2, NewShape
<1>5. frames # <<>> => opened' # 0
  BY <1>1 DEF ShapesOK
<1>6. CASE NextRound
  <2>1. PICK f \in Frame, n \in Nat : Adds(f, n + 1) /\ QuestionOK(f) /\ f.body = "Ping"
    BY <1>6 DEF NextRound
  <2>2. mailbox[client][asker] # <<>>
    BY <1>6 DEF NextRound, PingOnPong, Takes
  <2>3. frames # <<>>
    BY <2>2, TheTwo, NextMessage DEF OrderInv
  <2>4. QED
    BY <1>1, <1>2, <1>5, <2>1, <2>3, NewShape
<1>7. CASE Answering
  <2>1. PICK f \in Frame, n \in Nat : Adds(f, n) /\ AnswerOK(f) /\ f.body = "Pong"
    BY <1>7 DEF Answering
  <2>2. mailbox[server][answerer] # <<>>
    BY <1>7 DEF Answering, OnPing, Takes
  <2>3. frames # <<>>
    BY <2>2, TheTwo, NextMessage DEF OrderInv
  <2>4. QED
    BY <1>1, <1>2, <1>5, <2>1, <2>3, NewShape
<1>8. CASE Rejecting
  <2>1. PICK f \in Frame : Adds(f, 0) /\ AnswerOK(f) /\ f.body = Reject /\ f.re = 1
    BY <1>8 DEF Rejecting
  <2>2. 1 \in Of("UnknownMessage") /\ frames # <<>>
    BY <1>8 DEF Rejecting, Of
  <2>3. QED
    BY <1>1, <1>2, <1>5, <2>1, <2>2, NewShape
<1>9. QED
  BY <1>3, <1>4, <1>6, <1>7, <1>8, FramesOfStep DEF Builds
-----------------------------------------------------------------------------
\* What becomes of the mailboxes in a step.
Emptied(p, a) == ThreadEnds(p, a) /\ UNCHANGED arrived

Shortened(p, a) ==
  /\ mailbox[p][a] # <<>> /\ mailbox' = [mailbox EXCEPT ![p][a] = Tail(@)]
  /\ UNCHANGED arrived

Arrives(p) ==
  /\ thread[p][1] = "deliver" /\ Deliver(p, 1) /\ InHand(p, 1).receiver \in alive[p]
  /\ mailbox' = [mailbox EXCEPT ![p][InHand(p, 1).receiver] = Append(@, work[p][1])]
  /\ arrived' = [arrived EXCEPT ![p] = Append(@, work[p][1])]
  /\ UNCHANGED <<frames, count, alive>>

MailStays == UNCHANGED <<mailbox, arrived>>

MailMoves ==
  \/ MailStays
  \/ Emptied(client, asker) \/ Emptied(server, answerer)
  \/ Shortened(client, asker) /\ (PingOnPong \/ SenderOnPong \/ OnReject)
  \/ Shortened(server, answerer) /\ OnPing
  \/ \E p \in Procs : Arrives(p)

LEMMA AskerMail ==
  ASSUME OrderInv, NEW t, NEW left, AskerSends(t, left)
  PROVE  \/ Emptied(client, asker)
         \/ mailbox' = [mailbox EXCEPT ![client][asker] = left] /\ UNCHANGED arrived
BY DEF AskerSends, SendsAtOnce, Others, OthersButUpsets, Emptied

LEMMA ReceiverMail ==
  ASSUME NEW p \in Procs, ReceiverThread(p, 1), Counted(0)
  PROVE  MailStays \/ Arrives(p)
<1>1. CASE Deliver(p, 1)
  BY <1>1 DEF Deliver, MailStays, Arrives, Counted
<1>2. CASE ~Deliver(p, 1)
  BY <1>2 DEF ReceiverThread, Bind, Test, Receive, TimesOut, LookUp, TryDeserialize,
              SerializeReject, QueueReject, actorVars, MailStays
<1>3. QED
  BY <1>1, <1>2

LEMMA MailOfStep ==
  ASSUME OrderInv, MainsOK, ShapesOK, [ExamplesNext]_allVars
  PROVE  MailMoves
<1> USE DEF MailMoves
<1>1. /\ client \in Procs /\ server \in Procs /\ asker \in Actors /\ answerer \in Actors
  BY TheTwo
<1>2. CASE StartHandler
  <2>1. PICK t, left : t = OnStart[opened + 1] /\ left = mailbox[client][asker]
    OBVIOUS
  <2>2. AskerSends(t, left)
    BY <1>2, <2>1 DEF StartHandler, AskerSends, SendsAtOnce
  <2>3. [mailbox EXCEPT ![client][asker] = left] = mailbox
    BY <1>1, <2>1 DEF OrderInv, RemoteInv, MailOK
  <2>4. QED
    BY <1>1, <2>2, <2>3, AskerMail DEF MailStays
<1>3. ASSUME Ignore(client, asker) PROVE Shortened(client, asker)
  BY <1>3 DEF Ignore, Shortened, Others, OthersButUpsets
<1>4. CASE PingOnPong
  <2>1. CASE AskerTerminates
    BY <1>3, <1>4, <2>1 DEF AskerTerminates
  <2>2. CASE ~AskerTerminates
    <3>1. PICK left : left = Tail(mailbox[client][asker])
      OBVIOUS
    <3>2. AskerSends("Ping", left) /\ mailbox[client][asker] # <<>>
      BY <1>4, <2>2, <3>1 DEF PingOnPong, AskerSends, SendsAtOnce, Takes
    <3>3. QED
      BY <1>4, <3>1, <3>2, AskerMail DEF Shortened
  <2>3. QED
    BY <2>1, <2>2
<1>5. CASE SenderOnPong \/ OnReject
  BY <1>1, <1>3, <1>5 DEF SenderOnPong, OnReject, AskerTerminates
<1>6. CASE OnPing
  <2>1. mailbox[server][answerer] # <<>>
    BY <1>6 DEF OnPing, Takes
  <2>2. Emptied(server, answerer) \/ Shortened(server, answerer)
    BY <1>6, <2>1
       DEF OnPing, SendsAtOnce, Others, OthersButUpsets, Emptied, Shortened
  <2>3. QED
    BY <1>6, <2>2
<1>7. ASSUME NEW p \in Procs, MainStep(p) PROVE MailStays
  BY <1>7 DEF MainStep, Register, InitOrRun, MainCallsReceiver, Start, Stop, Joined, vars,
              actorVars, MailStays
<1>8. ASSUME NEW p \in Procs, LibrarySends(p) PROVE MailStays
  BY <1>8, SenderKeepsSettings DEF LibrarySends, MailStays
<1>9. ASSUME NEW p \in Procs, LibraryReceives(p) PROVE MailMoves
  BY <1>9, ReceiverMail DEF LibraryReceives
<1>10. CASE UNCHANGED allVars
  BY <1>10 DEF allVars, vars, actorVars, MailStays
<1>11. QED
  BY <1>2, <1>4, <1>5, <1>6, <1>7, <1>8, <1>9, <1>10 DEF ExamplesNext, AskerHandles

\* Appending to a sequence adds a member, Tail drops the first one.
LEMMA InAppend == ASSUME NEW S, NEW s \in Seq(S), NEW i \in S PROVE In(Append(s, i)) = In(s) \cup {i}
<1>1. \A k \in DOMAIN s : k \in DOMAIN Append(s, i) /\ Append(s, i)[k] = s[k]
  BY AppendIndices
<1>2. Len(s) + 1 \in DOMAIN Append(s, i) /\ Append(s, i)[Len(s) + 1] = i
  OBVIOUS
<1>3. \A k \in DOMAIN Append(s, i) : (k \in DOMAIN s /\ Append(s, i)[k] = s[k])
                                     \/ Append(s, i)[k] = i
  BY AppendIndices
<1>4. QED
  BY <1>1, <1>2, <1>3 DEF In

LEMMA InTail ==
  ASSUME NEW S, NEW s \in Seq(S), s # <<>>
  PROVE  /\ In(Tail(s)) \subseteq In(s) /\ Head(s) \in In(s)
         /\ \A i \in In(s) : i = Head(s) \/ i \in In(Tail(s))
<1>1. /\ 1 \in DOMAIN s /\ Head(s) = s[1]
      /\ \A k \in DOMAIN Tail(s) : k + 1 \in DOMAIN s /\ Tail(s)[k] = s[k + 1]
  BY TailIndices
<1>2. ASSUME NEW k \in DOMAIN s PROVE s[k] = Head(s) \/ s[k] \in In(Tail(s))
  <2>1. CASE k = 1
    BY <1>1, <2>1
  <2>2. CASE k # 1
    <3>1. k - 1 \in DOMAIN Tail(s) /\ Tail(s)[k - 1] = s[k]
      BY <2>2
    <3>2. QED
      BY <3>1 DEF In
  <2>3. QED
    BY <2>1, <2>2
<1>3. QED
  BY <1>1, <1>2 DEF In

\* Frames for one process come from the other, and are for its only actor.
LEMMA SameSource ==
  ASSUME OrderInv, ShapesOK, NEW i \in DOMAIN frames, NEW j \in DOMAIN frames,
         frames[i].to = frames[j].to
  PROVE  frames[i].src = frames[j].src /\ frames[i].receiver = frames[j].receiver
<1>1. ASSUME NEW k \in DOMAIN frames PROVE QuestionOK(frames[k]) \/ AnswerOK(frames[k])
  <2>1. frames[k] \in Frame
    BY DEF OrderInv, RemoteInv, FramesOK
  <2>2. frames[k].body \in Types
    BY <2>1 DEF Frame
  <2>3. QED
    BY <2>2, ExamplesAssumption DEF ShapesOK
<1>2. client # server
  BY TheTwo
<1>3. (QuestionOK(frames[i]) \/ AnswerOK(frames[i])) /\ (QuestionOK(frames[j]) \/ AnswerOK(frames[j]))
  BY <1>1
<1>4. QED
  BY <1>2, <1>3 DEF QuestionOK, AnswerOK

LEMMA NextGrows ==
  ASSUME OrderInv, MainsOK, ShapesOK, MailboxesOK, [ExamplesNext]_allVars
  PROVE  /\ Grows /\ DOMAIN frames \subseteq Nat
         /\ \A i \in DOMAIN frames' : i \in DOMAIN frames \/ i = Len(frames) + 1
<1>1. DOMAIN frames \subseteq Nat
  BY DEF OrderInv, RemoteInv, FramesOK
<1>2. CASE UNCHANGED <<frames, count>>
  BY <1>1, <1>2 DEF Grows
<1>3. ASSUME NEW f \in Frame, frames' = Append(frames, f)
      PROVE  Grows /\ \A i \in DOMAIN frames' : i \in DOMAIN frames \/ i = Len(frames) + 1
  BY <1>3, NewFrame DEF OrderInv, RemoteInv
<1>4. QED
  BY <1>1, <1>2, <1>3, FramesOfStep DEF Builds, Opening, NextRound, Answering, Rejecting, Adds

\* A frame in hand comes after all that have arrived.
LEMMA ArrivesLast ==
  ASSUME OrderInv, MainsOK, ShapesOK, MailboxesOK, NEW p \in Procs, Arrives(p)
  PROVE  /\ work[p][1] \in DOMAIN frames /\ frames[work[p][1]].to = p
         /\ InHand(p, 1).receiver \in Actors
         /\ work[p][1] \notin Of("UnknownMessage")
         /\ \A j \in In(arrived[p]) : j < work[p][1]
<1>1. thread[p][1] = "deliver"
  BY DEF Arrives
<1>2. work[p][1] \in DOMAIN frames /\ work[p][1] # None /\ InHand(p, 1) \in Frame
  BY <1>1, TheTwo, InHandIsFrame DEF OrderInv, Holding
<1>3. /\ frames[work[p][1]].to = p
      /\ \A j \in Done : frames[j].src = frames[work[p][1]].src /\ frames[j].to = p
                           => j < work[p][1]
  BY <1>2, TheTwo, WorkIsNotDone
<1>4. ASSUME NEW j \in In(arrived[p]) PROVE j < work[p][1]
  <2>1. j \in Done /\ j \in DOMAIN frames /\ frames[j].to = p
    BY Positions DEF In, OrderInv, RemoteInv, MailOK, PlacedOK
  <2>2. QED
    BY <1>2, <1>3, <2>1, SameSource
<1>5. QED
  BY <1>1, <1>2, <1>3, <1>4 DEF Frame, MailboxesOK

\* What is in a mailbox after a step.
MailContents ==
  /\ \A q \in Procs, b \in Actors :
       /\ Increasing(mailbox'[q][b])
       /\ \A i \in In(mailbox'[q][b]) :
            \/ i \in In(mailbox[q][b])
            \/ /\ i = work[q][1] /\ i \in In(arrived'[q]) /\ Arrives(q)
               /\ frames[i].receiver = b
  /\ \A q \in Procs : \A i \in In(arrived[q]) : i \in In(arrived'[q])
  /\ \A q \in Procs : \A i \in In(arrived'[q]) :
       i \in In(arrived[q]) \/ (i = work[q][1] /\ Arrives(q))

LEMMA NextContents ==
  ASSUME OrderInv, MainsOK, ShapesOK, MailboxesOK, [ExamplesNext]_allVars
  PROVE  MailContents
<1>1. /\ mailbox \in [Procs -> [Actors -> Seq(DOMAIN frames)]]
      /\ arrived \in [Procs -> Seq(DOMAIN frames)] /\ DOMAIN frames \subseteq Nat
  BY DEF OrderInv, RemoteInv, MailOK, FramesOK
<1>2. \A q \in Procs, b \in Actors : Increasing(mailbox[q][b])
  BY DEF MailboxesOK
<1>3. CASE MailStays
  BY <1>2, <1>3 DEF MailStays, MailContents
<1>4. ASSUME NEW p \in Procs, NEW a \in Actors, Emptied(p, a) PROVE MailContents
  <2>1. \A q \in Procs, b \in Actors :
          mailbox'[q][b] = IF q = p /\ b = a THEN <<>> ELSE mailbox[q][b]
    BY <1>1, <1>4 DEF Emptied, ThreadEnds
  <2>2. Increasing(<<>>) /\ In(<<>>) = {}
    BY DEF Increasing, In
  <2>3. UNCHANGED arrived
    BY <1>4 DEF Emptied
  <2>4. QED
    BY <1>2, <2>1, <2>2, <2>3 DEF MailContents
<1>5. ASSUME NEW p \in Procs, NEW a \in Actors, Shortened(p, a) PROVE MailContents
  <2>1. \A q \in Procs, b \in Actors :
          mailbox'[q][b] = IF q = p /\ b = a THEN Tail(mailbox[p][a]) ELSE mailbox[q][b]
    BY <1>1, <1>5 DEF Shortened
  <2>2. mailbox[p][a] \in Seq(DOMAIN frames) /\ mailbox[p][a] # <<>>
        /\ mailbox[p][a] \in Seq(Nat)
    BY <1>1, <1>5, NumbersAreNats DEF Shortened, OrderInv, RemoteInv
  <2>3. Increasing(Tail(mailbox[p][a])) /\ In(Tail(mailbox[p][a])) \subseteq In(mailbox[p][a])
    BY <1>2, <2>2, IncreasingTail, InTail
  <2>4. UNCHANGED arrived
    BY <1>5 DEF Shortened
  <2>5. QED
    BY <1>2, <2>1, <2>3, <2>4 DEF MailContents
<1>6. ASSUME NEW p \in Procs, Arrives(p) PROVE MailContents
  <2>1. PICK i, a : i = work[p][1] /\ a = InHand(p, 1).receiver
    OBVIOUS
  <2>2. /\ i \in DOMAIN frames /\ a \in Actors /\ a = frames[i].receiver
        /\ \A j \in In(arrived[p]) : j < i
    BY <1>6, <2>1, ArrivesLast DEF InHand
  <2>3. /\ \A q \in Procs, b \in Actors :
             mailbox'[q][b] = IF q = p /\ b = a THEN Append(mailbox[p][a], i) ELSE mailbox[q][b]
        /\ \A q \in Procs :
             arrived'[q] = IF q = p THEN Append(arrived[p], i) ELSE arrived[q]
    BY <1>1, <1>6, <2>1 DEF Arrives
  <2>4. mailbox[p][a] \in Seq(DOMAIN frames) /\ mailbox[p][a] \in Seq(Nat)
        /\ arrived[p] \in Seq(DOMAIN frames) /\ i \in Nat
    BY <1>1, <2>2, NumbersAreNats DEF OrderInv, RemoteInv
  <2>5. \A k \in DOMAIN mailbox[p][a] : mailbox[p][a][k] < i
    <3>1. \A k \in DOMAIN mailbox[p][a] : mailbox[p][a][k] \in In(arrived[p])
      <4>1. \A k \in DOMAIN mailbox[p][a] : mailbox[p][a][k] \in In(mailbox[p][a])
        BY DEF In
      <4>2. QED
        BY <2>2, <4>1 DEF MailboxesOK
    <3>2. QED
      BY <2>2, <3>1
  <2>6. Increasing(Append(mailbox[p][a], i))
    BY <1>2, <2>2, <2>4, <2>5, IncreasingAppend
  <2>7. /\ In(Append(mailbox[p][a], i)) = In(mailbox[p][a]) \cup {i}
        /\ In(Append(arrived[p], i)) = In(arrived[p]) \cup {i}
    BY <2>2, <2>4, InAppend
  <2>8. \A q \in Procs, b \in Actors : Increasing(mailbox'[q][b])
    BY <1>2, <2>3, <2>6
  <2>9. /\ \A q \in Procs : \A j \in In(arrived[q]) : j \in In(arrived'[q])
        /\ \A q \in Procs : \A j \in In(arrived'[q]) : j \in In(arrived[q]) \/ (q = p /\ j = i)
    BY <2>3, <2>7
  <2>10. \A q \in Procs, b \in Actors : \A j \in In(mailbox'[q][b]) :
           j \in In(mailbox[q][b]) \/ (q = p /\ b = a /\ j = i)
    BY <2>3, <2>7
  <2>11. i \in In(arrived'[p])
    BY <2>3, <2>7
  <2>12. QED
    BY <1>6, <2>1, <2>2, <2>8, <2>9, <2>10, <2>11 DEF MailContents
<1>7. QED
  BY <1>3, <1>4, <1>5, <1>6, MailOfStep, TheTwo DEF MailMoves

\* The actor of a message is there, and its type is known unless it is the
\* unknown one.
LEMMA LookUpFinds ==
  ASSUME OrderInv, MainsOK, ShapesOK, MailboxesOK, NEW p \in Procs, LookUp(p, 1)
  PROVE  Moves(p, 1, "parse", work[p][1])
<1>1. frames[work[p][1]].receiver \in registry[p]
  BY InHandHere DEF LookUp, Holding
<1>2. QED
  BY <1>1 DEF LookUp, InHand

LEMMA ReadJudges ==
  ASSUME OrderInv, MainsOK, ShapesOK, MailboxesOK, NEW p \in Procs, TryDeserialize(p, 1)
  PROVE  \/ Leaves(p, 1, "panicked")
         \/ /\ Moves(p, 1, "deliver", work[p][1]) /\ UNCHANGED wire
            /\ frames[work[p][1]].body # "UnknownMessage"
         \/ /\ Moves(p, 1, "reject", work[p][1]) /\ UNCHANGED wire
            /\ frames[work[p][1]].body = "UnknownMessage"
<1> DEFINE i == work[p][1]
           b == frames[i].body
<1>1. /\ i \in DOMAIN frames /\ HasRegistered(p) /\ frames[i].to = p
      /\ b \in {"Ping", "UnknownMessage"} => p = server
      /\ b \in {"Pong", Reject} => p = client
      /\ b \in {"Ping", "UnknownMessage", "Pong", Reject}
  BY InHandHere DEF TryDeserialize, Holding
<1>2. NameOf[b] = b /\ b \in Names
  BY <1>1, ExamplesAssumption
<1>3. Known(p, b) <=> b \in Registers(p)
  <2>1. Registers(p) \subseteq Names
    BY ExamplesAssumption
       DEF Registers, PingRegisters, PongRegisters, SenderRegisters, ReceiverRegisters
  <2>2. NoType \notin Names
    BY SerializationAssumption, ExamplesAssumption
  <2>3. QED
    BY <1>1, <1>2, <2>1, <2>2 DEF HasRegistered, Known
<1>4. b = Reject => app = "reject_example"
  BY <1>1 DEF ShapesOK, Of
<1>5. b \in Registers(p) <=> b # "UnknownMessage"
  <2>1. Reject \notin {"Ping", "Pong", "UnknownMessage"} /\ client # server
    BY ExamplesAssumption
  <2>2. QED
    BY <1>1, <1>4, <2>1 DEF Registers, PingRegisters, PongRegisters,
         SenderRegisters, ReceiverRegisters
<1>6. b = "UnknownMessage" => frames[i].sender # None
  <2>1. b = "UnknownMessage" => QuestionOK(frames[i])
    BY <1>1 DEF ShapesOK
  <2>2. QED
    BY <2>1, TheTwo DEF QuestionOK
<1> HIDE DEF b
<1>7. thread[p][1] = "parse" /\ InHand(p, 1).body = b /\ InHand(p, 1).sender = frames[i].sender
  BY DEF TryDeserialize, InHand, b
<1>8. \/ Leaves(p, 1, "panicked")
      \/ Known(p, b) /\ Moves(p, 1, "deliver", i) /\ UNCHANGED wire
      \/ ~Known(p, b) /\ Refuse(p, 1) /\ UNCHANGED wire
  BY <1>2, <1>7 DEF TryDeserialize
<1>9. frames[i].sender # None /\ Refuse(p, 1) => Moves(p, 1, "reject", i)
  BY <1>7 DEF Refuse
<1>10. QED
  BY <1>3, <1>5, <1>6, <1>8, <1>9 DEF b

\* What the receiver thread of p makes of a message.
LEMMA ReceiverJudges ==
  ASSUME OrderInv, MainsOK, ShapesOK, MailboxesOK, NEW p \in Procs, ReceiverThread(p, 1)
  PROVE  /\ thread'[p][1] \in {"deliver", "reject", "queueing"} =>
              work'[p][1] = work[p][1] /\ work[p][1] \in DOMAIN frames
         /\ thread'[p][1] = "deliver" => frames[work[p][1]].body # "UnknownMessage"
         /\ thread'[p][1] \in Refusing => frames[work[p][1]].body = "UnknownMessage"
         /\ \A q \in Procs : q # p => thread'[q][1] = thread[q][1] /\ work'[q][1] = work[q][1]
<1>1. 1 \in Starts /\ \A to, f : Moves(p, 1, to, f) =>
        /\ thread'[p][1] = to /\ work'[p][1] = f
        /\ \A q \in Procs : q # p => thread'[q][1] = thread[q][1] /\ work'[q][1] = work[q][1]
  BY TheTwo DEF Moves, OrderInv, RemoteInv, ThreadsOK
<1>2. \A to : Leaves(p, 1, to) => Moves(p, 1, to, None)
  BY DEF Leaves
<1> USE DEF Refusing
<1>3. CASE Bind(p, 1) \/ Test(p, 1) \/ TimesOut(p, 1) \/ Deliver(p, 1) \/ QueueReject(p, 1)
  BY <1>1, <1>2, <1>3 DEF Bind, Test, TimesOut, Deliver, QueueReject
<1>4. CASE Receive(p, 1)
  BY <1>1, <1>4 DEF Receive
<1>5. CASE LookUp(p, 1)
  BY <1>1, <1>5, LookUpFinds
<1>6. CASE TryDeserialize(p, 1)
  <2>1. work[p][1] \in DOMAIN frames
    BY <1>6, InHandHere DEF TryDeserialize, Holding
  <2>2. QED
    BY <1>1, <1>2, <1>6, <2>1, ReadJudges
<1>7. CASE SerializeReject(p, 1)
  <2>1. work[p][1] \in DOMAIN frames /\ frames[work[p][1]].body = "UnknownMessage"
    BY <1>7 DEF SerializeReject, MailboxesOK, Of
  <2>2. QED
    BY <1>1, <1>2, <1>7, <2>1 DEF SerializeReject
<1>8. QED
  BY <1>3, <1>4, <1>5, <1>6, <1>7 DEF ReceiverThread

\* Who moves the receiver threads.
LEMMA ThreadsOfStep ==
  ASSUME OrderInv, [ExamplesNext]_allVars
  PROVE  \/ UNCHANGED <<thread, work>>
         \/ \E p \in Procs : ReceiverThread(p, 1)
         \/ \E p \in Procs : Start(p, 1)
<1>1. CASE AskerHandles \/ OnPing
  BY <1>1, AskerKeepsSettings
<1>2. ASSUME NEW p \in Procs, MainStep(p) PROVE UNCHANGED <<thread, work>> \/ Start(p, 1)
  BY <1>2 DEF MainStep, Register, InitOrRun, MainCallsReceiver, Stop, Joined, vars, receiverVars
<1>3. ASSUME NEW p \in Procs, LibrarySends(p) PROVE UNCHANGED <<thread, work>>
  BY <1>3, SenderKeepsSettings DEF LibrarySends
<1>4. CASE UNCHANGED allVars
  BY <1>4 DEF allVars, vars, receiverVars
<1>5. QED
  BY <1>1, <1>2, <1>3, <1>4 DEF ExamplesNext, LibraryReceives

LEMMA NextMailboxes ==
  ASSUME OrderInv, MainsOK, ShapesOK, MailboxesOK, [ExamplesNext]_allVars
  PROVE  MailboxesOK'
<1>1. /\ \A i \in DOMAIN frames : i \in DOMAIN frames' /\ frames'[i] = frames[i]
      /\ arrived \in [Procs -> Seq(DOMAIN frames)]
      /\ mailbox \in [Procs -> [Actors -> Seq(DOMAIN frames)]]
  BY NextGrows DEF Grows, OrderInv, RemoteInv, MailOK
<1>2. MailContents
  BY NextContents
<1>3. \A q \in Procs : /\ \A i \in In(arrived[q]) : i \in DOMAIN frames
                       /\ \A b \in Actors : \A i \in In(mailbox[q][b]) : i \in DOMAIN frames
  BY <1>1 DEF In
<1>4. ASSUME NEW q \in Procs, NEW b \in Actors, NEW i \in In(mailbox'[q][b])
      PROVE  i \in In(arrived'[q]) /\ frames'[i].receiver = b
  <2>1. CASE i \in In(mailbox[q][b])
    BY <1>1, <1>2, <1>3, <2>1 DEF MailContents, MailboxesOK
  <2>2. CASE i = work[q][1] /\ i \in In(arrived'[q]) /\ Arrives(q) /\ frames[i].receiver = b
    BY <1>1, <2>2, ArrivesLast
  <2>3. QED
    BY <1>2, <2>1, <2>2 DEF MailContents
<1>5. ASSUME NEW q \in Procs, NEW i \in In(arrived'[q]) PROVE i \notin Of("UnknownMessage")'
  <2>1. CASE i \in In(arrived[q])
    BY <1>1, <1>3, <2>1 DEF MailboxesOK, Of
  <2>2. CASE i = work[q][1] /\ Arrives(q)
    BY <1>1, <2>2, ArrivesLast DEF Of
  <2>3. QED
    BY <1>2, <2>1, <2>2 DEF MailContents
<1> USE DEF Refusing
<1>6. ASSUME NEW q \in Procs
      PROVE  /\ thread'[q][1] = "deliver" => work'[q][1] \notin Of("UnknownMessage")'
             /\ thread'[q][1] \in Refusing => work'[q][1] \in Of("UnknownMessage")'
  <2>1. /\ thread[q][1] = "deliver" =>
             work[q][1] \in DOMAIN frames /\ work[q][1] \notin Of("UnknownMessage")'
        /\ thread[q][1] \in Refusing => work[q][1] \in Of("UnknownMessage")'
    <3>1. thread[q][1] \in {"deliver", "reject", "queueing"} => work[q][1] \in DOMAIN frames
      BY TheTwo, InHandIsFrame DEF OrderInv, Holding
    <3>2. QED
      BY <1>1, <3>1 DEF MailboxesOK, Of
  <2>2. CASE UNCHANGED <<thread, work>>
    BY <2>1, <2>2
  <2>3. ASSUME NEW p \in Procs, ReceiverThread(p, 1)
        PROVE  /\ thread'[q][1] = "deliver" => work'[q][1] \notin Of("UnknownMessage")'
               /\ thread'[q][1] \in Refusing => work'[q][1] \in Of("UnknownMessage")'
    <3>1. CASE q = p
      <4>1. /\ thread'[q][1] \in {"deliver", "reject", "queueing"} =>
                  work'[q][1] = work[q][1] /\ work[q][1] \in DOMAIN frames
            /\ thread'[q][1] = "deliver" => frames[work[q][1]].body # "UnknownMessage"
            /\ thread'[q][1] \in Refusing => frames[work[q][1]].body = "UnknownMessage"
        BY <2>3, <3>1, ReceiverJudges
      <4>2. \A i \in DOMAIN frames :
              i \in Of("UnknownMessage")' <=> frames[i].body = "UnknownMessage"
        BY <1>1 DEF Of
      <4>3. QED
        BY <4>1, <4>2
    <3>2. CASE q # p
      BY <2>1, <2>3, <3>2, ReceiverJudges
    <3>3. QED
      BY <3>1, <3>2
  <2>4. ASSUME NEW p \in Procs, Start(p, 1)
        PROVE  /\ thread'[q][1] = "deliver" => work'[q][1] \notin Of("UnknownMessage")'
               /\ thread'[q][1] \in Refusing => work'[q][1] \in Of("UnknownMessage")'
    <3>1. thread'[q][1] \in {thread[q][1], "bind"} /\ work'[q][1] = work[q][1]
      BY <2>4, TheTwo DEF Start, OrderInv, RemoteInv, ThreadsOK
    <3>2. QED
      BY <2>1, <3>1
  <2>5. QED
    BY <2>2, <2>3, <2>4, ThreadsOfStep
<1>7. QED
  BY <1>2, <1>4, <1>5, <1>6 DEF MailContents, MailboxesOK

\* The frames of the examples are as described.
LEMMA ExamplesStep == ExamplesInv /\ [ExamplesNext]_allVars => ExamplesInv' /\ Event
BY ExamplesOrder, NextMains, NextShapes, NextMailboxes DEF ExamplesInv

LEMMA ExamplesBegin == ExamplesInit => ExamplesInv
<1> SUFFICES ASSUME ExamplesInit PROVE ExamplesInv
  OBVIOUS
<1>1. RemoteInit /\ OrderInv
  BY InitOrder DEF ExamplesInit
<1>2. /\ frames = <<>> /\ count = <<>> /\ opened = 0 /\ app \in Apps
      /\ line = [p \in Procs |-> 0] /\ terminate_flag = FALSE /\ unreachable = FALSE
      /\ registry = Listed /\ life = [p \in Procs |-> 0]
      /\ thread = [p \in Procs |-> [s \in Starts |-> "none"]]
      /\ mailbox = [p \in Procs |-> [a \in Actors |-> <<>>]]
      /\ arrived = [p \in Procs |-> <<>>]
  BY DEF ExamplesInit, RemoteInit, ReceiverInit
<1>3. \A p \in Procs : 1 \in DOMAIN Main(p)
  BY DEF Main, PingMain, PongMain, SenderMain, ReceiverMain
<1>4. MainsOK
  <2>1. line \in [Procs -> Nat] /\ opened \in Nat /\ ~(line[client] >= 4)
    <3>1. line[client] = 0
      BY <1>2, TheTwo
    <3>2. QED
      BY <1>2, <3>1
  <2>2. \A p \in Procs : line[p] + 1 = 1 /\ line[p] = 0
    <3>1. \A p \in Procs : line[p] = 0
      BY <1>2
    <3>2. 0 + 1 = 1
      OBVIOUS
    <3>3. QED
      BY <3>1, <3>2
  <2>3. \A p \in Procs, s \in Starts : thread[p][s] = "none"
    BY <1>2
  <2>4. \A p \in Procs : line[p] + 1 \in DOMAIN Main(p)
    BY <1>3, <2>2, Zenon
  <2>5. QED
    BY <1>2, <2>1, <2>2, <2>3, <2>4, TheTwo DEF MainsOK
<1>5. ShapesOK
  BY <1>2 DEF ShapesOK
<1>6. MailboxesOK
  BY <1>2, TheTwo DEF MailboxesOK, Increasing, In, Of, Refusing
<1>7. QED
  BY <1>1, <1>4, <1>5, <1>6 DEF ExamplesInv

LEMMA ExamplesSafe == ExamplesSpec => []ExamplesInv
<1>1. ExamplesInv /\ [ExamplesNext]_allVars => ExamplesInv'
  BY ExamplesStep
<1>2. QED
  BY <1>1, ExamplesBegin, PTL DEF ExamplesSpec

\* The four programs, whose main functions and handlers do what Remote leaves
\* open, see of the library and of TCP what any user of remote.rs sees: channels
\* that lose messages, and neither reorder nor repeat them.
THEOREM ExamplesAreLossyChannels == ExamplesSpec => ImplementsLossyChannels
<1>1. ExamplesInv /\ [ExamplesNext]_allVars
        => [Channels!ChannelNext]_(Channels!channelVars)
  <2>1. ExamplesInv /\ [ExamplesNext]_allVars => OrderInv' /\ Event
    BY ExamplesStep DEF ExamplesInv
  <2>2. OrderInv' => TransitOK'
    BY TransitStages, PTL
  <2>3. QED
    BY <2>1, <2>2, TransitStages, ChannelStep DEF ExamplesInv
<1>2. ExamplesSpec => [][Channels!ChannelNext]_(Channels!channelVars)
  BY <1>1, ExamplesSafe, PTL DEF ExamplesSpec
<1>3. ExamplesSpec => Channels!ChannelInit
  BY ChannelInitHolds DEF ExamplesSpec, ExamplesInit
<1>4. QED
  BY <1>2, <1>3, PTL DEF ImplementsLossyChannels, Channels!ChannelSpec

\* remote.rs beneath the four programs: frames arrive in the order in which they
\* were sent, are never in two places, and answers reach the actor that asked.
THEOREM ExamplesKeepOrder ==
  ExamplesSpec => [](ArriveInSendOrder /\ EachFrameOnce /\ AnswersReachTheAsker)
<1>1. ExamplesInv => ArriveInSendOrder /\ EachFrameOnce /\ AnswersReachTheAsker
  BY InOnePlace DEF ExamplesInv, OrderInv, SortedOK, AnswersOK, PlacedOK, AnswersReachTheAsker
<1>2. QED
  BY <1>1, ExamplesSafe, PTL
-----------------------------------------------------------------------------
\* What has arrived is ahead of all that is on its way to the same process.
ArrivedAhead ==
  \A p \in Procs : \A i \in In(arrived[p]), j \in OnItsWay : frames[j].to = p => i < j

LEMMA NothingOvertakes == ExamplesInv => ArrivedAhead
<1> SUFFICES ASSUME ExamplesInv, NEW p \in Procs, NEW i \in In(arrived[p]), NEW j \in OnItsWay,
                    frames[j].to = p
             PROVE  i < j
  BY DEF ArrivedAhead
<1> USE DEF ExamplesInv
<1>1. i \in Done /\ i \in DOMAIN frames /\ frames[i].to = p
  BY Positions DEF In, OrderInv, RemoteInv, MailOK, PlacedOK
<1>2. i \in Stages[1] /\ \E m \in 2 .. 5 : j \in Stages[m]
  BY <1>1 DEF Stages, OnItsWay
<1>3. j \in DOMAIN frames
  BY <1>2, StagesHoldFrames
<1>4. frames[i].src = frames[j].src
  BY <1>1, <1>3, SameSource
<1>5. PICK m \in 2 .. 5 : j \in Stages[m]
  BY <1>2
<1>6. QED
  BY <1>1, <1>2, <1>4, <1>5, EarlierStage

\* Only a new frame comes on its way.
LEMMA WayOfEvent ==
  ASSUME OrderInv, Event, NEW i \in OnItsWay'
  PROVE  i \in OnItsWay \/ (i = Len(frames) + 1 /\ frames' # frames)
<1>1. CASE Fades
  BY <1>1, TheTwo, OthersLose
<1>0. ASSUME NEW p \in Procs,
             Taken(p) \/ Transmitted(p) \/ \E s \in Starts, l \in Lives : Received(p, s, l)
      PROVE  i \in OnItsWay
  BY <1>0, OthersLose
<1>2. ASSUME NEW p \in Procs, NEW f \in Frame, Submits(p, f), \A j \in Worked' : j \in Worked
      PROVE  i \in OnItsWay \/ (i = Len(frames) + 1 /\ frames' # frames)
  <2>1. Queued' = Queued \cup {Len(frames) + 1}
    BY <1>2, NewOnItsWay
  <2>2. Wired' = Wired /\ Current' = Current
    BY <1>2 DEF Submits, Wired, Current
  <2>3. frames' # frames
    BY <1>2 DEF Submits, OrderInv, RemoteInv, FramesOK
  <2>4. QED
    BY <1>2, <2>1, <2>2, <2>3 DEF OnItsWay
<1>3. ASSUME NEW p \in Procs, NEW s \in Starts, thread[p][s] \in Holding,
             work' = [work EXCEPT ![p][s] = None]
      PROVE  \A j \in Worked' : j \in Worked
  <2>1. work[p][s] # None
    BY <1>3, InHandIsFrame DEF OrderInv
  <2>2. QED
    BY <1>3, <2>1, WorkIsFirst
<1>4. ASSUME NEW p \in Procs, NEW f \in Frame, HandlerSubmits(p, f)
      PROVE  i \in OnItsWay \/ (i = Len(frames) + 1 /\ frames' # frames)
  <2>1. Submits(p, f) /\ Worked' = Worked
    BY <1>4 DEF HandlerSubmits, Worked
  <2>2. QED
    BY <1>2, <2>1
<1>5. ASSUME NEW p \in Procs, NEW s \in Starts, NEW f \in Frame, Rejected(p, s, f)
      PROVE  i \in OnItsWay \/ (i = Len(frames) + 1 /\ frames' # frames)
  BY <1>2, <1>3, <1>5 DEF Rejected, Holding
<1>6. ASSUME NEW p \in Procs, NEW s \in Starts, Delivered(p, s) PROVE i \in OnItsWay
  <2>1. \A j \in Worked' : j \in Worked
    BY <1>3, <1>6 DEF Delivered, Holding
  <2>2. Queued' = Queued /\ Wired' = Wired /\ Current' = Current
    BY <1>6 DEF Delivered, Queued, Wired, Current
  <2>3. QED
    BY <2>1, <2>2 DEF OnItsWay
<1>7. QED
  BY <1>0, <1>1, <1>4, <1>5, <1>6 DEF Event

\* Frames that are alive were alive before, or are new.
LEMMA NextLive ==
  ASSUME ExamplesInv, [ExamplesNext]_allVars, NEW i \in Live'
  PROVE  i \in Live \/ (i = Len(frames) + 1 /\ frames' # frames)
<1> USE DEF ExamplesInv, Live
<1>1. CASE i \in OnItsWay'
  BY <1>1, ExamplesStep, WayOfEvent
<1>2. CASE i \in Boxed'
  <2>1. PICK q \in Procs, b \in Actors : i \in In(mailbox'[q][b])
    BY <1>2 DEF Boxed
  <2>2. i \in In(mailbox[q][b]) \/ (i = work[q][1] /\ Arrives(q))
    BY <2>1, NextContents DEF MailContents
  <2>3. i \in Nat
    BY <1>2 DEF Boxed
  <2>4. CASE Arrives(q) /\ i = work[q][1]
    <3>1. work[q][1] # None
      BY <2>4, TheTwo, InHandIsFrame DEF Arrives, Holding, OrderInv
    <3>2. i \in Worked
      BY <2>4, <3>1, TheTwo, WorkIsNotDone
    <3>3. QED
      BY <3>2 DEF OnItsWay
  <2>5. QED
    BY <2>2, <2>3, <2>4 DEF Boxed
<1>3. QED
  BY <1>1, <1>2

\* Frames that are alive are frames.
LEMMA LiveIsFrame == ASSUME ExamplesInv, NEW i \in Live PROVE i \in DOMAIN frames /\ i \in Nat
<1>1. CASE i \in OnItsWay
  BY <1>1, StagesHoldFrames DEF ExamplesInv, OrderInv, RemoteInv, FramesOK, OnItsWay, Stages
<1>2. CASE i \in Boxed
  BY <1>2 DEF Boxed, ExamplesInv, OrderInv, RemoteInv, MailOK, In
<1>3. QED
  BY <1>1, <1>2 DEF Live, ExamplesInv, OrderInv, RemoteInv, FramesOK

\* A message that a handler has taken is nowhere any more.
LEMMA HandledIsGone ==
  ASSUME ExamplesInv, [ExamplesNext]_allVars, NEW p \in Procs, NEW a \in Actors, Shortened(p, a),
         NEW i, i = Head(mailbox[p][a])
  PROVE  /\ i \in Live /\ i \notin Live' /\ i \in Nat /\ i \in DOMAIN frames
         /\ frames[i].to = p /\ i \in In(arrived[p])
         /\ \A j \in In(mailbox[p][a]) : j = i \/ (i < j /\ j \in In(mailbox'[p][a]))
         /\ \A j \in Live' : frames'[j].to = p => i < j
<1> USE DEF ExamplesInv
<1>1. ExamplesInv' /\ Grows
  BY ExamplesStep, NextGrows
<1>2. ArrivedAhead'
  BY <1>1, NothingOvertakes, PTL
<1>3. /\ mailbox \in [Procs -> [Actors -> Seq(DOMAIN frames)]]
      /\ arrived \in [Procs -> Seq(DOMAIN frames)] /\ DOMAIN frames \subseteq Nat
      /\ mailbox[p][a] # <<>> /\ mailbox'[p][a] = Tail(mailbox[p][a]) /\ UNCHANGED arrived
  BY DEF OrderInv, RemoteInv, MailOK, FramesOK, Shortened
<1>4. mailbox[p][a] \in Seq(DOMAIN frames) /\ mailbox[p][a] \in Seq(Nat)
  BY <1>3, NumbersAreNats DEF OrderInv, RemoteInv
<1>5. i \in In(mailbox[p][a]) /\ \A j \in In(mailbox[p][a]) : j = i \/ j \in In(mailbox'[p][a])
  BY <1>3, <1>4, InTail
<1>6. /\ i \in In(arrived[p]) /\ frames[i].receiver = a /\ i \in DOMAIN frames /\ i \in Nat
      /\ frames[i].to = p
  <2>1. i \in In(arrived[p]) /\ frames[i].receiver = a
    BY <1>5 DEF MailboxesOK
  <2>2. QED
    BY <1>3, <2>1 DEF In, OrderInv, PlacedOK
<1>7. Increasing(mailbox[p][a])
  BY DEF MailboxesOK
<1>8. \A j \in In(mailbox'[p][a]) : i < j
  BY <1>3, <1>4, <1>7, IncreasingTail DEF In
<1>9. i \in Live
  BY <1>5, <1>6 DEF Live, Boxed
<1>10. i \notin OnItsWay'
  <2>1. i \in In(arrived'[p]) /\ frames'[i].to = p
    BY <1>1, <1>3, <1>6 DEF Grows
  <2>2. i \in OnItsWay' => i < i
    BY <1>2, <2>1 DEF ArrivedAhead
  <2>3. QED
    BY <1>6, <2>2
<1>11. i \notin Boxed'
  <2> SUFFICES ASSUME NEW q \in Procs, NEW b \in Actors, i \in In(mailbox'[q][b]) PROVE FALSE
    BY DEF Boxed
  <2>1. i \in In(arrived'[q]) /\ frames'[i].receiver = b
    BY <1>1 DEF MailboxesOK
  <2>2. frames'[i].to = q
    BY <1>1, <2>1 DEF In, OrderInv, PlacedOK
  <2>3. q = p /\ b = a
    BY <1>1, <1>6, <2>1, <2>2 DEF Grows
  <2>4. i < i
    BY <1>8, <2>3
  <2>5. QED
    BY <1>6, <2>4
<1>12. \A j \in In(mailbox[p][a]) : j = i \/ (i < j /\ j \in In(mailbox'[p][a]))
  BY <1>5, <1>8
<1>13. ASSUME NEW j \in Live', frames'[j].to = p PROVE i < j
  <2>1. CASE j \in OnItsWay'
    <3>1. i \in In(arrived'[p])
      BY <1>3, <1>6
    <3>2. QED
      BY <1>2, <1>13, <2>1, <3>1 DEF ArrivedAhead
  <2>2. CASE j \in Boxed'
    <3>1. PICK q \in Procs, b \in Actors : j \in In(mailbox'[q][b])
      BY <2>2 DEF Boxed
    <3>2. j \in In(arrived'[q]) /\ frames'[j].receiver = b
      BY <1>1, <3>1 DEF MailboxesOK
    <3>3. frames'[j].to = q
      BY <1>1, <3>2 DEF In, OrderInv, PlacedOK
    <3>4. j \in DOMAIN frames /\ frames'[j] = frames[j]
      BY <1>1, <1>3, <3>2 DEF In, Grows
    <3>5. frames[j].receiver = frames[i].receiver
      BY <1>6, <1>13, <3>4, SameSource
    <3>6. QED
      BY <1>6, <1>8, <1>13, <3>1, <3>2, <3>3, <3>4, <3>5
  <2>3. QED
    BY <1>13, <2>1, <2>2 DEF Live
<1>14. QED
  BY <1>6, <1>9, <1>10, <1>11, <1>12, <1>13 DEF Live

\* The handlers of the client and the server take messages.
LEMMA AskerTakes ==
  ASSUME ExamplesInv, AskerTerminates \/ NextRound \/ Ignore(client, asker)
  PROVE  Shortened(client, asker) /\ client \in Procs /\ asker \in Actors
<1>1. client \in Procs /\ asker \in Actors
  BY TheTwo
<1>2. CASE Ignore(client, asker) \/ AskerTerminates
  BY <1>1, <1>2 DEF AskerTerminates, Ignore, Shortened, Others, OthersButUpsets
<1>3. CASE NextRound
  <2>1. mailbox[client][asker] # <<>>
    BY <1>3 DEF NextRound, PingOnPong, Takes
  <2>2. ~AskerTerminates
    BY <1>3 DEF NextRound, Adds, AskerTerminates, Ignore, ExamplesInv, OrderInv, RemoteInv, FramesOK
  <2>3. UNCHANGED arrived
    BY <1>3, <2>2 DEF NextRound, PingOnPong, AskerSends, SendsAtOnce, Others, OthersButUpsets
  <2>4. QED
    BY <1>1, <1>3, <2>1, <2>3 DEF NextRound, Shortened
<1>4. QED
  BY <1>2, <1>3

LEMMA AnswererTakes ==
  ASSUME Answering
  PROVE  Shortened(server, answerer) /\ server \in Procs /\ answerer \in Actors
BY TheTwo DEF Answering, OnPing, Takes, SendsAtOnce, Others, OthersButUpsets, Shortened
-----------------------------------------------------------------------------
\* terminate_flag and opened are set by the handlers of the client.
LEMMA WhoTerminates ==
  ASSUME [ExamplesNext]_allVars
  PROVE  /\ opened' = opened \/ (StartHandler /\ opened' = opened + 1)
         /\ \/ terminate_flag' = terminate_flag
            \/ AskerTerminates /\ (PingOnPong \/ SenderOnPong) /\ UNCHANGED <<opened, frames>>
BY DEF ExamplesNext, AskerHandles, StartHandler, PingOnPong, SenderOnPong, OnReject,
       AskerTerminates, Ignore, OnPing, MainStep, Register, InitOrRun, MainCallsReceiver,
       Returns, LibrarySends, LibraryReceives, allVars, exampleVars

\* The numbers of a round.
LEMMA Rounds ==
  ASSUME NEW n \in Nat
  PROVE  /\ n % 2 = 1 => (n + 2) \div 2 = (n + 1) \div 2 /\ (n + 1) % 2 = 0
         /\ n % 2 = 0 => (n + 2) \div 2 = (n + 1) \div 2 + 1 /\ (n + 1) % 2 = 1
OBVIOUS

\* The frames of ping and pong after a new one.
LEMMA NewRound ==
  ASSUME ExamplesInv, PingPongInv, app = "remote_ping_pong", NEW f \in Frame, NEW n \in Nat,
         Adds(f, n), n = (Len(frames) + 2) \div 2, n <= 5,
         f.body = IF (Len(frames) + 1) % 2 = 1 THEN "Ping" ELSE "Pong"
  PROVE  \A i \in DOMAIN frames' :
           /\ count'[i] = (i + 1) \div 2 /\ count'[i] <= 5
           /\ frames'[i].body = IF i % 2 = 1 THEN "Ping" ELSE "Pong"
<1> SUFFICES ASSUME NEW i \in DOMAIN frames'
             PROVE  /\ count'[i] = (i + 1) \div 2 /\ count'[i] <= 5
                    /\ frames'[i].body = IF i % 2 = 1 THEN "Ping" ELSE "Pong"
  OBVIOUS
<1>1. /\ DOMAIN frames' = DOMAIN frames \cup {Len(frames) + 1} /\ Len(frames) \in Nat
      /\ frames'[Len(frames) + 1] = f /\ count'[Len(frames) + 1] = n
      /\ \A j \in DOMAIN frames : frames'[j] = frames[j] /\ count'[j] = count[j]
  BY NewNumber DEF ExamplesInv
<1>2. CASE i \in DOMAIN frames
  BY <1>1, <1>2 DEF PingPongInv
<1>3. CASE i = Len(frames) + 1
  <2>1. i + 1 = Len(frames) + 2
    BY <1>1, <1>3
  <2>2. frames'[i] = f /\ count'[i] = n
    BY <1>1, <1>3
  <2>3. QED
    BY <1>3, <2>1, <2>2
<1>4. QED
  BY <1>1, <1>2, <1>3

\* The client's actor takes messages when on_start has sent all of its own.
LEMMA HasOpened ==
  ASSUME NEW t, Takes(client, asker, t)
  PROVE  /\ app = "remote_ping_pong" => opened = 1
         /\ app # "remote_ping_pong" => opened = 2
         /\ asker \in alive[client]
BY DEF Takes, OnStart, PingOnStart, SenderOnStart

LEMMA PingPongStep == ExamplesInv /\ PingPongInv /\ [ExamplesNext]_allVars => PingPongInv'
<1> SUFFICES ASSUME ExamplesInv, PingPongInv, [ExamplesNext]_allVars, app' = "remote_ping_pong"
             PROVE  PingPongInv'
  BY DEF PingPongInv
<1> DEFINE Terms == \A i \in DOMAIN frames :
                      /\ count[i] = (i + 1) \div 2 /\ count[i] <= 5
                      /\ frames[i].body = IF i % 2 = 1 THEN "Ping" ELSE "Pong"
           Latest == \A i \in Live : i = Len(frames)
           Ended  == terminate_flag => Live = {} /\ opened = 1
<1>1. /\ app = "remote_ping_pong" /\ OrderInv /\ MainsOK /\ ShapesOK /\ MailboxesOK
      /\ opened \in Nat /\ Len(frames) \in Nat
  BY ExampleVarsOfStep DEF ExamplesInv, OrderInv, RemoteInv, FramesOK
<1>2. Terms /\ Latest /\ Ended
  BY <1>1 DEF PingPongInv
<1>3. SUFFICES Terms' /\ Latest' /\ Ended'
  BY DEF PingPongInv
<1>4. /\ opened' = opened \/ (StartHandler /\ opened' = opened + 1)
      /\ \/ terminate_flag' = terminate_flag
         \/ AskerTerminates /\ (PingOnPong \/ SenderOnPong) /\ UNCHANGED <<opened, frames>>
  BY WhoTerminates
<1>5. StartHandler => opened = 0 /\ ~terminate_flag
  <2>1. PICK n \in Nat : n = opened
    BY <1>1
  <2>2. StartHandler => n < Len(OnStart)
    BY <2>1 DEF StartHandler
  <2>3. QED
    BY <1>1, <1>2, <2>1, <2>2, SentOnStart
<1>6. CASE UNCHANGED <<frames, count>>
  <2>1. Terms' /\ Latest' /\ \A i \in Live' : i \in Live
    BY <1>2, <1>6, NextLive
  <2>2. CASE AskerTerminates /\ (PingOnPong \/ SenderOnPong) /\ UNCHANGED <<opened, frames>>
    <3>1. PICK i : i = Head(mailbox[client][asker])
      OBVIOUS
    <3>2. i \in Live /\ i \notin Live'
      BY <2>2, <3>1, AskerTakes, HandledIsGone
    <3>3. Live' = {}
      BY <1>2, <2>1, <3>2
    <3>4. opened = 1
      BY <1>1, <2>2, HasOpened DEF PingOnPong, SenderOnPong
    <3>5. QED
      BY <2>1, <2>2, <3>3, <3>4
  <2>3. CASE terminate_flag' = terminate_flag
    BY <1>2, <1>4, <1>5, <2>1, <2>3
  <2>4. QED
    BY <1>4, <2>2, <2>3
<1>7. ASSUME NEW f \in Frame, NEW n \in Nat, Adds(f, n), n = (Len(frames) + 2) \div 2, n <= 5,
             f.body = IF (Len(frames) + 1) % 2 = 1 THEN "Ping" ELSE "Pong",
             Live \cap Live' = {}, ~terminate_flag
      PROVE  Terms' /\ Latest' /\ Ended'
  <2>1. Terms'
    BY <1>1, <1>7, NewRound
  <2>2. frames' # frames /\ Len(frames') = Len(frames) + 1
    BY <1>1, <1>7, NewNumber
  <2>3. Latest'
    BY <1>7, <2>2, NextLive
  <2>4. ~terminate_flag'
    BY <1>4, <1>7, <2>2
  <2>5. QED
    BY <2>1, <2>3, <2>4
<1>8. CASE Opening
  <2>1. PICK f \in Frame : Adds(f, 1) /\ f.body = "Ping"
    BY <1>1, <1>8, OpeningSends DEF Opening
  <2>2. opened = 0 /\ frames = <<>> /\ ~terminate_flag
    BY <1>1, <1>5, <1>8 DEF Opening, ShapesOK
  <2>3. Live = {}
    BY <2>2, LiveIsFrame
  <2>4. 1 = (Len(frames) + 2) \div 2 /\ (Len(frames) + 1) % 2 = 1 /\ 1 \in Nat /\ 1 <= 5
    BY <2>2
  <2>5. f.body = IF (Len(frames) + 1) % 2 = 1 THEN "Ping" ELSE "Pong"
    BY <2>1, <2>4
  <2>6. QED
    BY <1>7, <2>1, <2>2, <2>3, <2>4, <2>5
<1>9. ASSUME NEW p \in Procs, NEW a \in Actors, Shortened(p, a)
      PROVE  /\ Head(mailbox[p][a]) = Len(frames) /\ Len(frames) \in DOMAIN frames
             /\ ~terminate_flag /\ Live \cap Live' = {}
  <2>1. PICK i : i = Head(mailbox[p][a])
    OBVIOUS
  <2>2. i \in Live /\ i \notin Live' /\ i \in DOMAIN frames
    BY <1>9, <2>1, HandledIsGone
  <2>3. QED
    BY <1>2, <2>1, <2>2
<1>10. CASE NextRound
  <2>1. PICK f \in Frame, n \in Nat :
          /\ n = count[Head(mailbox[client][asker])] /\ ~PingIsDone(n)
          /\ Adds(f, n + 1) /\ f.body = "Ping"
    BY <1>10 DEF NextRound
  <2>2. /\ Head(mailbox[client][asker]) = Len(frames) /\ Len(frames) \in DOMAIN frames
        /\ ~terminate_flag /\ Live \cap Live' = {}
    BY <1>9, <1>10, AskerTakes
  <2>3. frames[Len(frames)].body = "Pong"
    BY <1>10, <2>2 DEF NextRound, PingOnPong, Takes
  <2>4. PICK k \in Nat : k = Len(frames)
    BY <1>1
  <2>5. k % 2 = 0 /\ n = (k + 1) \div 2 /\ n < 5
    BY <1>2, <2>1, <2>2, <2>3, <2>4 DEF PingIsDone
  <2>6. n + 1 = (k + 2) \div 2 /\ n + 1 <= 5 /\ (k + 1) % 2 = 1 /\ n + 1 \in Nat
    BY <2>5, Rounds
  <2>7. QED
    BY <1>7, <2>1, <2>2, <2>4, <2>6
<1>11. CASE Answering
  <2>1. PICK f \in Frame, n \in Nat :
          n = count[Head(mailbox[server][answerer])] /\ Adds(f, n) /\ f.body = "Pong"
    BY <1>11 DEF Answering
  <2>2. /\ Head(mailbox[server][answerer]) = Len(frames) /\ Len(frames) \in DOMAIN frames
        /\ ~terminate_flag /\ Live \cap Live' = {}
    BY <1>9, <1>11, AnswererTakes
  <2>3. frames[Len(frames)].body = "Ping"
    BY <1>11, <2>2 DEF Answering, OnPing, Takes
  <2>4. PICK k \in Nat : k = Len(frames)
    BY <1>1
  <2>5. k % 2 = 1 /\ n = (k + 1) \div 2 /\ n <= 5
    BY <1>2, <2>1, <2>2, <2>3, <2>4
  <2>6. n = (k + 2) \div 2 /\ (k + 1) % 2 # 1
    BY <2>5, Rounds
  <2>7. QED
    BY <1>7, <2>1, <2>2, <2>4, <2>5, <2>6
<1>12. CASE Rejecting
  <2>1. 1 \in DOMAIN frames /\ frames[1].body = "UnknownMessage"
    BY <1>12 DEF Rejecting, Of
  <2>2. QED
    BY <1>1, <2>1 DEF ShapesOK
<1>13. QED
  BY <1>1, <1>6, <1>8, <1>10, <1>11, <1>12, FramesOfStep DEF Builds
-----------------------------------------------------------------------------
\* Who is in what, after a new frame.
LEMMA NewOf ==
  ASSUME ExamplesInv, NEW f \in Frame, NEW n \in Nat, Adds(f, n), NEW t
  PROVE  Of(t)' = Of(t) \cup (IF f.body = t THEN {Len(frames) + 1} ELSE {})
<1>1. /\ DOMAIN frames' = DOMAIN frames \cup {Len(frames) + 1}
      /\ DOMAIN frames = 1 .. Len(frames) /\ Len(frames) \in Nat
      /\ frames'[Len(frames) + 1] = f
      /\ \A i \in DOMAIN frames : frames'[i] = frames[i]
  BY NewNumber DEF ExamplesInv
<1>2. PICK k \in Nat : k = Len(frames)
  BY <1>1
<1>3. ASSUME NEW i \in DOMAIN frames' PROVE i \in Of(t)' <=> (i \in Of(t) \/ (i = k + 1 /\ f.body = t))
  <2>1. CASE i \in DOMAIN frames
    BY <1>1, <1>2, <2>1 DEF Of
  <2>2. CASE i = k + 1
    BY <1>1, <1>2, <2>2 DEF Of
  <2>3. QED
    BY <1>1, <1>2, <2>1, <2>2
<1>4. k + 1 \in DOMAIN frames' /\ \A i \in Of(t) \cup Of(t)' : i \in DOMAIN frames'
  BY <1>1, <1>2 DEF Of
<1>5. QED
  BY <1>2, <1>3, <1>4

\* No actor comes back.
LEMMA NextAlive ==
  ASSUME ExamplesInv, [ExamplesNext]_allVars, NEW p \in Procs PROVE alive'[p] \subseteq alive[p]
<1>1. alive \in [Procs -> SUBSET Actors]
  BY DEF ExamplesInv, OrderInv, RemoteInv, MailOK
<1>2. ASSUME NEW q, NEW a, NEW addr, NEW t, NEW ref, NEW origin, NEW re, NEW left,
             SendsAtOnce(q, a, addr, t, ref, origin, re, left)
      PROVE  alive'[p] \subseteq alive[p]
  BY <1>1, <1>2 DEF SendsAtOnce, ThreadEnds
<1>3. CASE StartHandler \/ PingOnPong
  BY <1>2, <1>3, IgnoreKeepsSettings DEF StartHandler, PingOnPong, AskerSends, AskerTerminates
<1>4. CASE SenderOnPong \/ OnReject
  BY <1>4, IgnoreKeepsSettings DEF SenderOnPong, OnReject, AskerTerminates
<1>5. CASE OnPing
  BY <1>2, <1>5 DEF OnPing
<1>6. ASSUME NEW q \in Procs, MainStep(q) PROVE UNCHANGED alive
  BY <1>6 DEF MainStep, Register, InitOrRun, MainCallsReceiver, Start, Stop, Joined, vars, actorVars
<1>7. ASSUME NEW q \in Procs, LibrarySends(q) \/ LibraryReceives(q) PROVE UNCHANGED alive
  BY <1>7, SenderKeepsSettings, ReceiverKeepsSettings DEF LibrarySends, LibraryReceives
<1>8. CASE UNCHANGED allVars
  BY <1>8 DEF allVars, vars, actorVars
<1>9. QED
  BY <1>3, <1>4, <1>5, <1>6, <1>7, <1>8 DEF ExamplesNext, AskerHandles

\* When a send of on_start fails, the actor is over.
LEMMA FailedOpening ==
  ASSUME ExamplesInv, StartHandler, UNCHANGED frames PROVE asker \notin alive'[client]
<1>1. /\ alive \in [Procs -> SUBSET Actors] /\ frames \in Seq(Frame) /\ client \in Procs
  BY TheTwo DEF ExamplesInv, OrderInv, RemoteInv, MailOK, FramesOK
<1>2. PICK t, left : AskerSends(t, left)
  BY DEF StartHandler
<1>3. \A f : frames # Append(frames, f)
  <2>1. Len(frames) \in Nat /\ \A f : Len(Append(frames, f)) = Len(frames) + 1
    BY <1>1
  <2>2. QED
    BY <2>1
<1>4. ThreadEnds(client, asker)
  BY <1>2, <1>3 DEF AskerSends, SendsAtOnce, Queues
<1>5. QED
  BY <1>1, <1>4 DEF ThreadEnds

\* The frames of the examples and where they go.
LEMMA FramesGo ==
  ASSUME ExamplesInv, NEW i \in DOMAIN frames
  PROVE  /\ i \in Nat /\ i >= 1 /\ frames[i].body \in {"Ping", "UnknownMessage", "Pong", Reject}
         /\ frames[i].to = server <=> frames[i].body \in {"Ping", "UnknownMessage"}
         /\ frames[i].to = client <=> frames[i].body \in {"Pong", Reject}
         /\ frames[i].body = "UnknownMessage" => i = 1
<1>1. i \in Nat /\ i >= 1 /\ frames[i] \in Frame
  BY DEF ExamplesInv, OrderInv, RemoteInv, FramesOK
<1>2. frames[i].body \in {"Ping", "UnknownMessage", "Pong", Reject}
  BY <1>1, ExamplesAssumption DEF Frame
<1>3. client # server /\ Reject \notin {"Ping", "Pong", "UnknownMessage"}
  BY ExamplesAssumption
<1>4. QED
  BY <1>1, <1>2, <1>3 DEF ExamplesInv, ShapesOK, QuestionOK, AnswerOK

\* Nothing is sent after the Pong.
LEMMA PongIsLastStep ==
  ASSUME ExamplesInv, PongIsLast, app = "reject_example", [ExamplesNext]_allVars
  PROVE  PongIsLast'
<1> DEFINE n == Len(frames)
<1>1. /\ OrderInv /\ MainsOK /\ ShapesOK /\ MailboxesOK
      /\ opened \in 0 .. 2 /\ Len(frames) \in Nat
  BY DEF ExamplesInv, OrderInv, RemoteInv, FramesOK, PongIsLast
<1>2. /\ opened' = opened \/ (StartHandler /\ opened' = opened + 1)
      /\ \/ terminate_flag' = terminate_flag
         \/ AskerTerminates /\ (PingOnPong \/ SenderOnPong) /\ UNCHANGED <<opened, frames>>
  BY WhoTerminates
<1>3. StartHandler => opened < 2
  <2>1. PICK m \in Nat : m = opened
    BY <1>1
  <2>2. StartHandler => m < Len(OnStart)
    BY <2>1 DEF StartHandler
  <2>3. QED
    BY <2>1, <2>2 DEF OnStart, SenderOnStart, PingOnStart
<1>4. alive'[client] \subseteq alive[client] /\ Grows
  BY NextAlive, NextGrows, TheTwo, <1>1
<1>5. CASE UNCHANGED <<frames, count>>
  <2>1. /\ \A i \in Live' : i \in Live
        /\ \A t \in {"Ping", "Pong"} : Of(t)' = Of(t)
    BY <1>5, NextLive DEF Of
  <2>2. opened' \in 0 .. 2 /\ (opened' < 2 => Of("Ping")' = {})
    BY <1>1, <1>2, <1>3, <2>1 DEF PongIsLast
  <2>3. opened' # 0 /\ asker \in alive'[client] => frames' # <<>>
    BY <1>2, <1>4, <1>5, FailedOpening DEF PongIsLast
  <2>4. Of("Pong")' # {} => opened' = 2 /\ \A i \in Live' : frames'[i].to # server
    BY <1>1, <1>2, <1>3, <1>5, <2>1 DEF PongIsLast
  <2>5. terminate_flag' => Of("Pong")' # {} /\ \A i \in Live' : frames'[i].to # client
    <3>1. CASE terminate_flag' = terminate_flag
      BY <1>5, <2>1, <3>1 DEF PongIsLast
    <3>2. CASE AskerTerminates /\ SenderOnPong
      <4>1. PICK i : i = Head(mailbox[client][asker])
        OBVIOUS
      <4>2. /\ i \in Nat /\ i \in DOMAIN frames
            /\ \A j \in Live' : frames'[j].to = client => i < j
        BY <3>2, <4>1, AskerTakes, HandledIsGone
      <4>3. i \in Of("Pong")
        BY <3>2, <4>1, <4>2 DEF SenderOnPong, Takes, Of
      <4>4. i = n /\ \A j \in Live' : j \in DOMAIN frames
        BY <2>1, <4>3, LiveIsFrame DEF PongIsLast
      <4>5. \A j \in DOMAIN frames : ~(n < j)
        BY <1>1
      <4>6. QED
        BY <2>1, <4>2, <4>3, <4>4, <4>5
    <3>3. QED
      BY <1>2, <3>1, <3>2 DEF PingOnPong
  <2>6. QED
    BY <1>5, <2>1, <2>2, <2>3, <2>4, <2>5 DEF PongIsLast
<1>6. ASSUME NEW f \in Frame, NEW m \in Nat, Adds(f, m)
      PROVE  /\ \A t \in {"Ping", "Pong"} : Of(t)' = Of(t) \cup (IF f.body = t THEN {n + 1} ELSE {})
             /\ Len(frames') = n + 1 /\ frames' # <<>> /\ frames' # frames /\ frames'[n + 1] = f
             /\ DOMAIN frames' = DOMAIN frames \cup {n + 1}
             /\ \A i \in DOMAIN frames : frames'[i] = frames[i]
             /\ terminate_flag' = terminate_flag
             /\ \A i \in Live' : i \in Live \/ i = n + 1
  <2>1. /\ Len(frames') = n + 1 /\ frames' # frames /\ frames'[n + 1] = f
        /\ DOMAIN frames' = DOMAIN frames \cup {n + 1}
        /\ \A i \in DOMAIN frames : frames'[i] = frames[i]
    BY <1>1, <1>6, NewNumber
  <2>2. frames' # <<>>
    BY <2>1
  <2>3. terminate_flag' = terminate_flag
    BY <1>2, <2>1
  <2>4. QED
    BY <1>6, <2>1, <2>2, <2>3, NewOf, NextLive
<1>7. CASE Opening
  <2>1. PICK f \in Frame : /\ Adds(f, 1) /\ f.body = OnStart[opened + 1]
                           /\ f.body \in {"Ping", "UnknownMessage"}
    BY <1>7 DEF Opening
  <2>2. /\ opened' = opened + 1 /\ asker \in alive[client]
        /\ \/ opened = 0 /\ frames = <<>> /\ f.body = "UnknownMessage"
           \/ opened = 1 /\ f.body = "Ping"
    BY <1>1, <1>7, <2>1, OpeningSends
  <2>3. Of("Ping") = {} /\ Of("Pong") = {} /\ ~terminate_flag
    BY <2>2 DEF PongIsLast
  <2>4. Of("Pong")' = {} /\ ~terminate_flag' /\ frames' # <<>>
    BY <1>6, <2>1, <2>3
  <2>5. /\ opened' < 2 => Of("Ping")' = {}
        /\ \A i, j \in Of("Ping")' : i = j
    BY <1>6, <2>1, <2>2, <2>3
  <2>6. \A i \in DOMAIN frames' : i = 1 => frames'[i].body = "UnknownMessage"
    <3>1. CASE frames = <<>> /\ f.body = "UnknownMessage"
      BY <1>6, <2>1, <3>1
    <3>2. CASE opened = 1
      <4>1. frames # <<>> /\ 1 \in DOMAIN frames /\ frames[1].body = "UnknownMessage"
        BY <1>1, <2>2, <3>2 DEF PongIsLast, OrderInv, RemoteInv, FramesOK
      <4>2. QED
        BY <1>6, <2>1, <4>1
    <3>3. QED
      BY <2>2, <3>1, <3>2
  <2>7. opened' \in 0 .. 2
    BY <2>2
  <2>8. QED
    BY <2>4, <2>5, <2>6, <2>7 DEF PongIsLast
<1>8. CASE NextRound
  BY <1>8 DEF NextRound, PingOnPong
<1>9. ASSUME frames # <<>>, NEW f \in Frame, NEW m \in Nat, Adds(f, m)
      PROVE  \A i \in DOMAIN frames' : i = 1 => frames'[i].body = "UnknownMessage"
  <2>1. 1 \in DOMAIN frames
    BY <1>1, <1>9 DEF OrderInv, RemoteInv, FramesOK
  <2>2. QED
    BY <1>6, <1>9, <2>1 DEF PongIsLast
<1>10. CASE Answering
  <2>1. PICK f \in Frame, m \in Nat : Adds(f, m) /\ AnswerOK(f) /\ f.body = "Pong"
    BY <1>10 DEF Answering
  <2>2. PICK i : i = Head(mailbox[server][answerer])
    OBVIOUS
  <2>3. /\ i \in Nat /\ i \in DOMAIN frames /\ i \in Live
        /\ \A j \in Live' : frames'[j].to = server => i < j
    BY <1>10, <2>2, AnswererTakes, HandledIsGone
  <2>4. i \in Of("Ping") /\ frames[i].to = server /\ i >= 1
    BY <1>10, <2>2, <2>3, FramesGo DEF Answering, OnPing, Takes, Of
  <2>5. Of("Pong") = {} /\ ~terminate_flag /\ opened' = opened /\ opened = 2
    BY <1>1, <1>10, <2>3, <2>4 DEF PongIsLast, Answering, OnPing
  <2>6. ASSUME NEW j \in Live' PROVE frames'[j].to # server
    <3>1. CASE j = n + 1
      BY <1>6, <2>1, <3>1, TheTwo DEF AnswerOK
    <3>2. CASE j \in Live
      <4>1. j \in DOMAIN frames
        BY <3>2, LiveIsFrame
      <4>2. j \in Of("Ping") => j = i
        BY <2>4 DEF PongIsLast
      <4>3. frames[j].to = server => j = i \/ j = 1
        BY <4>1, <4>2, FramesGo DEF Of
      <4>4. frames'[j] = frames[j]
        BY <1>6, <2>1, <4>1
      <4>5. QED
        BY <2>3, <2>4, <4>3, <4>4
    <3>3. QED
      BY <1>6, <2>1, <3>1, <3>2
  <2>7. /\ Of("Ping")' = Of("Ping") /\ Of("Pong")' = {n + 1} /\ ~terminate_flag'
        /\ frames' # <<>> /\ Len(frames') = n + 1
    BY <1>6, <2>1, <2>5
  <2>8. \A j \in DOMAIN frames' : j = 1 => frames'[j].body = "UnknownMessage"
    BY <1>9, <2>1, <2>3
  <2> HIDE DEF n
  <2>9. QED
    BY <1>1, <2>5, <2>6, <2>7, <2>8 DEF PongIsLast
<1>11. CASE Rejecting
  <2>1. PICK f \in Frame : Adds(f, 0) /\ f.body = Reject
    BY <1>11 DEF Rejecting
  <2>2. 1 \in DOMAIN frames /\ frames[1].to = server
    BY <1>11, FramesGo DEF Rejecting, Of
  <2>3. 1 \in Live
    <3>1. work[server][1] = 1 /\ 1 # None
      BY <1>11, TheTwo DEF Rejecting
    <3>2. 1 \in Worked
      BY <1>1, <3>1, TheTwo, WorkIsNotDone
    <3>3. QED
      BY <3>2 DEF Live, OnItsWay
  <2>4. Of("Pong") = {} /\ ~terminate_flag /\ opened' = opened
    BY <1>11, <2>2, <2>3 DEF PongIsLast, Rejecting
  <2>5. Of("Ping")' = Of("Ping") /\ Of("Pong")' = {} /\ ~terminate_flag' /\ frames' # <<>>
    BY <1>6, <2>1, <2>4, ExamplesAssumption
  <2>6. \A j \in DOMAIN frames' : j = 1 => frames'[j].body = "UnknownMessage"
    BY <1>9, <2>1, <2>2
  <2>7. QED
    BY <1>1, <2>4, <2>5, <2>6 DEF PongIsLast
<1>12. QED
  BY <1>1, <1>5, <1>7, <1>8, <1>10, <1>11, FramesOfStep DEF Builds
-----------------------------------------------------------------------------
\* What is outstanding is alive.
LEMMA OutstandingIsLive == ASSUME ExamplesInv, NEW p PROVE \A i \in Outstanding(p) : i \in Live
<1>1. Transit = OnItsWay
  BY TransitStages DEF ExamplesInv, TransitOK
<1>2. ASSUME NEW i \in Outstanding(p), NEW a \in Actors, At(mailbox[p][a], i) # {}, p \in Procs
      PROVE  i \in Boxed
  <2>1. i \in Nat
    BY DEF Outstanding, ExamplesInv, OrderInv, RemoteInv, FramesOK
  <2>2. i \in In(mailbox[p][a])
    BY <1>2 DEF At, In
  <2>3. QED
    BY <1>2, <2>1, <2>2 DEF Boxed
<1>3. ASSUME NEW i \in Outstanding(p) PROVE i \in Live
  <2>1. /\ i \in DOMAIN frames /\ frames[i].to = p
        /\ InTransit(i) \/ \E a \in Actors : At(mailbox[p][a], i) # {}
    BY DEF Outstanding
  <2>2. p \in Procs
    <3>1. frames[i] \in Frame
      BY <2>1 DEF ExamplesInv, OrderInv, RemoteInv, FramesOK
    <3>2. QED
      BY <2>1, <3>1 DEF Frame
  <2>3. QED
    BY <1>1, <1>2, <2>1, <2>2 DEF Transit, Live
<1>4. QED
  BY <1>3

TurnsInv == ExamplesInv /\ PingPongInv /\ (app = "reject_example" => PongIsLast)

LEMMA TurnsBegin == ExamplesInit => TurnsInv
<1> SUFFICES ASSUME ExamplesInit PROVE TurnsInv
  OBVIOUS
<1>1. ExamplesInv
  BY ExamplesBegin
<1>2. frames = <<>> /\ opened = 0 /\ ~terminate_flag
  BY DEF ExamplesInit, RemoteInit
<1>3. Live = {} /\ \A t : Of(t) = {}
  <2>1. \A t : Of(t) = {}
    BY <1>2 DEF Of
  <2>2. Live = {}
    BY <1>1, <1>2, LiveIsFrame
  <2>3. QED
    BY <2>1, <2>2
<1>4. QED
  BY <1>1, <1>2, <1>3 DEF TurnsInv, PingPongInv, PongIsLast

LEMMA TurnsStep == TurnsInv /\ [ExamplesNext]_allVars => TurnsInv'
<1> SUFFICES ASSUME TurnsInv, [ExamplesNext]_allVars PROVE TurnsInv'
  OBVIOUS
<1>1. ExamplesInv' /\ PingPongInv'
  BY ExamplesStep, PingPongStep DEF TurnsInv
<1>2. app' = app
  BY ExampleVarsOfStep DEF TurnsInv, ExamplesInv
<1>3. app' = "reject_example" => PongIsLast'
  BY <1>2, PongIsLastStep DEF TurnsInv
<1>4. QED
  BY <1>1, <1>3 DEF TurnsInv

LEMMA TurnsSafe == ExamplesSpec => []TurnsInv
BY TurnsBegin, TurnsStep, PTL DEF ExamplesSpec

\* ping.rs:54-68 and pong.rs:45-50, over two queues and two sockets: only the
\* latest message is ever on its way, and it carries the number of its round.
THEOREM PingAndPongTakeTurns == ExamplesSpec => []PingPongInStep
<1>1. TurnsInv => PingPongInStep
  <2> SUFFICES ASSUME TurnsInv PROVE PingPongInStep
    OBVIOUS
  <2>1. \A p : \A i \in Outstanding(p) : i \in Live
    BY OutstandingIsLive DEF TurnsInv
  <2>2. QED
    BY <2>1 DEF TurnsInv, PingPongInv, PingPongInStep
<1>2. QED
  BY <1>1, TurnsSafe, PTL

\* ping.rs:107-112 and sender.rs:142-147: when main calls stop(), whatever was
\* sent to the client's actor has been handled.
THEOREM NothingIsLostByStop == ExamplesSpec => []StopLosesNothing
<1>1. TurnsInv => StopLosesNothing
  <2> SUFFICES ASSUME TurnsInv, NEW i \in Outstanding(client),
                      Main(client)[line[client] + 1] \in {"stop", "join", "end"}
               PROVE  FALSE
    BY DEF StopLosesNothing
  <2> USE DEF TurnsInv
  <2>1. client \in Procs /\ line[client] \in Nat /\ line[client] + 1 \in DOMAIN Main(client)
    BY TheTwo DEF ExamplesInv, MainsOK
  <2>2. line[client] >= 4
    <3>1. InCall(client, "stop") \/ InCall(client, "join") \/ InCall(client, "end")
      BY DEF InCall
    <3>2. QED
      BY <2>1, <3>1, CallsOfMain
  <2>3. terminate_flag /\ app \in Apps
    BY <2>2 DEF ExamplesInv, MainsOK
  <2>4. i \in Live /\ frames[i].to = client
    BY OutstandingIsLive DEF Outstanding
  <2>5. QED
    BY <2>3, <2>4 DEF Apps, PingPongInv, PongIsLast
<1>2. QED
  BY <1>1, TurnsSafe, PTL
-----------------------------------------------------------------------------
\* There is one Reject at most, that of the first frame.
OneReject == \A j, k \in Of(Reject) : j = k

LEMMA RejectsOnce == ExamplesInv => OneReject
BY DEF ExamplesInv, OrderInv, OnceOK, Rejects, ShapesOK, Of, OneReject

LEMMA OfGrows ==
  ASSUME ExamplesInv, [ExamplesNext]_allVars
  PROVE  \A t : Of(t) \subseteq Of(t)' /\ \A i \in Of(t)' : i \in DOMAIN frames => i \in Of(t)
BY NextGrows DEF Grows, Of, ExamplesInv

LEMMA NoSecondReject ==
  ASSUME ExamplesInv, [ExamplesNext]_allVars, Of(Reject) # {} PROVE Of(Reject)' = Of(Reject)
<1>1. OneReject'
  BY ExamplesStep, RejectsOnce, PTL
<1>2. Of(Reject) \subseteq Of(Reject)'
  BY OfGrows
<1>3. QED
  BY <1>1, <1>2 DEF OneReject

\* A message leaves the mailbox of the client's actor by its hands, or with it.
LEMMA MailKept ==
  ASSUME ExamplesInv, [ExamplesNext]_allVars, NEW j \in In(mailbox[client][asker])
  PROVE  \/ j \in In(mailbox'[client][asker])
         \/ asker \notin alive'[client]
         \/ /\ Shortened(client, asker) /\ (PingOnPong \/ SenderOnPong \/ OnReject)
            /\ j = Head(mailbox[client][asker])
<1>1. /\ mailbox \in [Procs -> [Actors -> Seq(DOMAIN frames)]]
      /\ alive \in [Procs -> SUBSET Actors] /\ DOMAIN frames \subseteq Nat
      /\ client \in Procs /\ server \in Procs /\ client # server /\ asker \in Actors
  BY TheTwo DEF ExamplesInv, OrderInv, RemoteInv, MailOK, FramesOK
<1>2. MailMoves
  BY MailOfStep DEF ExamplesInv
<1>3. CASE MailStays
  BY <1>3 DEF MailStays
<1>4. CASE Emptied(client, asker)
  BY <1>1, <1>4 DEF Emptied, ThreadEnds
<1>5. CASE Emptied(server, answerer) \/ Shortened(server, answerer)
  BY <1>1, <1>5 DEF Emptied, ThreadEnds, Shortened
<1>6. CASE Shortened(client, asker) /\ (PingOnPong \/ SenderOnPong \/ OnReject)
  BY <1>6, <1>1, HandledIsGone
<1>7. ASSUME NEW p \in Procs, Arrives(p) PROVE j \in In(mailbox'[client][asker])
  <2>1. PICK i, a : i = work[p][1] /\ a = InHand(p, 1).receiver
    OBVIOUS
  <2>2. i \in DOMAIN frames /\ a \in Actors
    BY <1>7, <2>1, ArrivesLast DEF ExamplesInv
  <2>3. mailbox'[client][asker] = mailbox[client][asker]
        \/ mailbox'[client][asker] = Append(mailbox[client][asker], i)
    BY <1>1, <1>7, <2>1, <2>2 DEF Arrives
  <2>4. In(Append(mailbox[client][asker], i)) = In(mailbox[client][asker]) \cup {i}
    BY <1>1, <2>2, InAppend
  <2>5. QED
    BY <2>3, <2>4
<1>8. QED
  BY <1>2, <1>3, <1>4, <1>5, <1>6, <1>7 DEF MailMoves

LEMMA MailGained ==
  ASSUME ExamplesInv, Arrives(client)
  PROVE  work[client][1] \in In(mailbox'[client][asker])
<1>1. /\ mailbox \in [Procs -> [Actors -> Seq(DOMAIN frames)]]
      /\ client \in Procs /\ server \in Procs /\ client # server /\ asker \in Actors
  BY TheTwo DEF ExamplesInv, OrderInv, RemoteInv, MailOK
<1>2. PICK i : i = work[client][1]
  OBVIOUS
<1>3. i \in DOMAIN frames /\ frames[i].to = client
  BY <1>1, <1>2, ArrivesLast DEF ExamplesInv
<1>4. frames[i].receiver = asker
  BY <1>3, FramesGo DEF ExamplesInv, ShapesOK, AnswerOK
<1>5. mailbox'[client][asker] = Append(mailbox[client][asker], i)
  BY <1>1, <1>2, <1>4 DEF Arrives, InHand
<1>6. In(Append(mailbox[client][asker], i)) = In(mailbox[client][asker]) \cup {i}
  BY <1>1, <1>3, InAppend
<1>7. QED
  BY <1>2, <1>5, <1>6

\* rejected_count counts what on_reject takes.
LEMMA WhoCounts ==
  ASSUME [ExamplesNext]_allVars, app = "reject_example"
  PROVE  \/ rejected_count' = rejected_count /\ ~OnReject
         \/ OnReject /\ rejected_count' = rejected_count + 1
<1>1. OnReject => rejected_count' = rejected_count + 1
  BY DEF OnReject
<1>2. ~OnReject => rejected_count' = rejected_count
  BY DEF ExamplesNext, AskerHandles, StartHandler, PingOnPong, SenderOnPong,
         OnPing, MainStep, Register, InitOrRun, MainCallsReceiver,
         Returns, LibrarySends, LibraryReceives, allVars, exampleVars
<1>3. QED
  BY <1>1, <1>2

LEMMA RejectIsCountedStep ==
  ASSUME ExamplesInv, RejectIsCounted, app = "reject_example", [ExamplesNext]_allVars
  PROVE  RejectIsCounted'
<1>1. CASE OnReject
  <2>1. PICK i : i = Head(mailbox[client][asker])
    OBVIOUS
  <2>2. Shortened(client, asker) /\ client \in Procs /\ asker \in Actors
    BY <1>1, AskerTakes DEF OnReject
  <2>3. i \in Live /\ i \notin Live' /\ i \in DOMAIN frames
    BY <2>1, <2>2, HandledIsGone
  <2>4. i \in Of(Reject)
    BY <1>1, <2>1, <2>3 DEF OnReject, Takes, Of
  <2>5. rejected_count = 0 /\ rejected_count' = 1
    BY <1>1, <2>3, <2>4, WhoCounts DEF RejectIsCounted
  <2>6. Of(Reject)' = Of(Reject) /\ \A j \in Of(Reject) : j = i
    BY <2>4, NoSecondReject, RejectsOnce DEF OneReject
  <2>7. QED
    BY <2>3, <2>4, <2>5, <2>6 DEF RejectIsCounted
<1>2. CASE ~OnReject
  <2>1. rejected_count' = rejected_count
    BY <1>2, WhoCounts
  <2>2. rejected_count = 1 => Of(Reject)' # {} /\ Of(Reject)' \cap Live' = {}
    <3> SUFFICES ASSUME rejected_count = 1 PROVE Of(Reject)' # {} /\ Of(Reject)' \cap Live' = {}
      OBVIOUS
    <3>1. Of(Reject)' = Of(Reject) /\ Of(Reject) # {} /\ Of(Reject) \cap Live = {}
      BY NoSecondReject DEF RejectIsCounted
    <3>2. \A i \in Live' : i \in Live \/ i = Len(frames) + 1
      BY NextLive
    <3>3. Len(frames) + 1 \notin Of(Reject)
      BY DEF Of, ExamplesInv, OrderInv, RemoteInv, FramesOK
    <3>4. QED
      BY <3>1, <3>2, <3>3
  <2>3. ASSUME asker \in alive'[client], NEW j \in In(arrived'[client]), j \in Of(Reject)',
               rejected_count = 0
        PROVE  j \in In(mailbox'[client][asker])
    <3>1. client \in Procs /\ asker \in alive[client]
      BY <2>3, TheTwo, NextAlive
    <3>2. j \in In(arrived[client]) \/ (j = work[client][1] /\ Arrives(client))
      BY <3>1, NextContents DEF MailContents, ExamplesInv
    <3>3. CASE j = work[client][1] /\ Arrives(client)
      BY <3>3, MailGained
    <3>4. CASE j \in In(arrived[client])
      <4>1. j \in DOMAIN frames
        BY <3>1, <3>4 DEF In, ExamplesInv, OrderInv, RemoteInv, MailOK
      <4>2. j \in Of(Reject)
        BY <2>3, <4>1, OfGrows
      <4>3. j \in In(mailbox[client][asker])
        BY <2>3, <3>1, <3>4, <4>2 DEF RejectIsCounted
      <4>4. frames[j].body = Reject
        BY <4>2 DEF Of
      <4>5. ~(j = Head(mailbox[client][asker]) /\ (PingOnPong \/ SenderOnPong \/ OnReject))
        BY <1>2, <4>4, ExamplesAssumption DEF PingOnPong, SenderOnPong, Takes
      <4>6. QED
        BY <2>3, <4>3, <4>5, MailKept
    <3>5. QED
      BY <3>2, <3>3, <3>4
  <2>4. QED
    BY <2>1, <2>2, <2>3 DEF RejectIsCounted
<1>3. QED
  BY <1>1, <1>2
-----------------------------------------------------------------------------
\* A receiver thread that is over stays so, and a socket is stale only then.
LEMMA FinishedStays ==
  ASSUME ExamplesInv, [ExamplesNext]_allVars, NEW q \in Procs, thread[q][1] \in Finished
  PROVE  thread'[q][1] \in Finished
<1> USE DEF ExamplesInv
<1>1. thread \in [Procs -> [Starts -> Places]] /\ 1 \in Starts
  BY TheTwo DEF OrderInv, RemoteInv, ThreadsOK
<1>2. ASSUME NEW p \in Procs, ReceiverThread(p, 1) PROVE thread'[q][1] = thread[q][1]
  <2>1. p # q
    BY <1>2 DEF ReceiverThread, Bind, Test, Receive, TimesOut, LookUp, TryDeserialize, Deliver,
                SerializeReject, QueueReject, Finished
  <2>2. QED
    BY <1>2, <2>1, ReceiverJudges
<1>3. ASSUME NEW p \in Procs, Start(p, 1) PROVE thread'[q][1] = thread[q][1]
  <2>1. p # q
    BY <1>3 DEF Start, Finished
  <2>2. QED
    BY <1>1, <1>3, <2>1 DEF Start
<1>4. QED
  BY <1>2, <1>3, ThreadsOfStep

LEMMA NextStale ==
  ASSUME ExamplesInv, StaleOK, [ExamplesNext]_allVars PROVE StaleOK'
<1>1. CASE UNCHANGED stale
  BY <1>1, FinishedStays DEF StaleOK
<1>2. ASSUME NEW r \in Procs, Close(r), thread'[r][1] \in Finished PROVE StaleOK'
  <2>1. ASSUME NEW p \in Procs, NEW q \in stale'[p], q \in Procs PROVE q = r \/ q \in stale[p]
    BY <1>2, <2>1 DEF Close
  <2>2. QED
    BY <1>2, <2>1, FinishedStays DEF StaleOK
<1>3. ASSUME NEW r \in Procs, ReceiverThread(r, 1)
      PROVE  UNCHANGED stale \/ (Close(r) /\ thread'[r][1] \in Finished)
  <2>1. \A to : Leaves(r, 1, to) => Close(r) /\ thread'[r][1] = to
    BY TheTwo DEF Leaves, Moves, ExamplesInv, OrderInv, RemoteInv, ThreadsOK
  <2>2. QED
    BY <1>3, <2>1 DEF ReceiverThread, Bind, Test, Receive, TimesOut, LookUp, TryDeserialize,
                      Deliver, SerializeReject, QueueReject, senderVars, Finished
<1>4. ASSUME NEW r \in Procs, MainStep(r) PROVE UNCHANGED stale
  BY <1>4 DEF MainStep, Register, InitOrRun, MainCallsReceiver, Start, Stop, Joined, vars, senderVars
<1>5. ASSUME NEW r \in Procs, LibrarySends(r) PROVE UNCHANGED stale
  BY <1>5, SenderKeepsSettings DEF LibrarySends
<1>6. ASSUME UNCHANGED allVars PROVE UNCHANGED stale
  BY <1>6 DEF allVars, vars, senderVars
<1>7. ASSUME AskerHandles \/ OnPing PROVE UNCHANGED stale
  BY <1>7, AskerKeepsSettings
<1>8. QED
  BY <1>1, <1>2, <1>3, <1>4, <1>5, <1>6, <1>7 DEF ExamplesNext, LibraryReceives

\* What is queued, in hand or on a wire is so still.
LEMMA WayKept ==
  ASSUME ExamplesInv, NEW i \in OnItsWay,
         \A q \in Procs : In(queue[q]) \subseteq In(queue'[q]), UNCHANGED <<current, wire, work>>
  PROVE  i \in OnItsWay'
BY DEF OnItsWay, Queued, Current, Wired, Worked

LEMMA QueueGrows ==
  ASSUME ExamplesInv, NEW p \in Procs,
         UNCHANGED queue \/ queue' = [queue EXCEPT ![p] = Append(queue[p], Len(frames) + 1)]
  PROVE  \A q \in Procs : In(queue[q]) \subseteq In(queue'[q])
<1>1. queue \in [Procs -> Seq(DOMAIN frames)] /\ Len(frames) + 1 \in Nat
      /\ \A q \in Procs : queue[q] \in Seq(Nat)
  BY NumbersAreNats DEF ExamplesInv, OrderInv, RemoteInv, SenderOK, FramesOK
<1>2. In(Append(queue[p], Len(frames) + 1)) = In(queue[p]) \cup {Len(frames) + 1}
  BY <1>1, InAppend
<1>3. \A q \in Procs : queue'[q] = queue[q] \/ (q = p /\ queue'[q] = Append(queue[p], Len(frames) + 1))
  BY <1>1
<1>4. QED
  BY <1>2, <1>3

LEMMA HandlersKeepWay ==
  ASSUME ExamplesInv, AskerHandles \/ OnPing, NEW i \in OnItsWay PROVE i \in OnItsWay'
<1>1. ASSUME NEW p \in Procs, NEW a, NEW addr, NEW t, NEW ref, NEW origin, NEW re, NEW left,
             SendsAtOnce(p, a, addr, t, ref, origin, re, left)
      PROVE  i \in OnItsWay'
  <2>1. UNCHANGED <<current, wire, work>>
    BY <1>1 DEF SendsAtOnce, Others, OthersButUpsets, receiverVars
  <2>2. UNCHANGED queue \/ queue' = [queue EXCEPT ![p] = Append(queue[p], Len(frames) + 1)]
    BY <1>1 DEF SendsAtOnce, Queues, SendPanics, Enqueued
  <2>3. QED
    BY <2>1, <2>2, QueueGrows, WayKept
<1>2. ASSUME Ignore(client, asker) PROVE i \in OnItsWay'
  BY <1>2, WayKept DEF Ignore, Others, OthersButUpsets, receiverVars
<1>3. CASE StartHandler \/ PingOnPong
  BY <1>1, <1>2, <1>3, TheTwo DEF StartHandler, PingOnPong, AskerSends, AskerTerminates
<1>4. CASE SenderOnPong \/ OnReject
  BY <1>2, <1>4 DEF SenderOnPong, OnReject, AskerTerminates
<1>5. CASE OnPing
  BY <1>1, <1>5, TheTwo DEF OnPing
<1>6. QED
  BY <1>3, <1>4, <1>5 DEF AskerHandles

LEMMA SenderKeepsWay ==
  ASSUME ExamplesInv, StaleOK, NEW p \in Procs, SenderThread(p), ~ConnectFails(p),
         NEW i \in OnItsWay
  PROVE  i \in OnItsWay' \/ (frames[i].to \in Procs /\ thread[frames[i].to][1] \in Finished)
<1> USE DEF ExamplesInv, OrderInv, RemoteInv
<1>1. i \in Nat /\ None \notin Nat
  BY RemoteAssumption DEF OnItsWay, Queued, Current, Wired, Worked
<1>2. CASE TakeRequest(p)
  <2>1. queue \in [Procs -> Seq(DOMAIN frames)] /\ current \in [Procs -> DOMAIN frames \cup {None}]
    BY DEF SenderOK
  <2>2. /\ queue[p] # <<>> /\ current[p] = None /\ UNCHANGED <<wire, work>>
        /\ \A q \in Procs : queue'[q] = IF q = p THEN Tail(queue[p]) ELSE queue[q]
        /\ \A q \in Procs : current'[q] = IF q = p THEN Head(queue[p]) ELSE current[q]
    BY <1>2, <2>1 DEF TakeRequest, receiverVars
  <2>3. \A j \in In(queue[p]) : j = Head(queue[p]) \/ j \in In(Tail(queue[p]))
    BY <2>1, <2>2, InTail
  <2>4. i \in Queued => i \in Queued' \/ i \in Current'
    BY <2>2, <2>3 DEF Queued, Current
  <2>5. i \in Current => i \in Current'
    BY <1>1, <2>2 DEF Current
  <2>6. (i \in Wired => i \in Wired') /\ (i \in Worked => i \in Worked')
    BY <2>2 DEF Wired, Worked
  <2>7. QED
    BY <2>4, <2>5, <2>6 DEF OnItsWay
<1>3. CASE Connect(p)
  BY <1>3, WayKept DEF Connect, receiverVars
<1>4. CASE Transmit(p)
  <2>1. /\ current[p] # None /\ UNCHANGED <<queue, work, frames>>
        /\ \A q \in Procs : current'[q] = IF q = p THEN None ELSE current[q]
    BY <1>4 DEF Transmit, AfterSend, receiverVars, SenderOK
  <2>2. PICK d, m : d = Dest(p) /\ m = current[p]
    OBVIOUS
  <2>3. m \in DOMAIN frames /\ frames[m] \in Frame /\ d = frames[m].to
    BY <2>1, <2>2 DEF SenderOK, FramesOK, Dest
  <2>4. d \in Procs
    BY <2>3 DEF Frame
  <2>5. (i \in Queued => i \in Queued') /\ (i \in Worked => i \in Worked')
        /\ (i \in Current => i \in Current' \/ i = m)
    BY <2>1, <2>2 DEF Queued, Worked, Current
  <2>6. CASE wire' = [wire EXCEPT ![d][<<p, life[p]>>] = Append(@, m)]
    <3>1. wire \in [Procs -> [Lives -> Seq(DOMAIN frames)]] /\ <<p, life[p]>> \in Lives
      <4>1. wire \in [Procs -> [Lives -> Seq(DOMAIN frames)]]
        BY DEF WireOK
      <4>2. life[p] \in 0 .. MaxUpsets
        BY RemoteAssumption DEF ProcessOK
      <4>3. QED
        BY <4>1, <4>2 DEF Lives
    <3>2. PICK k : k = <<p, life[p]>>
      OBVIOUS
    <3>3. \A q \in Procs, l \in Lives :
            wire'[q][l] = IF q = d /\ l = k THEN Append(wire[d][k], m) ELSE wire[q][l]
      BY <2>4, <2>6, <3>1, <3>2
    <3>4. In(Append(wire[d][k], m)) = In(wire[d][k]) \cup {m}
      BY <2>3, <2>4, <3>1, <3>2, InAppend
    <3>5. i \in Wired => i \in Wired'
      BY <3>3, <3>4 DEF Wired
    <3>6. i = m => i \in Wired'
      BY <1>1, <2>4, <3>1, <3>2, <3>3, <3>4 DEF Wired
    <3>7. QED
      BY <2>5, <3>5, <3>6 DEF OnItsWay
  <2>7. CASE d \in stale[p] /\ UNCHANGED wire
    <3>1. i \in Wired => i \in Wired'
      BY <2>7 DEF Wired
    <3>2. thread[d][1] \in Finished
      BY <2>4, <2>7 DEF StaleOK
    <3>3. QED
      BY <2>3, <2>4, <2>5, <3>1, <3>2 DEF OnItsWay
  <2>8. QED
    BY <1>4, <2>2, <2>6, <2>7 DEF Transmit
<1>5. QED
  BY <1>2, <1>3, <1>4 DEF SenderThread

\* A step of a receiver thread leaves what is not for its process alone.
LEMMA ReceiverMinds ==
  ASSUME ExamplesInv, NEW p \in Procs, ReceiverThread(p, 1)
  PROVE  /\ \A q \in Procs : In(queue[q]) \subseteq In(queue'[q])
         /\ UNCHANGED current
         /\ \A q \in Procs : q # p => wire'[q] = wire[q] /\ work'[q] = work[q]
<1> USE DEF ExamplesInv, OrderInv, RemoteInv
<1>1. /\ wire \in [Procs -> [Lives -> Seq(DOMAIN frames)]]
      /\ work \in [Procs -> [Starts -> DOMAIN frames \cup {None}]]
  BY DEF WireOK, ThreadsOK
<1>2. ASSUME NEW to, NEW f, Moves(p, 1, to, f) PROVE \A q \in Procs : q # p => work'[q] = work[q]
  BY <1>1, <1>2 DEF Moves
<1>3. ASSUME Close(p) PROVE \A q \in Procs : q # p => wire'[q] = wire[q]
  BY <1>1, <1>3 DEF Close
<1>4. UNCHANGED current /\ \A q \in Procs : q # p => wire'[q] = wire[q] /\ work'[q] = work[q]
  <2>1. CASE Bind(p, 1) \/ Test(p, 1) \/ TimesOut(p, 1)
    BY <1>2, <1>3, <2>1 DEF Bind, Test, TimesOut, Leaves, senderVars
  <2>2. CASE Receive(p, 1)
    BY <1>1, <1>2, <2>2 DEF Receive, senderVars
  <2>3. CASE LookUp(p, 1) \/ Deliver(p, 1)
    BY <1>2, <2>3 DEF LookUp, Refuse, Deliver, senderVars
  <2>4. CASE TryDeserialize(p, 1)
    BY <1>2, <1>3, <2>4 DEF TryDeserialize, Refuse, Leaves
  <2>5. CASE SerializeReject(p, 1) \/ QueueReject(p, 1)
    BY <1>2, <1>3, <2>5 DEF SerializeReject, QueueReject, Leaves
  <2>6. QED
    BY <2>1, <2>2, <2>3, <2>4, <2>5 DEF ReceiverThread
<1>5. UNCHANGED queue \/ queue' = [queue EXCEPT ![p] = Append(queue[p], Len(frames) + 1)]
  BY DEF ReceiverThread, Bind, Test, Receive, TimesOut, LookUp, TryDeserialize, Deliver,
         SerializeReject, QueueReject, Queues, SendPanics, Enqueued, senderVars
<1>6. QED
  BY <1>4, <1>5, QueueGrows

\* What it has received it keeps until it is done with it, unless it ends.
LEMMA ReceiverKeepsWay ==
  ASSUME ExamplesInv, NEW p \in Procs, ReceiverThread(p, 1), NEW i \in OnItsWay
  PROVE  \/ i \in OnItsWay' \/ i \in Done'
         \/ /\ frames[i].to = p
            /\ thread'[p][1] \in Finished \/ frames[i].receiver \notin alive[p]
<1> USE DEF ExamplesInv, OrderInv, RemoteInv
<1>1. /\ wire \in [Procs -> [Lives -> Seq(DOMAIN frames)]]
      /\ work \in [Procs -> [Starts -> DOMAIN frames \cup {None}]]
      /\ thread \in [Procs -> [Starts -> Places]]
      /\ arrived \in [Procs -> Seq(DOMAIN frames)]
      /\ 1 \in Starts /\ i \in Nat /\ None \notin Nat
  BY TheTwo DEF WireOK, ThreadsOK, MailOK, OnItsWay, Queued, Current, Wired, Worked
<1>2. /\ \A q \in Procs : In(queue[q]) \subseteq In(queue'[q])
      /\ UNCHANGED current
      /\ \A q \in Procs : q # p => wire'[q] = wire[q] /\ work'[q] = work[q]
  BY ReceiverMinds
<1>3. CASE i \in Queued \cup Current
  BY <1>2, <1>3 DEF OnItsWay, Queued, Current
<1>4. ASSUME NEW q \in Procs, q # p, NEW s \in Starts, work[q][s] = i PROVE i \in OnItsWay'
  BY <1>1, <1>2, <1>4 DEF OnItsWay, Worked
<1>5. ASSUME NEW q \in Procs, q # p, NEW l \in Lives, i \in In(wire[q][l]) PROVE i \in OnItsWay'
  BY <1>1, <1>2, <1>5 DEF OnItsWay, Wired
<1>6. \A to, f : Moves(p, 1, to, f) => thread'[p][1] = to /\ work'[p][1] = f
  BY <1>1 DEF Moves
<1>7. \A to : Leaves(p, 1, to) => thread'[p][1] = to
  BY <1>6 DEF Leaves
<1>8. ASSUME i = work[p][1] PROVE i \in OnItsWay' \/ i \in Done' \/ thread'[p][1] \in Finished
                                  \/ frames[i].receiver \notin alive[p]
  <2>1. thread[p][1] \in Holding /\ i \in DOMAIN frames
    BY <1>1, <1>8 DEF ThreadsOK
  <2>2. work'[p][1] = i => i \in OnItsWay'
    BY <1>1 DEF OnItsWay, Worked
  <2>3. CASE LookUp(p, 1)
    BY <1>6, <1>8, <2>2, <2>3, LookUpFinds
  <2>4. CASE TryDeserialize(p, 1)
    BY <1>6, <1>7, <1>8, <2>2, <2>4, ReadJudges DEF Finished
  <2>5. CASE Deliver(p, 1)
    <3>1. CASE frames[i].receiver \in alive[p]
      <4>1. arrived' = [arrived EXCEPT ![p] = Append(@, i)]
        BY <1>8, <2>5, <3>1 DEF Deliver, InHand
      <4>2. arrived'[p] = Append(arrived[p], i)
        BY <1>1, <4>1
      <4>3. In(Append(arrived[p], i)) = In(arrived[p]) \cup {i}
        BY <1>1, <2>1, InAppend
      <4>4. QED
        BY <1>1, <4>2, <4>3 DEF Done
    <3>2. QED
      BY <3>1
  <2>6. CASE SerializeReject(p, 1)
    BY <1>6, <1>7, <1>8, <2>2, <2>6 DEF SerializeReject, Finished
  <2>7. CASE QueueReject(p, 1)
    <3>1. PICK f : frames' = Append(frames, f) /\ f.body = Reject /\ f.re = i
      BY <1>8, <2>7 DEF QueueReject, Queues, Written
    <3>2. Len(frames) + 1 \in DOMAIN frames' /\ frames'[Len(frames) + 1] = f
      BY <3>1 DEF FramesOK
    <3>3. Len(frames) + 1 \in Rejects'
      BY <3>1, <3>2 DEF Rejects
    <3>4. QED
      BY <1>1, <3>1, <3>2, <3>3 DEF Done
  <2>8. QED
    BY <2>1, <2>3, <2>4, <2>5, <2>6, <2>7
       DEF ReceiverThread, Bind, Test, Receive, TimesOut, Holding
<1>9. ASSUME NEW l \in Lives, i \in In(wire[p][l])
      PROVE  i \in OnItsWay' \/ thread'[p][1] \in Finished
  <2>1. UNCHANGED wire => i \in OnItsWay'
    BY <1>1, <1>9 DEF OnItsWay, Wired
  <2>2. CASE Bind(p, 1) \/ TimesOut(p, 1) \/ LookUp(p, 1) \/ Deliver(p, 1)
    BY <2>1, <2>2 DEF Bind, TimesOut, LookUp, Deliver
  <2>3. CASE Test(p, 1) \/ SerializeReject(p, 1) \/ QueueReject(p, 1)
    BY <1>7, <2>1, <2>3 DEF Test, SerializeReject, QueueReject, Finished
  <2>4. CASE TryDeserialize(p, 1)
    BY <1>7, <2>1, <2>4, ReadJudges DEF Finished
  <2>5. CASE Receive(p, 1)
    <3>1. PICK k \in Lives : /\ wire[p][k] # <<>> /\ Moves(p, 1, "lookup", Head(wire[p][k]))
                             /\ wire' = [wire EXCEPT ![p][k] = Tail(@)]
      BY <2>5 DEF Receive
    <3>2. CASE k # l
      <4>1. wire'[p][l] = wire[p][l]
        BY <1>1, <3>1, <3>2
      <4>2. QED
        BY <1>1, <1>9, <4>1 DEF OnItsWay, Wired
    <3>3. CASE k = l
      <4>1. i = Head(wire[p][l]) \/ i \in In(Tail(wire[p][l]))
        BY <1>1, <1>9, <3>1, <3>3, InTail
      <4>2. wire'[p][l] = Tail(wire[p][l]) /\ work'[p][1] = Head(wire[p][l])
        BY <1>1, <1>6, <3>1, <3>3
      <4>3. QED
        BY <1>1, <4>1, <4>2 DEF OnItsWay, Wired, Worked
    <3>4. QED
      BY <3>2, <3>3
  <2>6. QED
    BY <2>2, <2>3, <2>4, <2>5 DEF ReceiverThread
<1>10. CASE i \in Worked
  <2>1. PICK q \in Procs, s \in Starts : work[q][s] = i
    BY <1>10 DEF Worked
  <2>2. frames[i].to = q
    BY <1>1, <2>1 DEF PlacedOK
  <2>3. s = 1
    <3>1. thread[q][s] \in Holding
      BY <1>1, <2>1 DEF ThreadsOK
    <3>2. QED
      BY <3>1 DEF MainsOK, Holding
  <2>4. QED
    BY <1>4, <1>8, <2>1, <2>2, <2>3
<1>11. CASE i \in Wired
  <2>1. PICK q \in Procs, l \in Lives : i \in In(wire[q][l])
    BY <1>11 DEF Wired
  <2>2. frames[i].to = q
    BY <2>1 DEF PlacedOK, In
  <2>3. QED
    BY <1>5, <1>9, <2>1, <2>2
<1>12. QED
  BY <1>3, <1>10, <1>11 DEF OnItsWay

\* As long as every connect succeeds, nothing is lost but with its receiver.
LEMMA NewOnWay ==
  ASSUME ExamplesInv, [ExamplesNext]_allVars, frames' # frames
  PROVE  Len(frames) + 1 \in OnItsWay'
<1>1. OrderInv /\ Event
  BY ExamplesStep DEF ExamplesInv
<1>2. PICK p \in Procs, f \in Frame : Submits(p, f)
  BY <1>1 DEF Event, Fades, Taken, Transmitted, Received, Delivered, HandlerSubmits, Rejected
<1>3. Queued' = Queued \cup {Len(frames) + 1}
  BY <1>1, <1>2, NewOnItsWay
<1>4. QED
  BY <1>3 DEF OnItsWay

LEMMA DoneForGood ==
  ASSUME ExamplesInv, [ExamplesNext]_allVars, NEW i \in Done PROVE i \in Done'
<1>1. Grows /\ \A q \in Procs : \A j \in In(arrived[q]) : j \in In(arrived'[q])
  BY NextGrows, NextContents DEF MailContents, ExamplesInv
<1>2. \A j \in Rejects : j \in Rejects' /\ frames'[j].re = frames[j].re
  BY <1>1 DEF Rejects, Grows
<1>3. QED
  BY <1>1, <1>2 DEF Done

LEMMA NextNoneLost ==
  ASSUME ExamplesInv, StaleOK, NoneLost, [ExamplesNext]_allVars, ~unreachable'
  PROVE  NoneLost'
<1> SUFFICES ASSUME NEW i \in DOMAIN frames'
             PROVE  \/ thread'[frames'[i].to][1] \in Finished
                    \/ frames'[i].receiver \notin alive'[frames'[i].to]
                    \/ i \in OnItsWay' \cup Done'
  BY DEF NoneLost, NotLost
<1>1. CASE i \notin DOMAIN frames
  <2>1. i = Len(frames) + 1 /\ frames' # frames
    BY <1>1, NextGrows DEF ExamplesInv
  <2>2. QED
    BY <2>1, NewOnWay
<1>2. CASE i \in DOMAIN frames
  <2>1. frames'[i] = frames[i] /\ frames[i] \in Frame
    BY <1>2, NextGrows DEF Grows, ExamplesInv, OrderInv, RemoteInv, FramesOK
  <2>2. PICK q : q = frames[i].to
    OBVIOUS
  <2>3. q \in Procs
    BY <2>1, <2>2 DEF Frame
  <2>4. CASE thread[q][1] \in Finished
    BY <2>1, <2>2, <2>3, <2>4, FinishedStays
  <2>5. CASE frames[i].receiver \notin alive[q]
    BY <2>1, <2>2, <2>3, <2>5, NextAlive
  <2>6. CASE i \in Done
    BY <2>6, DoneForGood
  <2>7. CASE i \in OnItsWay
    <3>1. CASE AskerHandles \/ OnPing
      BY <2>7, <3>1, HandlersKeepWay
    <3>2. ASSUME NEW p \in Procs, MainStep(p) PROVE i \in OnItsWay'
      <4>1. UNCHANGED <<queue, current, wire, work>>
        BY <3>2 DEF MainStep, Register, InitOrRun, MainCallsReceiver, Start, Stop, Joined,
                    vars, senderVars, receiverVars
      <4>2. QED
        BY <2>7, <4>1, WayKept
    <3>3. ASSUME NEW p \in Procs, LibrarySends(p) PROVE i \in OnItsWay' \/ thread[q][1] \in Finished
      <4>1. SenderThread(p) /\ ~ConnectFails(p)
        BY <3>3 DEF LibrarySends
      <4>2. QED
        BY <2>2, <2>7, <4>1, SenderKeepsWay
    <3>4. ASSUME NEW p \in Procs, LibraryReceives(p)
          PROVE  \/ i \in OnItsWay' \/ i \in Done' \/ thread'[q][1] \in Finished
                 \/ frames[i].receiver \notin alive[q]
      <4>1. ReceiverThread(p, 1)
        BY <3>4 DEF LibraryReceives
      <4>2. QED
        BY <2>2, <2>7, <4>1, ReceiverKeepsWay
    <3>5. CASE UNCHANGED allVars
      <4>1. UNCHANGED <<queue, current, wire, work>>
        BY <3>5 DEF allVars, vars, senderVars, receiverVars
      <4>2. QED
        BY <2>7, <4>1, WayKept
    <3>6. QED
      BY <2>1, <2>2, <2>4, <2>5, <3>1, <3>2, <3>3, <3>4, <3>5 DEF ExamplesNext
  <2>8. QED
    BY <1>2, <2>2, <2>4, <2>5, <2>6, <2>7 DEF NoneLost, NotLost
<1>3. QED
  BY <1>1, <1>2

\* What is ahead of a message that arrives at a living actor is done with.
LEMMA AheadIsDone ==
  ASSUME ExamplesInv, NoneLost', [ExamplesNext]_allVars, NEW p \in Procs, Arrives(p),
         NEW j \in DOMAIN frames, frames[j].to = p, j < work[p][1]
  PROVE  j \in Done'
<1> USE DEF ExamplesInv
<1>1. ArrivedAhead' /\ ExamplesInv'
  BY ExamplesStep, NothingOvertakes, PTL
<1>2. PICK k : k = work[p][1]
  OBVIOUS
<1>3. k \in DOMAIN frames /\ frames[k].to = p /\ frames[k].receiver \in alive[p]
  BY <1>2, ArrivesLast DEF Arrives, InHand
<1>4. j \in DOMAIN frames' /\ frames'[j] = frames[j] /\ j \in Nat /\ k \in Nat
  BY <1>3, NextGrows DEF Grows
<1>5. frames[j].receiver \in alive'[p]
  BY <1>3, SameSource DEF Arrives
<1>6. thread'[p][1] = "test"
  BY TheTwo DEF Arrives, Deliver, Moves, OrderInv, RemoteInv, ThreadsOK
<1>7. k \in In(arrived'[p])
  <2>1. arrived \in [Procs -> Seq(DOMAIN frames)]
    BY DEF OrderInv, RemoteInv, MailOK
  <2>2. arrived'[p] = Append(arrived[p], k)
    BY <1>2, <2>1 DEF Arrives
  <2>3. In(Append(arrived[p], k)) = In(arrived[p]) \cup {k}
    BY <1>3, <2>1, InAppend
  <2>4. QED
    BY <2>2, <2>3
<1>8. j \notin OnItsWay'
  <2>1. j \in OnItsWay' => k < j
    BY <1>1, <1>4, <1>7 DEF ArrivedAhead
  <2>2. j < k
    BY <1>2
  <2>3. QED
    BY <1>4, <2>1, <2>2
<1>9. QED
  BY <1>4, <1>5, <1>6, <1>8 DEF NoneLost, NotLost, Finished

LEMMA RejectAheadStep ==
  ASSUME ExamplesInv, PongIsLast, RejectIsCounted, StaleOK, RejectIsAhead,
         app = "reject_example", [ExamplesNext]_allVars, ~unreachable'
  PROVE  RejectIsAhead'
<1>1. /\ ExamplesInv' /\ PongIsLast' /\ RejectIsCounted'
      /\ client \in Procs /\ server \in Procs /\ Reject \notin {"Ping", "Pong", "UnknownMessage"}
  BY ExamplesStep, PongIsLastStep, RejectIsCountedStep, ExamplesAssumption
<1>2. NoneLost'
  BY NextNoneLost DEF RejectIsAhead
<1>3. \A t : Of(t) \subseteq Of(t)' /\ \A i \in Of(t)' : i \in DOMAIN frames => i \in Of(t)
  BY OfGrows
<1>4. /\ \A q \in Procs : \A i \in In(arrived[q]) : i \in In(arrived'[q]) /\ i \in DOMAIN frames
      /\ \A q \in Procs : \A i \in In(arrived'[q]) :
           i \in In(arrived[q]) \/ (i = work[q][1] /\ Arrives(q))
  <2>1. MailContents
    BY NextContents DEF ExamplesInv
  <2>2. \A q \in Procs : \A i \in In(arrived[q]) : i \in DOMAIN frames
    BY DEF ExamplesInv, OrderInv, RemoteInv, MailOK, In
  <2>3. QED
    BY <2>1, <2>2 DEF MailContents
<1>5. ASSUME NEW k \in In(arrived'[server]), k \in Of("Ping")' PROVE Of(Reject)' # {}
  <2>1. CASE k \in In(arrived[server])
    BY <1>1, <1>3, <1>4, <1>5, <2>1 DEF RejectIsAhead
  <2>2. CASE k = work[server][1] /\ Arrives(server)
    <3>1. k \in DOMAIN frames
      BY <1>1, <2>2, ArrivesLast DEF ExamplesInv
    <3>2. k \in Of("Ping")
      BY <1>3, <1>5, <3>1
    <3>3. /\ k \in Nat /\ k >= 1 /\ 1 \in DOMAIN frames
          /\ frames[1].body = "UnknownMessage" /\ frames[1].to = server
      <4>1. k \in Nat /\ k >= 1
        BY <3>1, FramesGo
      <4>2. 1 \in DOMAIN frames
        BY <3>1 DEF ExamplesInv, OrderInv, RemoteInv, FramesOK
      <4>3. QED
        BY <4>1, <4>2, FramesGo DEF PongIsLast
    <3>4. k # 1
      BY <3>2, <3>3 DEF Of
    <3>5. 1 \in Done'
      BY <1>1, <1>2, <2>2, <3>3, <3>4, AheadIsDone
    <3>6. 1 \in Of("UnknownMessage")'
      BY <1>3, <3>3 DEF Of
    <3>7. \A q \in Procs : 1 \notin In(arrived'[q])
      BY <1>1, <3>6 DEF ExamplesInv, MailboxesOK
    <3>8. QED
      BY <3>5, <3>7 DEF Done, Rejects, Of
  <2>3. QED
    BY <1>1, <1>4, <2>1, <2>2
<1>6. Of("Pong")' # {} => Of(Reject)' # {}
  <2>1. CASE Of("Pong") # {}
    BY <1>3, <2>1 DEF RejectIsAhead
  <2>2. CASE Answering
    <3>1. PICK i : i = Head(mailbox[server][answerer])
      OBVIOUS
    <3>2. i \in In(arrived[server]) /\ i \in DOMAIN frames
      BY <2>2, <3>1, AnswererTakes, HandledIsGone
    <3>3. i \in Of("Ping")
      BY <2>2, <3>1, <3>2 DEF Answering, OnPing, Takes, Of
    <3>4. QED
      BY <1>3, <3>2, <3>3 DEF RejectIsAhead
  <2>3. CASE Of("Pong") = {} /\ ~Answering
    <3>1. ASSUME NEW f \in Frame, NEW n \in Nat, Adds(f, n), f.body # "Pong"
          PROVE  Of("Pong")' = {}
      BY <2>3, <3>1, NewOf
    <3>2. UNCHANGED frames => Of("Pong")' = {}
      BY <2>3 DEF Of
    <3>3. UNCHANGED <<frames, count>> \/ Builds
      BY FramesOfStep DEF ExamplesInv
    <3>4. Opening => Of("Pong")' = {}
      BY <3>1 DEF Opening
    <3>5. NextRound => Of("Pong")' = {}
      <4>1. NextRound => \E f \in Frame, n \in Nat : Adds(f, n + 1) /\ f.body = "Ping"
        BY DEF NextRound
      <4>2. QED
        BY <3>1, <4>1
    <3>6. Rejecting => Of("Pong")' = {}
      BY <1>1, <3>1 DEF Rejecting
    <3>7. QED
      BY <2>3, <3>2, <3>3, <3>4, <3>5, <3>6 DEF Builds
  <2>4. QED
    BY <2>1, <2>2, <2>3
<1>7. ASSUME NEW k \in In(arrived'[client]), k \in Of("Pong")'
      PROVE  In(arrived'[client]) \cap Of(Reject)' # {}
  <2>1. CASE k \in In(arrived[client])
    BY <1>1, <1>3, <1>4, <1>7, <2>1 DEF RejectIsAhead
  <2>2. CASE k = work[client][1] /\ Arrives(client)
    <3>1. k \in DOMAIN frames
      BY <1>1, <2>2, ArrivesLast DEF ExamplesInv
    <3>2. k \in Of("Pong")
      BY <1>3, <1>7, <3>1
    <3>3. PICK j : j \in Of(Reject)
      BY <3>2 DEF RejectIsAhead
    <3>4. /\ j \in DOMAIN frames /\ frames[j].body = Reject /\ frames[j].to = client
          /\ j \in Nat /\ frames[k].body = "Pong"
      BY <3>2, <3>3, FramesGo DEF Of
    <3>5. j < k
      <4>1. k = Len(frames) /\ j # k
        BY <1>1, <3>2, <3>4 DEF PongIsLast
      <4>2. QED
        BY <3>4, <4>1 DEF ExamplesInv, OrderInv, RemoteInv, FramesOK
    <3>6. j \in Done' /\ j \in Of(Reject)'
      BY <1>1, <1>2, <1>3, <2>2, <3>3, <3>4, <3>5, AheadIsDone
    <3>7. \A m \in Rejects' : frames'[m].re = 1
      BY <1>1 DEF Rejects, ExamplesInv, ShapesOK
    <3>8. j # 1
      BY <1>1, <3>4 DEF PongIsLast
    <3>9. PICK q \in Procs : j \in In(arrived'[q])
      BY <3>6, <3>7, <3>8 DEF Done
    <3>10. frames'[j].to = q /\ frames'[j] = frames[j]
      BY <1>1, <3>4, <3>9, NextGrows DEF In, Grows, ExamplesInv, OrderInv, PlacedOK
    <3>11. QED
      BY <3>4, <3>6, <3>9, <3>10
  <2>3. QED
    BY <1>1, <1>4, <2>1, <2>2
<1>8. terminate_flag' => rejected_count' = 1
  <2>1. rejected_count = 1 => rejected_count' = 1
    BY <1>1, WhoCounts DEF RejectIsCounted
  <2>2. CASE terminate_flag' = terminate_flag
    BY <2>1, <2>2 DEF RejectIsAhead
  <2>3. CASE AskerTerminates /\ SenderOnPong
    <3>1. PICK i : i = Head(mailbox[client][asker])
      OBVIOUS
    <3>2. /\ i \in In(arrived[client]) /\ i \in DOMAIN frames /\ i \in Nat
          /\ \A j \in In(mailbox[client][asker]) : j = i \/ i < j
      BY <2>3, <3>1, AskerTakes, HandledIsGone
    <3>3. i \in Of("Pong") /\ asker \in alive[client]
      BY <2>3, <3>1, <3>2 DEF SenderOnPong, Takes, Of
    <3>4. PICK j : j \in In(arrived[client]) /\ j \in Of(Reject)
      BY <3>2, <3>3 DEF RejectIsAhead
    <3>5. j \notin In(mailbox[client][asker])
      <4>1. j # i /\ i = Len(frames)
        BY <1>1, <3>3, <3>4 DEF Of, PongIsLast
      <4>2. ~(Len(frames) < j)
        BY <3>4 DEF Of, ExamplesInv, OrderInv, RemoteInv, FramesOK
      <4>3. QED
        BY <3>2, <4>1, <4>2
    <3>6. QED
      BY <2>1, <3>3, <3>4, <3>5 DEF RejectIsCounted
  <2>4. QED
    BY <2>2, <2>3, WhoTerminates DEF PingOnPong
<1>9. QED
  BY <1>2, <1>5, <1>6, <1>7, <1>8 DEF RejectIsAhead
-----------------------------------------------------------------------------
RejectOrderInv == TurnsInv /\ RejectInv

LEMMA RejectBegins == ExamplesInit => RejectInv
<1> SUFFICES ASSUME ExamplesInit PROVE RejectInv
  OBVIOUS
<1>1. TurnsInv
  BY TurnsBegin
<1>2. /\ frames = <<>> /\ rejected_count = 0 /\ ~terminate_flag
      /\ arrived = [p \in Procs |-> <<>>] /\ stale = [p \in Procs |-> {}]
  BY DEF ExamplesInit, RemoteInit, SenderInit
<1>3. (\A t : Of(t) = {}) /\ In(arrived[client]) = {} /\ In(arrived[server]) = {} /\ NoneLost
  BY <1>2, TheTwo DEF Of, In, NoneLost
<1>4. RejectIsCounted /\ StaleOK /\ RejectIsAhead
  BY <1>2, <1>3 DEF RejectIsCounted, StaleOK, RejectIsAhead
<1>5. QED
  BY <1>1, <1>4 DEF RejectInv, TurnsInv

LEMMA RejectStep == ExamplesInv /\ RejectInv /\ [ExamplesNext]_allVars => RejectInv'
<1> SUFFICES ASSUME ExamplesInv, RejectInv, [ExamplesNext]_allVars, app' = "reject_example"
             PROVE  RejectInv'
  BY DEF RejectInv
<1>1. app = "reject_example"
  BY ExampleVarsOfStep DEF ExamplesInv
<1>2. PongIsLast' /\ RejectIsCounted' /\ StaleOK'
  BY <1>1, PongIsLastStep, RejectIsCountedStep, NextStale DEF RejectInv
<1>3. unreachable => unreachable'
  BY DEF ExamplesNext, AskerHandles, StartHandler, PingOnPong, SenderOnPong, OnReject,
         OnPing, MainStep, Register, InitOrRun, MainCallsReceiver, Returns,
         LibrarySends, LibraryReceives, allVars, exampleVars
<1>4. ~unreachable' => RejectIsAhead'
  BY <1>1, <1>3, RejectAheadStep DEF RejectInv
<1>5. QED
  BY <1>2, <1>4 DEF RejectInv

\* sender.rs:77-103: unless a connect fails, on_reject runs before on_pong, so
\* that the sender never ends without having seen that its message was rejected.
THEOREM RejectComesFirst == ExamplesSpec => []RejectPrecedesPong
<1>1. ExamplesInit => RejectOrderInv
  BY TurnsBegin, RejectBegins DEF RejectOrderInv
<1>2. RejectOrderInv /\ [ExamplesNext]_allVars => RejectOrderInv'
  BY TurnsStep, RejectStep DEF RejectOrderInv, TurnsInv
<1>3. RejectOrderInv => RejectPrecedesPong
  BY DEF RejectOrderInv, RejectInv, RejectIsAhead, RejectPrecedesPong
<1>4. QED
  BY <1>1, <1>2, <1>3, PTL DEF ExamplesSpec
=============================================================================
