--------------------------- MODULE RemoteExamples ---------------------------
(***************************************************************************)
(* The two pairs of programs in src/examples that show remote actors,      *)
(* remote_ping_pong and reject_example, on top of Remote.                  *)
(*                                                                         *)
(* The client's actor (PingActor, SenderActor) begins and ends the         *)
(* exchange, the server's actor (PongActor, ReceiverActor) answers it.     *)
(* Here the handlers are those of the examples, and main calls the library *)
(* in the order written there, where Remote allows any.  Nothing orders    *)
(* the two processes: the server may be started late.                      *)
(***************************************************************************)
EXTENDS Remote

CONSTANTS client, server, asker, answerer

ASSUME ExamplesAssumption ==
  /\ client # server /\ Procs = {client, server}
  /\ Home[client] = {asker} /\ Home[server] = {answerer} /\ Listed = Home
  /\ Types = {"Ping", "Pong", "UnknownMessage", Reject} /\ Names = Types
  /\ Reject \notin {"Ping", "Pong", "UnknownMessage"} /\ MaxStarts >= 1
  /\ \A t \in Types : NameOf[t] = t
  /\ \A p \in Procs : AtStart[p] = {}

VARIABLES
  app,             \* which pair of programs runs
  line,            \* how many of the calls of main have returned
  opened,          \* how many messages on_start of the client has sent
  count,           \* the field count of every frame, 0 if it has none
  terminate_flag,  \* of the client's Manager
  rejected_count,
  unreachable      \* history: a connect has failed

exampleVars == <<app, line, opened, count, terminate_flag, rejected_count, unreachable>>
allVars == <<vars, exampleVars>>

Apps == {"remote_ping_pong", "reject_example"}

\* register_messages(), or the same calls in main, of the four programs.
PingRegisters == {"Ping", "Pong"}
PongRegisters == {"Ping", "Pong"}
SenderRegisters == {"UnknownMessage", "Ping", "Pong", Reject}

\* Mutant: the receiver does not register Reject.
MutReceiverRegisters == {"Ping", "Pong"}

ReceiverRegisters == {"Ping", "Pong", Reject}

Registers(p) ==
  IF app = "remote_ping_pong"
  THEN IF p = client THEN PingRegisters ELSE PongRegisters
  ELSE IF p = client THEN SenderRegisters ELSE ReceiverRegisters

\* What the four main functions call, in order.
PingMain == <<"register", "start", "init", "run", "stop", "join", "end">>
PongMain == <<"register", "start", "init", "loop">>
SenderMain == <<"register", "start", "init", "run", "stop", "join", "end">>
ReceiverMain == <<"register", "start", "init", "run", "stop", "join", "end">>

Main(p) ==
  IF app = "remote_ping_pong" THEN IF p = client THEN PingMain ELSE PongMain
                              ELSE IF p = client THEN SenderMain ELSE ReceiverMain

\* The types that on_start of the client sends; their count is 1 if they have one.
PingOnStart == <<"Ping">>

\* Mutant: Ping goes first.
MutSenderOnStart == <<"Ping", "UnknownMessage">>

SenderOnStart == <<"UnknownMessage", "Ping">>

OnStart == IF app = "remote_ping_pong" THEN PingOnStart ELSE SenderOnStart

ExamplesInit ==
  /\ RemoteInit
  /\ app \in Apps
  /\ line = [p \in Procs |-> 0]
  /\ opened = 0 /\ count = <<>>
  /\ terminate_flag = FALSE /\ rejected_count = 0 /\ unreachable = FALSE
-----------------------------------------------------------------------------
\* main of p is in this call.
InCall(p, call) == Main(p)[line[p] + 1] = call

Returns(p) ==
  /\ line' = [line EXCEPT ![p] = @ + 1]
  /\ UNCHANGED <<app, opened, count, terminate_flag, rejected_count, unreachable>>

\* Nothing of the process runs yet, so that the calls of register_remote_message
\* are one step.
Register(p) ==
  /\ InCall(p, "register") /\ Returns(p)
  /\ named' = [named EXCEPT ![p] = Registers(p)]
  /\ entry' = [entry EXCEPT ![p] =
                 [n \in Names |-> IF n \in Registers(p) THEN n ELSE NoType]]
  /\ UNCHANGED <<pending, poisoned, frames, actorVars, senderVars, wire,
                 receiverVars, processVars, upsets>>

\* mgr.init() sends Start and spawns the actor; mgr.run() polls the flag, which
\* only the client's actor sets.
InitOrRun(p) ==
  /\ InCall(p, "init") \/ (InCall(p, "run") /\ p = client /\ terminate_flag)
  /\ Returns(p)
  /\ UNCHANGED vars

MainCallsReceiver(p) ==
  /\ \/ InCall(p, "start") /\ Start(p, 1)
     \/ InCall(p, "stop") /\ Stop(p, 1)
     \/ InCall(p, "join") /\ Joined(p, 1)
  /\ Returns(p)

MainStep(p) == Register(p) \/ InitOrRun(p) \/ MainCallsReceiver(p)
-----------------------------------------------------------------------------
Initialised(p) == line[p] >= 3

\* A frame that is sent in this step has n in its field count.
Counted(n) == count' = IF frames' = frames THEN count ELSE Append(count, n)

\* A handler sends a message, both parts of send_to in one step: the first reads
\* nothing but the registry, which is complete before an actor runs, so that it
\* makes no difference what the other threads do in between.
SendsAtOnce(p, a, addr, t, ref, origin, re, left) ==
  /\ \/ /\ CanSend(p, t)
        /\ Queues(p, Written(p, addr, t, ref, origin, re))
        /\ mailbox' = [mailbox EXCEPT ![p][a] = left]
        /\ UNCHANGED <<serializationVars, alive>>
     \/ SendPanics(p, t) /\ ThreadEnds(p, a)
  /\ UNCHANGED <<letter, Others>>

\* The client's actor sends to the remote reference it was made with, as itself.
AskerSends(t, left) ==
  SendsAtOnce(client, asker, [actor |-> answerer, endpoint |-> server], t,
              LocalRef(asker), [actor |-> asker, endpoint |-> client], 0, left)

\* The client's on_start, one send after the other.
StartHandler ==
  /\ Initialised(client) /\ asker \in alive[client] /\ opened < Len(OnStart)
  /\ AskerSends(OnStart[opened + 1], mailbox[client][asker])
  /\ opened' = opened + 1
  /\ Counted(1)
  /\ UNCHANGED <<app, line, terminate_flag, rejected_count, unreachable>>

\* The actor a of p takes a message of type t, once it is done with Start.
Takes(p, a, t) ==
  /\ Initialised(p) /\ a \in alive[p] /\ mailbox[p][a] # <<>>
  /\ p = client => opened = Len(OnStart)
  /\ frames[Head(mailbox[p][a])].body = t

\* on_ping of the server: ctx.reply(Pong)
OnPing ==
  LET i == Head(mailbox[server][answerer]) IN
  /\ Takes(server, answerer, "Ping")
  /\ SendsAtOnce(server, answerer, frames[i].sender, "Pong", LocalRef(answerer),
                 [actor |-> answerer, endpoint |-> server], i,
                 Tail(mailbox[server][answerer]))
  /\ Counted(count[i])
  /\ UNCHANGED <<app, line, opened, terminate_flag, rejected_count, unreachable>>

PingIsDone(n) == n >= 5

\* The client's actor asks its manager to end.
AskerTerminates ==
  /\ Ignore(client, asker)
  /\ terminate_flag' = TRUE
  /\ UNCHANGED count

\* on_pong of PingActor: another round, or the end.
PingOnPong ==
  LET n == count[Head(mailbox[client][asker])] IN
  /\ app = "remote_ping_pong" /\ Takes(client, asker, "Pong")
  /\ IF PingIsDone(n) THEN AskerTerminates
     ELSE /\ AskerSends("Ping", Tail(mailbox[client][asker]))
          /\ Counted(n + 1)
          /\ UNCHANGED terminate_flag
  /\ UNCHANGED <<app, line, opened, rejected_count, unreachable>>

\* on_pong of SenderActor
SenderOnPong ==
  /\ app = "reject_example" /\ Takes(client, asker, "Pong")
  /\ AskerTerminates
  /\ UNCHANGED <<app, line, opened, rejected_count, unreachable>>

\* on_reject of SenderActor (a Reject that PingActor got would be ignored).
OnReject ==
  /\ Takes(client, asker, Reject)
  /\ Ignore(client, asker)
  /\ rejected_count' = IF app = "reject_example" THEN rejected_count + 1
                                                 ELSE rejected_count
  /\ UNCHANGED <<app, line, opened, count, terminate_flag, unreachable>>

AskerHandles == StartHandler \/ PingOnPong \/ SenderOnPong \/ OnReject
-----------------------------------------------------------------------------
\* The threads of the library.
LibrarySends(p) ==
  /\ SenderThread(p)
  /\ unreachable' = (unreachable \/ ConnectFails(p))
  /\ UNCHANGED <<app, line, opened, count, terminate_flag, rejected_count>>

LibraryReceives(p) ==
  /\ ReceiverThread(p, 1)
  /\ Counted(0)
  /\ UNCHANGED <<app, line, opened, terminate_flag, rejected_count, unreachable>>

ExamplesNext ==
  \/ AskerHandles \/ OnPing
  \/ \E p \in Procs : MainStep(p) \/ LibrarySends(p) \/ LibraryReceives(p)

ExamplesSpec == ExamplesInit /\ [][ExamplesNext]_allVars

\* As in Remote; main and the actors' threads go on as well.
ExamplesFairness ==
  /\ WF_allVars(AskerHandles) /\ WF_allVars(OnPing)
  /\ \A p \in Procs :
       /\ WF_allVars(MainStep(p))
       /\ WF_allVars(LibrarySends(p)) /\ WF_allVars(LibraryReceives(p))
       /\ SF_allVars(LibraryReceives(p) /\ Receive(p, 1))

FairExamplesSpec == ExamplesSpec /\ ExamplesFairness
-----------------------------------------------------------------------------
\* What is still to be handled at p.
Outstanding(p) ==
  {i \in DOMAIN frames : frames[i].to = p
     /\ (InTransit(i) \/ \E a \in Actors : At(mailbox[p][a], i) # {})}

\* Ping and pong take turns for five rounds: only the latest message is ever on
\* its way, and it carries the number of its round (ping.rs:54-68, pong.rs:45-50, over two
\* queues and two sockets).
PingPongInStep ==
  app = "remote_ping_pong" =>
    \A i \in DOMAIN frames :
      /\ count[i] = (i + 1) \div 2 /\ count[i] <= 5
      /\ i \in Outstanding(frames[i].to) => i = Len(frames)

\* When the sender of the reject example is done, its message of an unknown type
\* has been rejected and the Reject been handled, unless a connection failed:
\* the Reject cannot come after the Pong (sender.rs:77-103).
RejectPrecedesPong ==
  app = "reject_example" /\ terminate_flag /\ ~unreachable => rejected_count = 1

\* The client calls stop() when nothing is outstanding for it, so that nothing
\* is lost by it (ping.rs:107-112, sender.rs:142-147).
StopLosesNothing ==
  Main(client)[line[client] + 1] \in {"stop", "join", "end"} => Outstanding(client) = {}

\* Whichever process comes up first, the client gets through to mgr.end(), or
\* some connect has failed: a message that is lost is not sent again, and the
\* other side waits for it for ever.
ClientGetsThrough == <>(unreachable \/ InCall(client, "end"))
=============================================================================
