# actors-rust: TLA+ specifications

Specifications of the actor runtime of this repository, their model-checking
configurations and machine-checked proofs. Paths below are relative to the
repository root; `src/actor.rs` is the crate's `src/actor.rs`.

## The system

| Component | State | Operations | Who uses it |
|---|---|---|---|
| Actor runtime (`src/actor.rs`) | per actor: mailbox (mpsc), context (`sender`, `reply_channel`), `running` flag, thread | `ActorRef::send`, `fast_send`, `ActorContext::reply`, `ActorRuntime::new`, `run`, `dispatch`, `stop` | everything |
| Manager (`src/manager.rs`) | registry, `actor_refs`, `runtimes`, `threads`, `terminate_flag` | `manage`, `init`, `run`, `shutdown`, `wait`, `end`, `ManagerHandle::terminate` | the main thread; handles are given to actors |
| Timer (`src/timer.rs`) | per timer: an atomic flag and a thread | `once`, `periodic`, `cancel`, `is_running`, drop | actors and main; sends `Timeout` to an actor |
| Group (`src/group.rs`) | members under locks, a shared queue, one forwarder thread per reference, worker threads, `running` | `add`, `get_ref`, `start`, `shutdown`, `wait`, `end` | the main thread; members are actors without a thread |
| Remote actors (`src/remote.rs`) | queue of the sender thread, one PUSH socket per endpoint, the receiver's flag, registry and threads | `send_to`, sender loop, `register`, `start`, receiver loop, `Reject`, `stop` and drop of the handle | `ActorRef::Remote`; every process has one of each |
| Serialization registry (`src/serialization.rs`) | two global maps under two locks | `register_remote_message`, serialize, deserialize | remote actors |
| Messages (`src/message.rs`, `src/messages.rs`) | none | the `Message` trait, `Start`, `Shutdown`, `Timeout`, `Continue`, `Reject` | all |
| C++ references, affinity and priority | function pointers; OS state | FFI send; `sched_setaffinity` | `ActorRef::Cpp`, `spawn_with_config` |

Components interact by envelopes in mpsc channels (messages), by reply channels
inside envelopes (calls), by flags shared between threads (`running`,
`terminate_flag`, a timer's flag), by joins (`wait`, a timer's drop) and, in
groups, by mutexes.

What is hard in this code:

* **Calls without timeout.** `fast_send` blocks until every `Sender` of its
  channel is gone. Whether a caller wakes up depends on who drops envelopes and
  contexts, and when: at the end of a thread, at a panic, at the next message.
* **Contexts that outlive a message.** The context is overwritten by the next
  envelope, so what a handler leaves in it is there in the meantime.
* **Stopping.** There are three notions of the end (a `Shutdown` message, the
  `running` flag, the end of the process), and they are not connected.
* **Flags read before a send or a sleep** by timers and workers.
* **Lock poisoning** in groups, and a lock that is held during a dispatch.
* **An extra hop** in groups: forwarder threads between senders and the queue.
* **Messages between processes** go through a queue, a thread, a connection and
  another thread; each may lose them, processes are killed and restarted, and
  nothing is acknowledged or sent again.
* **Panics under a process-wide lock** in the serialization registry: one
  message that does not parse poisons it for every sender and receiver.

## Modules

| Module | What it is |
|---|---|
| `Envelopes` | data: envelopes, reply channels, contexts, `prepare_for_envelope` |
| `FastSend` | abstract specification: what `fast_send` promises a caller |
| `ActorRuntime` | actors with a thread of their own, and clients (`src/actor.rs`) |
| `ActorRuntimeProofs` | TLAPS proofs about `ActorRuntime`, and that it implements `FastSend` |
| `Manager` | extends `ActorRuntime` by the manager and its main thread (`src/manager.rs`) |
| `ManagerProofs` | TLAPS proofs about `Manager` |
| `Timer` | extends `ActorRuntime` by timers (`src/timer.rs`) |
| `TimerProofs` | TLAPS proofs about `Timer` |
| `Group` | thread pools (`src/group.rs`); shares `Envelopes`, not the runtime |
| `GroupProofs` | TLAPS proofs about `Group` |
| `Serialization` | the message registry of a process: names, functions, poisoning (`src/serialization.rs`) |
| `Remote` | extends `Serialization` by processes that exchange messages (`src/remote.rs`) |
| `RemoteProofs` | TLAPS proofs about `Remote`: threads, stopping, poisoning |
| `LossyChannels` | abstract specification: what remote references promise |
| `LossyChannelsProofs` | TLAPS proof that it promises order and no repetition |
| `RemoteRefinement` | the refinement mapping from `Remote` to `LossyChannels` |
| `RemoteOrderProofs` | TLAPS proofs about the way of a frame and what takes a process down, and that `Remote` implements `LossyChannels` |
| `RemoteExamples` | extends `Remote` by the four programs of `remote_ping_pong` and `reject_example` |
| `RemoteExamplesProofs` | TLAPS proofs about these programs |
| `MCActorRuntime`, `MCManager`, `MCTimer`, `MCGroup`, `MCRemote`, `MCRemoteExamples` | instances for TLC; the `.cfg` files choose among their definitions |

### Envelopes and ActorRuntime

A payload is only a kind (`Start`, `Shutdown`, `Timeout`, `User`, or `Reply` for
what `ctx.reply` sends). An envelope carries the pair `(from, n)`, the n-th send
of a process; the code has no such number, it stands for the identity of the
boxed message and of the channel that a `fast_send` creates.

`pc[a]` is the place of the actor's thread: `absent`, `new` (runtime created, no
thread yet), `init`, `check` (loop condition), `recv`, `handle`, `end`, and
`ended` or `panicked`. One action per operation:

| Action | Code |
|---|---|
| `New`, `Spawn` | `ActorRuntime::new`; the thread that enters `run()` |
| `InitReturns`, `CheckRunning`, `Dispatch`, `HandlerReturns`, `EndReturns` | the steps of `run()` and `dispatch()` |
| `Send`, `FastSend`, `FastSendReturns` | `LocalActorRef::send`; `fast_send` up to `recv()`, and its return |
| `ReplyOnChannel`, `ReplyToSender` | the two branches of `ActorContext::reply` |
| `Panic` | user code panics: the thread unwinds and drops its runtime |
| `Stop` | `stop()`, or a store through a clone of `running` |

Handlers are user code. While one runs, its actor may send, call, reply, return
or panic in any order. As the sender it passes no reference, its own or one of a
third party (`Senders`). `DropRuntime` models what happens to the reply channels
of a runtime that dies: those queued and the one in the context are closed, and
the callers that wait on them get `None`.

The `Err` branch of `recv()` is dead code, because `ActorRuntime` keeps a
`Sender` of its own mailbox; no action models it. Not modelled either: a
runtime that is dropped without having been run.

### FastSend

Per process a call is `idle`, `queued`, `served`, `answered` or `refused`; per
actor a life is `absent`, `alive` or `dead`. A call may be refused only if its
callee is dead, dies, or gives up the request it serves. `ActorRuntime!Calls`
is the refinement mapping: a call is `served` when the callee's context has its
channel, `queued` when the mailbox has it.

### Manager

`Main` executes any sequence of `manage`, `init`, `run`, `shutdown` and `wait`,
between which it sends and calls; `end()` is `shutdown` then `wait`. `at` is the
method it is in and `todo` what is left of that method's list, so that the
actors already spawned run between two iterations. Both registries of the code
are always equal and are one variable. CPU affinity and priority are left out.
`manage` keeps the runtime, so no application holds its `running` flag and
`ActorRuntime!Stop` does not occur.

### Timer

The thread of a timer is one of the clients of `ActorRuntime`; `thread[t]` goes
through `sleep`, `check` (the test after the sleep), `fire`, `test` (the loop
condition of a periodic timer) and `done`. Time is abstracted: a sleep may take
any number of steps of others. `hold[t]` is the `Timer` value: held, being
dropped (its owner is blocked in the join), or dropped. A timer kept in a field
of an actor is dropped when the actor's thread ends or unwinds; `ActorRuntime`'s
first field is the actor, so that happens before its mailbox is dropped, and
`ActorStep` lets a thread end only when its timers are gone.
Only timers send `Timeout` here.
`next_timer_id` is left out: an atomic counter that nothing else reads.

### Group

`wrapper[r]` is the channel behind reference `r`, `queue` the shared one, and
`Forward` the forwarder thread that connects them. Every `get_ref` makes a
reference with a forwarder of its own (`Extras`). `wpc[w]` is the place of a
worker in `worker_loop`: `check`, `take` (`try_recv`), `drain` (the inner loop of
a stopped worker), `lock` (it has an envelope and wants the member's lock),
`handle`, and `done` or `dead`. `known[w]` is the map the worker was spawned
with. `rx` is the worker that keeps the receiver's lock: in `while let Ok(e) =
receiver.lock().unwrap().try_recv()` the guard lives through the body, so a
drain dispatches under the lock. `poisoned` and `rx_poisoned` say which locks a
panic has poisoned; a lock of one of them kills its worker, or Main in `wait()`.

Left out: two members of the same name; sends from `init()` of a member (Main
runs it inside `start()`); a Group that is dropped without `end()`.

### Serialization

Two maps per process: `named` (`TYPEID_TO_NAME`) and `entry` (`REGISTRY`, the
type whose functions a name has). What `main` registers first is there in the
initial state; a later `register_remote_message` fills the maps in two steps
(`RegisterName`, `RegisterEntry`), and a second type of the same name takes over
the entry. JSON is abstracted to the type it was written from: `Readable` says
which types can be read back from it. `poisoned` is `REGISTRY`'s lock:
`Writable`, `Parses` and `FailingRead` are the three functions that use it.
`TYPEID_TO_NAME`'s lock is never poisoned, since nothing panics under it.

### Remote

A process is its own endpoint; it has one `ZmqSender` and one `ZmqReceiver`, as
in all examples and guides. `send_to` first serializes a message, under the
registry's lock, and then queues it, and other threads of the process may do the
same in between; so these are two steps, and `letter[p][a]` is what actor `a` has
serialized and not yet queued. Frames are numbered in the order in which they
are queued, which for one thread is the order in which it sent them; `frames[i]`
is the JSON object, and every queue, wire and mailbox holds numbers. `origin` and `re` are history: who began the conversation, and
which frame this one answers.

| Action | Code |
|---|---|
| `Originate`, `Reply`, `Forward`, `Ignore` | handlers, which reach `send_to` through `ActorRef::Remote`, up to the end of serializing |
| `Posts` | the rest of `send_to`: the request is queued, and the handler goes on |
| `Misreads`, `Ends` | a handler that panics in `deserialize_message`; the end of an actor's thread |
| `RegistersLater`, `RegisterActor` | `register_remote_message` and `register` while messages flow |
| `TakeRequest`, `Connect`, `ConnectFails`, `Transmit` | the loop of the sender thread |
| `Start`, `Bind` | `start()`, and the `bind` of its thread, which panics if another thread has the endpoint |
| `Test`, `Receive`, `TimesOut`, `SocketFails` | the loop of a receiver thread |
| `LookUp`, `TryDeserialize`, `Deliver`, `SerializeReject`, `QueueReject` | `handle_remote_message_async`, one step per thing it reads or changes; a `Reject` takes the two steps of `send_to` |
| `Stop`, `Joined` | `stop()`, or the drop of a handle, and the return of its join |
| `Restart` | the process is killed and started anew, with nothing kept |

A send panics when its type has no name or its name no functions of that type
(`SendPanics`), in the thread of whoever called it: an actor, or the receiver
thread that was to send a `Reject`.

ZeroMQ is external. `Connect` needs a listening peer and may fail all the same;
a connection delivers in order; what is on its way is lost when the receiving
socket closes, and what is sent over it afterwards (`stale`) is lost or goes
through. A socket is never replaced, as in the code. Left out: malformed JSON
(only a foreign program sends it), the end of the sender thread when the last
`ZmqSender` is dropped, two names for one actor, and a remote reference in the
`ActorRegistry`: it takes any `ActorRef`, but its comment (`src/remote.rs:285`)
speaks of local actors, and nothing in the repository registers another.

### LossyChannels

One channel per life of a process and peer. `Submit`, `Deliver`, `Refuse` (a
message is not delivered and another one says so) and `Lose`. Delivering a
message gives up all that was ahead of it, so that order and at-most-once are
built in. `RemoteRefinement` maps `transit` to the frames that are in a queue,
in a sender thread's hands, on a wire or in a receiver thread's hands.

### RemoteExamples

`app` chooses the pair of programs, `Main(p)` is the list of library calls of a
`main` function and `line[p]` how many have returned; the handlers are those of
`PingActor`, `PongActor`, `SenderActor` and `ReceiverActor`. The threads of the
library take `Remote`'s steps. `mgr.end()` is the last call: it does not return
(run `end_hangs`). Socket errors, crashes and late registrations do not occur
here; `Remote` covers them. A send is one step here (`SendsAtOnce`): serializing
reads only the registry, which is complete before an actor runs, and an actor
has no other step in between.

## Properties and runs

| Run | Shows |
|---|---|
| `runtime` | `BlockedCallerIsHeld`: a blocked caller is held by its living callee. `AnswerMatchesRequest`: an answer is the answer to that request. `RepliesGoToSender`: a reply goes to the sender of the message that is handled. `AtMostOneDispatchAfterStop`. `ImplementsFastSend`. `CallReturnsUnlessHopeless`: calls return except in the situations `Hopeless` names (cycles, threads never spawned, no reply and no further message). `StoppedThreadEnds` |
| `manager` | `NoActorIsLost`, `StartedOnce`, `StartComesFirst`; `WaitHeldUpByIdleOnly`. `TerminateEndsRun`: once somebody has called `terminate()`, before `run()` or during it, `run()` returns, this time and every time |
| `timer` | `LateOnlyInRace`: after `cancel()` at most one Timeout, and only if the thread was past its test. `SilentAfterDrop`. `OneShotFiresUnlessCancelled`, `DropReturns`, and `CallReturnsInSpiteOfTimers`: an actor blocked in a drop still answers |
| `group` | `OneWorkerPerMember`, `PoisonedNeverRuns`, `GroupCallerIsHeld`, `TakenInOrder`. `GroupCallReturnsUnlessHopeless`: calls return unless the pool is used up by callers or by death, or the member panicked, calls itself or did not reply. `WaitHeldUpByCallersOnly` |
| `remote` | `EachFrameOnce`: a message is in one place, delivered once or rejected once. `ArriveInSendOrder`: in the order of queueing, also across a lost connection. `AnswersReachTheAsker`, and nothing answers a `Reject`. `SettlesWhatItTakes`: what a receiver takes it delivers or rejects. `ImplementsLossyChannels`. `NothingIsStuck`, `StopReturns` |
| `remote_upsets` | `OneMessageAfterStop`. `TakenDownForACause`: a process that registers its types, `Reject` among them, before it starts is not taken down by what others send; its registry is poisoned only after a registration while messages flow, a message of another version, or the end of an actor of its own. `PoisonIsForLife`: with a poisoned registry a process serializes nothing more, queues only what it had serialized, and accepts only what it had read |
| `remote_examples` | `PingPongInStep`, `RejectPrecedesPong`: the `Reject` is counted before the `Pong` ends the program. `StopLosesNothing`. `ClientGetsThrough`, unless a connect fails |

Type invariants are checked where they say more than types, and proved for every
module that has proofs.

### Where the code differs from what is written about it

Each of these runs checks one sentence of a comment or a guide, which TLC
refutes:

| Run | Sentence | What the code does |
|---|---|---|
| `end_before_messages` | `src/actor.rs:315` "Called once when the actor shuts down, after all messages are processed" | `stop()` leaves the loop without draining the mailbox |
| `end_hangs` | `REMOTE_ACTORS_GUIDE.md:59` "waits for their threads to finish" | `Shutdown` ends no thread, so `wait()` does not return, even when `shutdown()` has told every actor that it joins and nobody is blocked in a call |
| `timeout_after_cancel` | `src/timer.rs:93` "No more Timeout messages will be sent after this call" | the thread may be past its test |
| `dropped_timer_silent` | `examples/timer_example.rs:117` "Timer is dropped immediately, so the callback will still fire" | drop cancels and joins |
| `remote_reject` | `src/messages.rs:71`, `src/serialization.rs:135` "Returns Err with the reason if deserialization fails" | only an unknown name gives `Err`; fields that do not parse make the receiver thread panic, and the registry is poisoned |

Others can be read off a line of the code that the models translate, and need no
run:

* `src/actor.rs:269` "For fast_send, sends through the reply channel": the first
  reply takes the channel, a second one goes to the sender's mailbox
  (`ReplyToSender`).
* `REMOTE_ACTORS_GUIDE.md:45` "Each actor's thread is already running": `init()`
  sends `Start`, then spawns the thread (`SendStart`, `SpawnThread`).
* `src/timer.rs:98` "Check if the timer is still running": a one-shot timer that
  has fired leaves its flag up (`AfterRound`).
* `src/actor.rs:315` once more: a group's `wait()` calls `end()` before it joins
  the workers (`EndMember`, `WaitReturns`).
* `src/group.rs:227` "Drain remaining messages": a stopped worker drains the shared
  queue; what the forwarders still hold is lost, `Shutdown` included (`Forward`,
  `FindNothing`).
* `REMOTE_ACTORS_GUIDE.md:510` "`Message type 'Ping' not registered` panic" for a
  name that the receiving process does not know: `try_deserialize_message` returns
  `Err` for it and the message is rejected (`ReadPanics`, `TryDeserialize`).
* `src/group.rs:144` "Get all actor names in this group": `start()` empties the map
  whose keys `get_names()` lists (`StartEnter`).

### Bounds

`MaxSends[p]` bounds the envelopes a process sends and is the only bound of
`ActorRuntime` and `Timer`; in `Group`, `MaxInAll` also bounds what all processes
send together (`MaySend`); `MaxCalls` bounds the calls of the
manager's methods; `Passes` chooses the references each process passes as
sender. History variables that count stop at 2. Nothing else is
bounded.

* Runtime: two actors and a client. Every hazard listed needs a caller, a callee
  and a third party whose message overwrites a context or whose call closes a
  cycle; two or three sends suffice for a stale channel (call, answer, call). Everybody
may pass the reference of `a1`, its own for `a1` and a third party's for the
others. In the other instances the actor passes its own; the theorems hold for any.
* Manager: two actors and `Main`, whose sends and `MaxCalls` allow `init` twice,
  or `init`, `shutdown`, `wait`. Both actors have the same name, so that an
  entry of the registry is replaced.
* Timer: one actor, `Main` and one timer, which may send twice, so that a
  periodic one goes round its loop. Timers share nothing but the actor they
  send to. A timer that has used up its sends sleeps until it is cancelled
  (`Elapse`).
* Group: one member, a second reference to it, and the two workers of one call
  of `start()`, which contend for the lock. Workers that a second `start()`
  would spawn are not in this instance; the theorems hold for them too. Three
  envelopes in all, of which a call of `start()` or `shutdown()` takes one: enough
  for a call or two on a member that panics, calls itself, or has sent itself a
  message and replies to it. `StartEnter` and `ShutdownEnter` set aside what
  they send. One member is too few for two hazards, which `Group` models all the
  same: a drain that holds the receiver's lock while a handler calls another
  member, and as many handlers blocked in calls of other members as there are
  workers, which stops the pool.
* Remote: two processes, of which `p` sends to two actors of `q`, one registered
  and one not, and `q` may pass messages on, reply and reject. Handlers send
  `MaxFrames` frames; `Reject`s come on top. `MaxUpsets` bounds together what
  disturbs the processes: late registrations, `stop()`, a second `start()`
  (`MaxStarts`), socket errors, ends of actors, misreads and restarts. One upset
  of any kind for liveness and the refinement, any two for what happens after a
  stop or a poisoning; there `q` has registered nothing and registers both its types
  late, so that a receiver meets unknown names, half registrations and a missing
  `Reject`. Two frames on one link suffice to overtake or repeat,
  and `Reject`s add a third and fourth.
* Examples: no bound; the programs end by themselves.

Deadlock is not checked: all these systems may stop, when nobody sends.

### Fairness

Weak fairness of every thread of the library, of the return of a `fast_send`
whose channel has a value or is closed, and of Main inside a method. The
operating system schedules threads, and a handler is assumed to return; it
cannot run for ever in the model because its sends are bounded, and
`HandlerReturns` stays enabled. No fairness on anything only an application
decides: creating, spawning and stopping actors, sending, cancelling or
dropping a timer, calling a method of Manager or Group, panicking, stopping a receiver or
registering a type. An actor
whose thread ends does drop its timers. Locks and joins are only weakly fair.

For remote actors, weak fairness of the sender thread assumes that every
`connect` returns in one way or the other. That is what `src/remote.rs:126-131`
counts on, but not all that ZeroMQ promises: a `connect` that goes on trying a
peer which is down keeps the one sender thread of the process, and with it what
is queued for every other endpoint, for as long. `NothingIsStuck` and
`ClientGetsThrough` say nothing of that case. `Receive` is strongly fair: the loop
may time out at any time, but the timeout polls the socket first, so that a
receiver that comes back to `recv` again and again takes what waits there.

## Proofs

Proved with TLAPS for any sets of actors, clients and processes, any message types
and any bounds, from the named assumptions of the modules only. In `RemoteExamples`
the assumption fixes the two processes, their actors and the types of message, as
the programs do:

| Theorem | Result |
|---|---|
| `ActorRuntimeProofs!TypeCorrect` | `Spec => []TypeOK` |
| `CallsAreNeverForgotten` | `[]BlockedCallerIsHeld` and `[]HeldChannelsAreAwaited` |
| `AnswersAreRight` | `[]AnswerMatchesRequest` |
| `RepliesAreRouted` | `RepliesGoToSender` |
| `StopIsHonoured` | `[]AtMostOneDispatchAfterStop` |
| `RuntimeImplementsFastSend` | `Spec => ImplementsFastSend` |
| `ManagerProofs!ManagedActorsAreActors` | `ManagerSpec => Spec`: all of the above holds of managed actors |
| `ManagerTypeCorrect` | `ManagerSpec => []ManagerTypeOK` |
| `ManagerLosesNobody` | `ManagerSpec => []NoActorIsLost` |
| `ManagerStartsOnce` | `ManagerSpec => []StartedOnce` |
| `ManagerStartsFirst` | `ManagerSpec => []StartComesFirst` |
| `TimerProofs!TimersAreClients` | `TimerSpec => Spec`: and of actors that use timers |
| `TimerTypeCorrect` | `TimerSpec => []TimerTypeOK` |
| `CancelIsAlmostFinal` | `TimerSpec => []LateOnlyInRace` |
| `DropIsFinal` | `TimerSpec => SilentAfterDrop` |
| `GroupProofs!GroupTypeCorrect` | `Spec => []GroupTypeOK` |
| `MembersAreExclusive` | `Spec => []OneWorkerPerMember` |
| `PoisonIsFinal` | `Spec => PoisonedNeverRuns` |
| `PoolTakesInOrder` | `Spec => []TakenInOrder` |
| `PoolCallersAreHeld` | `Spec => []GroupCallerIsHeld` |
| `RemoteProofs!RemoteTypeCorrect` | `RemoteSpec => []RemoteTypeOK` |
| `StopIsAlmostFinal` | `RemoteSpec => []OneMessageAfterStop` |
| `NothingIsSwallowed` | `RemoteSpec => SettlesWhatItTakes` |
| `PoisonSilences` | `RemoteSpec => PoisonIsForLife` |
| `RemoteOrderProofs!SendOrderIsKept` | `RemoteSpec => []ArriveInSendOrder` |
| `AnswersGoBack` | `RemoteSpec => []AnswersReachTheAsker` |
| `NoFrameTwice` | `RemoteSpec => []EachFrameOnce` |
| `NothingElseTakesItDown` | `RemoteSpec => []TakenDownForACause` |
| `RemoteIsLossyChannels` | `RemoteSpec => ImplementsLossyChannels` |
| `LossyChannelsProofs!ChannelsKeepOrder` | `ChannelSpec => []OnceAndInOrder` |
| `RemoteExamplesProofs!ExamplesAreLossyChannels` | `ExamplesSpec => ImplementsLossyChannels` |
| `ExamplesKeepOrder` | `ExamplesSpec => [](ArriveInSendOrder /\ EachFrameOnce /\ AnswersReachTheAsker)` |
| `PingAndPongTakeTurns` | `ExamplesSpec => []PingPongInStep` |
| `RejectComesFirst` | `ExamplesSpec => []RejectPrecedesPong` |
| `NothingIsLostByStop` | `ExamplesSpec => []StopLosesNothing` |

`BlockedCallerIsHeld` is not inductive. A caller stays held only because the
channel that answers it exists once, in the callee it called, and carries the
number of its last send. `CallInv` adds these facts (`HeldChannelsAreAwaited`,
`HandlerContextOK`, `AnswerMatchesRequest`), and `IInv == TypeOK /\ CallInv` is
inductive: each action either leaves all channels where they are, moves one
from mailbox to context, or removes exactly those whose callers it closes.
`StopInv` relates the count of late dispatches to the place of the thread. The
refinement uses `IInv` to show that an open call is either queued or served.

For the manager there are two invariants. `ManagerInv` is about its lists alone
and makes every step of `Manager` a step of `ActorRuntime`: whoever is sent a
`Start` or spawned is an actor. `Books` relates the lists to the threads;
it needs that `runtimes` and the list `init()` goes through name nobody twice,
or an actor would be left in a list after it was spawned. `StartInv` is why
`Start` comes first. Threads begin in the order in which their actors were
registered (`SpawnOrder`), so that of the actors only those registered before may
have sent anything to a mailbox whose `Start` has not been taken from it; and a
mailbox never has two (`OneStart`). A lemma reduces the steps of all threads to
the four things that may happen to one mailbox (`BoxStep`).

For timers, `TimerInv` says of each one how its flag, the place of its thread and
what it has sent are related (`RaceOK`, `OnceOK`). A timer about to send either
still has its flag up or lost it after its test, and has sent nothing late yet;
that is what bounds `late`.

For groups, `PoolInv` adds to `GroupTypeOK` and `OneWorkerPerMember` that nobody
is in a poisoned member, which needs exclusion: a panic must leave no other
worker in that member. It also says that `wait()` leaves no member behind in
`to_end`, or `start()` could replace the map under it, and that what a worker
holds came through a reference that leads somewhere, so `add()` and `get_ref()`
do not change what it holds. Lemmas group the actions by who takes them (user
code, forwarders, Main, workers).

`OrderInv` restates `TakenInOrder` place by place (a forwarder's mailbox, the queue, a
worker's hands: each is in order, and what is nearer to the worker was sent
earlier) and adds that no envelope is newer than the last one its sender made
(`Numbered`), so that the next one may go to the end. Taking, forwarding and sending
each move one envelope across one border. `GroupCallerIsHeld` rests on `CallsInv`: the
`Sender` of an open call is in one place (`OneHolder`), that place leads to the
callee (`LeadsToCallee`), and the `Sender` of a call that is over is nowhere, or a
later call of the same process would find two. As it is, the four places hold
exactly one `Sender` for a process that is in a call, and none for any other.

For remote actors, `RemoteInv` says of each variable what it refers to (every
number in a queue, on a wire or in a thread is that of a frame), that one
receiver thread of a process at most has the socket, that it holds a frame in
the middle of `handle_remote_message_async` and only there, and that a thread
which has delivered after the flag went down is back at its test.

`ArriveInSendOrder` and `EachFrameOnce` say nothing about frames that are still on
their way, so they are not inductive. `OrderInv` lays the way of a frame out in
five stages: the queue, the sender thread's hands, a wire, a receiver thread's
hands, done with. Of two frames of one link the earlier one is in the later
stage (`Ordered`), the stages that are sequences increase (`SortedOK`), and a frame
is at the process, and on the wire, where its link goes (`PlacedOK`), which is why
two frames of one link are in the same queue or wire. `AnswersOK` adds that a frame
with a sender goes on behalf of that sender, and `OnceOK` that none is done with
twice. `LettersOK` says the same of what has been serialized and not yet queued. `Events` reduces the steps of `Remote` to seven kinds: frames fade, one is
built by a handler or by a receiver, or one moves on by a stage; `Progress` shows
once for all stages that such a move keeps `Ordered`. Each kind is then one action of
`LossyChannels`: what `Deliver` and `Refuse` give up there, `Ordered` shows to be
nobody's here.

`TakenDownForACause` needs that what `main` registered is complete, so that an entry
is amiss only because of a type registered later (`RegistryOK`), and that a cause
which has struck stays: names are never taken back, frames never changed and
actors do not come back to life before the process is started anew, when its lock is whole
again too. `TakenInv` adds both to `OrderInv`.

The example programs send what their handlers say, without the bounds of `Remote`,
so their steps are not all steps of `Remote`. But each is one of the seven `Event`s
(`ExamplesOrder`), hence `OrderInv` and the refinement hold of them too.
`ExamplesInv` describes the frames of the programs (`ShapesOK`), how far each `main`
is (`MainsOK`) and what is in mailboxes (`MailboxesOK`).

* `PingPongInv`: frames are `Ping` and `Pong` in turn, and one at most, the latest, is
  alive, that is on its way or in a mailbox. Only a handler that takes the one alive sends
  the next.
* `PongIsLast`: in the reject example the `Pong` is the last frame of all, so that once
  the client has handled it nothing is left that `stop()` could lose.
* `RejectInv`: as long as no connect fails, nothing is lost but by the end of its
  receiver (`NoneLost`). Nothing overtakes either, so the message of an unknown type has
  been rejected when the `Ping` arrives, and the `Reject` has arrived when the `Pong`
  does. `RejectIsCounted` adds that a `Reject` which has arrived is in the mailbox or
  counted.

Every safety invariant and action property that a run checks, and both refinements,
are theorems. Only model-checked are the liveness properties, which need fairness
and `ENABLED` and are out of the prover's reach: `CallReturnsUnlessHopeless`,
`StoppedThreadEnds`, `WaitHeldUpByIdleOnly`, `TerminateEndsRun`,
`OneShotFiresUnlessCancelled`, `DropReturns`, `CallReturnsInSpiteOfTimers`,
`GroupCallReturnsUnlessHopeless`, `WaitHeldUpByCallersOnly`, `NothingIsStuck`,
`StopReturns` and `ClientGetsThrough`.

## Not modelled

C++ references (the other side is not in this repository), CPU affinity and
priority (no effect on the protocol), the macros that choose a handler by type,
and five of the examples: `ping_pong.rs` and the two programs for Python are
`remote_ping_pong` once more, `timer_example.rs` and `group_workers.rs` call in one
order what `Timer` and `Group` allow in any.
