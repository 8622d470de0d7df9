------------------------------ MODULE Manager ------------------------------
(***************************************************************************)
(* Managed actors: src/src/manager.rs on top of ActorRuntime.              *)
(*                                                                         *)
(* Main is the thread that owns the Manager.  Its program is any sequence  *)
(* of calls to manage, init, run, shutdown and wait, between which it may  *)
(* send and fast_send; end() is shutdown followed by wait.  Each iteration *)
(* of a loop of these methods is a step, during which the actors already   *)
(* running go on.                                                          *)
(*                                                                         *)
(* manage() creates the ActorRuntime and keeps it, so nobody holds its     *)
(* running flag and ActorRuntime!Stop does not occur here.                 *)
(***************************************************************************)
EXTENDS ActorRuntime

CONSTANTS
  Main,     \* the thread that owns the Manager
  Names,    \* names under which actors are registered
  MaxCalls  \* bound: how many times Main calls init, run, shutdown or wait

ASSUME ManagerAssumption == /\ Main \in Clients
                            /\ {"User", "Start", "Shutdown"} \subseteq ClientKinds
                            /\ MaxCalls \in Nat

VARIABLES
  at,          \* the method of Manager that Main executes, or "user"
  calls,       \* how many of those methods Main has called
  registry,    \* registry and expanded_registry, which are always equal
  actor_refs,  \* whom shutdown() will tell
  runtimes,    \* registered runtimes that init() has not taken
  threads,     \* whom wait() will join
  todo,        \* what is left of the list the current loop goes through
  announced,   \* init() has sent Start to the actor it is about to spawn
  terminate_flag,
  starts,      \* history: how many Start messages Main has sent to each actor
  told,        \* history: the actors that shutdown() has sent Shutdown to
  asked        \* history: terminate() has been called

managerVars == <<at, calls, registry, actor_refs, runtimes, threads, todo,
                 announced, terminate_flag, starts, told, asked>>
vars == <<runtimeVars, managerVars>>

Places == {"user", "init", "run", "shutdown", "wait"}

Elements(s) == {s[i] : i \in DOMAIN s}

ManagerInit ==
  /\ Init
  /\ at = "user" /\ calls = 0
  /\ registry = [n \in Names |-> None]
  /\ actor_refs = <<>> /\ runtimes = <<>> /\ threads = <<>> /\ todo = <<>>
  /\ announced = FALSE
  /\ terminate_flag = FALSE
  /\ starts = [a \in Actors |-> 0]
  /\ told = {} /\ asked = FALSE
-----------------------------------------------------------------------------
\* manage(name, actor): a second actor of the same name takes the entry, the
\* first one stays in the lists.
Manage(a, n) ==
  /\ at = "user" /\ New(a)
  /\ registry'   = [registry EXCEPT ![n] = a]
  /\ actor_refs' = Append(actor_refs, a)
  /\ runtimes'   = Append(runtimes, a)
  /\ UNCHANGED <<at, calls, threads, todo, announced, terminate_flag,
                 starts, told, asked>>

\* Main enters a method that goes through list.
Enter(method, list) ==
  /\ at = "user" /\ Runs(Main) /\ calls < MaxCalls
  /\ at'    = method
  /\ calls' = calls + 1
  /\ todo'  = list
  /\ UNCHANGED <<runtimeVars, registry, actor_refs, announced, terminate_flag, starts,
                 told, asked>>

\* Mutant: the runtimes are cloned, not taken.
MutKeepsRuntimes == runtimes

\* mem::take leaves an empty list behind.
RuntimesAfterTake == <<>>

InitEnter ==
  /\ Enter("init", runtimes)
  /\ runtimes' = RuntimesAfterTake
  /\ UNCHANGED threads

\* Mutant: the thread is spawned whether or not Start was sent.
MutSpawnsSilently == TRUE

\* What must be done in an iteration of init() before the thread is spawned.
ReadyToSpawn == announced

\* init(), first half of an iteration: Start, without a sender.
SendStart ==
  /\ at = "init" /\ todo # <<>> /\ ~announced
  /\ Send(Main, Head(todo), "Start", None)
  /\ announced' = TRUE
  /\ starts'    = [starts EXCEPT ![Head(todo)] = @ + 1]
  /\ UNCHANGED <<at, calls, registry, actor_refs, runtimes, threads, todo, terminate_flag,
                 told, asked>>

\* init(), second half: the runtime moves into its thread.
SpawnThread ==
  /\ at = "init" /\ todo # <<>> /\ ReadyToSpawn
  /\ Spawn(Head(todo))
  /\ threads'   = Append(threads, Head(todo))
  /\ todo'      = Tail(todo)
  /\ announced' = FALSE
  /\ UNCHANGED <<at, calls, registry, actor_refs, runtimes, terminate_flag, starts,
                 told, asked>>

\* shutdown(): Shutdown to every actor ever registered.
ShutdownEnter == Enter("shutdown", actor_refs) /\ UNCHANGED <<runtimes, threads>>

SendShutdown ==
  /\ at = "shutdown" /\ todo # <<>>
  /\ Send(Main, Head(todo), "Shutdown", None)
  /\ todo' = Tail(todo)
  /\ told' = told \cup {Head(todo)}
  /\ UNCHANGED <<at, calls, registry, actor_refs, runtimes, threads, announced,
                 terminate_flag, starts, asked>>

\* Mutant: wait() goes through the registered actors, not the spawned threads.
MutJoinsEveryone == actor_refs

\* The threads that wait() takes and joins, in the order they were spawned.
ToJoin == threads

WaitEnter ==
  /\ Enter("wait", ToJoin)
  /\ threads' = <<>>
  /\ UNCHANGED runtimes

\* Mutant: wait() does not wait.
MutDetaches(a) == TRUE

\* JoinHandle::join returns when the thread has returned or panicked.
Joinable(a) == pc[a] \in Dead

Join ==
  /\ at = "wait" /\ todo # <<>> /\ Joinable(Head(todo))
  /\ todo' = Tail(todo)
  /\ UNCHANGED <<runtimeVars, at, calls, registry, actor_refs, runtimes, threads,
                 announced, terminate_flag, starts, told, asked>>

\* Mutant: run() clears the flag before it starts to poll.
MutRunForgets ==
  /\ at = "user" /\ Runs(Main) /\ calls < MaxCalls
  /\ at'    = "run"
  /\ calls' = calls + 1
  /\ terminate_flag' = FALSE
  /\ UNCHANGED <<runtimeVars, registry, actor_refs, runtimes, threads, todo, announced,
                 starts, told, asked>>

\* run(): polls the flag, as it finds it.
RunEnter == Enter("run", <<>>) /\ UNCHANGED <<runtimes, threads>>

\* The loop of the method is over and control is back in Main's program.
Return ==
  /\ at # "user" /\ todo = <<>>
  /\ at = "run" => terminate_flag
  /\ at' = "user"
  /\ UNCHANGED <<runtimeVars, calls, registry, actor_refs, runtimes, threads, todo,
                 announced, terminate_flag, starts, told, asked>>

\* ManagerHandle::terminate, from whoever has a handle and runs.
Terminate(p) ==
  /\ Runs(p) /\ (p = Main => at = "user")
  /\ terminate_flag' = TRUE
  /\ asked' = TRUE
  /\ UNCHANGED <<runtimeVars, at, calls, registry, actor_refs, runtimes, threads, todo,
                 announced, starts, told>>

\* Main's own program uses actors too.
MainSends ==
  /\ at = "user"
  /\ Sends(Main, {"User"}) \/ FastSendReturns(Main)
  /\ UNCHANGED managerVars
-----------------------------------------------------------------------------
InMethod == SendStart \/ SpawnThread \/ SendShutdown \/ Join \/ Return

ManagerNext ==
  \/ \E a \in Actors, n \in Names : Manage(a, n)
  \/ InitEnter \/ ShutdownEnter \/ WaitEnter \/ RunEnter \/ InMethod
  \/ MainSends
  \/ \E p \in Procs : Terminate(p)
  \/ \E a \in Actors : ActorThread(a) /\ UNCHANGED managerVars
  \/ \E c \in Clients \ {Main} : ClientThread(c) /\ UNCHANGED managerVars

ManagerSpec == ManagerInit /\ [][ManagerNext]_vars

\* The threads of the actors run, as in ActorRuntime, and Main goes on with
\* the method it has called.  Nothing makes Main call one.
ManagerFairness ==
  /\ \A a \in Actors : WF_vars(ActorThread(a) /\ UNCHANGED managerVars)
  /\ \A p \in Procs : WF_vars(FastSendReturns(p) /\ UNCHANGED managerVars)
  /\ WF_vars(InMethod)

FairManagerSpec == ManagerSpec /\ ManagerFairness
-----------------------------------------------------------------------------
\* Types of the manager's own variables; Main's program runs between loops, and
\* init() owns the runtimes it goes through.
ManagerTypeOK ==
  /\ at \in Places
  /\ calls \in 0 .. MaxCalls
  /\ registry \in [Names -> Actors \cup {None}]
  /\ {actor_refs, runtimes, threads, todo} \subseteq Seq(Actors)
  /\ announced \in BOOLEAN /\ terminate_flag \in BOOLEAN
  /\ starts \in [Actors -> Nat]
  /\ told \subseteq Actors /\ asked \in BOOLEAN
  /\ at = "user" => todo = <<>> /\ ~announced
  /\ at = "init" => Elements(todo) \cap Elements(runtimes) = {}

Registered(a) == a \in Elements(actor_refs)
Spawned(a)    == pc[a] \notin {"absent", "new"}

\* Every actor is somewhere the manager can find it: to be spawned once, to be
\* told to shut down, and to be joined.  wait() returns only when every thread
\* it took is over (manager.rs:243, 276-281).
NoActorIsLost ==
  \A a \in Actors :
    /\ pc[a] # "absent" <=> Registered(a)
    /\ \A n \in Names : registry[n] = a => Registered(a)
    /\ pc[a] = "new" <=> a \in Elements(runtimes) \/ (at = "init" /\ a \in Elements(todo))
    /\ Spawned(a) /\ pc[a] \notin Dead =>
         a \in Elements(threads) \/ (at = "wait" /\ a \in Elements(todo))

\* init() sends Start exactly once to each actor it spawns, however often it
\* is called (manager.rs:242-256).
StartedOnce ==
  \A a \in Actors :
    starts[a] = IF Spawned(a) \/ (at = "init" /\ announced /\ a = Head(todo)) THEN 1 ELSE 0

Before(a, b) ==
  \E i, j \in DOMAIN actor_refs : i < j /\ actor_refs[i] = a /\ actor_refs[j] = b

\* Messages that can come before Start in b's mailbox: those of client threads
\* and of actors registered before b, whose threads are already running.
MayPrecedeStart(e, b) == e.from \in Clients \/ Before(e.from, b)

IsStart(e) == e.msg = "Start" /\ e.from = Main

\* An actor handles Start before any message of an actor registered after it,
\* and before its own: init() sends Start before it spawns the thread, and
\* spawns in the order of registration (manager.rs:246-254).
StartComesFirst ==
  \A b \in Actors :
    LET box == mailbox[b]
        handled == starts[b] > 0 /\ ~\E i \in DOMAIN box : IsStart(box[i])
        StartFollows(k) == ~handled /\ ~\E i \in 1 .. k : IsStart(box[i])
    IN /\ pc[b] = "handle" /\ StartFollows(0) => MayPrecedeStart(current[b], b)
       /\ \A k \in DOMAIN box : StartFollows(k) => MayPrecedeStart(box[k], b)

\* wait() is held up only by a thread that lives and has nothing to do, or
\* that is blocked in a call of its own.
WaitHeldUpByIdleOnly ==
  at = "wait" ~>
    \/ at = "user"
    \/ \E a \in Actors :
         /\ todo # <<>> /\ a = Head(todo)
         /\ \/ pc[a] = "recv" /\ mailbox[a] = <<>>
            \/ call[a].st = "open"

\* Once somebody has called terminate(), before run() or while it polls, run()
\* returns, this time and every time (manager.rs:117, 261-264).
TerminateEndsRun == at = "run" /\ asked ~> at # "run"
-----------------------------------------------------------------------------
\* REMOTE_ACTORS_GUIDE.md:59-60: "mgr.end() sends a Shutdown message to all
\* actors and waits for their threads to finish (joins them)."  Here: when every
\* actor wait() has to join was sent Shutdown, wait() returns unless some actor
\* is blocked in a call.  Nothing in the runtime ends a thread on Shutdown.
WaitReturns ==
  at = "wait" /\ Elements(todo) \subseteq told ~>
    at = "user" \/ \E p \in Procs : call[p].st = "open"
=============================================================================
